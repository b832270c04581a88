CONSTANTS
    Main = main
    Maint = maint
    None = none
    Helpers = {h1, h2}
    MaxEvents = 1
SPECIFICATION FairSpec
PROPERTIES StartupEnds
CHECK_DEADLOCK FALSE
