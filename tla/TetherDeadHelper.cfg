CONSTANTS
    Main = main
    Maint = maint
    None = none
    Conns = {c1}
SPECIFICATION FairSpec
PROPERTIES DeadHelperRestarted
