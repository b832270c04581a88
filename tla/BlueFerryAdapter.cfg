CONSTANTS
    Main = main
    Maint = maint
    None = none
    Helpers = {h1, h2}
    MaxEvents = 2
SPECIFICATION FairSpec
INVARIANTS TypeOK NoOrphanHelper LockedWritesSafe OwnerGoesOn
PROPERTIES LateFailureHarmless StopReturns
CHECK_DEADLOCK FALSE
