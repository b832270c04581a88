CONSTANTS
    Main = main
    Maint = maint
    None = none
    Conns = {c1, c2}
SPECIFICATION Spec
INVARIANTS TypeOK NoOrphanConnection
PROPERTIES LateFailureHarmless
