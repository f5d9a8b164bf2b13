SPECIFICATION FairSpec
CONSTANTS
    Run = {r1, r2, r3}
    Limits = {1, 2}
    InflightFactor = 2
    FixedInflight = 0
    MaxYields = 1
INVARIANTS
    TypeOK
    CountsAreExact
    WorkIsUnderPermit
PROPERTIES
    ImplementsPool
    EveryRunEnds
CHECK_DEADLOCK FALSE
