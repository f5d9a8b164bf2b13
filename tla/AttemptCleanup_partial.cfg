SPECIFICATION FairSpec
CONSTANTS
    Attempt = {a1}
    Cleaner = {c1}
    None = None
    Faults <- Crashes
    MaxFaults = 1
PROPERTIES
    PartialClaimsEnd
CHECK_DEADLOCK FALSE
