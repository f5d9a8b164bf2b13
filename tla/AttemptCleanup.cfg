SPECIFICATION FairSpec
CONSTANTS
    Attempt = {a1}
    Cleaner = {c1, c2}
    None = None
    Faults <- EveryFault
    MaxFaults = 2
INVARIANTS
    TypeOK
    ErasedInItsTurn
    FileCallsFindTheirTurn
    SettledFilesAreGone
PROPERTIES
    LostClaimsSettleNothing
    StrangersSurvive
    ImplementsObligation
    ImportedFilesAreSettled
CHECK_DEADLOCK FALSE
