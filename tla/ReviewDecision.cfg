SPECIFICATION FairSpec
CONSTANTS
    Item = {1, 2}
    Worker = {w1}
    Token = {1, 2, 3}
    Path = {p1, p2}
    Version = {good, bad}
    Good = {good}
    None = None
    MaxAttempts = 2
    MaxEvents = 2
INVARIANTS
    TypeOK
    ApprovedBytesAreGood
    DispatchedBytesAreApproved
    OpenAttemptsAreHeld
    OneReviewAtATime
PROPERTIES
    DecisionsStand
    ReviewsSettle
CHECK_DEADLOCK FALSE
