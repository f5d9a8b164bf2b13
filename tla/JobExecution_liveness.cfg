SPECIFICATION FairSpec
CONSTANTS
    Job = {j1}
    Run = {r1, r2}
    Process = {p1}
    Request = {q1}
    None = None
    Operations = {"submit", "cancel", "retry", "supersede", "closing_import", "crash"}
    MaxStops = 1
PROPERTIES
    DisplacedRunIsPowerless
    OrphansAreRecovered
    PendingIsServed
CHECK_DEADLOCK FALSE
