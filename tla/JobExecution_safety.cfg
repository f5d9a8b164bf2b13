SPECIFICATION Spec
CONSTANTS
    Job = {j1}
    Run = {r1, r2, r3}
    Process = {p1}
    Request = {q1}
    None = None
    Operations = {"submit", "cancel", "retry", "hide", "prune", "batch_cancel", "shutdown", "crash"}
    MaxStops = 2
SYMMETRY Symmetry
INVARIANTS
    TypeOK
    ActiveJobsAreVisible
PROPERTIES
    LiveLeaseIsRespected
    OnlyRetryReopens
    ImplementsLifecycle
CHECK_DEADLOCK FALSE
