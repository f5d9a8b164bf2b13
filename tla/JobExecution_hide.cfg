SPECIFICATION Spec
CONSTANTS
    Job = {j1}
    Run = {r1}
    Process = {p1}
    Request = {q1, q2}
    None = None
    Operations = {"submit", "cancel", "retry", "hide"}
    MaxStops = 0
INVARIANT ActiveJobsAreVisible
CHECK_DEADLOCK FALSE
