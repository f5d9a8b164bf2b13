SPECIFICATION Spec
CONSTANTS
    Job = {j1}
    Run = {r1, r2}
    Process = {p1}
    Request = {q1}
    None = None
    Operations = {"submit"}
    MaxStops = 0
PROPERTY OnlyDisplacedRunsAreRefused
CHECK_DEADLOCK FALSE
