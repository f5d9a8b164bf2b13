SPECIFICATION Spec
CONSTANTS
    Job = {j1}
    Run = {r1}
    Process = {p1}
    Request = {q1}
    None = None
    Operations = {"submit", "cancel", "closing_import"}
    MaxStops = 0
PROPERTY TerminalWritesAreOwned
CHECK_DEADLOCK FALSE
