SPECIFICATION FairSpec
CONSTANTS
    Job = {j}
    BarrierJob = {j}
    Prompt = {p}
    Stop = {s1, s2}
    SessionEnd = {}
    Cli = {}
    Mcp = {}
    Target <- OneJob
    Faults = {"hook_crash", "launch_fails", "gate_refuses"}
    NoOne = NoOne
CHECK_DEADLOCK FALSE
INVARIANTS
    CancelledInert
    MarkedBeforeIntentNeverCalls
PROPERTIES
    MarkerOutlivesAction
    RequestSettles
