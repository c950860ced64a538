SPECIFICATION Spec
CONSTANTS
    Job = {j}
    BarrierJob = {}
    Prompt = {}
    Stop = {s}
    SessionEnd = {}
    Cli = {}
    Mcp = {m}
    Target <- OneJob
    Faults = {}
    NoOne = NoOne
CHECK_DEADLOCK FALSE
INVARIANTS
    CancelledInert
