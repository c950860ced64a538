SPECIFICATION FairSpec
CONSTANTS
    Job = {j}
    BarrierJob = {}
    Prompt = {p}
    Stop = {s1, s2}
    SessionEnd = {}
    Cli = {}
    Mcp = {}
    Target <- OneJob
    Faults = {"supervisor_crash", "update_fails", "schedule_fails"}
    NoOne = NoOne
CHECK_DEADLOCK FALSE
PROPERTIES
    MarkerSettles
