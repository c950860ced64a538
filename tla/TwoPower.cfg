SPECIFICATION Spec
CONSTANTS
    Job = {j1, j2}
    BarrierJob = {}
    Prompt = {}
    Stop = {s1, s2}
    SessionEnd = {}
    Cli = {c}
    Mcp = {m}
    Target <- TwoJobs
    Faults = {"supervisor_crash", "worker_crash", "launch_fails", "schedule_fails", "cancel_fails", "late_schedule", "clock_stall"}
    NoOne = NoOne
    j1 = j1
    j2 = j2
    s2 = s2
CHECK_DEADLOCK FALSE
INVARIANTS
    OneUnresolved
    NoRetry
    NoActionMeansNoCall
