SPECIFICATION Spec
CONSTANTS
    Job = {j}
    BarrierJob = {}
    Prompt = {p}
    Stop = {s}
    SessionEnd = {e}
    Cli = {}
    Mcp = {}
    Target <- OneJob
    Faults = {"supervisor_crash", "worker_crash", "update_fails", "launch_fails", "cancel_fails", "schedule_fails"}
    NoOne = NoOne
CHECK_DEADLOCK FALSE
INVARIANTS
    TypeOK
    NoRetry
    NoActionMeansNoCall
    ResolvedInert
    CancelledInert
    ScheduledIsSealed
PROPERTIES
    MarkerOutlivesAction
    KeepsContract
