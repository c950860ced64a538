\* An after_stop job and a barrier want the same session.
CONSTANTS
    b = b
    o = o
    s1 = s1
    s2 = s2
    w = w
    v = v
    NoJob = NoJob
    Barrier <- OneBarrier
    Single <- OneSingle
    Session <- TwoSessions
    Targets <- BothTargets
    Home <- HomeFirst
    DryRun = {}
    MaxHooks = 2
    Workspace <- OneDirectory
    MaxTurn <- OneEach
    EventCap = 10
    Shaky = {s1}
    Faults = {"expires", "rearm", "bad_bind", "launch_fails", "arm_crash", "log_fails", "release_fails", "overtake", "hook_crash"}
SPECIFICATION Spec
INVARIANTS ReadyOwnsIndexes
PROPERTIES NoRevival
CHECK_DEADLOCK FALSE
