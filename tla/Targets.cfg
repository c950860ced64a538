\* One barrier over two sessions: every interleaving of the hooks of both.
CONSTANTS
    b = b
    o = o
    s1 = s1
    s2 = s2
    w = w
    v = v
    NoJob = NoJob
    Barrier <- OneBarrier
    Single <- None
    Session <- TwoSessions
    Targets <- BothTargets
    Home <- NoHome
    DryRun = {}
    MaxHooks = 2
    Workspace <- FirstMoves
    MaxTurn <- TwoAndOne
    EventCap = 3
    Shaky = {s2}
    Faults = {"hook_crash", "continue", "update_fails", "mark_fails", "replay", "capacity"}
SPECIFICATION FairSpec
INVARIANTS BarrierTypeOK ValidJobs CountedMeansIdle
PROPERTIES ImplementsRule BarrierFires
CHECK_DEADLOCK FALSE
