SPECIFICATION Spec
CONSTANTS
    Run = {r1, r2}
    DryRun = {}
    WithVerifier = {r2}
    Plugin = {p}
    Cancel = {c}
    Reconcile = {k}
    About <- AboutOne
    Faults = {"run_crash", "cli_crash", "save_fails", "read_fails", "schedule_fails", "cancel_fails"}
    NoOne = NoOne
CHECK_DEADLOCK FALSE
INVARIANTS
    RunTypeOK
    ClosedInert
    WarnedNeverCalls
