SPECIFICATION FairSpec
CONSTANTS
    Run = {r1, r2, d}
    DryRun = {d}
    WithVerifier = {}
    Plugin = {}
    Cancel = {c}
    Reconcile = {}
    About <- AboutOne
    Faults = {}
    NoOne = NoOne
CHECK_DEADLOCK FALSE
INVARIANTS
    SerializedRuns
    NoHiddenCountdown
PROPERTIES
    TransitionsLegal
    CancelSettles
