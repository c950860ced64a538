SPECIFICATION Spec
CONSTANTS
    Run = {r}
    DryRun = {}
    WithVerifier = {}
    Plugin = {}
    Cancel = {c}
    Reconcile = {k}
    About <- AboutOne
    Faults = {}
    NoOne = NoOne
CHECK_DEADLOCK FALSE
PROPERTIES
    CancelledIsFinal
