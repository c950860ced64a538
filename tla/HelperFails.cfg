SPECIFICATION Spec
CONSTANTS
    Job = {j1, j2, j3}
    NoJob = NoJob
    NoOne = NoOne
    Daemon = Daemon
    HelperFaults = {"systemd_fails", "save_fails", "helper_crash", "reboot", "clock_moves"}
INVARIANTS
    HelperTypeOK
    PendingHasState
PROPERTIES
    ImplementsBackend
CHECK_DEADLOCK FALSE
