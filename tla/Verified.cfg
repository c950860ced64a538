\* One verified job against every order of finish, hooks, host and supervisor.
CONSTANTS
    MaxTurn = 2
    Config <- ThreeConfigs
    Compatible <- TwoConfigs
    Disturbances <- ManyWays
SPECIFICATION FairSpec
INVARIANTS VerifiedTypeOK EvidenceStands RestingWhenClaimed
PROPERTIES VerifiedImplementsRule HostStopsCountdown RestedJobDecides
CHECK_DEADLOCK FALSE
