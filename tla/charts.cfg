SPECIFICATION Spec
CONSTANTS
    Envs <- MCEnvs
    Specs <- MCSpecs
    MaxChurn = 2
    None = None
INVARIANTS
    DaemonFollowsSpeaker
    UserValuesReachPods
    CertificatesProvided
PROPERTIES
    RolloutHasCause
CHECK_DEADLOCK FALSE
