SPECIFICATION Spec
CONSTANTS
    Env <- K8sEnv
    Cfgs <- AllCfgs
    info = info
    debug = debug
    Names = {"metallb"}
    Specs <- K8sSpecs
    Providers = {"FRR"}
    MaxChurn = 3
    None = None
PROPERTIES
    ImplementsDesiredState
    StaysSettled
    FRRK8sBeforeSpeaker
INVARIANTS
    TypeOK
    AvailableMeansDeployed
    NoLostWakeup
CHECK_DEADLOCK FALSE
