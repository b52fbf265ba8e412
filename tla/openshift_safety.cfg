SPECIFICATION Spec
CONSTANTS
    Env <- OpenShiftEnv
    Cfgs <- AllCfgs
    info = info
    debug = debug
    Names = {"metallb"}
    Specs <- OpenShiftSpecs
    Providers = {"FRR", "other"}
    MaxChurn = 2
    None = None
INVARIANTS
    AvailableMeansDeployed
    NoLostWakeup
PROPERTIES
    ImplementsDesiredState
    StaysSettled
CHECK_DEADLOCK FALSE
