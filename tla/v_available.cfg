SPECIFICATION Spec
CONSTANTS
    Env <- OpenShiftEnv
    Cfgs <- AllCfgs
    info = info
    debug = debug
    Names = {"metallb"}
    Specs <- OpenShiftSpecs
    Providers = {"FRR"}
    MaxChurn = 3
    None = None
INVARIANTS
    AvailableMeansDeployedAlways
CHECK_DEADLOCK FALSE
