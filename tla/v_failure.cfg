SPECIFICATION FairSpec
CONSTANTS
    Env <- K8sEnv
    Cfgs <- AllCfgs
    info = info
    debug = debug
    Names = {"metallb"}
    Specs <- K8sSpecs
    Providers = {"FRR"}
    MaxChurn = 1
    None = None
PROPERTIES
    FailureReported
CHECK_DEADLOCK FALSE
