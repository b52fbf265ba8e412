SPECIFICATION FairSpec
CONSTANTS
    Env <- K8sEnv
    Cfgs <- AllCfgs
    info = info
    debug = debug
    Names = {"metallb"}
    Specs <- K8sSpecs
    Providers = {"FRR"}
    MaxChurn = 2
    None = None
PROPERTIES
    OwnedCollected
CHECK_DEADLOCK FALSE
