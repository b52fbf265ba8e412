SPECIFICATION FairSpec
CONSTANTS
    Env <- K8sEnv
    Cfgs <- AllCfgs
    info = info
    debug = debug
    Names = {"metallb", "othername"}
    Specs <- K8sSpecs
    Providers = {"FRR"}
    MaxChurn = 2
    None = None
INVARIANTS
    MisnamedInert
PROPERTIES
    Converges
    OperandsCollected
CHECK_DEADLOCK FALSE
