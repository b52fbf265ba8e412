SPECIFICATION FairSpec
CONSTANTS
    Env <- NoNamespaceEnv
    Cfgs <- AllCfgs
    info = info
    debug = debug
    Names = {"metallb"}
    Specs <- ExternalSpecs
    Providers = {"FRR", "other"}
    MaxChurn = 2
    None = None
INVARIANTS
    NoLostWakeup
PROPERTIES
    Converges
    ProvidersPreserved
CHECK_DEADLOCK FALSE
