SPECIFICATION Spec
CONSTANTS
    Refused = Refused
    Garbage = Garbage
    Known <- MCKnown
    GoCiphers <- MCGoCiphers
    GoCurves <- MCGoCurves
    GoVersions <- MCGoVersions
    Procs = {a, b}
    Slots = {s1}
    Profiles <- MCProfiles
    Policies = {legacy}
    Envs <- MCEnvs
    Groups <- OpenShiftGroups
    Reports <- MCReports
    externalWebhookServer = TRUE
    MaxChurn = 1
    None = None
INVARIANTS
    PodsHaveNewSettings
CHECK_DEADLOCK FALSE
