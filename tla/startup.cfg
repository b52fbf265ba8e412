SPECIFICATION FairSpec
CONSTANTS
    Refused = Refused
    Garbage = Garbage
    Known <- MCKnown
    GoCiphers <- MCGoCiphers
    GoCurves <- MCGoCurves
    GoVersions <- MCGoVersions
    Procs = {a}
    Slots = {s1, s2}
    Profiles <- MCProfiles
    Policies = {legacy, strict}
    Envs <- MCEnvs
    Groups <- OpenShiftGroups
    Reports <- MCReports
    externalWebhookServer = TRUE
    MaxChurn = 3
    None = None
INVARIANTS
    OnlyUsableSettings
    PodsHaveNewSettings
    ImagesKept
    EveryBuildCounts
PROPERTIES
    SettingsRollOut
CHECK_DEADLOCK FALSE
