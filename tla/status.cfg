SPECIFICATION FairSpec
CONSTANTS
    Nodes = {n1, n2}
    MaxGen = 2
    MaxChurn = 1
INVARIANTS
    TypeOK
    VerdictSound
    RestsOnAvailable
PROPERTIES
    StaysReported
    RolledOutAndReported
CHECK_DEADLOCK FALSE
