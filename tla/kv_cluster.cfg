SPECIFICATION KVSpec
CONSTANTS
    n1 = n1
    n2 = n2
    n3 = n3
    c1 = c1
    c2 = c2
    k1 = k1
    k2 = k2
    v = v
    None = None
    Node <- ThreeNodes
    Command <- PutAndPut
    Key <- TwoKeys
    Value <- OneValue
    Electors <- TwoNodes
    Killable <- LastNode
    Restartable <- NoNode
    Failing <- LastNode
    MaxTerm = 2
    MaxLog = 2
    MaxInFlight = 1
    MaxCrashes = 1
SYMMETRY Interchangeable
CONSTRAINT Slow
INVARIANTS
    NoHoles
    StoresAgree
    AppliedWhereAccepted
    LeaderNamed
PROPERTY
    ImplementsAgreedLog
CHECK_DEADLOCK FALSE
