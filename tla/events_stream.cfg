SPECIFICATION LiveSpec
CONSTANTS
    n1 = n1
    n2 = n2
    c1 = c1
    c2 = c2
    Node <- TwoNodes
    Client <- TwoClients
    MaxRecent = 2
    ChCap = 1
    MayLeave = TRUE
    MaxEvents = 3
INVARIANTS
    TypeOK
    NothingMissed
PROPERTIES
    PublishReturns
CHECK_DEADLOCK FALSE
