SPECIFICATION Spec
CONSTANTS
    n1 = n1
    n2 = n2
    n3 = n3
    x = x
    y = y
    None = None
    Node <- ThreeNodes
    Command <- OneCommand
    Electors <- TwoNodes
    Killable <- OneNode
    Restartable <- OneNode
    MaxTerm = 1
    MaxLog = 0
    MaxInFlight = 2
INVARIANTS
    ElectionSafety
CHECK_DEADLOCK FALSE
