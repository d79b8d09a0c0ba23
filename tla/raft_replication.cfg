SPECIFICATION Spec
CONSTANTS
    n1 = n1
    n2 = n2
    n3 = n3
    x = x
    y = y
    None = None
    Node <- ThreeNodes
    Command <- OneCommand
    Electors <- OneNode
    Killable <- TwoNodes
    Restartable <- TwoNodes
    MaxTerm = 1
    MaxLog = 2
    MaxInFlight = 2
INVARIANTS
    MatchIsHeld
    AppliedExactly
PROPERTIES
    CommittedIsKept
CHECK_DEADLOCK FALSE
