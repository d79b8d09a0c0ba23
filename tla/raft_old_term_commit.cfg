SPECIFICATION Spec
CONSTANTS
    n1 = n1
    n2 = n2
    n3 = n3
    x = x
    y = y
    None = None
    Node <- ThreeNodes
    Command <- TwoCommands
    Electors <- TwoNodes
    Killable <- NoNode
    Restartable <- NoNode
    MaxTerm = 4
    MaxLog = 1
    MaxInFlight = 1
SYMMETRY Symmetric
CONSTRAINT OneAtATime
INVARIANTS
    StateMachineSafety
CHECK_DEADLOCK FALSE
