SPECIFICATION Spec
CONSTANTS
    n1 = n1
    n2 = n2
    n3 = n3
    x = x
    y = y
    None = None
    Node <- ThreeNodes
    Command <- TwoCommands
    Electors <- TwoNodes
    Killable <- NoNode
    Restartable <- NoNode
    MaxTerm = 3
    MaxLog = 2
    MaxInFlight = 1
SYMMETRY Symmetric
CONSTRAINT OneAtATime
INVARIANTS
    IndexIsPosition
    LogMatching
    LeaderCompleteness
    StateMachineSafety
CHECK_DEADLOCK FALSE
