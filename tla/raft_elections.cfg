SPECIFICATION Spec
CONSTANTS
    n1 = n1
    n2 = n2
    n3 = n3
    x = x
    y = y
    None = None
    Node <- ThreeNodes
    Command <- OneCommand
    Electors <- TwoNodes
    Killable <- NoNode
    Restartable <- NoNode
    MaxTerm = 2
    MaxLog = 0
    MaxInFlight = 2
SYMMETRY Symmetric
INVARIANTS
    TypeOK
    VotesAreKept
    ElectionSafety
    ElectionAhead
PROPERTIES
    VoteKept
CHECK_DEADLOCK FALSE
