SPECIFICATION Spec
CONSTANTS
    MaxTerm = 3
    MaxLen = 3
    MaxCalls = 2
INVARIANTS
    InOrder
    LoopIsMerge
    SentInTerm
CHECK_DEADLOCK FALSE
