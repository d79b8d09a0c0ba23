SPECIFICATION Spec
CONSTANTS
    MaxTerm = 2
    MaxLen = 2
    MaxCalls = 1
INVARIANTS
    SentAsHeld
CHECK_DEADLOCK FALSE
