SPECIFICATION Spec
CONSTANTS
    w1 = w1
    w2 = w2
    w3 = w3
    k1 = k1
    k2 = k2
    v1 = v1
    v2 = v2
    None = None
    Writer <- ThreeWriters
    Key <- OneKey
    Value <- TwoValues
    QueueCap = 1
    MayFail = TRUE
    MayClose = TRUE
    CrashTears <- AllTears
    WriteTears <- NoTears
    MaxSeq = 2
    MaxEpoch = 1
SYMMETRY Interchangeable
INVARIANTS
    TypeOK
    QuietIsApplied
    AckedIsReplayed
PROPERTIES
    ImplementsDurableMap
CHECK_DEADLOCK FALSE
