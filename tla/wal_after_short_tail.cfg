SPECIFICATION Spec
CONSTANTS
    w1 = w1
    w2 = w2
    w3 = w3
    r = r
    None = None
    Writer <- TwoWriters
    Record <- OneRecord
    QueueCap = 1
    MayFail = FALSE
    MayClose = FALSE
    CrashTears <- BodyTears
    WriteTears <- NoTears
    MaxSeq = 1
    MaxEpoch = 2
SYMMETRY Interchangeable
INVARIANTS
    AckedIsReplayed
CHECK_DEADLOCK FALSE
