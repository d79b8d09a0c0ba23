SPECIFICATION LiveSpec
CONSTANTS
    w1 = w1
    w2 = w2
    w3 = w3
    r = r
    None = None
    Writer <- TwoWriters
    Record <- OneRecord
    QueueCap = 1
    MayFail = TRUE
    MayClose = TRUE
    CrashTears <- AllTears
    WriteTears <- BodyTears
    MaxSeq = 2
    MaxEpoch = 1
INVARIANTS
    TypeOK
    OneAnswer
    FileInOrder
    NoSendOnClosed
PROPERTIES
    AppendReturns
    CloseReturns
CHECK_DEADLOCK FALSE
