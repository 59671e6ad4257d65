SPECIFICATION Spec
CONSTANTS
    t1 = t1
    t2 = t2
    t3 = t3
    w1 = w1
    w2 = w2
    r1 = r1
    r2 = r2
    r3 = r3
    NoThread = NoThread
    NoWriter = NoWriter
    Readers = {r1}
    Writers = {w1, w2}
    Threads = {t1, t2, t3}
    WriterOf <- Mixed
    Discardable = {}
    InitReaders <- OneAttached
    BufLen = 72
    FrameLens = {3, 36}
    Offsets = {0, 4}
    SerialMod = 3
    MayRepeat = TRUE
INVARIANTS
    TypeOK
    CursorFits
    ChainIntact
    UnreadUntouched
    RetryOnce
    OneWriterAtATime
    HeldIntact
    DeniedUnreachable
