SPECIFICATION Spec
CONSTANTS
    t1 = t1
    t2 = t2
    t3 = t3
    w1 = w1
    w2 = w2
    r1 = r1
    r2 = r2
    r3 = r3
    NoThread = NoThread
    NoWriter = NoWriter
    Readers = {r1, r2, r3}
    Writers = {w1}
    Threads = {t1}
    WriterOf <- Alone
    Discardable = {r1}
    InitReaders <- TwoAttached
    BufLen = 56
    FrameLens = {4}
    Offsets = {0}
    SerialMod = 3
    MayRepeat = FALSE
PROPERTIES
    BroadcastQueue
CHECK_DEADLOCK FALSE
