SPECIFICATION WriterFairSpec
CONSTANTS
    t1 = t1
    t2 = t2
    t3 = t3
    w1 = w1
    w2 = w2
    r1 = r1
    r2 = r2
    r3 = r3
    NoThread = NoThread
    NoWriter = NoWriter
    Readers = {r1}
    Writers = {w1, w2}
    Threads = {t1, t2}
    WriterOf <- Apart
    Discardable = {}
    InitReaders <- OneAttached
    BufLen = 56
    FrameLens = {4}
    Offsets = {0}
    SerialMod = 2
    MayRepeat = FALSE
PROPERTIES
    RequestReturns
    CommitReturns
    FrameDelivered
