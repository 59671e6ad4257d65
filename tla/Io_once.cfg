SPECIFICATION Spec
CONSTANTS
    source = source
    filter = filter
    sink = sink
    raw = raw
    cooked = cooked
    Tasks = {source, filter, sink}
    BufIds = {raw, cooked}
    ReadsFrom <- MCReadsFrom
    WritesTo <- MCWritesTo
    BufSize <- MCBufSize
    MaxStarts = 1
INVARIANTS
    RefCounts
    OpenBufferAlive
    RingSizedOnce
    NothingLeft
CHECK_DEADLOCK FALSE
