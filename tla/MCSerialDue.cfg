SPECIFICATION FairSpec
CONSTANTS
    Motion = Motion
    Query = Query
    c1 = c1
    c2 = c2
    c3 = c3
    c4 = c4
    NoCommand = NoCommand
    Commands = {c1, c2, c3}
    Queues = {Motion, Query}
    Program <- DueProgram
    MinClock <- DueMinClock
    ReqClock <- DueReqClock
    Notified = {c3}
    Queries = {c3}
    SeqNumbers = 4
    MaxPending = 3
    BlockMax = 1
    Window = 2
    ReqDelta = 0
    ClockKnown = TRUE
    WordSize = 64
    Uart = FALSE
    McuStart = {1}
    MayExit = FALSE
    MaxClock = 2
    MaxLosses = 1
    MaxEarly = 0
    MaxReports = 0
INVARIANTS
    BufferFits
PROPERTIES
    ImplementsChannel
    EverythingPulled
