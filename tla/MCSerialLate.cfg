\* Five seconds are over while a query is about to be repeated.
SPECIFICATION ReaderSpec
CONSTANTS
    r1 = r1
    r2 = r2
    r3 = r3
    r4 = r4
    r5 = r5
    r6 = r6
    NoCommand = NoCommand
    Identify = Identify
    Chunks = 1
    Retries = 2
    Commands = {r1, r2, r3, r4, r5, r6}
    Queues = {Identify}
    Program <- IdentifyProgram
    MinClock <- AtOnce
    ReqClock <- AtOnce
    Notified = {r1, r2, r3, r4, r5, r6}
    Queries = {r1, r2, r3, r4, r5, r6}
    SeqNumbers = 4
    MaxPending = 3
    BlockMax = 1
    Window = 0
    ReqDelta = 0
    ClockKnown = FALSE
    WordSize = 64
    Uart = FALSE
    McuStart = {2}
    MayExit = TRUE
    MaxClock = 0
    MaxLosses = 0
    MaxEarly = 0
    MaxReports = 0
INVARIANT
    ClosedIsReported
