\* Losses, an early timeout, an exit and numbers that come round.
SPECIFICATION Spec
CONSTANTS
    Motion = Motion
    Query = Query
    c1 = c1
    c2 = c2
    c3 = c3
    c4 = c4
    NoCommand = NoCommand
    Commands = {c1, c2, c3, c4}
    Queues = {Motion}
    Program <- LinkProgram
    MinClock <- LinkClock
    ReqClock <- LinkClock
    Notified = {c4}
    Queries = {c4}
    SeqNumbers = 4
    MaxPending = 3
    BlockMax = 1
    Window = 0
    ReqDelta = 0
    ClockKnown = TRUE
    WordSize = 64
    Uart = TRUE
    McuStart = {1}
    MayExit = TRUE
    MaxClock = 0
    MaxLosses = 2
    MaxEarly = 1
    MaxReports = 0
INVARIANTS
    TypeOK
    ExactlyOnce
    AckedWasExecuted
    SentIsOutstanding
    AnswerBeforeNotification
    SentTimeIsExact
PROPERTIES
    NoThirdNak
