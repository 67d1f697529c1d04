\* Two users send scripts, which the gcode mutex serialises.
SPECIFICATION Spec
CONSTANTS
    Web = Web
    Panel = Panel
    Sensor = Sensor
    Owner = Owner
    Benchy = Benchy
    Vase = Vase
    Sd = Sd
    NoOne = NoOne
    NoFile = NoFile
    Clients = {Web, Panel}
    Greenlets <- MCGreenlets
    Files = {Benchy, Vase}
    Archives = {Vase}
    Lines <- ScriptLines
    Chunk = 2
    MaxPosition = 1
    Requests <- ScriptRequests
    MaxRequests <- ScriptBudget
INVARIANTS
    TypeOK
    LockConsistent
    NoInternalError
    PrintingHasWorker
    WorkerIsPrinting
PROPERTIES
    CancelIsFinal
    PauseTakesHold
    LineIsNext
