\* A print continued after a power loss, then an ordinary one.
SPECIFICATION Spec
CONSTANTS
    Web = Web
    Panel = Panel
    Sensor = Sensor
    Owner = Owner
    Benchy = Benchy
    Vase = Vase
    Sd = Sd
    NoOne = NoOne
    NoFile = NoFile
    Clients = {Owner}
    Greenlets <- MCGreenlets
    Files = {Benchy}
    Archives = {}
    Lines <- EventLines
    Chunk = 2
    MaxPosition = 1
    Requests <- EventRequests
    MaxRequests <- Twice
PROPERTY
    ResumeOnlyAfterPowerLoss
