\* Two cancel requests at once.
SPECIFICATION Spec
CONSTANTS
    Web = Web
    Panel = Panel
    Sensor = Sensor
    Owner = Owner
    Benchy = Benchy
    Vase = Vase
    Sd = Sd
    NoOne = NoOne
    NoFile = NoFile
    Clients = {Owner, Web, Panel}
    Greenlets <- MCGreenlets
    Files = {Benchy}
    Archives = {}
    Lines <- EventLines
    Chunk = 2
    MaxPosition = 1
    Requests <- TwoCancels
    MaxRequests <- Once
INVARIANT
    NoInternalError
