\* Requests and events that act without the gcode mutex.
SPECIFICATION FairSpec
CONSTANTS
    Web = Web
    Panel = Panel
    Sensor = Sensor
    Owner = Owner
    Benchy = Benchy
    Vase = Vase
    Sd = Sd
    NoOne = NoOne
    NoFile = NoFile
    Clients = {Owner, Web, Panel, Sensor}
    Greenlets <- MCGreenlets
    Files = {Benchy}
    Archives = {}
    Lines <- EventLines
    Chunk = 2
    MaxPosition = 1
    Requests <- EventRequests
    MaxRequests <- Once
PROPERTIES
    NoLineAfterCancel
    RequestsComplete
    CancelStopsWork
