SPECIFICATION Spec
CONSTANTS
  c1 = c1
  c2 = c2
  Clients <- MCClients
  Watchers <- MCWatchers
  MaxCalls = 0
  MaxChanges = 3
  MaxTimeouts = 0
INVARIANT ShutdownIsAnnounced
CHECK_DEADLOCK FALSE
