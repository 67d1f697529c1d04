SPECIFICATION Spec
CONSTANTS
  c1 = c1
  c2 = c2
  Clients <- MCClients
  Watchers <- MCWatchers
  MaxCalls = 2
  MaxChanges = 2
  MaxTimeouts = 1
INVARIANTS TypeOK EventOrder SubscribersServed
PROPERTY Recovers
CHECK_DEADLOCK FALSE
