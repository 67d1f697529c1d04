--------------------------- MODULE MCSerialQueue ---------------------------
(* Small instances of SerialQueue for TLC.                                 *)
EXTENDS SerialQueue

CONSTANTS Motion, Query, c1, c2, c3, c4

\* Enough blocks for their numbers to come round.
LinkProgram == [q \in Queues |-> <<c1, c2, c3, c4>>]
LinkClock == [c \in Commands |-> 0]

\* Timed commands and a query; c2 waits behind c1 though it is due earlier.
DueProgram == [q \in Queues |-> IF q = Motion THEN <<c1, c2>> ELSE <<c3>>]
DueMinClock == [c \in Commands |-> IF c = c1 THEN 1 ELSE 0]
DueReqClock == [c \in Commands |-> IF c = c1 THEN 2 ELSE 1]
============================================================================
