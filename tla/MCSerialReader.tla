--------------------------- MODULE MCSerialReader ---------------------------
(* Small instances of SerialReader for TLC.                                *)
EXTENDS SerialReader

CONSTANTS r1, r2, r3, r4, r5, r6

\* As many queries as the retries allow for one chunk of data and its end.
IdentifyProgram == [q \in Queues |-> <<r1, r2, r3, r4, r5, r6>>]
AtOnce == [c \in Commands |-> 0]
============================================================================
