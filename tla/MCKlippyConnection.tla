------------------------- MODULE MCKlippyConnection -------------------------
(* The connection with a few front ends.                                   *)
EXTENDS KlippyConnection

CONSTANTS c1, c2
MCClients == {c1, c2}
MCWatchers == {c2}
=============================================================================
