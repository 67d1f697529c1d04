-------------------------- MODULE CommandChannel --------------------------
(***************************************************************************)
(* What the message layer promises to the code above it: the commands of   *)
(* each queue reach the microcontroller once and in the order they were    *)
(* handed over, and all of them do unless the channel is closed.  Commands *)
(* of different queues may overtake each other.                            *)
(***************************************************************************)
EXTENDS Integers, SequencesExt

CONSTANTS
    Queues,    \* the command queues
    Program    \* Program[q]: the commands handed to queue q, in order

VARIABLES
    accepted,  \* accepted[q]: how many commands queue q has been given
    delivered, \* delivered[q]: those that were carried out
    closed     \* nothing more is promised

vars == <<accepted, delivered, closed>>

Init ==
    /\ accepted = [q \in Queues |-> 0]
    /\ delivered = [q \in Queues |-> <<>>]
    /\ closed = FALSE

Accept(q) ==
    /\ \E n \in accepted[q] + 1 .. Len(Program[q]) :
          accepted' = [accepted EXCEPT ![q] = n]
    /\ UNCHANGED <<delivered, closed>>

\* Some more commands, of one queue or of several at once.
Deliver ==
    /\ delivered' \in
          [Queues -> UNION {Prefixes(Program[q]) : q \in Queues}]
    /\ \A q \in Queues :
          /\ IsPrefix(delivered[q], delivered'[q])
          /\ IsPrefix(delivered'[q], SubSeq(Program[q], 1, accepted[q]))
    /\ UNCHANGED <<accepted, closed>>

Close == closed' = TRUE /\ UNCHANGED <<accepted, delivered>>

Next == (\E q \in Queues : Accept(q)) \/ Deliver \/ Close

\* Every command that was accepted is delivered, unless the channel closes.
EveryCommandDelivered ==
    \A q \in Queues : \A n \in 1 .. Len(Program[q]) :
        accepted[q] >= n ~> Len(delivered[q]) >= n \/ closed

Safety == Init /\ [][Next]_vars

Spec == Safety /\ EveryCommandDelivered
============================================================================
