------------------------------ MODULE MCTrSync ------------------------------
(* The homing move with two controllers, and the loop by which trdispatch.c *)
(* finds how long each of them may run.                                     *)
EXTENDS TrSync

Never == MaxTime + Timeout + 1   \* PR_NEVER: later than any time

(* The least status time, the trsync it is of, and the next one.           *)
Least(min, entry) ==
  CASE entry.time < min.time -> [time |-> entry.time, next |-> min.time, who |-> entry.who]
    [] entry.time >= min.time /\ entry.time < min.next -> [min EXCEPT !.next = entry.time]
    [] OTHER -> min
Scan(clocks) ==
  FoldLeft(Least, [time |-> Never, next |-> Never, who |-> None],
           [i \in DOMAIN clocks |-> [who |-> i, time |-> clocks[i]]])
LoopExpire(clocks, m) ==
  LET min == Scan(clocks)
  IN Timeout + IF m # min.who THEN min.time ELSE IF min.next = Never THEN min.time ELSE min.next

(* The loop gives every trsync the status time of the slowest other one,   *)
(* or its own if it is alone: what Expire of TrSync says.                  *)
ASSUME LoopFindsSlowestOther ==
  \A n \in 1..4 : \A clocks \in [1..n -> 0..3] : \A m \in 1..n :
    LET others == IF n = 1 THEN 1..n ELSE (1..n) \ {m}
    IN /\ \E x \in others : LoopExpire(clocks, m) = Timeout + clocks[x]
       /\ \A x \in others : LoopExpire(clocks, m) <= Timeout + clocks[x]
=============================================================================
