---------------------------- MODULE TrSync_proofs ----------------------------
(***************************************************************************)
(* Theorems about TrSync, for any number of controllers and any timing:    *)
(* its types; that every controller stops in time once one has, whatever   *)
(* becomes of the links and the host; that the outcome of the move is      *)
(* true, as long as no two reports are lost; and that nobody times out     *)
(* without a fault, if the links are fast enough for the timeout.          *)
(***************************************************************************)
EXTENDS TrSync, QueueLemmas, FiniteSetTheorems

\* The new timeouts under way in q come in ascending order, none before low,
\* which is the one in force, and none after high, which is the last one sent.
Ascending(q, low, high) ==
    \A i \in 1 .. Len(q) : q[i].kind = "set_timeout" =>
        /\ low <= q[i].arg /\ q[i].arg <= high
        /\ \A j \in 1 .. i : q[j].kind = "set_timeout" => q[j].arg <= q[i].arg

\* A timeout in force has not passed, and is only ever replaced by a later one.
TimersInv ==
    \A m \in McuIds :
        /\ mcu[m].armed => now <= mcu[m].expire
        /\ mcu[m].expire <= expire_clock[m]
        /\ Ascending(cmds[m], mcu[m].expire, expire_clock[m])

\* No report is from the future.
ReportsInv ==
    \A m \in McuIds : last_status_clock[m] <= now /\ \A r \in Range(reps[m]) : r.clock <= now

\* What the first controller to stop, s, lets the others do: no report says
\* that it worked after it stopped, and no timeout of another one is later than
\* Timeout from then.
HoldsBack(s) ==
    /\ ~mcu[s].armed /\ last_status_clock[s] <= stopped
    /\ \A r \in Range(reps[s]) : r.kind = "state" /\ r.armed => r.clock <= stopped
    /\ \A m \in McuIds \ {s} : expire_clock[m] <= stopped + Timeout

\* Until one stops no timeout is later than Timeout from now; from then on one
\* that has stopped holds the others back.
StopInv ==
    /\ stopped = None => \A m \in McuIds : mcu[m].armed /\ expire_clock[m] <= now + Timeout
    /\ stopped # None => \E s \in McuIds : HoldsBack(s)

\* stop() has an answer from every controller before the one it asks.
QueryInv ==
    /\ pc \in {"move", "wait"} => res = <<>>
    /\ pc = "stop" => query.mcu \in McuIds /\ Len(res) = query.mcu

\* A controller that acknowledges a question of stop() has stopped; so have
\* those stop() is done with.
AnswersInv ==
    /\ \A m \in McuIds : \A r \in Range(reps[m]) : r.kind = "ack" => ~mcu[m].armed
    /\ pc = "stop" /\ query.acked => ~mcu[query.mcu].armed
    /\ pc = "stop" => \A m \in McuIds : m < query.mcu => ~mcu[m].armed
    /\ StoppedWhenDone

\* The inductive invariant.
IInv == TypeOK /\ TimersInv /\ ReportsInv /\ StopInv /\ QueryInv /\ AnswersInv
-----------------------------------------------------------------------------
\* A trsync may run for Timeout from the status of the slowest other one: from
\* the status of one of them, and from no later one.
LEMMA ExpireBound ==
    ASSUME last_status_clock' \in [McuIds -> 0..MaxTime], NEW m \in McuIds
    PROVE  /\ Expire(m) \in Times
           /\ \E x \in Others(m) : Expire(m) = Timeout + last_status_clock'[x]
           /\ \A x \in Others(m) : Expire(m) <= Timeout + last_status_clock'[x]
  <1>. DEFINE T == {last_status_clock'[x] : x \in Others(m)}
  <1>1. Others(m) \subseteq McuIds /\ Others(m) # {}
    <2>1. CASE N = 1
      BY <2>1 DEF Others
    <2>2. CASE N # 1
      <3>1. 0 \in McuIds /\ 1 \in McuIds
        BY <2>2, TrSyncAssumption DEF McuIds
      <3>. QED
        BY <2>2, <3>1 DEF Others
    <2>. QED
      BY <2>1, <2>2
  <1>2. \A x \in Others(m) : last_status_clock'[x] \in 0 .. MaxTime
    BY <1>1
  <1>3. T \in SUBSET Nat /\ T # {}
    BY <1>1, <1>2, TrSyncAssumption
  <1>4. \E t \in T : \A u \in T : t <= u
    BY <1>3, LeastNatural
  <1>5. \E t \in T : \A x \in Others(m) : t <= last_status_clock'[x]
    BY <1>4
  <1>6. /\ SlowestOf(Others(m)) \in T
        /\ \A x \in Others(m) : SlowestOf(Others(m)) <= last_status_clock'[x]
    BY <1>5 DEF SlowestOf
  <1>7. PICK y \in Others(m) : SlowestOf(Others(m)) = last_status_clock'[y]
    BY <1>6
  <1>8. Expire(m) = Timeout + last_status_clock'[y]
    BY <1>7 DEF Expire
  <1>9. \A x \in Others(m) : Expire(m) <= Timeout + last_status_clock'[x]
    BY <1>2, <1>6, <1>7, <1>8, TrSyncAssumption
  <1>. QED
    BY <1>2, <1>8, <1>9, TrSyncAssumption DEF Times

\* An order that is kept when the timeout in force is replaced by the next one,
\* or is given up.
LEMMA AscendingTail ==
    ASSUME NEW q \in Seq(Commands), q # <<>>, NEW low \in Int, NEW high \in Int, Ascending(q, low, high)
    PROVE  /\ Ascending(Tail(q), low, high)
           /\ Head(q).kind = "set_timeout" =>
                low <= Head(q).arg /\ Head(q).arg <= high /\ Ascending(Tail(q), Head(q).arg, high)
  <1>1. /\ Tail(q) \in Seq(Commands) /\ Len(Tail(q)) = Len(q) - 1 /\ Len(q) \in Nat \ {0} /\ Head(q) = q[1]
        /\ \A i \in 1 .. Len(q) - 1 : Tail(q)[i] = q[i + 1]
    OBVIOUS
  <1>. DEFINE t == Tail(q)
  <1>. HIDE DEF t
  <1>2. Len(t) = Len(q) - 1 /\ \A i \in 1 .. Len(t) : t[i] = q[i + 1] /\ i + 1 \in 1 .. Len(q)
    BY <1>1 DEF t
  <1>3. ASSUME NEW i \in 1 .. Len(t), t[i].kind = "set_timeout"
        PROVE  /\ low <= t[i].arg /\ t[i].arg <= high
               /\ q[1].kind = "set_timeout" => q[1].arg <= t[i].arg
               /\ \A j \in 1 .. i : t[j].kind = "set_timeout" => t[j].arg <= t[i].arg
    <2>1. /\ low <= q[i + 1].arg /\ q[i + 1].arg <= high
          /\ \A j \in 1 .. i + 1 : q[j].kind = "set_timeout" => q[j].arg <= q[i + 1].arg
      BY <1>2, <1>3 DEF Ascending
    <2>2. \A j \in 1 .. i : t[j] = q[j + 1] /\ j + 1 \in 1 .. i + 1
      BY <1>1, <1>2
    <2>3. 1 \in 1 .. i + 1
      BY <1>1, <1>2
    <2>. QED
      BY <1>2, <2>1, <2>2, <2>3
  <1>4. Ascending(t, low, high) /\ (q[1].kind = "set_timeout" => Ascending(t, q[1].arg, high))
    BY <1>3 DEF Ascending
  <1>5. q[1].kind = "set_timeout" => low <= q[1].arg /\ q[1].arg <= high
    BY <1>1 DEF Ascending
  <1>. QED
    BY <1>1, <1>4, <1>5 DEF t

\* A command sent, if it is a new timeout, comes last in the order.
LEMMA AscendingAppend ==
    ASSUME NEW q \in Seq(Commands), NEW low \in Int, NEW high \in Int, NEW new \in Int, NEW c \in Commands,
           Ascending(q, low, high), high <= new, low <= high, c.kind = "set_timeout" => c.arg = new
    PROVE  Ascending(Append(q, c), low, new)
  <1>1. /\ Append(q, c) \in Seq(Commands) /\ Len(Append(q, c)) = Len(q) + 1 /\ Len(q) \in Nat
        /\ \A i \in 1 .. Len(q) : Append(q, c)[i] = q[i]
        /\ Append(q, c)[Len(q) + 1] = c
    OBVIOUS
  <1>2. \A i \in 1 .. Len(q) : q[i].kind = "set_timeout" => q[i].arg \in Int
    <2>1. \A i \in 1 .. Len(q) : q[i] \in Commands
      OBVIOUS
    <2>2. \A x \in Commands : x.kind = "set_timeout" => x.arg \in Int
      BY TrSyncAssumption DEF Commands, Times, Reasons
    <2>. QED
      BY <2>1, <2>2
  <1>. DEFINE t == Append(q, c)
  <1>. HIDE DEF t
  <1>3. ASSUME NEW i \in 1 .. Len(t), t[i].kind = "set_timeout"
        PROVE  /\ low <= t[i].arg /\ t[i].arg <= new
               /\ \A j \in 1 .. i : t[j].kind = "set_timeout" => t[j].arg <= t[i].arg
    <2>1. CASE i <= Len(q)
      <3>1. \A j \in 1 .. i : t[j] = q[j]
        BY <1>1, <2>1 DEF t
      <3>2. i \in 1 .. Len(q) /\ t[i] = q[i]
        BY <1>1, <2>1, <3>1
      <3>3. /\ low <= q[i].arg /\ q[i].arg <= high
            /\ \A j \in 1 .. i : q[j].kind = "set_timeout" => q[j].arg <= q[i].arg
        BY <1>3, <3>2 DEF Ascending
      <3>. QED
        BY <1>2, <1>3, <3>1, <3>2, <3>3
    <2>2. CASE i = Len(q) + 1
      <3>1. t[i] = c /\ c.arg = new
        BY <1>1, <1>3, <2>2 DEF t
      <3>2. ASSUME NEW j \in 1 .. i, t[j].kind = "set_timeout" PROVE t[j].arg <= new
        <4>1. CASE j = i
          BY <4>1, <3>1
        <4>2. CASE j # i
          <5>1. j \in 1 .. Len(q) /\ t[j] = q[j]
            BY <4>2, <2>2, <1>1 DEF t
          <5>2. q[j].arg <= high /\ q[j].arg \in Int
            BY <5>1, <3>2, <1>2 DEF Ascending
          <5>. QED
            BY <5>1, <5>2
        <4>. QED
          BY <4>1, <4>2
      <3>. QED
        BY <3>1, <3>2
    <2>. QED
      BY <1>1, <2>1, <2>2 DEF t
  <1>. QED
    BY <1>3 DEF Ascending, t

\* A later last timeout leaves the order of those under way.
LEMMA AscendingLater ==
    ASSUME NEW q \in Seq(Commands), NEW low \in Int, NEW high \in Int, NEW new \in Int,
           Ascending(q, low, high), high <= new
    PROVE  Ascending(q, low, new)
  <1>1. \A i \in 1 .. Len(q) : q[i] \in Commands
    OBVIOUS
  <1>2. \A x \in Commands : x.kind = "set_timeout" => x.arg \in Int
    BY TrSyncAssumption DEF Commands, Times, Reasons
  <1>. QED
    BY <1>1, <1>2 DEF Ascending

\* Sending at most one command, a new timeout only if it is the last one, keeps
\* the order.
LEMMA AscendingConcat ==
    ASSUME NEW q \in Seq(Commands), NEW low \in Int, NEW high \in Int, NEW new \in Int, NEW d,
           d = <<>> \/ \E c \in Commands : d = <<c>> /\ (c.kind = "set_timeout" => c.arg = new),
           Ascending(q, low, high), high <= new, low <= high
    PROVE  q \o d \in Seq(Commands) /\ Ascending(q \o d, low, new)
  <1>1. CASE d = <<>>
    <2>1. q \o d = q
      BY <1>1, ConcatEmptySeq
    <2>. QED
      BY <2>1, AscendingLater
  <1>2. ASSUME NEW c \in Commands, d = <<c>>, c.kind = "set_timeout" => c.arg = new
        PROVE  q \o d \in Seq(Commands) /\ Ascending(q \o d, low, new)
    <2>1. q \o d = Append(q, c) /\ Append(q, c) \in Seq(Commands)
      BY <1>2, AppendIsConcat, AppendProperties
    <2>. QED
      BY <1>2, <2>1, AscendingAppend
  <1>. QED
    BY <1>1, <1>2

\* What the thread of a link, and Python, make of a report: the status and the
\* timeouts go on, or stay, and at most one command of each goes to a controller.
LEMMA ReceivesLeaves ==
    ASSUME ClocksTypeOK, LinksTypeOK, NEW m \in McuIds, Receives(m)
    PROVE  /\ reps[m] # <<>> /\ reps' = [reps EXCEPT ![m] = Tail(@)] /\ Head(reps[m]) \in Messages
           /\ UNCHANGED <<now, mcu, stopped, failed, lost, pc, res>>
           /\ \/ UNCHANGED <<last_status_clock, expire_clock>>
              \/ /\ Head(reps[m]).kind = "state" /\ Head(reps[m]).armed
                 /\ last_status_clock' = [last_status_clock EXCEPT ![m] = Head(reps[m]).clock]
                 /\ expire_clock' = [x \in McuIds |-> IF Extends(Expire(x), x) THEN Expire(x) ELSE expire_clock[x]]
           /\ last_status_clock' \in [McuIds -> 0 .. MaxTime]
  <1>1. reps[m] # <<>> /\ reps' = [reps EXCEPT ![m] = Tail(@)] /\ HandleTrsyncState(m, Head(reps[m]))
    BY DEF Receives
  <1>2. Head(reps[m]) \in Messages
    <2>1. reps[m] \in Seq(Messages)
      BY DEF LinksTypeOK
    <2>. QED
      BY <1>1, <2>1
  <1>3. UNCHANGED <<now, mcu, stopped, failed, lost, pc, res>>
    BY DEF Receives, mcus
  <1>4. \/ UNCHANGED <<last_status_clock, expire_clock>>
        \/ /\ Head(reps[m]).kind = "state" /\ Head(reps[m]).armed
           /\ last_status_clock' = [last_status_clock EXCEPT ![m] = Head(reps[m]).clock]
           /\ expire_clock' = [x \in McuIds |-> IF Extends(Expire(x), x) THEN Expire(x) ELSE expire_clock[x]]
    BY <1>1 DEF HandleTrsyncState, disp
  <1>5. last_status_clock' \in [McuIds -> 0 .. MaxTime]
    BY <1>2, <1>4 DEF ClocksTypeOK, Messages
  <1>. QED
    BY <1>1, <1>2, <1>3, <1>4, <1>5

\* No timeout is taken back, and one that is extended ends Timeout after the
\* status of the slowest other trsync.
LEMMA ExpireClockGrows ==
    ASSUME ClocksTypeOK, LinksTypeOK, NEW m \in McuIds, Receives(m), NEW x \in McuIds
    PROVE  /\ expire_clock'[x] \in Times /\ expire_clock[x] <= expire_clock'[x]
           /\ \/ expire_clock'[x] = expire_clock[x]
              \/ /\ Head(reps[m]).kind = "state" /\ Head(reps[m]).armed
                 /\ last_status_clock' = [last_status_clock EXCEPT ![m] = Head(reps[m]).clock]
                 /\ \A y \in Others(x) : expire_clock'[x] <= Timeout + last_status_clock'[y]
                 /\ \E y \in Others(x) : expire_clock'[x] = Timeout + last_status_clock'[y]
  <1>1. expire_clock[x] \in Times /\ Times \subseteq Int
    BY TrSyncAssumption DEF ClocksTypeOK, Times
  <1>2. CASE expire_clock'[x] = expire_clock[x]
    <2>1. expire_clock'[x] \in Times /\ expire_clock[x] <= expire_clock'[x]
      <3>1. \A t \in Int : t <= t
        OBVIOUS
      <3>2. expire_clock[x] \in Int
        BY <1>1
      <3>. QED
        BY <1>1, <1>2, <3>1, <3>2
    <2>. QED
      BY <1>2, <2>1
  <1>3. CASE expire_clock'[x] # expire_clock[x]
    <2>1. /\ Head(reps[m]).kind = "state" /\ Head(reps[m]).armed
          /\ last_status_clock' = [last_status_clock EXCEPT ![m] = Head(reps[m]).clock]
          /\ expire_clock'[x] = Expire(x) /\ Extends(Expire(x), x)
      BY <1>3, ReceivesLeaves
    <2>2. PICK e \in Times : e = Expire(x)
      BY ReceivesLeaves, ExpireBound
    <2>3. e - expire_clock[x] >= MinExtend
      BY <2>1, <2>2 DEF Extends
    <2>4. expire_clock[x] <= e
      <3>1. e \in Int /\ expire_clock[x] \in Int /\ MinExtend \in Nat
        BY <1>1, <2>2, TrSyncAssumption
      <3>. QED
        BY <2>3, <3>1
    <2>5. /\ \A y \in Others(x) : Expire(x) <= Timeout + last_status_clock'[y]
          /\ \E y \in Others(x) : Expire(x) = Timeout + last_status_clock'[y]
      BY ReceivesLeaves, ExpireBound
    <2>. QED
      BY <2>1, <2>2, <2>4, <2>5
  <1>. QED
    BY <1>2, <1>3

\* The commands a report gives rise to keep the order of the timeouts.
LEMMA ReceivesSends ==
    ASSUME ClocksTypeOK, LinksTypeOK, NEW m \in McuIds, Receives(m), NEW x \in McuIds,
           NEW low \in Int, low <= expire_clock[x], Ascending(cmds[x], low, expire_clock[x])
    PROVE  /\ cmds'[x] \in Seq(Commands) /\ Ascending(cmds'[x], low, expire_clock'[x])
           /\ cmds' = [y \in McuIds |-> cmds'[y]]
  <1>. DEFINE d == Dispatched(x)
              e == IF x = m /\ PastEnd(m, Head(reps[m])) THEN Command(m, "trigger", PAST_END_TIME) ELSE <<>>
              q == cmds[x]
              old == expire_clock[x]
              new == expire_clock'[x]
  <1>1. q \in Seq(Commands) /\ old \in Times /\ new \in Times /\ old <= new /\ Times \subseteq Int
    BY ExpireClockGrows, TrSyncAssumption DEF LinksTypeOK, ClocksTypeOK, Times
  <1>2. cmds'[x] = q \o d \o e /\ cmds' = [y \in McuIds |-> cmds'[y]]
    BY DEF Receives
  <1>3. now \in 0 .. MaxTime
    BY DEF ClocksTypeOK
  <1>4. d = <<>> \/ \E c \in Commands : d = <<c>> /\ (c.kind = "set_timeout" => c.arg = new)
    <2>1. [kind |-> "trigger", arg |-> HOST_REQUEST, clock |-> now] \in Commands
      BY <1>3 DEF Commands, Reasons, HOST_REQUEST, COMMS_TIMEOUT
    <2>2. [kind |-> "set_timeout", arg |-> new, clock |-> now] \in Commands
      BY <1>1, <1>3 DEF Commands
    <2>. QED
      BY <2>1, <2>2 DEF Dispatched, Command
  <1>5. e = <<>> \/ \E c \in Commands : e = <<c>> /\ c.kind # "set_timeout"
    <2>1. [kind |-> "trigger", arg |-> PAST_END_TIME, clock |-> now] \in Commands
      BY <1>3 DEF Commands, Reasons, PAST_END_TIME, COMMS_TIMEOUT
    <2>. QED
      BY <2>1 DEF Command
  <1>. HIDE DEF d, e, q, old, new
  <1>6. Ascending(q, low, old) /\ low <= old
    BY DEF q, old
  <1>7. q \o d \in Seq(Commands) /\ Ascending(q \o d, low, new)
    BY <1>1, <1>4, <1>6, AscendingConcat
  <1>8. low <= new
    BY <1>1, <1>6
  <1>9. (q \o d) \o e \in Seq(Commands) /\ Ascending((q \o d) \o e, low, new)
    <2>1. e = <<>> \/ \E c \in Commands : e = <<c>> /\ (c.kind = "set_timeout" => c.arg = new)
      BY <1>5
    <2>2. new \in Int /\ new <= new
      BY <1>1
    <2>. QED
      BY <1>7, <1>8, <2>1, <2>2, AscendingConcat
  <1>. QED
    BY <1>2, <1>9 DEF new

\* A query sent to a controller keeps the order of the timeouts.
LEMMA AskSends ==
    ASSUME ClocksTypeOK, LinksTypeOK, NEW m \in McuIds, NEW x \in McuIds,
           cmds' = [cmds EXCEPT ![m] = @ \o Command(m, "query", HOST_REQUEST)],
           NEW low \in Int, low <= expire_clock[x], Ascending(cmds[x], low, expire_clock[x])
    PROVE  /\ cmds'[x] \in Seq(Commands) /\ Ascending(cmds'[x], low, expire_clock[x])
           /\ cmds' = [y \in McuIds |-> cmds'[y]]
  <1>. DEFINE d == IF x = m THEN Command(m, "query", HOST_REQUEST) ELSE <<>>
              q == cmds[x]
              old == expire_clock[x]
  <1>1. q \in Seq(Commands) /\ old \in Times /\ Times \subseteq Int /\ now \in 0 .. MaxTime
    BY TrSyncAssumption DEF LinksTypeOK, ClocksTypeOK, Times
  <1>2. cmds'[x] = q \o d /\ cmds' = [y \in McuIds |-> cmds'[y]]
    <2>1. DOMAIN cmds = McuIds
      BY DEF LinksTypeOK
    <2>2. q \o <<>> = q
      BY <1>1, ConcatEmptySeq
    <2>. QED
      BY <2>1, <2>2
  <1>3. d = <<>> \/ \E c \in Commands : d = <<c>> /\ (c.kind = "set_timeout" => c.arg = old)
    <2>1. [kind |-> "query", arg |-> HOST_REQUEST, clock |-> now] \in Commands
      BY <1>1 DEF Commands, Reasons, HOST_REQUEST, COMMS_TIMEOUT
    <2>. QED
      BY <2>1 DEF Command
  <1>. HIDE DEF d, q, old
  <1>4. Ascending(q, low, old) /\ low <= old
    BY DEF q, old
  <1>5. q \o d \in Seq(Commands) /\ Ascending(q \o d, low, old)
    BY <1>1, <1>3, <1>4, AscendingConcat
  <1>. QED
    BY <1>2, <1>5 DEF old

\* A trsync that is triggered, at rest or not, is at rest afterwards.
LEMMA TriggeredLeaves ==
    ASSUME NEW t \in Trsync, NEW reason \in Reasons
    PROVE  /\ Triggered(t, reason) \in Trsync /\ ~Triggered(t, reason).armed
           /\ Triggered(t, reason).expire \in {None, t.expire}
  BY DEF Triggered, Trsync

\* What a controller does with the command that comes first.
LEMMA ExecutesLeaves ==
    ASSUME ClocksTypeOK, LinksTypeOK, NEW m \in McuIds, Executes(m)
    PROVE  /\ cmds[m] # <<>> /\ cmds' = [cmds EXCEPT ![m] = Tail(@)] /\ Head(cmds[m]) \in Commands
           /\ mcu' \in [McuIds -> Trsync] /\ \A x \in McuIds \ {m} : mcu'[x] = mcu[x]
           /\ \/ /\ Head(cmds[m]).kind = "set_timeout" /\ reps' = reps /\ mcu'[m].armed = mcu[m].armed
                 /\ mcu'[m].expire = IF mcu[m].armed THEN Head(cmds[m]).arg ELSE mcu[m].expire
              \/ /\ ~mcu'[m].armed /\ mcu'[m].expire \in {None, mcu[m].expire}
                 /\ \/ Send(m, <<State(mcu'[m]), Ack>>)
                    \/ Send(m, <<State(mcu'[m])>>)
           /\ UNCHANGED <<now, failed, lost, last_status_clock, expire_clock>>
  <1>. DEFINE c == Head(cmds[m])
  <1>1. cmds[m] # <<>> /\ cmds' = [cmds EXCEPT ![m] = Tail(@)]
    BY DEF Executes
  <1>2. c \in Commands
    <2>1. cmds[m] \in Seq(Commands)
      BY DEF LinksTypeOK
    <2>. QED
      BY <1>1, <2>1
  <1>3. UNCHANGED <<now, failed, lost, last_status_clock, expire_clock>>
    BY DEF Executes, disp
  <1>4. /\ mcu \in [McuIds -> Trsync] /\ mcu[m] \in Trsync
        /\ c.kind = "set_timeout" => c.arg \in Times
        /\ c.kind # "set_timeout" => c.arg \in Reasons
    BY <1>2 DEF LinksTypeOK, Commands
  <1>. HIDE DEF c
  <1>5. \/ c.kind = "set_timeout" /\ mcu' = [mcu EXCEPT ![m].expire = IF mcu[m].armed THEN c.arg ELSE @] /\ reps' = reps
        \/ /\ c.kind # "set_timeout" /\ mcu' = [mcu EXCEPT ![m] = [Triggered(@, c.arg) EXCEPT !.next = None]]
           /\ \/ Send(m, <<State(mcu'[m]), Ack>>)
              \/ Send(m, <<State(mcu'[m])>>)
    BY DEF Executes, c
  <1>6. CASE c.kind = "set_timeout" /\ mcu' = [mcu EXCEPT ![m].expire = IF mcu[m].armed THEN c.arg ELSE @] /\ reps' = reps
    <2>1. /\ mcu' = [mcu EXCEPT ![m] = mcu'[m]]
          /\ mcu'[m] = [mcu[m] EXCEPT !.expire = IF mcu[m].armed THEN c.arg ELSE mcu[m].expire]
      BY <1>4, <1>6
    <2>2. /\ mcu'[m] \in Trsync /\ mcu'[m].armed = mcu[m].armed
          /\ mcu'[m].expire = IF mcu[m].armed THEN c.arg ELSE mcu[m].expire
      BY <1>4, <1>6, <2>1 DEF Trsync
    <2>3. mcu' \in [McuIds -> Trsync] /\ \A x \in McuIds \ {m} : mcu'[x] = mcu[x]
      BY <1>4, <2>1, <2>2
    <2>. QED
      BY <1>1, <1>2, <1>3, <1>6, <2>2, <2>3 DEF c
  <1>7. CASE /\ c.kind # "set_timeout" /\ mcu' = [mcu EXCEPT ![m] = [Triggered(@, c.arg) EXCEPT !.next = None]]
             /\ \/ Send(m, <<State(mcu'[m]), Ack>>)
                \/ Send(m, <<State(mcu'[m])>>)
    <2>1. PICK t \in Trsync : t = Triggered(mcu[m], c.arg) /\ ~t.armed /\ t.expire \in {None, mcu[m].expire}
      BY <1>4, <1>7, TriggeredLeaves
    <2>2. mcu'[m] = [t EXCEPT !.next = None] /\ \A x \in McuIds \ {m} : mcu'[x] = mcu[x]
      BY <1>4, <1>7, <2>1
    <2>3. mcu'[m] \in Trsync /\ ~mcu'[m].armed /\ mcu'[m].expire = t.expire
      BY <2>1, <2>2 DEF Trsync
    <2>4. mcu' \in [McuIds -> Trsync]
      BY <1>4, <1>7, <2>2, <2>3
    <2>. QED
      BY <1>1, <1>2, <1>3, <1>7, <2>1, <2>2, <2>3, <2>4 DEF c
  <1>. QED
    BY <1>5, <1>6, <1>7

\* A controller that stops.
LEMMA StopLeaves ==
    ASSUME ClocksTypeOK, LinksTypeOK, NEW m \in McuIds, NEW reason \in Reasons, Stop(m, reason),
           mcu' = [mcu EXCEPT ![m] = Triggered(@, reason)]
    PROVE  /\ mcu' \in [McuIds -> Trsync] /\ \A x \in McuIds \ {m} : mcu'[x] = mcu[x]
           /\ ~mcu'[m].armed /\ mcu'[m].expire \in {None, mcu[m].expire}
  <1>1. mcu \in [McuIds -> Trsync] /\ mcu[m] \in Trsync
    BY DEF LinksTypeOK
  <1>2. PICK t \in Trsync : t = Triggered(mcu[m], reason) /\ ~t.armed /\ t.expire \in {None, mcu[m].expire}
    BY <1>1, TriggeredLeaves
  <1>3. mcu' = [mcu EXCEPT ![m] = t]
    BY <1>2
  <1>. QED
    BY <1>1, <1>2, <1>3

\* What a controller sends is from now, and says what it is; what was sent
\* before stays under way.
LEMMA SendLeaves ==
    ASSUME ClocksTypeOK, LinksTypeOK, mcu' \in [McuIds -> Trsync], NEW m \in McuIds, NEW messages,
           messages = <<State(mcu'[m])>> \/ (messages = <<State(mcu'[m]), Ack>> /\ ~mcu'[m].armed),
           reps' = [reps EXCEPT ![m] = IF m \in failed THEN @ ELSE @ \o messages]
    PROVE  /\ reps' \in [McuIds -> Seq(Messages)]
           /\ \A x \in McuIds : \A r \in Range(reps'[x]) :
                r \in Range(reps[x]) \/ (r.clock = now /\ (r.armed => mcu'[x].armed) /\ (r.kind = "ack" => ~mcu'[x].armed))
  <1>1. reps \in [McuIds -> Seq(Messages)] /\ reps[m] \in Seq(Messages) /\ now \in 0 .. MaxTime
    BY DEF LinksTypeOK, ClocksTypeOK
  <1>2. /\ State(mcu'[m]) \in Messages /\ State(mcu'[m]).clock = now /\ State(mcu'[m]).armed = mcu'[m].armed
        /\ State(mcu'[m]).kind = "state"
        /\ Ack \in Messages /\ Ack.clock = now /\ Ack.armed = FALSE
    BY <1>1 DEF State, Ack, Messages, Trsync, Reasons, COMMS_TIMEOUT
  <1>3. /\ messages \in Seq(Messages) /\ Range(messages) \subseteq {State(mcu'[m]), Ack}
        /\ mcu'[m].armed => Range(messages) \subseteq {State(mcu'[m])}
    <2>. DEFINE s == State(mcu'[m])
    <2>. HIDE DEF s
    <2>1. s \in Messages /\ Ack \in Messages /\ (messages = <<s>> \/ (messages = <<s, Ack>> /\ ~mcu'[m].armed))
      BY <1>2 DEF s
    <2>2. PICK a \in Messages : a = Ack
      BY <2>1
    <2>3. CASE messages = <<s>>
      BY <2>1, <2>3 DEF Range
    <2>4. CASE messages = <<s, a>> /\ ~mcu'[m].armed
      <3>1. messages \in Seq(Messages) /\ Len(messages) = 2 /\ messages[1] = s /\ messages[2] = a
        BY <2>1, <2>4
      <3>2. Range(messages) = {messages[i] : i \in 1 .. 2}
        BY <3>1, QueueRange
      <3>3. \A i \in 1 .. 2 : messages[i] \in {s, a}
        BY <3>1
      <3>4. Range(messages) \subseteq {s, a}
        BY <3>2, <3>3
      <3>. QED
        BY <2>2, <2>4, <3>1, <3>4
    <2>5. /\ messages \in Seq(Messages) /\ Range(messages) \subseteq {s, Ack}
          /\ mcu'[m].armed => Range(messages) \subseteq {s}
      BY <2>1, <2>2, <2>3, <2>4
    <2>. QED
      BY <2>5 DEF s
  <1>. DEFINE q == reps[m] \o messages
  <1>4. q \in Seq(Messages) /\ Range(q) = Range(reps[m]) \cup Range(messages)
    BY <1>1, <1>3, ConcatProperties, RangeConcatenation
  <1>5. reps' = [reps EXCEPT ![m] = IF m \in failed THEN reps[m] ELSE q]
    OBVIOUS
  <1>. HIDE DEF q
  <1>6. reps' \in [McuIds -> Seq(Messages)]
    BY <1>1, <1>4, <1>5
  <1>7. ASSUME NEW x \in McuIds, NEW r \in Range(reps'[x])
        PROVE  r \in Range(reps[x]) \/ (r.clock = now /\ (r.armed => mcu'[x].armed) /\ (r.kind = "ack" => ~mcu'[x].armed))
    <2>1. CASE x = m /\ m \notin failed
      <3>1. r \in Range(reps[m]) \/ r = State(mcu'[m]) \/ (r = Ack /\ ~mcu'[m].armed)
        BY <1>1, <1>3, <1>4, <1>5, <1>7, <2>1
      <3>. QED
        BY <1>2, <2>1, <3>1
    <2>2. CASE ~(x = m /\ m \notin failed)
      BY <1>1, <1>5, <1>7, <2>2
    <2>. QED
      BY <2>1, <2>2
  <1>. QED
    BY <1>6, <1>7

\* The timeout of a trsync at rest comes before any other.
LEMMA AscendingNone ==
    ASSUME NEW q \in Seq(Commands), NEW low \in Int, NEW high \in Int, Ascending(q, low, high)
    PROVE  Ascending(q, None, high)
  <1>1. \A i \in 1 .. Len(q) : q[i] \in Commands
    OBVIOUS
  <1>2. \A x \in Commands : x.kind = "set_timeout" => x.arg \in Int /\ None <= x.arg
    BY TrSyncAssumption DEF Commands, Times, Reasons, None
  <1>. QED
    BY <1>1, <1>2 DEF Ascending

\* The links out of order can be counted.
LEMMA FaultsNat ==
    ASSUME LinksTypeOK
    PROVE  IsFiniteSet(failed) /\ Cardinality(failed) \in Nat
  <1>1. IsFiniteSet(McuIds)
    BY FS_Interval, TrSyncAssumption DEF McuIds
  <1>2. IsFiniteSet(failed)
    BY <1>1, FS_Subset DEF LinksTypeOK
  <1>. QED
    BY <1>2, FS_CardinalityType

\* One more link that fails is one more fault.
LEMMA FailedLeaves ==
    ASSUME LinksTypeOK, NEW m \in McuIds \ failed
    PROVE  Cardinality(failed \cup {m}) = Cardinality(failed) + 1 /\ Cardinality(failed) \in Nat
  BY FaultsNat, FS_AddElement, FS_CardinalityType

\* The part of the host that is not the threads of the links sends commands and
\* touches nothing else outside it.
LEMMA HostLeaves ==
    ASSUME Host
    PROVE  UNCHANGED <<now, mcu, stopped, reps, failed, lost, can_trigger, last_status_clock, expire_clock>>
  BY DEF Host, EndOfMove, StopDispatch, QueryReturns, QueryAgain, QueryFails, Shutdown, mcus, link, disp

\* A controller only ever stops; it is noted when the first does; and it reports
\* nothing but what it is.
LEMMA ControllerLeaves ==
    ASSUME ClocksTypeOK, LinksTypeOK, EndstopHit \/ \E m \in McuIds : Controller(m)
    PROVE  /\ UNCHANGED <<now, failed, lost, disp, python>>
           /\ mcu' \in [McuIds -> Trsync] /\ reps' \in [McuIds -> Seq(Messages)]
           /\ \A x \in McuIds : mcu'[x].armed => mcu[x].armed
           /\ NoteStop \/ (stopped' = stopped /\ \A x \in McuIds : mcu'[x].armed = mcu[x].armed)
           /\ \A x \in McuIds : \A r \in Range(reps'[x]) :
                r \in Range(reps[x]) \/ (r.clock = now /\ (r.armed => mcu'[x].armed) /\ (r.kind = "ack" => ~mcu'[x].armed))
  <1>. DEFINE Sent == \A x \in McuIds : \A r \in Range(reps'[x]) :
                        r \in Range(reps[x]) \/ (r.clock = now /\ (r.armed => mcu'[x].armed) /\ (r.kind = "ack" => ~mcu'[x].armed))
  <1>0. mcu \in [McuIds -> Trsync] /\ reps \in [McuIds -> Seq(Messages)]
    BY DEF LinksTypeOK
  <1>1. ASSUME NEW m \in McuIds, NEW reason \in Reasons, Stop(m, reason)
        PROVE  /\ UNCHANGED <<now, failed, lost, disp, python>>
               /\ mcu' \in [McuIds -> Trsync] /\ reps' \in [McuIds -> Seq(Messages)]
               /\ \A x \in McuIds : mcu'[x].armed => mcu[x].armed
               /\ NoteStop /\ Sent
    <2>1. /\ mcu' = [mcu EXCEPT ![m] = Triggered(@, reason)] /\ NoteStop /\ mcu[m].armed
          /\ UNCHANGED <<now, failed, lost, disp, python>>
          /\ reps' = [reps EXCEPT ![m] = IF m \in failed THEN @ ELSE @ \o <<State(mcu'[m])>>]
      BY <1>1 DEF Stop, Send
    <2>2. mcu' \in [McuIds -> Trsync] /\ \A x \in McuIds : mcu'[x].armed => mcu[x].armed
      BY <1>1, <2>1, StopLeaves
    <2>3. reps' \in [McuIds -> Seq(Messages)] /\ Sent
      BY <2>1, <2>2, SendLeaves
    <2>. QED
      BY <2>1, <2>2, <2>3
  <1>2. CASE EndstopHit
    <2>1. 0 \in McuIds /\ ENDSTOP_HIT \in Reasons
      BY TrSyncAssumption DEF McuIds, Reasons, ENDSTOP_HIT, COMMS_TIMEOUT
    <2>. QED
      BY <1>1, <1>2, <2>1 DEF EndstopHit
  <1>3. ASSUME NEW m \in McuIds, Expires(m)
        PROVE  \E reason \in Reasons : Stop(m, reason)
    BY <1>3 DEF Expires, Reasons, COMMS_TIMEOUT
  <1>4. ASSUME NEW m \in McuIds, Reports(m)
        PROVE  /\ UNCHANGED <<now, failed, lost, disp, python>>
               /\ mcu' \in [McuIds -> Trsync] /\ reps' \in [McuIds -> Seq(Messages)]
               /\ stopped' = stopped /\ \A x \in McuIds : mcu'[x].armed = mcu[x].armed
               /\ Sent
    <2>1. /\ mcu' = [mcu EXCEPT ![m].next = @ + Report] /\ mcu[m].next = now /\ stopped' = stopped
          /\ UNCHANGED <<now, failed, lost, disp, python>>
          /\ reps' = [reps EXCEPT ![m] = IF m \in failed THEN @ ELSE @ \o <<State(mcu[m])>>]
      BY <1>4 DEF Reports, Send
    <2>2. now \in Nat /\ now + Report \in Nat
      BY TrSyncAssumption DEF ClocksTypeOK
    <2>3. /\ mcu' = [mcu EXCEPT ![m] = mcu'[m]]
          /\ mcu'[m] = [mcu[m] EXCEPT !.next = now + Report] /\ mcu[m] \in Trsync
      BY <1>0, <2>1
    <2>4. mcu'[m] \in Trsync /\ mcu'[m].armed = mcu[m].armed /\ mcu'[m].reason = mcu[m].reason
      BY <2>2, <2>3 DEF Trsync
    <2>5. mcu' \in [McuIds -> Trsync] /\ \A x \in McuIds : mcu'[x].armed = mcu[x].armed
      BY <1>0, <2>3, <2>4
    <2>6. State(mcu[m]) = State(mcu'[m])
      BY <2>4 DEF State
    <2>7. reps' \in [McuIds -> Seq(Messages)] /\ Sent
      BY <2>1, <2>5, <2>6, SendLeaves
    <2>. QED
      BY <2>1, <2>5, <2>7
  <1>5. ASSUME NEW m \in McuIds, Executes(m)
        PROVE  /\ UNCHANGED <<now, failed, lost, disp, python>>
               /\ mcu' \in [McuIds -> Trsync] /\ reps' \in [McuIds -> Seq(Messages)]
               /\ \A x \in McuIds : mcu'[x].armed => mcu[x].armed
               /\ NoteStop /\ Sent
    <2>1. NoteStop /\ UNCHANGED <<now, failed, lost, disp, python>>
      BY <1>5 DEF Executes
    <2>2. mcu' \in [McuIds -> Trsync] /\ \A x \in McuIds : mcu'[x].armed => mcu[x].armed
      BY <1>5, ExecutesLeaves
    <2>3. CASE reps' = reps
      BY <1>0, <2>1, <2>2, <2>3
    <2>4. CASE Send(m, <<State(mcu'[m]), Ack>>) /\ ~mcu'[m].armed
      <3>1. reps' = [reps EXCEPT ![m] = IF m \in failed THEN @ ELSE @ \o <<State(mcu'[m]), Ack>>]
        BY <2>4 DEF Send
      <3>2. reps' \in [McuIds -> Seq(Messages)] /\ Sent
        BY <2>2, <2>4, <3>1, SendLeaves
      <3>. QED
        BY <2>1, <2>2, <3>2
    <2>5. CASE Send(m, <<State(mcu'[m])>>)
      <3>1. reps' = [reps EXCEPT ![m] = IF m \in failed THEN @ ELSE @ \o <<State(mcu'[m])>>]
        BY <2>5 DEF Send
      <3>2. reps' \in [McuIds -> Seq(Messages)] /\ Sent
        BY <2>2, <3>1, SendLeaves
      <3>. QED
        BY <2>1, <2>2, <3>2
    <2>. QED
      BY <1>5, <2>3, <2>4, <2>5, ExecutesLeaves
  <1>. HIDE DEF Sent
  <1>6. EndstopHit \/ \E m \in McuIds : Expires(m) \/ Reports(m) \/ Executes(m)
    BY DEF Controller
  <1>7. /\ UNCHANGED <<now, failed, lost, disp, python>>
        /\ mcu' \in [McuIds -> Trsync] /\ reps' \in [McuIds -> Seq(Messages)]
        /\ \A x \in McuIds : mcu'[x].armed => mcu[x].armed
        /\ NoteStop \/ (stopped' = stopped /\ \A x \in McuIds : mcu'[x].armed = mcu[x].armed)
        /\ Sent
    <2>1. CASE EndstopHit
      BY <1>2, <2>1 DEF Sent
    <2>2. ASSUME NEW m \in McuIds, Expires(m) PROVE <1>7!:
      BY <1>1, <1>3, <2>2
    <2>3. ASSUME NEW m \in McuIds, Reports(m) PROVE <1>7!:
      BY <1>4, <2>3
    <2>4. ASSUME NEW m \in McuIds, Executes(m) PROVE <1>7!:
      BY <1>5, <2>4
    <2>. QED
      BY <1>6, <2>1, <2>2, <2>3, <2>4
  <1>. QED
    BY <1>7 DEF Sent
-----------------------------------------------------------------------------
(* The inductive invariant, part by part.                                  *)
LEMMA ClocksTypeOKStep ==
    ASSUME IInv, [Next]_vars
    PROVE  ClocksTypeOK'
  <1>. USE DEF IInv, TypeOK
  <1>1. CASE Tick
    BY <1>1, TrSyncAssumption DEF Tick, ClocksTypeOK, mcus, disp
  <1>2. CASE Host
    BY <1>2, HostLeaves DEF ClocksTypeOK
  <1>3. CASE EndstopHit \/ \E m \in McuIds : Controller(m)
    <2>1. UNCHANGED <<now, last_status_clock, expire_clock>> /\ stopped' \in {stopped, now}
      BY <1>3, ControllerLeaves DEF disp, NoteStop
    <2>. QED
      BY <2>1 DEF ClocksTypeOK
  <1>4. ASSUME NEW m \in McuIds, Loses(m) \/ Fails(m) PROVE ClocksTypeOK'
    BY <1>4 DEF Loses, Fails, ClocksTypeOK, mcus, disp
  <1>5. ASSUME NEW m \in McuIds, Receives(m) PROVE ClocksTypeOK'
    <2>1. now' = now /\ stopped' = stopped /\ last_status_clock' \in [McuIds -> 0 .. MaxTime]
      BY <1>5, ReceivesLeaves
    <2>2. \A x \in McuIds : expire_clock'[x] \in Times
      BY <1>5, ExpireClockGrows
    <2>3. expire_clock' = expire_clock \/ expire_clock' = [x \in McuIds |-> IF Extends(Expire(x), x) THEN Expire(x) ELSE expire_clock[x]]
      BY <1>5, ReceivesLeaves
    <2>4. expire_clock' \in [McuIds -> Times]
      BY <2>2, <2>3 DEF ClocksTypeOK
    <2>. QED
      BY <2>1, <2>4 DEF ClocksTypeOK
  <1>6. CASE UNCHANGED vars
    BY <1>6 DEF vars, mcus, disp, ClocksTypeOK
  <1>. QED
    BY <1>1, <1>2, <1>3, <1>4, <1>5, <1>6 DEF Next

LEMMA LinksTypeOKStep ==
    ASSUME IInv, [Next]_vars
    PROVE  LinksTypeOK'
  <1>. USE DEF IInv, TypeOK
  <1>0. \A x \in McuIds : /\ mcu[x].expire \in Int /\ mcu[x].expire <= expire_clock[x]
                          /\ Ascending(cmds[x], mcu[x].expire, expire_clock[x])
    BY TrSyncAssumption DEF LinksTypeOK, TimersInv, Trsync, Times, None
  <1>1. CASE Tick
    BY <1>1 DEF Tick, LinksTypeOK, mcus, link, Faults
  <1>2. CASE Host
    <2>1. UNCHANGED <<mcu, reps, failed, lost>>
      BY <1>2, HostLeaves
    <2>2. ASSUME NEW m \in McuIds, Ask(m) PROVE cmds' \in [McuIds -> Seq(Commands)]
      <3>1. cmds' = [cmds EXCEPT ![m] = @ \o Command(m, "query", HOST_REQUEST)]
        BY <2>2 DEF Ask
      <3>2. \A x \in McuIds : cmds'[x] \in Seq(Commands) /\ cmds' = [y \in McuIds |-> cmds'[y]]
        BY <1>0, <3>1, AskSends
      <3>. QED
        BY <3>2
    <2>3. cmds' = cmds \/ \E m \in McuIds : Ask(m)
      <3>1. CASE StopDispatch
        BY <3>1, TrSyncAssumption DEF StopDispatch, McuIds
      <3>2. CASE QueryReturns
        <4>1. query.mcu \in 0 .. (N - 1)
          BY <3>2 DEF QueryReturns, QueryInv, McuIds
        <4>2. ~IsLast(query.mcu) => query.mcu + 1 \in McuIds
          BY <4>1, TrSyncAssumption DEF IsLast, McuIds
        <4>. QED
          BY <3>2, <4>2 DEF QueryReturns
      <3>3. CASE QueryAgain
        BY <3>3 DEF QueryAgain, QueryInv
      <3>4. CASE EndOfMove \/ QueryFails \/ Shutdown
        BY <3>4 DEF EndOfMove, QueryFails, Shutdown
      <3>. QED
        BY <1>2, <3>1, <3>2, <3>3, <3>4 DEF Host
    <2>4. cmds' \in [McuIds -> Seq(Commands)]
      BY <2>2, <2>3 DEF LinksTypeOK
    <2>. QED
      BY <2>1, <2>4 DEF LinksTypeOK, Faults
  <1>3. CASE EndstopHit \/ \E m \in McuIds : Controller(m)
    <2>1. /\ mcu' \in [McuIds -> Trsync] /\ reps' \in [McuIds -> Seq(Messages)]
          /\ failed' = failed /\ lost' = lost
      BY <1>3, ControllerLeaves
    <2>2. cmds' = cmds \/ \E m \in McuIds : cmds[m] # <<>> /\ cmds' = [cmds EXCEPT ![m] = Tail(@)]
      BY <1>3 DEF EndstopHit, Stop, Controller, Expires, Reports, Executes
    <2>3. cmds \in [McuIds -> Seq(Commands)]
      BY DEF LinksTypeOK
    <2>4. ASSUME NEW m \in McuIds, cmds[m] # <<>> PROVE Tail(cmds[m]) \in Seq(Commands)
      <3>1. cmds[m] \in Seq(Commands)
        BY <2>3
      <3>. QED
        BY <2>4, <3>1
    <2>5. cmds' \in [McuIds -> Seq(Commands)]
      BY <2>2, <2>3, <2>4
    <2>. QED
      BY <2>1, <2>5 DEF LinksTypeOK, Faults
  <1>4. ASSUME NEW m \in McuIds, Loses(m) PROVE LinksTypeOK'
    <2>1. /\ UNCHANGED <<mcu, cmds, failed>> /\ lost' = lost + 1 /\ Faults < MaxFaults
          /\ reps[m] # <<>> /\ reps' = [reps EXCEPT ![m] = Tail(@)]
      BY <1>4 DEF Loses, mcus
    <2>2. reps' \in [McuIds -> Seq(Messages)]
      BY <2>1, TailRange DEF LinksTypeOK
    <2>3. Faults \in Nat /\ lost \in Nat /\ Faults = lost + Cardinality(failed) /\ Cardinality(failed) \in Nat
      BY TrSyncAssumption, FaultsNat DEF LinksTypeOK, Faults
    <2>4. lost' \in Nat /\ Faults' = Faults + 1
      BY <2>1, <2>3 DEF Faults
    <2>. QED
      BY <2>1, <2>2, <2>3, <2>4, TrSyncAssumption DEF LinksTypeOK
  <1>5. ASSUME NEW m \in McuIds, Fails(m) PROVE LinksTypeOK'
    <2>1. /\ UNCHANGED <<mcu, cmds, reps, lost>> /\ failed' = failed \cup {m} /\ Faults < MaxFaults /\ m \notin failed
      BY <1>5 DEF Fails, mcus
    <2>2. Cardinality(failed) \in Nat /\ Cardinality(failed') = Cardinality(failed) + 1
      <3>1. LinksTypeOK /\ m \in McuIds \ failed
        BY <2>1
      <3>2. Cardinality(failed \cup {m}) = Cardinality(failed) + 1 /\ Cardinality(failed) \in Nat
        BY <3>1, FailedLeaves
      <3>. QED
        BY <2>1, <3>2
    <2>3. Faults' = Faults + 1 /\ Faults \in Nat
      BY <2>1, <2>2, TrSyncAssumption DEF LinksTypeOK, Faults
    <2>. QED
      BY <2>1, <2>3, TrSyncAssumption DEF LinksTypeOK
  <1>6. ASSUME NEW m \in McuIds, Receives(m) PROVE LinksTypeOK'
    <2>1. /\ UNCHANGED <<mcu, failed, lost>>
          /\ reps[m] # <<>> /\ reps' = [reps EXCEPT ![m] = Tail(@)]
      BY <1>6, ReceivesLeaves
    <2>2. reps' \in [McuIds -> Seq(Messages)]
      BY <2>1, TailRange DEF LinksTypeOK
    <2>3. \A x \in McuIds : cmds'[x] \in Seq(Commands) /\ cmds' = [y \in McuIds |-> cmds'[y]]
      BY <1>0, <1>6, ReceivesSends
    <2>. QED
      BY <2>1, <2>2, <2>3 DEF LinksTypeOK, Faults
  <1>7. CASE UNCHANGED vars
    BY <1>7 DEF vars, mcus, link, LinksTypeOK, Faults
  <1>. QED
    BY <1>1, <1>2, <1>3, <1>4, <1>5, <1>6, <1>7 DEF Next

LEMMA HostTypeOKStep ==
    ASSUME IInv, [Next]_vars
    PROVE  HostTypeOK' /\ QueryInv'
  <1>. USE DEF IInv, TypeOK
  <1>1. CASE Tick
    BY <1>1 DEF Tick, HostTypeOK, QueryInv, disp, python
  <1>2. CASE EndOfMove \/ Shutdown
    BY <1>2 DEF EndOfMove, Shutdown, HostTypeOK, QueryInv, disp
  <1>3. ASSUME NEW m \in McuIds, Ask(m)
        PROVE  /\ query' \in [mcu : McuIds \cup {None}, answer : Reasons \cup {None}, acked : BOOLEAN]
               /\ query'.mcu = m
    BY <1>3 DEF Ask
  <1>4. CASE StopDispatch
    <2>1. 0 \in McuIds
      BY TrSyncAssumption DEF McuIds
    <2>2. Ask(0) /\ UNCHANGED <<can_trigger, home_end_clock, completion, res>> /\ reading' = FALSE /\ pc' = "stop" /\ res = <<>>
      BY <1>4 DEF StopDispatch, QueryInv
    <2>. QED
      BY <1>3, <2>1, <2>2 DEF HostTypeOK, QueryInv
  <1>5. CASE QueryReturns
    <2>1. /\ query.answer # None /\ res' = Append(res, query.answer)
          /\ UNCHANGED <<can_trigger, reading, home_end_clock, completion>>
          /\ query.mcu \in McuIds /\ Len(res) = query.mcu
      BY <1>5 DEF QueryReturns, Answered, QueryInv, disp
    <2>2. query.answer \in Reasons /\ res \in Seq(Reasons)
      BY <2>1 DEF HostTypeOK
    <2>3. res' \in Seq(Reasons) /\ Len(res') = query.mcu + 1
      BY <2>1, <2>2
    <2>4. query.mcu + 1 <= N
      BY <2>1, TrSyncAssumption DEF McuIds
    <2>5. CASE IsLast(query.mcu)
      BY <1>5, <2>1, <2>3, <2>4, <2>5 DEF QueryReturns, HostTypeOK, QueryInv
    <2>6. CASE ~IsLast(query.mcu)
      <3>1. Ask(query.mcu + 1) /\ pc' = pc /\ pc = "stop"
        BY <1>5, <2>6 DEF QueryReturns
      <3>2. query.mcu + 1 \in McuIds
        BY <2>1, <2>6, TrSyncAssumption DEF IsLast, McuIds
      <3>. QED
        BY <1>3, <2>1, <2>3, <2>4, <3>1, <3>2 DEF HostTypeOK, QueryInv
    <2>. QED
      BY <2>5, <2>6
  <1>6. CASE QueryAgain
    <2>1. Ask(query.mcu) /\ query.mcu \in McuIds /\ UNCHANGED <<can_trigger, reading, pc, home_end_clock, completion, res>>
      BY <1>6 DEF QueryAgain, QueryInv, disp
    <2>. QED
      BY <1>3, <2>1 DEF HostTypeOK, QueryInv
  <1>7. CASE QueryFails
    BY <1>7 DEF QueryFails, HostTypeOK, QueryInv, disp
  <1>8. CASE EndstopHit \/ \E m \in McuIds : Controller(m)
    <2>1. UNCHANGED <<disp, python>>
      BY <1>8, ControllerLeaves
    <2>. QED
      BY <2>1 DEF HostTypeOK, QueryInv, disp, python
  <1>9. ASSUME NEW m \in McuIds, Loses(m) \/ Fails(m) PROVE HostTypeOK' /\ QueryInv'
    BY <1>9 DEF Loses, Fails, HostTypeOK, QueryInv, disp, python
  <1>10. ASSUME NEW m \in McuIds, Receives(m) PROVE HostTypeOK' /\ QueryInv'
    <2>. DEFINE r == Head(reps[m])
    <2>1. r \in Messages /\ pc' = pc /\ res' = res
      BY <1>10, ReceivesLeaves
    <2>2. HandleTrsyncState(m, r) /\ PyHandleTrsyncState(m, r)
      BY <1>10 DEF Receives
    <2>. HIDE DEF r
    <2>3. {can_trigger', reading'} \subseteq BOOLEAN
      BY <2>2 DEF HandleTrsyncState, HostTypeOK, disp
    <2>4. completion' \in BOOLEAN /\ home_end_clock' \in {None, MoveEnd}
      BY <2>2 DEF PyHandleTrsyncState, HostTypeOK
    <2>5. /\ query' \in [mcu : McuIds \cup {None}, answer : Reasons \cup {None}, acked : BOOLEAN]
          /\ query'.mcu = query.mcu
      <3>1. r.reason \in Reasons
        BY <2>1 DEF Messages
      <3>. QED
        BY <2>2, <3>1 DEF PyHandleTrsyncState, HostTypeOK
    <2>. QED
      BY <2>1, <2>3, <2>4, <2>5 DEF HostTypeOK, QueryInv
  <1>11. CASE UNCHANGED vars
    BY <1>11 DEF vars, disp, python, HostTypeOK, QueryInv
  <1>. QED
    BY <1>1, <1>2, <1>4, <1>5, <1>6, <1>7, <1>8, <1>9, <1>10, <1>11 DEF Next, Host

\* Time passes only when no timeout in force is due; a new one takes its place
\* before that, and is never an earlier one.
LEMMA TimersStep ==
    ASSUME IInv, [Next]_vars
    PROVE  TimersInv'
  <1>. USE DEF IInv, TypeOK
  <1>0. \A x \in McuIds : /\ mcu[x] \in Trsync /\ mcu[x].expire \in Int /\ mcu[x].expire <= expire_clock[x]
                          /\ mcu[x].armed => now <= mcu[x].expire
                          /\ Ascending(cmds[x], mcu[x].expire, expire_clock[x])
                          /\ expire_clock[x] \in Int /\ None <= expire_clock[x] /\ cmds[x] \in Seq(Commands)
                          /\ now \in Int
    BY TrSyncAssumption DEF ClocksTypeOK, LinksTypeOK, TimersInv, Trsync, Times, None
  <1>1. CASE Tick
    <2>1. /\ now' = now + 1 /\ \A x \in McuIds : mcu[x].armed => mcu[x].expire # now
          /\ UNCHANGED <<mcu, cmds, expire_clock>>
      BY <1>1 DEF Tick, OnTime, mcus, disp
    <2>2. \A x \in McuIds : mcu[x].armed => now + 1 <= mcu[x].expire
      BY <1>0, <2>1
    <2>. QED
      BY <2>1, <2>2 DEF TimersInv
  <1>2. CASE Host
    <2>1. UNCHANGED <<now, mcu, expire_clock>>
      BY <1>2, HostLeaves
    <2>2. ASSUME NEW m \in McuIds, Ask(m), NEW x \in McuIds
          PROVE  Ascending(cmds'[x], mcu[x].expire, expire_clock[x])
      <3>1. cmds' = [cmds EXCEPT ![m] = @ \o Command(m, "query", HOST_REQUEST)]
        BY <2>2 DEF Ask
      <3>. QED
        BY <1>0, <2>2, <3>1, AskSends
    <2>3. cmds' = cmds \/ \E m \in McuIds : Ask(m)
      <3>1. CASE StopDispatch
        BY <3>1, TrSyncAssumption DEF StopDispatch, McuIds
      <3>2. CASE QueryReturns
        <4>1. query.mcu \in 0 .. (N - 1)
          BY <3>2 DEF QueryReturns, QueryInv, McuIds
        <4>2. ~IsLast(query.mcu) => query.mcu + 1 \in McuIds
          BY <4>1, TrSyncAssumption DEF IsLast, McuIds
        <4>. QED
          BY <3>2, <4>2 DEF QueryReturns
      <3>3. CASE QueryAgain
        BY <3>3 DEF QueryAgain, QueryInv
      <3>4. CASE EndOfMove \/ QueryFails \/ Shutdown
        BY <3>4 DEF EndOfMove, QueryFails, Shutdown
      <3>. QED
        BY <1>2, <3>1, <3>2, <3>3, <3>4 DEF Host
    <2>4. ASSUME NEW x \in McuIds PROVE Ascending(cmds'[x], mcu[x].expire, expire_clock[x])
      BY <1>0, <2>2, <2>3
    <2>. QED
      BY <1>0, <2>1, <2>4 DEF TimersInv
  <1>3. ASSUME NEW m \in McuIds, NEW reason \in Reasons, Stop(m, reason) PROVE TimersInv'
    <2>1. UNCHANGED <<now, cmds, expire_clock>> /\ mcu' = [mcu EXCEPT ![m] = Triggered(@, reason)]
      BY <1>3 DEF Stop, disp
    <2>2. \A x \in McuIds : \/ mcu'[x] = mcu[x]
                            \/ ~mcu'[x].armed /\ mcu'[x].expire \in {None, mcu[x].expire}
      BY <1>3, <2>1, StopLeaves
    <2>3. ASSUME NEW x \in McuIds
          PROVE  /\ mcu'[x].armed => now <= mcu'[x].expire
                 /\ mcu'[x].expire <= expire_clock[x]
                 /\ Ascending(cmds[x], mcu'[x].expire, expire_clock[x])
      BY <1>0, <2>2, AscendingNone
    <2>. QED
      BY <2>1, <2>3 DEF TimersInv
  <1>4. ASSUME NEW m \in McuIds, Reports(m) PROVE TimersInv'
    <2>1. UNCHANGED <<now, cmds, expire_clock>> /\ mcu' = [mcu EXCEPT ![m].next = @ + Report]
      BY <1>4 DEF Reports, disp
    <2>2. \A x \in McuIds : mcu'[x].armed = mcu[x].armed /\ mcu'[x].expire = mcu[x].expire
      BY <2>1 DEF LinksTypeOK, Trsync
    <2>. QED
      BY <1>0, <2>1, <2>2 DEF TimersInv
  <1>5. ASSUME NEW m \in McuIds, Executes(m) PROVE TimersInv'
    <2>. DEFINE c == Head(cmds[m])
                q == Tail(cmds[m])
    <2>1. /\ cmds[m] # <<>> /\ cmds' = [cmds EXCEPT ![m] = q] /\ now' = now /\ expire_clock' = expire_clock
          /\ \A x \in McuIds \ {m} : mcu'[x] = mcu[x]
      BY <1>5, ExecutesLeaves
    <2>2. \/ /\ c.kind = "set_timeout" /\ mcu'[m].armed = mcu[m].armed
             /\ mcu'[m].expire = IF mcu[m].armed THEN c.arg ELSE mcu[m].expire
          \/ ~mcu'[m].armed /\ mcu'[m].expire \in {None, mcu[m].expire}
      BY <1>5, ExecutesLeaves
    <2>3. cmds' = [cmds EXCEPT ![m] = q] /\ cmds'[m] = q /\ \A x \in McuIds \ {m} : cmds'[x] = cmds[x]
      BY <2>1 DEF LinksTypeOK
    <2>4. /\ Ascending(q, mcu[m].expire, expire_clock[m]) /\ q \in Seq(Commands)
          /\ c.kind = "set_timeout" =>
               mcu[m].expire <= c.arg /\ c.arg <= expire_clock[m] /\ Ascending(q, c.arg, expire_clock[m])
          /\ c.kind = "set_timeout" => c.arg \in Int
      <3>1. \A x \in Commands : x.kind = "set_timeout" => x.arg \in Int
        BY TrSyncAssumption DEF Commands, Times, Reasons
      <3>2. c \in Commands /\ q \in Seq(Commands)
        BY <1>0, <1>5, <2>1, ExecutesLeaves
      <3>. QED
        BY <1>0, <2>1, <3>1, <3>2, AscendingTail
    <2>5. mcu[m].armed /\ mcu'[m].armed => c.kind = "set_timeout" /\ mcu'[m].expire = c.arg
      BY <2>2
    <2>. HIDE DEF c, q
    <2>6. Ascending(q, None, expire_clock[m])
      BY <1>0, <2>4, AscendingNone
    <2>7. /\ mcu'[m].armed => now <= mcu'[m].expire
          /\ mcu'[m].expire <= expire_clock[m]
          /\ Ascending(q, mcu'[m].expire, expire_clock[m])
      <3>1. CASE c.kind = "set_timeout" /\ mcu[m].armed /\ mcu'[m].expire = c.arg
        BY <1>0, <2>4, <3>1
      <3>2. CASE mcu'[m].armed = mcu[m].armed /\ mcu'[m].expire = mcu[m].expire
        BY <1>0, <2>4, <3>2
      <3>3. CASE ~mcu'[m].armed /\ mcu'[m].expire \in {None, mcu[m].expire}
        BY <1>0, <2>4, <2>6, <3>3
      <3>. QED
        BY <2>2, <3>1, <3>2, <3>3
    <2>. QED
      BY <1>0, <2>1, <2>3, <2>7 DEF TimersInv
  <1>6. ASSUME NEW m \in McuIds, Loses(m) \/ Fails(m) PROVE TimersInv'
    BY <1>6 DEF Loses, Fails, TimersInv, mcus, disp
  <1>7. ASSUME NEW m \in McuIds, Receives(m) PROVE TimersInv'
    <2>1. now' = now /\ mcu' = mcu
      BY <1>7, ReceivesLeaves
    <2>2. ASSUME NEW x \in McuIds
          PROVE  /\ mcu[x].expire <= expire_clock'[x]
                 /\ Ascending(cmds'[x], mcu[x].expire, expire_clock'[x])
      <3>1. expire_clock'[x] \in Int /\ expire_clock[x] <= expire_clock'[x]
        <4>1. Times \subseteq Int
          BY TrSyncAssumption DEF Times
        <4>. QED
          BY <1>7, <4>1, ExpireClockGrows
      <3>2. Ascending(cmds'[x], mcu[x].expire, expire_clock'[x])
        BY <1>0, <1>7, ReceivesSends
      <3>. QED
        BY <1>0, <3>1, <3>2
    <2>. QED
      BY <1>0, <2>1, <2>2 DEF TimersInv
  <1>8. CASE UNCHANGED vars
    BY <1>8 DEF vars, mcus, disp, TimersInv
  <1>. QED
    <2>1. ENDSTOP_HIT \in Reasons /\ COMMS_TIMEOUT \in Reasons /\ 0 \in McuIds
      BY TrSyncAssumption DEF McuIds, Reasons, ENDSTOP_HIT, COMMS_TIMEOUT
    <2>. QED
      BY <2>1, <1>1, <1>2, <1>3, <1>4, <1>5, <1>6, <1>7, <1>8 DEF Next, EndstopHit, Controller, Expires

\* What comes of a step that passes no report on: the first stop may be noted,
\* with what is known and sent by then not from the future.
LEMMA NothingReported ==
    ASSUME IInv, UNCHANGED <<last_status_clock, expire_clock>>,
           now' \in {now, now + 1}, now' = now \/ UNCHANGED <<mcu, stopped>>,
           \A x \in McuIds : mcu'[x].armed => mcu[x].armed,
           NoteStop \/ (stopped' = stopped /\ \A x \in McuIds : mcu'[x].armed = mcu[x].armed),
           \A x \in McuIds : \A r \in Range(reps'[x]) :
             r \in Range(reps[x]) \/ (r.clock = now /\ (r.armed => mcu'[x].armed) /\ (r.kind = "ack" => ~mcu'[x].armed))
    PROVE  ReportsInv' /\ StopInv'
  <1>. USE DEF IInv, TypeOK
  <1>1. /\ now \in Nat /\ now' \in Nat /\ now <= now' /\ stopped \in Nat \cup {None} /\ Timeout \in Nat
        /\ \A x \in McuIds : last_status_clock[x] \in Nat /\ expire_clock[x] \in Nat
    BY TrSyncAssumption DEF ClocksTypeOK, Times
  <1>2. \A x \in McuIds : \A r \in Range(reps[x]) : r.clock \in Nat
    <2>1. \A x \in McuIds : Range(reps[x]) \subseteq Messages
      BY QueueRange DEF LinksTypeOK
    <2>2. \A r \in Messages : r.clock \in Nat
      BY TrSyncAssumption DEF Messages
    <2>. QED
      BY <2>1, <2>2
  <1>3. ReportsInv'
    BY <1>1, <1>2 DEF ReportsInv
  <1>4. CASE stopped' = None
    <2>1. stopped = None /\ \A x \in McuIds : mcu'[x].armed
      BY <1>1, <1>4 DEF NoteStop, StopInv, None
    <2>2. \A x \in McuIds : expire_clock[x] <= now + Timeout
      BY <2>1 DEF StopInv
    <2>. QED
      BY <1>1, <1>3, <1>4, <2>1, <2>2 DEF StopInv
  <1>5. CASE stopped' # None /\ stopped' = stopped
    <2>1. PICK s \in McuIds : HoldsBack(s)
      BY <1>5 DEF StopInv
    <2>2. ASSUME NEW r \in Range(reps'[s]), r.kind = "state", r.armed PROVE r.clock <= stopped
      BY <2>1, <2>2 DEF HoldsBack
    <2>3. HoldsBack(s)'
      BY <1>5, <2>1, <2>2 DEF HoldsBack
    <2>. QED
      BY <1>3, <1>5, <2>3 DEF StopInv
  <1>6. CASE stopped = None /\ stopped' = now /\ now' = now /\ \E s \in McuIds : ~mcu'[s].armed
    <2>1. PICK s \in McuIds : ~mcu'[s].armed
      BY <1>6
    <2>2. \A x \in McuIds : expire_clock[x] <= now + Timeout
      BY <1>6 DEF StopInv
    <2>3. HoldsBack(s)'
      BY <1>3, <1>6, <2>1, <2>2 DEF HoldsBack, ReportsInv
    <2>4. stopped' # None
      BY <1>1, <1>6 DEF None
    <2>. QED
      BY <1>3, <2>3, <2>4 DEF StopInv
  <1>. QED
    BY <1>1, <1>4, <1>5, <1>6 DEF NoteStop, None

LEMMA StopStep ==
    ASSUME IInv, [Next]_vars
    PROVE  ReportsInv' /\ StopInv'
  <1>. USE DEF IInv, TypeOK
  <1>1. CASE Tick
    <2>1. now' = now + 1 /\ UNCHANGED <<mcu, stopped, reps, last_status_clock, expire_clock>>
      BY <1>1 DEF Tick, mcus, link, disp
    <2>. QED
      BY <2>1, NothingReported
  <1>2. CASE Host
    BY <1>2, HostLeaves, NothingReported
  <1>3. CASE EndstopHit \/ \E m \in McuIds : Controller(m)
    <2>1. UNCHANGED <<now, last_status_clock, expire_clock>>
      BY <1>3, ControllerLeaves DEF disp
    <2>2. /\ \A x \in McuIds : mcu'[x].armed => mcu[x].armed
          /\ NoteStop \/ (stopped' = stopped /\ \A x \in McuIds : mcu'[x].armed = mcu[x].armed)
          /\ \A x \in McuIds : \A r \in Range(reps'[x]) :
               r \in Range(reps[x]) \/ (r.clock = now /\ (r.armed => mcu'[x].armed) /\ (r.kind = "ack" => ~mcu'[x].armed))
      BY <1>3, ControllerLeaves
    <2>. QED
      BY <2>1, <2>2, NothingReported
  <1>4. ASSUME NEW m \in McuIds, Loses(m) PROVE ReportsInv' /\ StopInv'
    <2>1. UNCHANGED <<now, mcu, stopped, last_status_clock, expire_clock>>
      BY <1>4 DEF Loses, mcus, disp
    <2>2. \A x \in McuIds : Range(reps'[x]) \subseteq Range(reps[x])
      <3>1. reps[m] # <<>> /\ reps' = [reps EXCEPT ![m] = Tail(@)] /\ reps \in [McuIds -> Seq(Messages)]
        BY <1>4 DEF Loses, LinksTypeOK
      <3>2. reps[m] \in Seq(Messages) /\ Range(Tail(reps[m])) \subseteq Range(reps[m])
        BY <3>1, TailRange
      <3>. QED
        BY <3>1, <3>2
    <2>. QED
      BY <2>1, <2>2, NothingReported
  <1>5. ASSUME NEW m \in McuIds, Fails(m) PROVE ReportsInv' /\ StopInv'
    <2>1. UNCHANGED <<now, mcu, stopped, reps, last_status_clock, expire_clock>>
      BY <1>5 DEF Fails, mcus, disp
    <2>. QED
      BY <2>1, NothingReported
  <1>6. ASSUME NEW m \in McuIds, Receives(m) PROVE ReportsInv' /\ StopInv'
    <2>. DEFINE r == Head(reps[m])
    <2>1. /\ now' = now /\ mcu' = mcu /\ stopped' = stopped
          /\ \/ last_status_clock' = last_status_clock
             \/ r.kind = "state" /\ r.armed /\ last_status_clock' = [last_status_clock EXCEPT ![m] = r.clock]
          /\ last_status_clock' \in [McuIds -> 0 .. MaxTime]
      BY <1>6, ReceivesLeaves
    <2>2. /\ \A x \in McuIds : Range(reps'[x]) \subseteq Range(reps[x])
          /\ r \in Range(reps[m])
      <3>1. reps[m] # <<>> /\ reps' = [reps EXCEPT ![m] = Tail(@)] /\ reps \in [McuIds -> Seq(Messages)]
        BY <1>6, ReceivesLeaves DEF LinksTypeOK
      <3>2. reps[m] \in Seq(Messages) /\ Range(Tail(reps[m])) \subseteq Range(reps[m]) /\ r \in Range(reps[m])
        BY <3>1, TailRange
      <3>. QED
        BY <3>1, <3>2
    <2>. HIDE DEF r
    <2>3. \A x \in McuIds : last_status_clock'[x] <= now
      BY <2>1, <2>2 DEF ReportsInv, ClocksTypeOK
    <2>4. ReportsInv'
      BY <2>1, <2>2, <2>3 DEF ReportsInv
    <2>5. /\ now \in Nat /\ stopped \in Nat \cup {None} /\ Timeout \in Nat
          /\ \A x \in McuIds : last_status_clock'[x] \in Nat
      BY <2>1, TrSyncAssumption DEF ClocksTypeOK
    <2>6. \A x \in McuIds : /\ Others(x) \subseteq McuIds
                            /\ \A s \in McuIds \ {x} : s \in Others(x)
      BY TrSyncAssumption DEF Others, McuIds
    <2>7. CASE stopped = None
      <3>1. ASSUME NEW x \in McuIds PROVE expire_clock'[x] <= now + Timeout
        <4>1. \/ expire_clock'[x] = expire_clock[x]
              \/ \E y \in Others(x) : expire_clock'[x] = Timeout + last_status_clock'[y]
          BY <1>6, ExpireClockGrows
        <4>2. expire_clock[x] <= now + Timeout
          BY <2>7 DEF StopInv
        <4>3. ASSUME NEW y \in Others(x), expire_clock'[x] = Timeout + last_status_clock'[y]
              PROVE  expire_clock'[x] <= now + Timeout
          <5>1. y \in McuIds
            BY <2>6
          <5>. QED
            BY <2>3, <2>5, <4>3, <5>1
        <4>. QED
          BY <4>1, <4>2, <4>3
      <3>. QED
        BY <2>1, <2>4, <2>7, <3>1 DEF StopInv
    <2>8. CASE stopped # None
      <3>1. PICK s \in McuIds : HoldsBack(s)
        BY <2>8 DEF StopInv
      <3>2. last_status_clock'[s] <= stopped
        BY <2>1, <2>2, <3>1 DEF HoldsBack, ClocksTypeOK
      <3>3. ASSUME NEW x \in McuIds \ {s} PROVE expire_clock'[x] <= stopped + Timeout
        <4>1. \/ expire_clock'[x] = expire_clock[x]
              \/ \A y \in Others(x) : expire_clock'[x] <= Timeout + last_status_clock'[y]
          BY <1>6, ExpireClockGrows
        <4>2. CASE expire_clock'[x] = expire_clock[x]
          BY <3>1, <4>2 DEF HoldsBack
        <4>3. CASE \A y \in Others(x) : expire_clock'[x] <= Timeout + last_status_clock'[y]
          <5>1. expire_clock'[x] <= Timeout + last_status_clock'[s]
            BY <2>6, <4>3
          <5>2. expire_clock'[x] \in Nat
            <6>1. Times \subseteq Nat
              BY TrSyncAssumption DEF Times
            <6>. QED
              BY <1>6, <6>1, ExpireClockGrows
          <5>. QED
            BY <2>5, <2>8, <3>2, <5>1, <5>2
        <4>. QED
          BY <4>1, <4>2, <4>3
      <3>4. HoldsBack(s)'
        BY <2>1, <2>2, <3>1, <3>2, <3>3 DEF HoldsBack
      <3>. QED
        BY <2>1, <2>4, <2>8, <3>4 DEF StopInv
    <2>. QED
      BY <2>7, <2>8
  <1>7. CASE UNCHANGED vars
    BY <1>7, NothingReported DEF vars, mcus, link, disp
  <1>. QED
    BY <1>1, <1>2, <1>3, <1>4, <1>5, <1>6, <1>7 DEF Next

\* What comes of a step in which stop() goes on with its questions unchanged.
LEMMA NoQuestion ==
    ASSUME IInv, LinksTypeOK', UNCHANGED <<pc, query>>,
           \A x \in McuIds : mcu'[x].armed => mcu[x].armed,
           \A x \in McuIds : \A r \in Range(reps'[x]) :
             r \in Range(reps[x]) \/ (r.kind = "ack" => ~mcu'[x].armed)
    PROVE  AnswersInv'
  <1>1. \A x \in McuIds : mcu[x].armed \in BOOLEAN /\ mcu'[x].armed \in BOOLEAN
    BY DEF IInv, TypeOK, LinksTypeOK, Trsync
  <1>2. pc = "stop" => query.mcu \in McuIds
    BY DEF IInv, QueryInv
  <1>. QED
    BY <1>1, <1>2 DEF IInv, AnswersInv, StoppedWhenDone

\* stop() asks the next controller when the one before has acknowledged, and
\* has it stopped by then.
LEMMA AnswersStep ==
    ASSUME IInv, [Next]_vars
    PROVE  AnswersInv'
  <1>. USE DEF IInv, TypeOK
  <1>0. LinksTypeOK'
    BY LinksTypeOKStep
  <1>1. CASE Tick
    BY <1>0, <1>1, NoQuestion DEF Tick, mcus, link, python
  <1>2. CASE Host
    <2>1. mcu' = mcu /\ reps' = reps
      BY <1>2, HostLeaves
    <2>2. CASE StopDispatch
      <3>1. pc' = "stop" /\ query'.acked = FALSE /\ query'.mcu = 0
        BY <2>2 DEF StopDispatch, Ask
      <3>2. \A m \in McuIds : ~(m < 0)
        BY TrSyncAssumption DEF McuIds
      <3>. QED
        BY <2>1, <3>1, <3>2 DEF AnswersInv, StoppedWhenDone
    <2>3. CASE QueryReturns
      <3>1. /\ pc = "stop" /\ query.mcu \in McuIds /\ ~mcu[query.mcu].armed
            /\ \A m \in McuIds : m < query.mcu => ~mcu[m].armed
        BY <2>3 DEF QueryReturns, Answered, QueryInv, AnswersInv
      <3>2. \A m \in McuIds : m < query.mcu + 1 => ~mcu[m].armed
        <4>1. \A m \in McuIds : m < query.mcu + 1 => m < query.mcu \/ m = query.mcu
          BY <3>1, TrSyncAssumption DEF McuIds
        <4>. QED
          BY <3>1, <4>1
      <3>3. CASE IsLast(query.mcu)
        <4>1. \A m \in McuIds : m < query.mcu + 1
          BY <3>3, TrSyncAssumption DEF IsLast, McuIds
        <4>2. pc' = "done"
          BY <2>3, <3>3 DEF QueryReturns
        <4>. QED
          BY <2>1, <3>2, <4>1, <4>2 DEF AnswersInv, StoppedWhenDone
      <3>4. CASE ~IsLast(query.mcu)
        <4>1. pc' = "stop" /\ query'.acked = FALSE /\ query'.mcu = query.mcu + 1
          BY <2>3, <3>1, <3>4 DEF QueryReturns, Ask
        <4>. QED
          BY <2>1, <3>2, <4>1 DEF AnswersInv, StoppedWhenDone
      <3>. QED
        BY <3>3, <3>4
    <2>4. CASE QueryAgain
      <3>1. pc = "stop" /\ pc' = "stop" /\ query'.acked = FALSE /\ query'.mcu = query.mcu
        BY <2>4 DEF QueryAgain, Ask
      <3>. QED
        BY <2>1, <3>1 DEF AnswersInv, StoppedWhenDone
    <2>5. CASE EndOfMove \/ QueryFails \/ Shutdown
      <3>1. query' = query /\ (pc' = pc \/ pc' = "wait" \/ pc' = "error")
        BY <2>5 DEF EndOfMove, QueryFails, Shutdown
      <3>. QED
        BY <2>1, <3>1 DEF AnswersInv, StoppedWhenDone
    <2>. QED
      BY <1>2, <2>2, <2>3, <2>4, <2>5 DEF Host
  <1>3. CASE EndstopHit \/ \E m \in McuIds : Controller(m)
    <2>1. UNCHANGED <<pc, query>> /\ \A x \in McuIds : mcu'[x].armed => mcu[x].armed
      BY <1>3, ControllerLeaves DEF python
    <2>2. \A x \in McuIds : \A r \in Range(reps'[x]) :
            r \in Range(reps[x]) \/ (r.kind = "ack" => ~mcu'[x].armed)
      BY <1>3, ControllerLeaves
    <2>. QED
      BY <1>0, <2>1, <2>2, NoQuestion
  <1>4. ASSUME NEW m \in McuIds, Loses(m) PROVE AnswersInv'
    <2>1. UNCHANGED <<mcu, pc, query>>
      BY <1>4 DEF Loses, mcus, python
    <2>2. \A x \in McuIds : Range(reps'[x]) \subseteq Range(reps[x])
      <3>1. reps[m] # <<>> /\ reps' = [reps EXCEPT ![m] = Tail(@)] /\ reps \in [McuIds -> Seq(Messages)]
        BY <1>4 DEF Loses, LinksTypeOK
      <3>2. reps[m] \in Seq(Messages) /\ Range(Tail(reps[m])) \subseteq Range(reps[m])
        BY <3>1, TailRange
      <3>. QED
        BY <3>1, <3>2
    <2>. QED
      BY <1>0, <2>1, <2>2, NoQuestion
  <1>5. ASSUME NEW m \in McuIds, Fails(m) PROVE AnswersInv'
    BY <1>0, <1>5, NoQuestion DEF Fails, mcus, python
  <1>6. ASSUME NEW m \in McuIds, Receives(m) PROVE AnswersInv'
    <2>. DEFINE r == Head(reps[m])
    <2>1. mcu' = mcu /\ pc' = pc
      BY <1>6, ReceivesLeaves
    <2>2. /\ \A x \in McuIds : Range(reps'[x]) \subseteq Range(reps[x])
          /\ r \in Range(reps[m])
      <3>1. reps[m] # <<>> /\ reps' = [reps EXCEPT ![m] = Tail(@)] /\ reps \in [McuIds -> Seq(Messages)]
        BY <1>6, ReceivesLeaves DEF LinksTypeOK
      <3>2. reps[m] \in Seq(Messages) /\ Range(Tail(reps[m])) \subseteq Range(reps[m]) /\ r \in Range(reps[m])
        BY <3>1, TailRange
      <3>. QED
        BY <3>1, <3>2
    <2>3. PyHandleTrsyncState(m, r)
      BY <1>6 DEF Receives
    <2>. HIDE DEF r
    <2>4. r.kind = "ack" => ~mcu[m].armed
      BY <2>2 DEF AnswersInv
    <2>5. \/ query' = query
          \/ m = query.mcu /\ query' = [query EXCEPT !.acked = TRUE] /\ r.kind = "ack"
          \/ query' = [query EXCEPT !.answer = r.reason]
      BY <2>3 DEF PyHandleTrsyncState
    <2>6. /\ query'.mcu = query.mcu
          /\ query'.acked => query.acked \/ ~mcu[query.mcu].armed
      <3>1. query \in [mcu : McuIds \cup {None}, answer : Reasons \cup {None}, acked : BOOLEAN]
        BY DEF HostTypeOK
      <3>. QED
        BY <2>4, <2>5, <3>1
    <2>. QED
      BY <2>1, <2>2, <2>6 DEF AnswersInv, StoppedWhenDone
  <1>7. CASE UNCHANGED vars
    BY <1>0, <1>7, NoQuestion DEF vars, mcus, link, python
  <1>. QED
    BY <1>1, <1>2, <1>3, <1>4, <1>5, <1>6, <1>7 DEF Next

\* The first report of a trsync is due at some time.
LEMMA FirstReportIsDue ==
    ASSUME NEW m \in McuIds
    PROVE  FirstReport(m) \in Nat
  <1>1. m \in Nat /\ Report \in Nat /\ N \in Nat \ {0}
    BY TrSyncAssumption DEF McuIds
  <1>2. 2 * Report * m \in Nat
    BY <1>1
  <1>3. 2 * Report * m + N \in Nat /\ 2 * N \in Nat \ {0}
    BY <1>1, <1>2
  <1>4. \A a \in Nat, b \in Nat \ {0} : a \div b \in Nat
    OBVIOUS
  <1>. QED
    BY <1>3, <1>4 DEF FirstReport

LEMMA InitInv == Init => IInv
  <1>. SUFFICES ASSUME Init
                PROVE  IInv
    OBVIOUS
  <1>. USE TrSyncAssumption
  <1>1. ClocksTypeOK
    BY DEF Init, ClocksTypeOK, Times, None
  <1>2. /\ \A m \in McuIds : mcu[m].armed /\ mcu[m].expire = Timeout /\ cmds[m] = <<>> /\ reps[m] = <<>>
        /\ mcu \in [McuIds -> Trsync]
    <2>1. Timeout \in Times
      BY DEF Times
    <2>2. \A m \in McuIds : [armed |-> TRUE, reason |-> 0, expire |-> Timeout, next |-> FirstReport(m)] \in Trsync
      BY <2>1, FirstReportIsDue DEF Trsync, Reasons, COMMS_TIMEOUT
    <2>. QED
      BY <2>2 DEF Init
  <1>3. LinksTypeOK
    <2>1. Cardinality({}) = 0
      BY FS_EmptySet
    <2>2. Faults \in 0 .. MaxFaults
      BY <2>1 DEF Init, Faults
    <2>. QED
      BY <1>2, <2>2 DEF Init, LinksTypeOK
  <1>4. HostTypeOK /\ QueryInv
    <2>1. query \in [mcu : McuIds \cup {None}, answer : Reasons \cup {None}, acked : BOOLEAN]
      BY DEF Init
    <2>2. <<>> \in Seq(Reasons) /\ Len(<<>>) = 0 /\ 0 <= N
      OBVIOUS
    <2>3. res \in Seq(Reasons) /\ Len(res) <= N
      BY <2>2 DEF Init
    <2>. QED
      BY <2>1, <2>3 DEF Init, HostTypeOK, QueryInv
  <1>5. \A m \in McuIds : expire_clock[m] = Timeout /\ last_status_clock[m] = 0 /\ Range(reps[m]) = {}
    BY <1>2 DEF Init, Range
  <1>6. TimersInv
    BY <1>2, <1>5 DEF Init, TimersInv, Ascending
  <1>7. ReportsInv
    BY <1>5 DEF Init, ReportsInv
  <1>8. StopInv
    BY <1>2, <1>5 DEF Init, StopInv
  <1>9. AnswersInv
    BY <1>5 DEF Init, AnswersInv, StoppedWhenDone
  <1>. QED
    BY <1>1, <1>3, <1>4, <1>6, <1>7, <1>8, <1>9 DEF IInv, TypeOK

\* Every step keeps it.
LEMMA StepInv ==
    ASSUME IInv, [Next]_vars
    PROVE  IInv'
  <1>1. ClocksTypeOK' /\ LinksTypeOK' /\ HostTypeOK' /\ QueryInv'
    BY ClocksTypeOKStep, LinksTypeOKStep, HostTypeOKStep
  <1>2. TimersInv' /\ ReportsInv' /\ StopInv' /\ AnswersInv'
    BY TimersStep, StopStep, AnswersStep
  <1>. QED
    BY <1>1, <1>2 DEF IInv, TypeOK

\* The invariant holds in every reachable state, for any number of controllers,
\* any timing and any loss.
THEOREM Invariance == Spec => []IInv
  <1>1. IInv /\ [Next]_vars => IInv'
    BY StepInv
  <1>. QED
    BY <1>1, InitInv, PTL DEF Spec

\* Every variable keeps its type; stop() collects at most one reason of each
\* trsync.
THEOREM TypeCorrect == Spec => []TypeOK
  <1>1. IInv => TypeOK
    BY DEF IInv
  <1>. QED
    BY <1>1, Invariance, PTL

\* Once one controller has stopped its steppers, every other one stops within
\* Timeout, whatever reports are lost, links fail and the host does.
THEOREM AllStopInTime == Spec => []StopsInTime
  <1>1. IInv => StopsInTime
    <2>. SUFFICES ASSUME IInv, stopped # None, NEW m \in McuIds, mcu[m].armed
                  PROVE  now <= stopped + Timeout
      BY DEF StopsInTime
    <2>1. PICK s \in McuIds : HoldsBack(s)
      BY DEF IInv, StopInv
    <2>2. m # s /\ expire_clock[m] <= stopped + Timeout
      BY <2>1 DEF HoldsBack
    <2>3. now <= mcu[m].expire /\ mcu[m].expire <= expire_clock[m]
      BY DEF IInv, TimersInv
    <2>4. /\ now \in Int /\ mcu[m].expire \in Int /\ expire_clock[m] \in Int
          /\ stopped + Timeout \in Int
      BY TrSyncAssumption DEF IInv, TypeOK, ClocksTypeOK, LinksTypeOK, Trsync, Times, None
    <2>. QED
      BY <2>2, <2>3, <2>4
  <1>. QED
    BY <1>1, Invariance, PTL

\* When stop() has an answer from every trsync, every controller has stopped its
\* steppers: none is acknowledged before it did.
THEOREM AllStoppedWhenDone == Spec => []StoppedWhenDone
  <1>1. IInv => StoppedWhenDone
    BY DEF IInv, AnswersInv
  <1>. QED
    BY <1>1, Invariance, PTL
-----------------------------------------------------------------------------
(* What homing_move may trust of the answers stop() gets.                  *)

\* The reports of a trsync that works, and of one that has stopped.
Live(r) == r.kind = "state" /\ r.armed
Halt(r) == r.kind = "state" /\ ~r.armed

\* Whatever a trsync that works has sent comes before what it sends later.
LiveFirst(q) == \A i, j \in 1 .. Len(q) : ~Live(q[i]) /\ Live(q[j]) => j < i

\* One report, or two, that the trsync has stopped come before every
\* acknowledgement.
HaltBefore(q) ==
    \A k \in 1 .. Len(q) : q[k].kind = "ack" => \E i \in 1 .. k - 1 : Halt(q[i])
TwoHaltsBefore(q) ==
    \A k \in 1 .. Len(q) : q[k].kind = "ack" =>
        \E i, j \in 1 .. k - 1 : i # j /\ Halt(q[i]) /\ Halt(q[j])

\* A trsync that works has no reason; only the endstop's is triggered by it, or
\* is told that the move is over.
ReasonInv ==
    \A m \in McuIds :
        /\ mcu[m].armed <=> mcu[m].reason = 0
        /\ mcu[m].reason \in {ENDSTOP_HIT, PAST_END_TIME} => m = 0
        /\ \A c \in Range(cmds[m]) : c.kind # "set_timeout" =>
             c.arg = HOST_REQUEST \/ (c.arg = PAST_END_TIME /\ m = 0)

\* A report says why its trsync stopped, or that it worked then; there are
\* questions and acknowledgements only once stop() asks.
MessagesInv ==
    \A m \in McuIds :
        /\ LiveFirst(reps[m])
        /\ \A r \in Range(reps[m]) :
             /\ Live(r) => r.reason = 0
             /\ Halt(r) => ~mcu[m].armed /\ r.reason = mcu[m].reason
             /\ r.kind = "ack" => pc \notin {"move", "wait"}
        /\ \A c \in Range(cmds[m]) : c.kind = "query" => c.arg = HOST_REQUEST /\ pc \notin {"move", "wait"}

\* The fast readers are there until stop(), which the completion starts.
HostInv ==
    /\ reading => pc \in {"move", "wait"}
    /\ pc \in {"stop", "done"} => completion
    /\ pc = "done" => Len(res) = N

\* An answer is the reason of its trsync, or from before that one stopped; one
\* that is taken is that of a trsync that has.
TruthInv ==
    /\ pc = "stop" => query.answer \in {None, 0, mcu[query.mcu].reason}
    /\ pc = "stop" /\ query.acked => \A r \in Range(reps[query.mcu]) : ~Live(r)
    /\ \A m \in McuIds : m < Len(res) => ~mcu[m].armed /\ res[m + 1] \in {0, mcu[m].reason}

\* stop() may yet take, or has taken, the trsync for one that works.
Stale(m) ==
    \/ \E r \in Range(reps[m]) : Live(r)
    \/ pc = "stop" /\ query.mcu = m /\ query.answer = 0

\* For that two reports that m has stopped must be lost: of when it did, unless
\* the question itself stopped it, and of when it was asked.
ByItself(m) == mcu[m].reason \notin {0, HOST_REQUEST}
Missed(m) ==
    /\ ~mcu[m].armed /\ Stale(m) =>
         m \in failed \/ lost >= 1 \/ \E r \in Range(reps[m]) : Halt(r)
    /\ ByItself(m) /\ Stale(m) =>
         lost >= 2 \/ (lost >= 1 /\ HaltBefore(reps[m])) \/ TwoHaltsBefore(reps[m])
    /\ ByItself(m) /\ pc = "stop" /\ query.mcu = m /\ query.acked /\ query.answer = 0 => lost >= 2
    /\ ByItself(m) /\ m < Len(res) /\ res[m + 1] = 0 => lost >= 2
MissedInv == \A m \in McuIds : Missed(m)

\* No report that m works is under way any more, and stop() has or will have
\* its reason.
Heard(m) ==
    /\ ~mcu[m].armed /\ \A r \in Range(reps[m]) : ~Live(r)
    /\ pc = "stop" /\ query.mcu = m => query.answer \in {None, mcu[m].reason}
    /\ m < Len(res) => res[m + 1] = mcu[m].reason

\* The host has stopped a controller, will, or wants to.
HostStops ==
    \/ ~can_trigger \/ completion
    \/ \E m \in McuIds : mcu[m].reason = HOST_REQUEST
    \/ \E m \in McuIds : \E c \in Range(cmds[m]) : c.kind # "set_timeout" /\ c.arg = HOST_REQUEST

\* It does so only if it has heard of one that stopped by itself, or of a link
\* that failed.
HeardInv ==
    failed = {} /\ HostStops => \E m \in McuIds : Heard(m) /\ mcu[m].reason # HOST_REQUEST

\* With them the invariant of above is inductive again.
HomedInv == IInv /\ ReasonInv /\ MessagesInv /\ HostInv /\ TruthInv /\ MissedInv /\ HeardInv

-----------------------------------------------------------------------------
(* Queues of reports.                                                      *)

\* The first report is taken away.
LEMMA HaltsTail ==
    ASSUME NEW q \in Seq(Messages), q # <<>>
    PROVE  /\ LiveFirst(q) => LiveFirst(Tail(q)) /\ (~Live(Head(q)) => \A r \in Range(Tail(q)) : ~Live(r))
           /\ TwoHaltsBefore(q) => HaltBefore(q) /\ HaltBefore(Tail(q))
           /\ ~Halt(Head(q)) =>
                (HaltBefore(q) => HaltBefore(Tail(q))) /\ (TwoHaltsBefore(q) => TwoHaltsBefore(Tail(q)))
           /\ Head(q).kind = "ack" => ~HaltBefore(q) /\ ~TwoHaltsBefore(q)
  <1>. DEFINE t == Tail(q)
  <1>1. /\ Len(q) \in Nat \ {0} /\ Len(t) = Len(q) - 1 /\ Head(q) = q[1]
        /\ \A i \in 1 .. Len(t) : t[i] = q[i + 1] /\ i + 1 \in 1 .. Len(q) /\ i + 1 # 1
        /\ t \in Seq(Messages)
    OBVIOUS
  <1>. HIDE DEF t
  <1>2. 1 \in 1 .. Len(q) /\ Range(t) = {t[i] : i \in 1 .. Len(t)}
    <2>1. 1 \in 1 .. Len(q)
      BY <1>1
    <2>. QED
      BY <1>1, <2>1, QueueRange
  <1>3. ASSUME LiveFirst(q)
        PROVE  LiveFirst(t) /\ (~Live(Head(q)) => \A r \in Range(t) : ~Live(r))
    <2>1. ASSUME NEW i \in 1 .. Len(t), NEW j \in 1 .. Len(t), ~Live(t[i]), Live(t[j])
          PROVE  j < i
      <3>1. j + 1 < i + 1
        BY <1>1, <1>3, <2>1 DEF LiveFirst
      <3>. QED
        BY <1>1, <3>1
    <2>2. ASSUME ~Live(Head(q)), NEW i \in 1 .. Len(t), Live(t[i])
          PROVE  FALSE
      <3>1. i + 1 < 1
        BY <1>1, <1>2, <1>3, <2>2 DEF LiveFirst
      <3>. QED
        BY <1>1, <3>1
    <2>. QED
      BY <1>2, <2>1, <2>2 DEF LiveFirst
  <1>4. ASSUME NEW k \in 1 .. Len(t), t[k].kind = "ack"
        PROVE  /\ ~Halt(Head(q)) /\ HaltBefore(q) => \E i \in 1 .. k - 1 : Halt(t[i])
               /\ TwoHaltsBefore(q) => \E i \in 1 .. k - 1 : Halt(t[i])
               /\ ~Halt(Head(q)) /\ TwoHaltsBefore(q) =>
                    \E i, j \in 1 .. k - 1 : i # j /\ Halt(t[i]) /\ Halt(t[j])
    <2>1. q[k + 1].kind = "ack" /\ k + 1 \in 1 .. Len(q)
      BY <1>1, <1>4
    <2>2. \A i \in 1 .. (k + 1) - 1 : i # 1 => i - 1 \in 1 .. k - 1 /\ t[i - 1] = q[i]
      <3>1. \A i \in 1 .. (k + 1) - 1 : i # 1 => i - 1 \in 1 .. k - 1 /\ i - 1 \in 1 .. Len(t) /\ (i - 1) + 1 = i
        BY <1>1
      <3>. QED
        BY <1>1, <3>1
    <2>3. ASSUME ~Halt(Head(q)), HaltBefore(q)
          PROVE  \E i \in 1 .. k - 1 : Halt(t[i])
      <3>1. PICK i \in 1 .. (k + 1) - 1 : Halt(q[i])
        BY <2>1, <2>3 DEF HaltBefore
      <3>2. i # 1
        BY <1>1, <2>3, <3>1
      <3>. QED
        BY <2>2, <3>1, <3>2
    <2>4. ASSUME TwoHaltsBefore(q)
          PROVE  /\ \E i \in 1 .. k - 1 : Halt(t[i])
                 /\ ~Halt(Head(q)) => \E i, j \in 1 .. k - 1 : i # j /\ Halt(t[i]) /\ Halt(t[j])
      <3>1. PICK i, j \in 1 .. (k + 1) - 1 : i # j /\ Halt(q[i]) /\ Halt(q[j])
        BY <2>1, <2>4 DEF TwoHaltsBefore
      <3>2. \E l \in 1 .. k - 1 : Halt(t[l])
        BY <2>2, <3>1
      <3>3. ASSUME ~Halt(Head(q))
            PROVE  \E a, b \in 1 .. k - 1 : a # b /\ Halt(t[a]) /\ Halt(t[b])
        <4>1. i # 1 /\ j # 1
          BY <1>1, <3>1, <3>3
        <4>2. i - 1 # j - 1
          BY <1>1, <3>1
        <4>. QED
          BY <2>2, <3>1, <4>1, <4>2
      <3>. QED
        BY <3>2, <3>3
    <2>. QED
      BY <2>3, <2>4
  <1>5. TwoHaltsBefore(q) => HaltBefore(q)
    BY DEF TwoHaltsBefore, HaltBefore
  <1>6. Head(q).kind = "ack" => ~HaltBefore(q)
    <2>1. \A i : i \notin 1 .. 1 - 1
      OBVIOUS
    <2>. QED
      BY <1>1, <1>2, <2>1 DEF HaltBefore
  <1>. QED
    BY <1>3, <1>4, <1>5, <1>6 DEF HaltBefore, TwoHaltsBefore, t

\* One more report is sent.
LEMMA HaltsAppend ==
    ASSUME NEW q \in Seq(Messages), NEW r \in Messages
    PROVE  /\ Append(q, r) \in Seq(Messages) /\ Range(Append(q, r)) = Range(q) \cup {r}
           /\ LiveFirst(q) /\ (Live(r) => \A s \in Range(q) : Live(s)) => LiveFirst(Append(q, r))
           /\ r.kind # "ack" =>
                /\ HaltBefore(q) => HaltBefore(Append(q, r))
                /\ TwoHaltsBefore(q) => TwoHaltsBefore(Append(q, r))
  <1>. DEFINE t == Append(q, r)
  <1>1. /\ Len(q) \in Nat /\ Len(t) = Len(q) + 1 /\ t \in Seq(Messages)
        /\ \A i \in 1 .. Len(q) : t[i] = q[i] /\ i \in 1 .. Len(t)
        /\ t[Len(q) + 1] = r
        /\ \A i \in 1 .. Len(t) : i \in 1 .. Len(q) \/ i = Len(q) + 1
    OBVIOUS
  <1>2. Range(q) = {q[i] : i \in 1 .. Len(q)} /\ Range(t) = {t[i] : i \in 1 .. Len(t)}
    BY <1>1, QueueRange
  <1>. HIDE DEF t
  <1>3. Range(t) = Range(q) \cup {r}
    <2>1. \A i \in 1 .. Len(t) : t[i] \in Range(q) \cup {r}
      BY <1>1, <1>2
    <2>2. Len(q) + 1 \in 1 .. Len(t)
      BY <1>1
    <2>. QED
      BY <1>1, <1>2, <2>1, <2>2
  <1>4. ASSUME LiveFirst(q), Live(r) => \A s \in Range(q) : Live(s)
        PROVE  LiveFirst(t)
    <2>. SUFFICES ASSUME NEW i \in 1 .. Len(t), NEW j \in 1 .. Len(t), ~Live(t[i]), Live(t[j])
                  PROVE  j < i
      BY DEF LiveFirst
    <2>1. CASE i \in 1 .. Len(q) /\ j \in 1 .. Len(q)
      BY <1>1, <1>4, <2>1 DEF LiveFirst
    <2>2. CASE i \in 1 .. Len(q) /\ j = Len(q) + 1
      BY <1>1, <1>2, <1>4, <2>2
    <2>3. CASE i = Len(q) + 1
      <3>1. j # i
        OBVIOUS
      <3>. QED
        BY <1>1, <2>3, <3>1
    <2>. QED
      BY <1>1, <2>1, <2>2, <2>3
  <1>5. ASSUME r.kind # "ack", NEW k \in 1 .. Len(t), t[k].kind = "ack"
        PROVE  k \in 1 .. Len(q) /\ q[k].kind = "ack" /\ \A i \in 1 .. k - 1 : t[i] = q[i]
    BY <1>1, <1>5
  <1>6. r.kind # "ack" /\ HaltBefore(q) => HaltBefore(t)
    BY <1>5 DEF HaltBefore
  <1>7. r.kind # "ack" /\ TwoHaltsBefore(q) => TwoHaltsBefore(t)
    BY <1>5 DEF TwoHaltsBefore
  <1>. QED
    BY <1>1, <1>3, <1>4, <1>6, <1>7 DEF t

\* An acknowledgement is sent, behind one more report that the trsync has stopped.
LEMMA HaltsAck ==
    ASSUME NEW q \in Seq(Messages), NEW r \in Messages, NEW a \in Messages, Halt(r)
    PROVE  /\ HaltBefore(q) => HaltBefore(Append(Append(q, r), a))
           /\ TwoHaltsBefore(q) /\ (\E s \in Range(q) : Halt(s)) => TwoHaltsBefore(Append(Append(q, r), a))
  <1>. DEFINE u == Append(q, r)
              t == Append(u, a)
  <1>1. /\ Len(q) \in Nat /\ Len(u) = Len(q) + 1 /\ u \in Seq(Messages)
        /\ \A i \in 1 .. Len(q) : u[i] = q[i]
        /\ u[Len(q) + 1] = r
    OBVIOUS
  <1>. HIDE DEF u
  <1>2. /\ Len(t) = Len(q) + 2
        /\ \A i \in 1 .. Len(q) + 1 : t[i] = u[i]
    BY <1>1
  <1>. HIDE DEF t
  <1>3. /\ \A i \in 1 .. Len(q) : t[i] = q[i]
        /\ Halt(t[Len(q) + 1])
        /\ \A k \in 1 .. Len(t) : k \in 1 .. Len(q) \/ k = Len(q) + 1 \/ k = Len(q) + 2
    BY <1>1, <1>2
  <1>4. \A k \in 1 .. Len(t) : t[k].kind = "ack" =>
          \/ k \in 1 .. Len(q) /\ q[k].kind = "ack" /\ \A i \in 1 .. k - 1 : t[i] = q[i]
          \/ k = Len(q) + 2
    BY <1>1, <1>3 DEF Halt
  <1>5. Len(q) + 1 \in 1 .. (Len(q) + 2) - 1
    BY <1>1
  <1>6. HaltBefore(q) => HaltBefore(t)
    BY <1>3, <1>4, <1>5 DEF HaltBefore
  <1>7. ASSUME TwoHaltsBefore(q), NEW s \in Range(q), Halt(s)
        PROVE  TwoHaltsBefore(t)
    <2>1. PICK i \in 1 .. Len(q) : s = q[i]
      BY <1>7, QueueRange
    <2>2. i # Len(q) + 1 /\ i \in 1 .. (Len(q) + 2) - 1 /\ Halt(t[i])
      BY <1>1, <1>3, <1>7, <2>1
    <2>3. \E b, c \in 1 .. (Len(q) + 2) - 1 : b # c /\ Halt(t[b]) /\ Halt(t[c])
      BY <1>3, <1>5, <2>2
    <2>. QED
      BY <1>4, <1>7, <2>3 DEF TwoHaltsBefore
  <1>. QED
    BY <1>6, <1>7 DEF t, u

-----------------------------------------------------------------------------
(* What the steps do to the reports, the commands and the reasons.         *)

\* A trsync keeps its state and reason, or stops, for a reason it has.
SameReason(m) == mcu'[m].armed = mcu[m].armed /\ mcu'[m].reason = mcu[m].reason
StopsNow(m) ==
    /\ mcu[m].armed /\ ~mcu'[m].armed /\ mcu'[m].reason # 0
    /\ mcu'[m].reason \in {ENDSTOP_HIT, PAST_END_TIME} => m = 0
    /\ mcu'[m].reason = HOST_REQUEST =>
         \E c \in Range(cmds[m]) : c.kind # "set_timeout" /\ c.arg = HOST_REQUEST
Sends(m, messages) == reps' = [reps EXCEPT ![m] = IF m \in failed THEN @ ELSE @ \o messages]

\* What a controller sends says what it is by then.
Says(m) ==
    \/ reps' = reps /\ SameReason(m)
    \/ Sends(m, <<State(mcu'[m])>>) /\ (SameReason(m) \/ StopsNow(m))
    \/ /\ Sends(m, <<State(mcu'[m]), Ack>>) /\ ~mcu'[m].armed
       /\ \E c \in Range(cmds[m]) : c.kind = "query"
       /\ SameReason(m) \/ (StopsNow(m) /\ mcu'[m].reason = HOST_REQUEST)

\* The commands under way to a controller only get fewer.
LEMMA CommandsTaken ==
    ASSUME LinksTypeOK, NEW m \in McuIds, cmds[m] # <<>>, cmds' = [cmds EXCEPT ![m] = Tail(@)]
    PROVE  /\ Head(cmds[m]) \in Range(cmds[m])
           /\ \A x \in McuIds : Range(cmds'[x]) \subseteq Range(cmds[x])
  <1>1. cmds \in [McuIds -> Seq(Commands)] /\ cmds[m] \in Seq(Commands)
    BY DEF LinksTypeOK
  <1>2. Range(Tail(cmds[m])) \subseteq Range(cmds[m]) /\ Head(cmds[m]) \in Range(cmds[m])
    BY <1>1, TailRange
  <1>. QED
    BY <1>1, <1>2

\* Only a trsync that works takes a reason.
LEMMA TriggeredReason ==
    ASSUME NEW t \in Trsync, NEW reason \in Reasons
    PROVE  /\ ~Triggered(t, reason).armed
           /\ Triggered(t, reason).reason = IF t.armed THEN reason ELSE t.reason
  BY DEF Triggered, Trsync

\* A step of a controller is one of a trsync.
LEMMA ControllerSays ==
    ASSUME IInv, ReasonInv, MessagesInv, EndstopHit \/ \E m \in McuIds : Controller(m)
    PROVE  \E m \in McuIds :
             /\ mcu' \in [McuIds -> Trsync] /\ \A x \in McuIds \ {m} : mcu'[x] = mcu[x]
             /\ \A x \in McuIds : Range(cmds'[x]) \subseteq Range(cmds[x])
             /\ Says(m)
             /\ UNCHANGED <<failed, lost, disp, python>>
  <1>0. /\ ClocksTypeOK /\ LinksTypeOK /\ mcu \in [McuIds -> Trsync]
        /\ UNCHANGED <<failed, lost, disp, python>> /\ mcu' \in [McuIds -> Trsync]
    BY ControllerLeaves DEF IInv, TypeOK, LinksTypeOK
  <1>1. ASSUME NEW m \in McuIds, NEW reason \in Reasons \ {0}, Stop(m, reason),
               reason # HOST_REQUEST, reason \in {ENDSTOP_HIT, PAST_END_TIME} => m = 0
        PROVE  /\ \A x \in McuIds \ {m} : mcu'[x] = mcu[x]
               /\ cmds' = cmds /\ Says(m)
    <2>1. /\ mcu' = [mcu EXCEPT ![m] = Triggered(@, reason)] /\ mcu[m].armed /\ cmds' = cmds
          /\ Sends(m, <<State(mcu'[m])>>)
      BY <1>1 DEF Stop, Send, Sends
    <2>2. mcu[m] \in Trsync /\ mcu'[m] = Triggered(mcu[m], reason) /\ \A x \in McuIds \ {m} : mcu'[x] = mcu[x]
      BY <1>0, <2>1
    <2>3. ~mcu'[m].armed /\ mcu'[m].reason = reason
      BY <2>1, <2>2, TriggeredReason
    <2>4. StopsNow(m)
      BY <1>1, <2>1, <2>3 DEF StopsNow
    <2>. QED
      BY <2>1, <2>2, <2>4 DEF Says
  <1>2. CASE EndstopHit
    <2>1. 0 \in McuIds /\ ENDSTOP_HIT \in Reasons \ {0} /\ ENDSTOP_HIT # HOST_REQUEST
      BY TrSyncAssumption DEF McuIds, Reasons, ENDSTOP_HIT, COMMS_TIMEOUT, HOST_REQUEST
    <2>2. /\ \A x \in McuIds \ {0} : mcu'[x] = mcu[x]
          /\ cmds' = cmds /\ Says(0)
      BY <1>1, <1>2, <2>1 DEF EndstopHit
    <2>. QED
      BY <1>0, <2>1, <2>2
  <1>3. ASSUME NEW m \in McuIds, Expires(m)
        PROVE  /\ \A x \in McuIds \ {m} : mcu'[x] = mcu[x]
               /\ cmds' = cmds /\ Says(m)
    <2>1. /\ COMMS_TIMEOUT \in Reasons \ {0} /\ COMMS_TIMEOUT # HOST_REQUEST
          /\ COMMS_TIMEOUT \notin {ENDSTOP_HIT, PAST_END_TIME}
      BY DEF Reasons, COMMS_TIMEOUT, HOST_REQUEST, ENDSTOP_HIT, PAST_END_TIME
    <2>. QED
      BY <1>1, <1>3, <2>1 DEF Expires
  <1>4. ASSUME NEW m \in McuIds, Reports(m)
        PROVE  /\ \A x \in McuIds \ {m} : mcu'[x] = mcu[x]
               /\ cmds' = cmds /\ Says(m)
    <2>1. /\ mcu' = [mcu EXCEPT ![m].next = @ + Report] /\ cmds' = cmds
          /\ Sends(m, <<State(mcu[m])>>)
      BY <1>4 DEF Reports, Send, Sends
    <2>2. /\ mcu[m] \in Trsync /\ mcu'[m] = [mcu[m] EXCEPT !.next = mcu[m].next + Report]
          /\ \A x \in McuIds \ {m} : mcu'[x] = mcu[x]
      BY <1>0, <2>1
    <2>3. mcu'[m].armed = mcu[m].armed /\ mcu'[m].reason = mcu[m].reason
      BY <2>2 DEF Trsync
    <2>4. State(mcu[m]) = State(mcu'[m])
      BY <2>3 DEF State
    <2>. QED
      BY <2>1, <2>2, <2>3, <2>4 DEF Says, SameReason
  <1>5. ASSUME NEW m \in McuIds, Executes(m)
        PROVE  /\ \A x \in McuIds \ {m} : mcu'[x] = mcu[x]
               /\ \A x \in McuIds : Range(cmds'[x]) \subseteq Range(cmds[x])
               /\ Says(m)
    <2>. DEFINE c == Head(cmds[m])
    <2>1. cmds[m] # <<>> /\ cmds' = [cmds EXCEPT ![m] = Tail(@)] /\ c \in Commands
      BY <1>0, <1>5, ExecutesLeaves
    <2>2. c \in Range(cmds[m]) /\ \A x \in McuIds : Range(cmds'[x]) \subseteq Range(cmds[x])
      BY <1>0, <2>1, CommandsTaken
    <2>. HIDE DEF c
    <2>3. CASE /\ c.kind = "set_timeout"
               /\ mcu' = [mcu EXCEPT ![m].expire = IF mcu[m].armed THEN c.arg ELSE @] /\ reps' = reps
      <3>1. /\ mcu[m] \in Trsync /\ mcu'[m] = [mcu[m] EXCEPT !.expire = IF mcu[m].armed THEN c.arg ELSE mcu[m].expire]
            /\ \A x \in McuIds \ {m} : mcu'[x] = mcu[x]
        BY <1>0, <2>3
      <3>2. SameReason(m)
        BY <3>1 DEF SameReason, Trsync
      <3>. QED
        BY <2>2, <2>3, <3>1, <3>2 DEF Says
    <2>4. CASE /\ c.kind # "set_timeout" /\ mcu' = [mcu EXCEPT ![m] = [Triggered(@, c.arg) EXCEPT !.next = None]]
               /\ Sends(m, IF c.kind = "query" THEN <<State(mcu'[m]), Ack>> ELSE <<State(mcu'[m])>>)
      <3>1. /\ mcu[m] \in Trsync /\ mcu'[m] = [Triggered(mcu[m], c.arg) EXCEPT !.next = None]
            /\ \A x \in McuIds \ {m} : mcu'[x] = mcu[x]
        BY <1>0, <2>4
      <3>2. ~mcu'[m].armed /\ mcu'[m].reason = IF mcu[m].armed THEN c.arg ELSE mcu[m].reason
        <4>1. c.arg \in Reasons
          BY <2>1, <2>4 DEF Commands, c
        <4>2. PICK t \in Trsync : /\ t = Triggered(mcu[m], c.arg) /\ ~t.armed
                                  /\ t.reason = IF mcu[m].armed THEN c.arg ELSE mcu[m].reason
          BY <3>1, <4>1, TriggeredReason, TriggeredLeaves
        <4>3. mcu'[m] = [t EXCEPT !.next = None]
          BY <3>1, <4>2
        <4>4. mcu'[m].armed = t.armed /\ mcu'[m].reason = t.reason
          BY <4>3 DEF Trsync
        <4>. QED
          BY <4>2, <4>4
      <3>3. /\ c.arg = HOST_REQUEST \/ (c.arg = PAST_END_TIME /\ m = 0)
            /\ c.kind = "query" => c.arg = HOST_REQUEST
        BY <2>2, <2>4 DEF ReasonInv, MessagesInv
      <3>4. SameReason(m) \/ (StopsNow(m) /\ (c.kind = "query" => mcu'[m].reason = HOST_REQUEST))
        <4>1. CASE mcu[m].armed
          <5>1. mcu'[m].reason = c.arg
            BY <3>2, <4>1
          <5>2. mcu'[m].reason # 0 /\ (mcu'[m].reason \in {ENDSTOP_HIT, PAST_END_TIME} => m = 0)
            BY <3>3, <5>1 DEF HOST_REQUEST, PAST_END_TIME, ENDSTOP_HIT
          <5>. QED
            BY <2>2, <2>4, <3>2, <3>3, <4>1, <5>1, <5>2 DEF StopsNow
        <4>2. CASE ~mcu[m].armed
          <5>1. mcu[m].armed = FALSE /\ mcu'[m].armed = FALSE
            BY <1>0, <3>2, <4>2 DEF Trsync
          <5>. QED
            BY <3>2, <5>1 DEF SameReason
        <4>. QED
          BY <4>1, <4>2
      <3>5. CASE c.kind = "query"
        BY <2>2, <2>4, <3>1, <3>2, <3>4, <3>5 DEF Says
      <3>6. CASE c.kind # "query"
        BY <2>2, <2>4, <3>1, <3>2, <3>4, <3>6 DEF Says
      <3>. QED
        BY <3>5, <3>6
    <2>. QED
      BY <1>5, <2>3, <2>4 DEF Executes, Send, Sends, c
  <1>6. EndstopHit \/ \E m \in McuIds : Expires(m) \/ Reports(m) \/ Executes(m)
    BY DEF Controller
  <1>. QED
    BY <1>0, <1>2, <1>3, <1>4, <1>5, <1>6

\* A queue to which nothing or one thing is added.
LEMMA OneMore ==
    ASSUME NEW S, NEW q \in Seq(S), NEW a, NEW d, d = <<>> \/ d = <<a>>
    PROVE  /\ q \o d \in Seq(S \cup {a})
           /\ \A c \in Range(q \o d) : c \in Range(q) \/ (c = a /\ d = <<a>>)
  <1>1. CASE d = <<>>
    <2>1. q \o d = q /\ q \in Seq(S \cup {a})
      BY <1>1, ConcatEmptySeq
    <2>. QED
      BY <2>1
  <1>2. CASE d = <<a>>
    <2>1. q \in Seq(S \cup {a}) /\ <<a>> \in Seq(S \cup {a})
      OBVIOUS
    <2>2. Range(<<a>>) = {a}
      BY DEF Range
    <2>3. PICK T : T = S \cup {a}
      OBVIOUS
    <2>4. q \in Seq(T) /\ d \in Seq(T) /\ Range(d) = {a}
      BY <1>2, <2>1, <2>2, <2>3
    <2>5. q \o d \in Seq(T) /\ Range(q \o d) = Range(q) \cup Range(d)
      BY <2>4, ConcatProperties, RangeConcatenation
    <2>. QED
      BY <1>2, <2>3, <2>4, <2>5
  <1>. QED
    BY <1>1, <1>2

\* The commands a report gives rise to: new timeouts, and those that stop.
LEMMA ReceivesCommands ==
    ASSUME LinksTypeOK, NEW m \in McuIds, Receives(m), NEW x \in McuIds, NEW c \in Range(cmds'[x])
    PROVE  \/ c \in Range(cmds[x])
           \/ c.kind = "set_timeout"
           \/ c.kind = "trigger" /\ c.arg = HOST_REQUEST /\ can_trigger' # can_trigger
           \/ c.kind = "trigger" /\ c.arg = PAST_END_TIME /\ x = 0
  <1>. DEFINE d == Dispatched(x)
              e == IF x = m /\ PastEnd(m, Head(reps[m])) THEN Command(m, "trigger", PAST_END_TIME) ELSE <<>>
  <1>1. cmds'[x] = cmds[x] \o d \o e /\ cmds[x] \in Seq(Commands)
    BY DEF Receives, LinksTypeOK
  <1>2. \E a : /\ d = <<>> \/ d = <<a>>
               /\ \/ a.kind = "set_timeout"
                  \/ a.kind = "trigger" /\ a.arg = HOST_REQUEST /\ can_trigger' # can_trigger
                  \/ d = <<>>
    <2>1. CASE d = <<>>
      BY <2>1
    <2>2. CASE d = <<[kind |-> "set_timeout", arg |-> expire_clock'[x], clock |-> now]>>
      <3>1. PICK a : a = [kind |-> "set_timeout", arg |-> expire_clock'[x], clock |-> now]
        OBVIOUS
      <3>2. a.kind = "set_timeout"
        BY <3>1
      <3>. QED
        BY <2>2, <3>1, <3>2
    <2>3. CASE /\ can_trigger' # can_trigger
               /\ d = <<[kind |-> "trigger", arg |-> HOST_REQUEST, clock |-> now]>>
      <3>1. PICK a : a = [kind |-> "trigger", arg |-> HOST_REQUEST, clock |-> now]
        OBVIOUS
      <3>2. a.kind = "trigger" /\ a.arg = HOST_REQUEST
        BY <3>1
      <3>. QED
        BY <2>3, <3>1, <3>2
    <2>. QED
      BY <2>1, <2>2, <2>3 DEF Dispatched, Command
  <1>3. \E b : /\ e = <<>> \/ e = <<b>>
               /\ e = <<>> \/ (b.kind = "trigger" /\ b.arg = PAST_END_TIME /\ x = 0)
    <2>1. CASE e = <<>>
      BY <2>1
    <2>2. CASE x = 0 /\ e = <<[kind |-> "trigger", arg |-> PAST_END_TIME, clock |-> now]>>
      <3>1. PICK b : b = [kind |-> "trigger", arg |-> PAST_END_TIME, clock |-> now]
        OBVIOUS
      <3>2. b.kind = "trigger" /\ b.arg = PAST_END_TIME
        BY <3>1
      <3>. QED
        BY <2>2, <3>1, <3>2
    <2>. QED
      BY <2>1, <2>2 DEF Command, PastEnd
  <1>. HIDE DEF d, e
  <1>4. PICK a : /\ d = <<>> \/ d = <<a>>
                 /\ \/ a.kind = "set_timeout"
                    \/ a.kind = "trigger" /\ a.arg = HOST_REQUEST /\ can_trigger' # can_trigger
                    \/ d = <<>>
    BY <1>2
  <1>5. PICK b : /\ e = <<>> \/ e = <<b>>
                 /\ e = <<>> \/ (b.kind = "trigger" /\ b.arg = PAST_END_TIME /\ x = 0)
    BY <1>3
  <1>6. /\ cmds[x] \o d \in Seq(Commands \cup {a})
        /\ \A y \in Range(cmds[x] \o d) : y \in Range(cmds[x]) \/ (y = a /\ d = <<a>>)
    BY <1>1, <1>4, OneMore
  <1>7. \A y \in Range((cmds[x] \o d) \o e) : y \in Range(cmds[x] \o d) \/ (y = b /\ e = <<b>>)
    BY <1>5, <1>6, OneMore
  <1>8. <<a>> # <<>> /\ <<b>> # <<>>
    OBVIOUS
  <1>. QED
    BY <1>1, <1>4, <1>5, <1>6, <1>7, <1>8

\* The host itself sends no commands but questions.
LEMMA HostCommands ==
    ASSUME IInv, HostInv, Host, NEW x \in McuIds, NEW c \in Range(cmds'[x])
    PROVE  \/ c \in Range(cmds[x])
           \/ c.kind = "query" /\ c.arg = HOST_REQUEST /\ pc' = "stop" /\ completion
  <1>0. cmds \in [McuIds -> Seq(Commands)]
    BY DEF IInv, TypeOK, LinksTypeOK
  <1>1. ASSUME NEW m, Ask(m), pc' = "stop", completion
        PROVE  \/ c \in Range(cmds[x])
               \/ c.kind = "query" /\ c.arg = HOST_REQUEST /\ pc' = "stop" /\ completion
    <2>1. CASE cmds'[x] = cmds[x]
      BY <2>1
    <2>2. CASE cmds'[x] = cmds[x] \o Command(m, "query", HOST_REQUEST)
      <3>1. PICK a : a = [kind |-> "query", arg |-> HOST_REQUEST, clock |-> now]
        OBVIOUS
      <3>2. Command(m, "query", HOST_REQUEST) = <<>> \/ Command(m, "query", HOST_REQUEST) = <<a>>
        BY <3>1 DEF Command
      <3>3. PICK d : d = Command(m, "query", HOST_REQUEST)
        OBVIOUS
      <3>4. cmds[x] \in Seq(Commands)
        BY <1>0
      <3>5. \A y \in Range(cmds[x] \o d) : y \in Range(cmds[x]) \/ y = a
        BY <3>2, <3>3, <3>4, OneMore
      <3>6. a.kind = "query" /\ a.arg = HOST_REQUEST
        BY <3>1
      <3>. QED
        BY <1>1, <2>2, <3>3, <3>5, <3>6
    <2>. QED
      BY <1>0, <1>1, <2>1, <2>2 DEF Ask
  <1>2. CASE StopDispatch \/ QueryReturns \/ QueryAgain
    <2>1. UNCHANGED cmds \/ \E m : Ask(m) /\ pc' = "stop" /\ completion
      BY <1>2 DEF StopDispatch, QueryReturns, QueryAgain, HostInv
    <2>. QED
      BY <1>1, <2>1
  <1>3. CASE EndOfMove \/ QueryFails \/ Shutdown
    BY <1>3 DEF EndOfMove, QueryFails, Shutdown
  <1>. QED
    BY <1>2, <1>3 DEF Host

\* What Says means for the reports under way.
LEMMA SaysMeans ==
    ASSUME IInv, MessagesInv, NEW m \in McuIds, Says(m), mcu' \in [McuIds -> Trsync]
    PROVE  /\ \A x \in McuIds \ {m} : reps'[x] = reps[x]
           /\ SameReason(m) \/ StopsNow(m)
           /\ LiveFirst(reps'[m])
           /\ Range(reps[m]) \subseteq Range(reps'[m])
           /\ \A r \in Range(reps'[m]) :
                \/ r \in Range(reps[m])
                \/ r.kind = "state" /\ r.armed = mcu'[m].armed /\ r.reason = mcu'[m].reason
                \/ r.kind = "ack" /\ \E c \in Range(cmds[m]) : c.kind = "query"
           /\ StopsNow(m) /\ m \notin failed => \E r \in Range(reps'[m]) : Halt(r)
           /\ StopsNow(m) /\ mcu'[m].reason # HOST_REQUEST => TwoHaltsBefore(reps'[m])
           /\ SameReason(m) /\ HaltBefore(reps[m]) /\ ~mcu[m].armed => HaltBefore(reps'[m])
           /\ SameReason(m) /\ TwoHaltsBefore(reps[m]) /\ ~mcu[m].armed =>
                \/ TwoHaltsBefore(reps'[m])
                \/ HaltBefore(reps'[m]) /\ m \notin failed /\ ~\E r \in Range(reps[m]) : Halt(r)
  <1>. DEFINE q == reps[m]
              t == reps'[m]
  <1>1. PICK s : s = State(mcu'[m])
    OBVIOUS
  <1>2. PICK a : a = Ack
    OBVIOUS
  <1>3. /\ mcu'[m] \in Trsync /\ mcu[m] \in Trsync /\ now \in 0 .. MaxTime
        /\ reps \in [McuIds -> Seq(Messages)] /\ q \in Seq(Messages)
    BY DEF IInv, TypeOK, ClocksTypeOK, LinksTypeOK
  <1>4. /\ s \in Messages /\ s.kind = "state" /\ s.armed = mcu'[m].armed /\ s.reason = mcu'[m].reason
        /\ a \in Messages /\ a.kind = "ack"
    BY <1>1, <1>2, <1>3 DEF State, Ack, Messages, Trsync, Reasons, COMMS_TIMEOUT
  <1>5. /\ SameReason(m) \/ StopsNow(m)
        /\ \/ reps' = reps /\ SameReason(m)
           \/ Sends(m, <<s>>)
           \/ /\ Sends(m, <<s, a>>) /\ ~mcu'[m].armed
              /\ \E c \in Range(cmds[m]) : c.kind = "query"
              /\ SameReason(m) \/ (StopsNow(m) /\ mcu'[m].reason = HOST_REQUEST)
    BY <1>1, <1>2 DEF Says
  <1>6. \A x \in McuIds \ {m} : reps'[x] = reps[x]
    BY <1>3, <1>5 DEF Sends
  <1>7. /\ q \o <<s>> = Append(q, s) /\ q \o <<s, a>> = Append(Append(q, s), a)
        /\ Append(q, s) \in Seq(Messages)
    <2>1. <<s>> \in Seq(Messages) /\ <<a>> \in Seq(Messages) /\ <<s>> \o <<a>> = <<s, a>>
      <3>1. <<s>> \in Seq(Messages) /\ <<a>> \in Seq(Messages)
        BY <1>4
      <3>2. Append(<<s>>, a) = <<s>> \o <<a>>
        BY <1>4, <3>1, AppendIsConcat
      <3>. QED
        BY <3>1, <3>2, AppendTuples
    <2>2. q \o <<s>> = Append(q, s) /\ Append(q, s) \in Seq(Messages)
      BY <1>3, <1>4, AppendIsConcat
    <2>3. Append(q, s) \o <<a>> = Append(Append(q, s), a)
      BY <1>4, <2>2, AppendIsConcat
    <2>4. (q \o <<s>>) \o <<a>> = q \o (<<s>> \o <<a>>)
      BY <1>3, <2>1, ConcatAssociative
    <2>. QED
      BY <2>1, <2>2, <2>3, <2>4
  <1>8. /\ t = q => SameReason(m) \/ m \in failed
        /\ \/ t = q
           \/ t = Append(q, s) /\ m \notin failed
           \/ /\ t = Append(Append(q, s), a) /\ m \notin failed
              /\ ~mcu'[m].armed /\ \E c \in Range(cmds[m]) : c.kind = "query"
              /\ SameReason(m) \/ (StopsNow(m) /\ mcu'[m].reason = HOST_REQUEST)
    <2>1. CASE reps' = reps /\ SameReason(m)
      BY <2>1
    <2>2. CASE Sends(m, <<s>>)
      <3>1. t = IF m \in failed THEN q ELSE Append(q, s)
        BY <1>3, <1>7, <2>2 DEF Sends
      <3>2. Append(q, s) # q
        BY <1>3
      <3>. QED
        BY <3>1, <3>2
    <2>3. CASE /\ Sends(m, <<s, a>>) /\ ~mcu'[m].armed
               /\ \E c \in Range(cmds[m]) : c.kind = "query"
               /\ SameReason(m) \/ (StopsNow(m) /\ mcu'[m].reason = HOST_REQUEST)
      <3>1. t = IF m \in failed THEN q ELSE Append(Append(q, s), a)
        BY <1>3, <1>7, <2>3 DEF Sends
      <3>2. Append(Append(q, s), a) # q
        <4>1. Len(Append(Append(q, s), a)) = Len(q) + 2 /\ Len(q) \in Nat
          BY <1>3
        <4>. QED
          BY <4>1
      <3>. QED
        BY <2>3, <3>1, <3>2
    <2>. QED
      BY <1>5, <2>1, <2>2, <2>3
  <1>9. /\ \A r \in Range(q) : r.kind \in {"state", "ack"} /\ r.armed \in BOOLEAN
        /\ mcu[m].armed => \A r \in Range(q) : Live(r)
    <2>1. Range(q) \subseteq Messages
      BY <1>3, QueueRange
    <2>2. \A r \in Range(q) : r.kind \in {"state", "ack"} /\ r.armed \in BOOLEAN
      BY <2>1 DEF Messages
    <2>3. \A r \in Range(q) : (Halt(r) => ~mcu[m].armed) /\ (r.kind = "ack" => ~mcu[m].armed)
      BY DEF IInv, AnswersInv, MessagesInv
    <2>. QED
      BY <2>2, <2>3 DEF Live, Halt
  <1>10. LiveFirst(q)
    BY DEF MessagesInv
  <1>. HIDE DEF q, t
  <1>11. /\ Append(q, s) \in Seq(Messages) /\ Range(Append(q, s)) = Range(q) \cup {s}
         /\ LiveFirst(Append(q, s))
         /\ HaltBefore(q) => HaltBefore(Append(q, s))
         /\ TwoHaltsBefore(q) => TwoHaltsBefore(Append(q, s))
    <2>1. Live(s) => \A r \in Range(q) : Live(r)
      BY <1>4, <1>5, <1>9 DEF Live, SameReason, StopsNow
    <2>2. s.kind # "ack"
      BY <1>4
    <2>. QED
      BY <1>3, <1>4, <1>10, <2>1, <2>2, HaltsAppend
  <1>12. /\ Range(Append(Append(q, s), a)) = Range(q) \cup {s, a}
         /\ LiveFirst(Append(Append(q, s), a))
    <2>1. ~Live(a)
      BY <1>4 DEF Live
    <2>2. PICK u : u = Append(q, s)
      OBVIOUS
    <2>3. u \in Seq(Messages) /\ LiveFirst(u) /\ Range(u) = Range(q) \cup {s}
      BY <1>11, <2>2
    <2>4. Range(Append(u, a)) = Range(u) \cup {a} /\ LiveFirst(Append(u, a))
      BY <1>4, <2>1, <2>3, HaltsAppend
    <2>. QED
      BY <2>2, <2>3, <2>4
  <1>13. /\ Halt(s) /\ HaltBefore(q) => HaltBefore(Append(Append(q, s), a))
         /\ Halt(s) /\ TwoHaltsBefore(q) /\ (\E r \in Range(q) : Halt(r)) => TwoHaltsBefore(Append(Append(q, s), a))
    BY <1>3, <1>4, HaltsAck
  <1>14. TwoHaltsBefore(q) => HaltBefore(q)
    BY DEF TwoHaltsBefore, HaltBefore
  <1>15. mcu[m].armed => TwoHaltsBefore(q)
    <2>1. \A k \in 1 .. Len(q) : q[k] \in Range(q)
      BY <1>3, QueueRange
    <2>. QED
      BY <1>9, <2>1 DEF TwoHaltsBefore, Live
  <1>16. /\ LiveFirst(t) /\ Range(q) \subseteq Range(t)
         /\ \A r \in Range(t) :
                \/ r \in Range(q)
                \/ r.kind = "state" /\ r.armed = mcu'[m].armed /\ r.reason = mcu'[m].reason
                \/ r.kind = "ack" /\ \E c \in Range(cmds[m]) : c.kind = "query"
    BY <1>4, <1>8, <1>10, <1>11, <1>12
  <1>17. StopsNow(m) /\ m \notin failed => \E r \in Range(t) : Halt(r)
    <2>1. StopsNow(m) => ~SameReason(m) /\ Halt(s)
      BY <1>3, <1>4 DEF StopsNow, SameReason, Halt, Trsync
    <2>. QED
      BY <1>8, <1>11, <1>12, <2>1
  <1>18. StopsNow(m) /\ mcu'[m].reason # HOST_REQUEST => TwoHaltsBefore(t)
    <2>1. StopsNow(m) => ~SameReason(m) /\ mcu[m].armed
      BY <1>3 DEF StopsNow, SameReason, Trsync
    <2>. QED
      BY <1>8, <1>11, <1>15, <2>1
  <1>19. ASSUME SameReason(m), ~mcu[m].armed
         PROVE  /\ HaltBefore(q) => HaltBefore(t)
                /\ TwoHaltsBefore(q) =>
                     \/ TwoHaltsBefore(t)
                     \/ HaltBefore(t) /\ m \notin failed /\ ~\E r \in Range(q) : Halt(r)
    <2>1. Halt(s)
      BY <1>4, <1>19 DEF SameReason, Halt
    <2>. QED
      BY <1>8, <1>11, <1>13, <1>14, <2>1
  <1>. QED
    BY <1>5, <1>6, <1>16, <1>17, <1>18, <1>19 DEF q, t

\* What the first report under way from a trsync does to the host.
LEMMA ReceivesTells ==
    ASSUME IInv, MessagesInv, HostInv, NEW m \in McuIds, Receives(m), NEW r, r = Head(reps[m])
    PROVE  /\ r \in Range(reps[m]) /\ (Live(r) \/ Halt(r) \/ r.kind = "ack")
           /\ reps' = [reps EXCEPT ![m] = Tail(@)] /\ reps[m] # <<>>
           /\ UNCHANGED <<mcu, failed, lost, pc, res, reading>>
           /\ completion => completion'
           /\ ~can_trigger' \/ completion' =>
                ~can_trigger \/ completion \/ (Halt(r) /\ pc \in {"move", "wait"})
           /\ query'.mcu = query.mcu
           /\ IF pc = "stop" /\ query.mcu = m
                THEN IF r.kind = "ack" THEN query'.answer = query.answer
                                       ELSE query'.answer = r.reason /\ query'.acked = query.acked
                ELSE query' = query
  <1>0. /\ ClocksTypeOK /\ LinksTypeOK /\ HostTypeOK
    BY DEF IInv, TypeOK
  <1>1. /\ reps[m] # <<>> /\ reps' = [reps EXCEPT ![m] = Tail(@)] /\ r \in Messages
        /\ UNCHANGED <<mcu, failed, lost, pc, res>>
    BY <1>0, ReceivesLeaves
  <1>2. r \in Range(reps[m])
    <2>1. reps[m] \in Seq(Messages)
      BY <1>0 DEF LinksTypeOK
    <2>. QED
      BY <1>1, <2>1, TailRange
  <1>3. /\ r.kind \in {"state", "ack"} /\ r.armed \in BOOLEAN
        /\ r.kind = "ack" => pc \notin {"move", "wait"}
    BY <1>1, <1>2 DEF Messages, MessagesInv
  <1>4. Live(r) \/ Halt(r) \/ r.kind = "ack"
    BY <1>3 DEF Live, Halt
  <1>5. HandleTrsyncState(m, r) /\ PyHandleTrsyncState(m, r)
    BY DEF Receives
  <1>6. reading' = reading /\ (~can_trigger' => ~can_trigger \/ (Halt(r) /\ pc \in {"move", "wait"}))
    BY <1>5 DEF HandleTrsyncState, disp, Halt, HostInv
  <1>7. /\ completion => completion'
        /\ completion' => completion \/ (Halt(r) /\ pc \in {"move", "wait"})
    <2>1. completion \in BOOLEAN
      BY <1>0 DEF HostTypeOK
    <2>2. CASE pc \in {"move", "wait"} /\ completion' = (completion \/ Completes(r))
      <3>1. Completes(r) => Halt(r)
        BY <1>3, <2>2 DEF Completes, Halt
      <3>. QED
        BY <2>1, <2>2, <3>1
    <2>3. CASE completion' = completion
      BY <2>3
    <2>. QED
      BY <1>5, <2>2, <2>3 DEF PyHandleTrsyncState
  <1>8. query \in [mcu : McuIds \cup {None}, answer : Reasons \cup {None}, acked : BOOLEAN]
    BY <1>0 DEF HostTypeOK
  <1>9. IF pc = "stop" /\ query.mcu = m
          THEN query' = IF r.kind = "ack" THEN [query EXCEPT !.acked = TRUE] ELSE [query EXCEPT !.answer = r.reason]
          ELSE query' = query
    BY <1>5 DEF PyHandleTrsyncState
  <1>10. /\ query'.mcu = query.mcu
         /\ IF pc = "stop" /\ query.mcu = m
                THEN IF r.kind = "ack" THEN query'.answer = query.answer
                                       ELSE query'.answer = r.reason /\ query'.acked = query.acked
                ELSE query' = query
    BY <1>8, <1>9
  <1>. QED
    BY <1>1, <1>2, <1>4, <1>6, <1>7, <1>10

\* What the host itself does to its questions and answers.
LEMMA HostAsks ==
    ASSUME Host
    PROVE  /\ completion => completion'
           /\ completion' => completion \/ failed # {}
           /\ \/ /\ UNCHANGED <<query, res, reading>>
                 /\ pc' = pc \/ (pc = "move" /\ pc' = "wait") \/ (pc = "stop" /\ pc' = "error")
              \/ /\ pc = "wait" /\ completion /\ pc' = "stop" /\ res' = res /\ ~reading'
                 /\ query'.answer = None /\ ~query'.acked
              \/ /\ pc = "stop" /\ pc' = "stop" /\ UNCHANGED <<res, reading>>
                 /\ query'.answer = None /\ ~query'.acked
              \/ /\ pc = "stop" /\ query.acked /\ query.answer # None
                 /\ res' = Append(res, query.answer) /\ reading' = reading
                 /\ \/ pc' = "done" /\ query' = query /\ IsLast(query.mcu)
                    \/ pc' = "stop" /\ query'.answer = None /\ ~query'.acked
  <1>1. CASE EndOfMove
    BY <1>1 DEF EndOfMove, disp
  <1>2. CASE StopDispatch
    BY <1>2 DEF StopDispatch, Ask
  <1>3. CASE QueryReturns
    <2>1. /\ pc = "stop" /\ query.acked /\ query.answer # None
          /\ res' = Append(res, query.answer) /\ reading' = reading /\ completion' = completion
          /\ IF IsLast(query.mcu) THEN pc' = "done" /\ query' = query
                                  ELSE Ask(query.mcu + 1) /\ pc' = pc
      BY <1>3 DEF QueryReturns, Answered, disp
    <2>2. Ask(query.mcu + 1) => query'.answer = None /\ ~query'.acked
      BY DEF Ask
    <2>. QED
      BY <2>1, <2>2
  <1>4. CASE QueryAgain
    BY <1>4 DEF QueryAgain, Ask, disp
  <1>5. CASE QueryFails
    BY <1>5 DEF QueryFails, disp
  <1>6. CASE Shutdown
    <2>1. failed # {}
      BY <1>6 DEF Shutdown, GivesUpOn
    <2>. QED
      BY <1>6, <2>1 DEF Shutdown, disp
  <1>. QED
    BY <1>1, <1>2, <1>3, <1>4, <1>5, <1>6 DEF Host

\* A step that only the clock, a timeout or a link sees, and one that loses the
\* first report of m.
Quiet ==
    /\ UNCHANGED <<mcu, reps, cmds, lost, can_trigger, reading, completion, pc, query, res>>
    /\ failed \subseteq failed'
LosesOne(m) ==
    /\ reps[m] # <<>> /\ reps' = [reps EXCEPT ![m] = Tail(@)] /\ lost' = lost + 1
    /\ UNCHANGED <<mcu, cmds, failed, can_trigger, reading, completion, pc, query, res>>

\* The steps, by what they do to the reports and the host.
LEMMA Steps ==
    ASSUME [Next]_vars
    PROVE  \/ Quiet
           \/ \E m \in McuIds : LosesOne(m) \/ Receives(m)
           \/ Host
           \/ EndstopHit \/ \E m \in McuIds : Controller(m)
  <1>1. CASE Tick
    BY <1>1 DEF Tick, Quiet, mcus, link, disp, python
  <1>2. ASSUME NEW m \in McuIds, Loses(m)
        PROVE  LosesOne(m)
    BY <1>2 DEF Loses, LosesOne, mcus, disp, python
  <1>3. ASSUME NEW m \in McuIds, Fails(m)
        PROVE  Quiet
    BY <1>3 DEF Fails, Quiet, mcus, disp, python
  <1>4. CASE UNCHANGED vars
    BY <1>4 DEF vars, Quiet, mcus, link, disp, python
  <1>. QED
    BY <1>1, <1>2, <1>3, <1>4 DEF Next

\* What is left when the first report of m is gone.
LEMMA ReportsLeft ==
    ASSUME LinksTypeOK, MessagesInv, NEW m \in McuIds, reps[m] # <<>>, reps' = [reps EXCEPT ![m] = Tail(@)]
    PROVE  /\ \A x \in McuIds \ {m} : reps'[x] = reps[x]
           /\ \A x \in McuIds : Range(reps'[x]) \subseteq Range(reps[x]) /\ LiveFirst(reps'[x])
           /\ \A r \in Range(reps[m]) : r = Head(reps[m]) \/ r \in Range(reps'[m])
           /\ ~Live(Head(reps[m])) => \A r \in Range(reps'[m]) : ~Live(r)
           /\ TwoHaltsBefore(reps[m]) => HaltBefore(reps[m]) /\ HaltBefore(reps'[m])
           /\ ~Halt(Head(reps[m])) =>
                /\ HaltBefore(reps[m]) => HaltBefore(reps'[m])
                /\ TwoHaltsBefore(reps[m]) => TwoHaltsBefore(reps'[m])
           /\ Head(reps[m]).kind = "ack" => ~HaltBefore(reps[m]) /\ ~TwoHaltsBefore(reps[m])
  <1>. DEFINE q == reps[m]
  <1>1. reps \in [McuIds -> Seq(Messages)] /\ q \in Seq(Messages)
    BY DEF LinksTypeOK
  <1>2. reps'[m] = Tail(q) /\ \A x \in McuIds \ {m} : reps'[x] = reps[x]
    BY <1>1
  <1>3. Range(Tail(q)) \subseteq Range(q)
    BY <1>1, TailRange
  <1>4. \A x \in McuIds : LiveFirst(reps[x])
    BY DEF MessagesInv
  <1>5. \A r \in Range(q) : r = Head(q) \/ r \in Range(Tail(q))
    <2>. DEFINE t == Tail(q)
    <2>1. /\ Len(q) \in Nat \ {0} /\ Head(q) = q[1] /\ t \in Seq(Messages)
          /\ \A i \in 1 .. Len(q) : i # 1 => i - 1 \in 1 .. Len(t) /\ t[i - 1] = q[i]
      BY <1>1
    <2>. HIDE DEF t
    <2>2. Range(t) = {t[i] : i \in 1 .. Len(t)} /\ Range(q) = {q[i] : i \in 1 .. Len(q)}
      BY <1>1, <2>1, QueueRange
    <2>. QED
      BY <2>1, <2>2 DEF t
  <1>6. LiveFirst(q) => LiveFirst(Tail(q)) /\ (~Live(Head(q)) => \A r \in Range(Tail(q)) : ~Live(r))
    BY <1>1, HaltsTail
  <1>7. /\ TwoHaltsBefore(q) => HaltBefore(q) /\ HaltBefore(Tail(q))
        /\ ~Halt(Head(q)) =>
             (HaltBefore(q) => HaltBefore(Tail(q))) /\ (TwoHaltsBefore(q) => TwoHaltsBefore(Tail(q)))
        /\ Head(q).kind = "ack" => ~HaltBefore(q) /\ ~TwoHaltsBefore(q)
    BY <1>1, HaltsTail
  <1>8. LiveFirst(q)
    BY <1>4
  <1>. HIDE DEF q
  <1>9. \A x \in McuIds : Range(reps'[x]) \subseteq Range(reps[x]) /\ LiveFirst(reps'[x])
    BY <1>2, <1>3, <1>4, <1>6, <1>8 DEF q
  <1>. QED
    BY <1>2, <1>5, <1>6, <1>7, <1>8, <1>9 DEF q

-----------------------------------------------------------------------------
(* The parts of HomedInv.                                                  *)

\* A step in which trsyncs keep their reasons or stop, and only such commands are
\* sent as the host sends.
LEMMA ReasonKeeps ==
    ASSUME ReasonInv, mcu \in [McuIds -> Trsync], mcu' \in [McuIds -> Trsync],
           \A x \in McuIds : SameReason(x) \/ StopsNow(x),
           \A x \in McuIds : \A c \in Range(cmds'[x]) :
             \/ c \in Range(cmds[x]) \/ c.kind = "set_timeout"
             \/ c.arg = HOST_REQUEST \/ (c.arg = PAST_END_TIME /\ x = 0)
    PROVE  ReasonInv'
  <1>. SUFFICES ASSUME NEW m \in McuIds
                PROVE  /\ mcu'[m].armed <=> mcu'[m].reason = 0
                       /\ mcu'[m].reason \in {ENDSTOP_HIT, PAST_END_TIME} => m = 0
                       /\ \A c \in Range(cmds'[m]) : c.kind # "set_timeout" =>
                            c.arg = HOST_REQUEST \/ (c.arg = PAST_END_TIME /\ m = 0)
    BY DEF ReasonInv
  <1>1. \A c \in Range(cmds'[m]) : c.kind # "set_timeout" =>
          c.arg = HOST_REQUEST \/ (c.arg = PAST_END_TIME /\ m = 0)
    BY DEF ReasonInv
  <1>2. (mcu[m].armed <=> mcu[m].reason = 0) /\ (mcu[m].reason \in {ENDSTOP_HIT, PAST_END_TIME} => m = 0)
    BY DEF ReasonInv
  <1>3. CASE SameReason(m)
    BY <1>1, <1>2, <1>3 DEF SameReason
  <1>4. CASE StopsNow(m)
    BY <1>1, <1>4 DEF StopsNow
  <1>. QED
    BY <1>3, <1>4

\* A step in which nothing but the truth is reported.
LEMMA MessagesKeeps ==
    ASSUME ReasonInv', MessagesInv, mcu \in [McuIds -> Trsync], mcu' \in [McuIds -> Trsync],
           \A x \in McuIds : SameReason(x) \/ StopsNow(x),
           \A x \in McuIds : LiveFirst(reps'[x]),
           \A x \in McuIds : \A r \in Range(reps'[x]) :
             \/ r \in Range(reps[x])
             \/ r.kind = "state" /\ r.armed = mcu'[x].armed /\ r.reason = mcu'[x].reason
             \/ r.kind = "ack" /\ pc \notin {"move", "wait"},
           pc \notin {"move", "wait"} => pc' \notin {"move", "wait"},
           \A x \in McuIds : \A c \in Range(cmds'[x]) :
             \/ c \in Range(cmds[x])
             \/ c.kind # "query"
             \/ c.arg = HOST_REQUEST /\ pc' \notin {"move", "wait"}
    PROVE  MessagesInv'
  <1>. SUFFICES ASSUME NEW m \in McuIds
                PROVE  /\ \A r \in Range(reps'[m]) :
                            /\ Live(r) => r.reason = 0
                            /\ Halt(r) => ~mcu'[m].armed /\ r.reason = mcu'[m].reason
                            /\ r.kind = "ack" => pc' \notin {"move", "wait"}
                       /\ \A c \in Range(cmds'[m]) : c.kind = "query" => c.arg = HOST_REQUEST /\ pc' \notin {"move", "wait"}
    BY DEF MessagesInv
  <1>1. \A c \in Range(cmds'[m]) : c.kind = "query" => c.arg = HOST_REQUEST /\ pc' \notin {"move", "wait"}
    BY DEF MessagesInv
  <1>2. ASSUME NEW r \in Range(reps'[m])
        PROVE  /\ Live(r) => r.reason = 0
               /\ Halt(r) => ~mcu'[m].armed /\ r.reason = mcu'[m].reason
               /\ r.kind = "ack" => pc' \notin {"move", "wait"}
    <2>1. CASE r \in Range(reps[m])
      <3>1. /\ Live(r) => r.reason = 0
            /\ Halt(r) => ~mcu[m].armed /\ r.reason = mcu[m].reason
            /\ r.kind = "ack" => pc' \notin {"move", "wait"}
        BY <2>1 DEF MessagesInv
      <3>2. ~mcu[m].armed => SameReason(m)
        BY DEF StopsNow
      <3>3. ~mcu[m].armed => ~mcu'[m].armed /\ mcu'[m].reason = mcu[m].reason
        BY <3>2 DEF SameReason
      <3>. QED
        BY <3>1, <3>3
    <2>2. CASE r.kind = "state" /\ r.armed = mcu'[m].armed /\ r.reason = mcu'[m].reason
      BY <2>2 DEF Live, Halt, ReasonInv
    <2>3. CASE r.kind = "ack" /\ pc \notin {"move", "wait"}
      BY <2>3 DEF Live, Halt
    <2>. QED
      BY <2>1, <2>2, <2>3
  <1>. QED
    BY <1>1, <1>2

\* Every step is of that kind.
LEMMA ReasonStep ==
    ASSUME IInv, ReasonInv, MessagesInv, HostInv, [Next]_vars
    PROVE  ReasonInv' /\ MessagesInv'
  <1>1. LinksTypeOK /\ mcu \in [McuIds -> Trsync] /\ ClocksTypeOK
    BY DEF IInv, TypeOK, LinksTypeOK
  <1>2. CASE mcu' = mcu /\ cmds' = cmds /\ pc' = pc /\ \A x \in McuIds : Range(reps'[x]) \subseteq Range(reps[x]) /\ LiveFirst(reps'[x])
    <2>1. \A x \in McuIds : SameReason(x)
      BY <1>2 DEF SameReason
    <2>2. ReasonInv'
      BY <1>1, <1>2, <2>1, ReasonKeeps
    <2>. QED
      BY <1>1, <1>2, <2>1, <2>2, MessagesKeeps
  <1>3. CASE Quiet
    <2>1. \A x \in McuIds : LiveFirst(reps[x])
      BY DEF MessagesInv
    <2>. QED
      BY <1>2, <1>3, <2>1 DEF Quiet
  <1>4. ASSUME NEW m \in McuIds, LosesOne(m)
        PROVE  ReasonInv' /\ MessagesInv'
    BY <1>1, <1>2, <1>4, ReportsLeft DEF LosesOne
  <1>5. ASSUME NEW m \in McuIds, Receives(m)
        PROVE  ReasonInv' /\ MessagesInv'
    <2>1. reps[m] # <<>> /\ reps' = [reps EXCEPT ![m] = Tail(@)] /\ mcu' = mcu /\ pc' = pc
      BY <1>1, <1>5, ReceivesLeaves
    <2>2. \A x \in McuIds : Range(reps'[x]) \subseteq Range(reps[x]) /\ LiveFirst(reps'[x])
      BY <1>1, <2>1, ReportsLeft
    <2>3. \A x \in McuIds : SameReason(x)
      BY <2>1 DEF SameReason
    <2>4. \A x \in McuIds : \A c \in Range(cmds'[x]) :
            \/ c \in Range(cmds[x]) \/ c.kind = "set_timeout"
            \/ c.kind = "trigger" /\ (c.arg = HOST_REQUEST \/ (c.arg = PAST_END_TIME /\ x = 0))
      BY <1>1, <1>5, ReceivesCommands
    <2>5. ReasonInv'
      BY <1>1, <2>1, <2>3, <2>4, ReasonKeeps
    <2>. QED
      BY <1>1, <2>1, <2>2, <2>3, <2>4, <2>5, MessagesKeeps
  <1>6. CASE Host
    <2>1. mcu' = mcu /\ reps' = reps
      BY <1>6, HostLeaves
    <2>2. \A x \in McuIds : SameReason(x) /\ LiveFirst(reps'[x])
      BY <2>1 DEF SameReason, MessagesInv
    <2>3. \A x \in McuIds : \A c \in Range(cmds'[x]) :
            c \in Range(cmds[x]) \/ (c.arg = HOST_REQUEST /\ pc' = "stop")
      BY <1>6, HostCommands
    <2>4. pc \notin {"move", "wait"} => pc' \notin {"move", "wait"}
      BY <1>6, HostAsks
    <2>5. ReasonInv'
      BY <1>1, <2>1, <2>2, <2>3, ReasonKeeps
    <2>. QED
      BY <1>1, <2>1, <2>2, <2>3, <2>4, <2>5, MessagesKeeps
  <1>7. CASE EndstopHit \/ \E m \in McuIds : Controller(m)
    <2>1. PICK m \in McuIds :
             /\ mcu' \in [McuIds -> Trsync] /\ \A x \in McuIds \ {m} : mcu'[x] = mcu[x]
             /\ \A x \in McuIds : Range(cmds'[x]) \subseteq Range(cmds[x])
             /\ Says(m)
             /\ UNCHANGED <<failed, lost, disp, python>>
      BY <1>7, ControllerSays
    <2>2. /\ \A x \in McuIds \ {m} : reps'[x] = reps[x]
          /\ SameReason(m) \/ StopsNow(m)
          /\ LiveFirst(reps'[m])
          /\ \A r \in Range(reps'[m]) :
               \/ r \in Range(reps[m])
               \/ r.kind = "state" /\ r.armed = mcu'[m].armed /\ r.reason = mcu'[m].reason
               \/ r.kind = "ack" /\ \E c \in Range(cmds[m]) : c.kind = "query"
      BY <2>1, SaysMeans
    <2>3. \A x \in McuIds : SameReason(x) \/ StopsNow(x)
      BY <2>1, <2>2 DEF SameReason
    <2>4. \A x \in McuIds : LiveFirst(reps'[x])
      BY <2>2 DEF MessagesInv
    <2>5. (\E c \in Range(cmds[m]) : c.kind = "query") => pc \notin {"move", "wait"}
      BY DEF MessagesInv
    <2>6. \A x \in McuIds : \A r \in Range(reps'[x]) :
             \/ r \in Range(reps[x])
             \/ r.kind = "state" /\ r.armed = mcu'[x].armed /\ r.reason = mcu'[x].reason
             \/ r.kind = "ack" /\ pc \notin {"move", "wait"}
      BY <2>2, <2>5
    <2>7. ReasonInv'
      BY <1>1, <2>1, <2>3, ReasonKeeps
    <2>8. pc' = pc
      BY <2>1 DEF python
    <2>. QED
      BY <1>1, <2>1, <2>3, <2>4, <2>6, <2>7, <2>8, MessagesKeeps
  <1>. QED
    BY <1>3, <1>4, <1>5, <1>6, <1>7, Steps

\* stop() ends the fast readers before it asks, and is done with N answers.
LEMMA HostStep ==
    ASSUME IInv, ReasonInv, MessagesInv, HostInv, [Next]_vars
    PROVE  HostInv'
  <1>1. CASE UNCHANGED <<reading, pc, res>> /\ (completion => completion')
    BY <1>1 DEF HostInv
  <1>2. CASE Quiet
    BY <1>1, <1>2 DEF Quiet
  <1>3. ASSUME NEW m \in McuIds, LosesOne(m)
        PROVE  HostInv'
    BY <1>1, <1>3 DEF LosesOne
  <1>4. ASSUME NEW m \in McuIds, Receives(m)
        PROVE  HostInv'
    <2>1. PICK r : r = Head(reps[m])
      OBVIOUS
    <2>. QED
      BY <1>1, <1>4, <2>1, ReceivesTells
  <1>5. CASE Host
    <2>1. CASE /\ pc = "stop" /\ pc' = "done" /\ res' = Append(res, query.answer)
               /\ reading' = reading /\ IsLast(query.mcu)
      <3>1. res \in Seq(Reasons) /\ Len(res) = query.mcu
        BY <2>1 DEF IInv, TypeOK, HostTypeOK, QueryInv
      <3>2. Len(res') = Len(res) + 1
        BY <2>1, <3>1
      <3>3. Len(res') = N
        BY <2>1, <3>1, <3>2, TrSyncAssumption DEF IsLast
      <3>. QED
        BY <1>5, <2>1, <3>3, HostAsks DEF HostInv
    <2>2. CASE UNCHANGED <<query, res, reading>>
      BY <1>5, <2>2, HostAsks DEF HostInv
    <2>3. CASE pc' = "stop" /\ (~reading' \/ (reading' = reading /\ pc = "stop")) /\ (pc = "stop" \/ completion)
      BY <1>5, <2>3, HostAsks DEF HostInv
    <2>. QED
      BY <1>5, <2>1, <2>2, <2>3, HostAsks
  <1>6. CASE EndstopHit \/ \E m \in McuIds : Controller(m)
    <2>1. UNCHANGED <<disp, python>>
      BY <1>6, ControllerLeaves DEF IInv, TypeOK
    <2>. QED
      BY <1>1, <2>1 DEF disp, python
  <1>. QED
    BY <1>2, <1>3, <1>4, <1>5, <1>6, Steps

\* A trsync that has stopped keeps its reason.
LEMMA TruthKeeps ==
    ASSUME IInv, TruthInv, ReasonInv, UNCHANGED <<pc, query, res>>,
           \A x \in McuIds : SameReason(x) \/ StopsNow(x),
           \A x \in McuIds : ~mcu[x].armed => \A r \in Range(reps'[x]) : r \in Range(reps[x]) \/ ~Live(r)
    PROVE  TruthInv'
  <1>1. \A x \in McuIds : ~mcu[x].armed => ~mcu'[x].armed /\ mcu'[x].reason = mcu[x].reason
    BY DEF SameReason, StopsNow
  <1>2. \A x \in McuIds : mcu'[x].reason = mcu[x].reason \/ mcu[x].reason = 0
    BY DEF SameReason, StopsNow, ReasonInv
  <1>3. pc = "stop" => query.mcu \in McuIds /\ (query.acked => ~mcu[query.mcu].armed)
    BY DEF IInv, QueryInv, AnswersInv
  <1>. QED
    BY <1>1, <1>2, <1>3 DEF TruthInv

\* Once the acknowledgement is here no older report is, and the answer that is
\* taken is that of a trsync that has stopped.
LEMMA TruthStep ==
    ASSUME HomedInv, [Next]_vars
    PROVE  TruthInv'
  <1>. USE DEF HomedInv
  <1>0. LinksTypeOK /\ mcu \in [McuIds -> Trsync] /\ res \in Seq(Reasons)
    BY DEF IInv, TypeOK, LinksTypeOK, HostTypeOK
  <1>1. CASE UNCHANGED <<mcu, pc, query, res>> /\ \A x \in McuIds : Range(reps'[x]) \subseteq Range(reps[x])
    <2>1. \A x \in McuIds : SameReason(x)
      BY <1>1 DEF SameReason
    <2>. QED
      BY <1>1, <2>1, TruthKeeps
  <1>2. CASE Quiet
    BY <1>1, <1>2 DEF Quiet
  <1>3. ASSUME NEW m \in McuIds, LosesOne(m)
        PROVE  TruthInv'
    BY <1>0, <1>1, <1>3, ReportsLeft DEF LosesOne
  <1>4. ASSUME NEW m \in McuIds, Receives(m)
        PROVE  TruthInv'
    <2>1. PICK r : r = Head(reps[m])
      OBVIOUS
    <2>2. /\ r \in Range(reps[m]) /\ (Live(r) \/ Halt(r) \/ r.kind = "ack")
          /\ reps' = [reps EXCEPT ![m] = Tail(@)] /\ reps[m] # <<>>
          /\ UNCHANGED <<mcu, failed, lost, pc, res, reading>>
          /\ query'.mcu = query.mcu
          /\ IF pc = "stop" /\ query.mcu = m
               THEN IF r.kind = "ack" THEN query'.answer = query.answer
                                      ELSE query'.answer = r.reason /\ query'.acked = query.acked
               ELSE query' = query
      BY <1>4, <2>1, ReceivesTells
    <2>3. /\ \A x \in McuIds : Range(reps'[x]) \subseteq Range(reps[x])
          /\ ~Live(r) => \A s \in Range(reps'[m]) : ~Live(s)
      BY <1>0, <2>1, <2>2, ReportsLeft
    <2>4. /\ Live(r) => r.reason = 0
          /\ Halt(r) => r.reason = mcu[m].reason
      BY <2>2 DEF MessagesInv
    <2>5. CASE query' = query
      BY <1>1, <2>2, <2>3, <2>5
    <2>6. CASE pc = "stop" /\ query.mcu = m
      <3>1. query'.answer \in {None, 0, mcu[m].reason}
        BY <2>2, <2>4, <2>6 DEF TruthInv
      <3>2. query'.acked => \A s \in Range(reps'[m]) : ~Live(s)
        <4>1. CASE r.kind = "ack"
          BY <2>3, <4>1 DEF Live
        <4>2. CASE r.kind # "ack"
          BY <2>2, <2>3, <2>6, <4>2 DEF TruthInv
        <4>. QED
          BY <4>1, <4>2
      <3>. QED
        BY <2>2, <2>6, <3>1, <3>2 DEF TruthInv
    <2>. QED
      BY <2>2, <2>5, <2>6
  <1>5. CASE Host
    <2>1. mcu' = mcu /\ reps' = reps
      BY <1>5, HostLeaves
    <2>2. CASE UNCHANGED <<query, res>> /\ (pc' = "stop" => pc = "stop")
      BY <2>1, <2>2 DEF TruthInv
    <2>3. CASE res' = res /\ query'.answer = None /\ ~query'.acked
      BY <2>1, <2>3 DEF TruthInv
    <2>4. CASE /\ pc = "stop" /\ query.acked /\ query.answer # None /\ res' = Append(res, query.answer)
               /\ (pc' = "done" \/ (query'.answer = None /\ ~query'.acked))
      <3>1. query.mcu \in McuIds /\ Len(res) = query.mcu /\ ~mcu[query.mcu].armed
        BY <2>4 DEF QueryInv, IInv, AnswersInv
      <3>2. /\ Len(res') = Len(res) + 1 /\ res'[Len(res) + 1] = query.answer
            /\ \A i \in 1 .. Len(res) : res'[i] = res[i]
        BY <1>0, <2>4
      <3>3. query.answer \in {0, mcu[query.mcu].reason}
        BY <2>4 DEF TruthInv
      <3>4. ASSUME NEW m \in McuIds, m < Len(res')
            PROVE  ~mcu[m].armed /\ res'[m + 1] \in {0, mcu[m].reason}
        <4>1. m = Len(res) \/ (m < Len(res) /\ m + 1 \in 1 .. Len(res))
          BY <1>0, <3>1, <3>2, <3>4, TrSyncAssumption DEF McuIds
        <4>2. CASE m = Len(res)
          BY <3>1, <3>2, <3>3, <4>2
        <4>3. CASE m < Len(res) /\ m + 1 \in 1 .. Len(res)
          BY <3>2, <4>3 DEF TruthInv
        <4>. QED
          BY <4>1, <4>2, <4>3
      <3>. QED
        BY <2>1, <2>4, <3>4 DEF TruthInv
    <2>. QED
      BY <1>5, <2>2, <2>3, <2>4, HostAsks
  <1>6. CASE EndstopHit \/ \E m \in McuIds : Controller(m)
    <2>1. PICK m \in McuIds :
             /\ mcu' \in [McuIds -> Trsync] /\ \A x \in McuIds \ {m} : mcu'[x] = mcu[x]
             /\ \A x \in McuIds : Range(cmds'[x]) \subseteq Range(cmds[x])
             /\ Says(m)
             /\ UNCHANGED <<failed, lost, disp, python>>
      BY <1>6, ControllerSays
    <2>2. /\ \A x \in McuIds \ {m} : reps'[x] = reps[x]
          /\ SameReason(m) \/ StopsNow(m)
          /\ \A r \in Range(reps'[m]) :
               \/ r \in Range(reps[m])
               \/ r.kind = "state" /\ r.armed = mcu'[m].armed /\ r.reason = mcu'[m].reason
               \/ r.kind = "ack" /\ \E c \in Range(cmds[m]) : c.kind = "query"
      BY <2>1, SaysMeans
    <2>3. \A x \in McuIds : SameReason(x) \/ StopsNow(x)
      BY <2>1, <2>2 DEF SameReason
    <2>4. ~mcu[m].armed => ~mcu'[m].armed
      BY <2>2 DEF SameReason, StopsNow
    <2>5. \A x \in McuIds : ~mcu[x].armed => \A r \in Range(reps'[x]) : r \in Range(reps[x]) \/ ~Live(r)
      BY <2>2, <2>4 DEF Live
    <2>. QED
      BY <2>1, <2>3, <2>5, TruthKeeps DEF python
  <1>. QED
    BY <1>2, <1>3, <1>4, <1>5, <1>6, Steps

\* Two reports of a trsync that stopped by itself are lost before stop() takes
\* it for one that works.
LEMMA MissedStep ==
    ASSUME HomedInv, [Next]_vars
    PROVE  MissedInv'
  <1>. USE DEF HomedInv
  <1>0. /\ LinksTypeOK /\ mcu \in [McuIds -> Trsync] /\ lost \in Nat /\ res \in Seq(Reasons)
        /\ \A x \in McuIds : x \in Nat
    BY TrSyncAssumption DEF IInv, TypeOK, LinksTypeOK, HostTypeOK, McuIds
  <1>1. ASSUME Quiet, NEW x \in McuIds
        PROVE  Missed(x)'
    <2>1. Missed(x)
      BY DEF MissedInv
    <2>. QED
      BY <1>1, <2>1 DEF Quiet, Missed, Stale, ByItself
  <1>2. ASSUME NEW m \in McuIds, LosesOne(m), NEW x \in McuIds
        PROVE  Missed(x)'
    <2>1. /\ \A y \in McuIds \ {m} : reps'[y] = reps[y]
          /\ \A y \in McuIds : Range(reps'[y]) \subseteq Range(reps[y])
          /\ TwoHaltsBefore(reps[m]) => HaltBefore(reps'[m])
      BY <1>0, <1>2, ReportsLeft DEF LosesOne
    <2>2. /\ lost' = lost + 1 /\ (lost >= 1 => lost' >= 2) /\ (lost >= 2 => lost' >= 2) /\ lost' >= 1
      BY <1>0, <1>2 DEF LosesOne
    <2>3. UNCHANGED <<mcu, failed, pc, query, res>>
      BY <1>2 DEF LosesOne
    <2>4. Missed(x) /\ (Stale(x)' => Stale(x))
      BY <2>1, <2>3 DEF MissedInv, Stale
    <2>5. ByItself(x)' = ByItself(x)
      BY <2>3 DEF ByItself
    <2>6. ByItself(x)' /\ Stale(x)' => lost' >= 2 \/ HaltBefore(reps'[x])
      <3>1. CASE x = m
        BY <2>1, <2>2, <2>4, <2>5, <3>1 DEF Missed
      <3>2. CASE x # m
        <4>1. reps'[x] = reps[x]
          BY <2>1, <3>2
        <4>2. TwoHaltsBefore(reps[x]) => HaltBefore(reps[x])
          BY DEF TwoHaltsBefore, HaltBefore
        <4>. QED
          BY <2>2, <2>4, <2>5, <4>1, <4>2 DEF Missed
      <3>. QED
        BY <3>1, <3>2
    <2>. QED
      BY <2>2, <2>3, <2>4, <2>5, <2>6 DEF Missed
  <1>3. ASSUME NEW m \in McuIds, Receives(m), NEW x \in McuIds
        PROVE  Missed(x)'
    <2>0. PICK r : r = Head(reps[m])
      OBVIOUS
    <2>1. /\ r \in Range(reps[m]) /\ (Live(r) \/ Halt(r) \/ r.kind = "ack")
          /\ reps' = [reps EXCEPT ![m] = Tail(@)] /\ reps[m] # <<>>
          /\ UNCHANGED <<mcu, failed, lost, pc, res, reading>>
          /\ query'.mcu = query.mcu
          /\ IF pc = "stop" /\ query.mcu = m
               THEN IF r.kind = "ack" THEN query'.answer = query.answer
                                      ELSE query'.answer = r.reason /\ query'.acked = query.acked
               ELSE query' = query
      BY <1>3, <2>0, ReceivesTells
    <2>2. /\ \A y \in McuIds \ {m} : reps'[y] = reps[y]
          /\ \A y \in McuIds : Range(reps'[y]) \subseteq Range(reps[y])
          /\ \A s \in Range(reps[m]) : s = r \/ s \in Range(reps'[m])
          /\ ~Live(r) => \A s \in Range(reps'[m]) : ~Live(s)
          /\ ~Halt(r) =>
                /\ HaltBefore(reps[m]) => HaltBefore(reps'[m])
                /\ TwoHaltsBefore(reps[m]) => TwoHaltsBefore(reps'[m])
          /\ r.kind = "ack" => ~HaltBefore(reps[m]) /\ ~TwoHaltsBefore(reps[m])
      BY <1>0, <2>0, <2>1, ReportsLeft
    <2>3. Missed(x) /\ ByItself(x)' = ByItself(x)
      BY <2>1 DEF MissedInv, ByItself
    <2>4. CASE x # m
      <3>1. pc = "stop" /\ query.mcu = x => query' = query
        BY <2>1, <2>4
      <3>2. Stale(x)' => Stale(x)
        BY <2>1, <2>2, <2>4, <3>1 DEF Stale
      <3>3. reps'[x] = reps[x]
        BY <2>2, <2>4
      <3>. QED
        BY <2>1, <2>3, <3>1, <3>2, <3>3 DEF Missed
    <2>5. CASE x = m /\ Live(r)
      <3>1. ~Halt(r) /\ Stale(m) /\ r.kind # "ack"
        BY <2>1, <2>5 DEF Live, Halt, Stale
      <3>2. (\E s \in Range(reps[m]) : Halt(s)) => \E s \in Range(reps'[m]) : Halt(s)
        BY <2>2, <3>1
      <3>3. pc = "stop" /\ query.mcu = m => ~query.acked /\ query'.acked = query.acked
        BY <2>1, <2>5, <3>1 DEF TruthInv
      <3>. QED
        BY <2>1, <2>2, <2>3, <2>5, <3>1, <3>2, <3>3 DEF Missed
    <2>6. CASE x = m /\ Halt(r)
      <3>1. ~Live(r) /\ r.kind # "ack" /\ r.reason # 0
        <4>1. ~mcu[m].armed /\ r.reason = mcu[m].reason
          BY <2>1, <2>6 DEF MessagesInv
        <4>. QED
          BY <2>6, <4>1 DEF Live, Halt, ReasonInv
      <3>2. pc = "stop" /\ query'.mcu = m => query'.answer # 0
        BY <2>1, <3>1
      <3>3. ~Stale(m)'
        BY <2>1, <2>2, <3>1, <3>2 DEF Stale
      <3>. QED
        BY <2>1, <2>3, <2>6, <3>2, <3>3 DEF Missed
    <2>7. CASE x = m /\ r.kind = "ack"
      <3>1. ~Live(r) /\ ~Halt(r)
        BY <2>7 DEF Live, Halt
      <3>2. Stale(m)' => Stale(m)
        BY <2>1, <2>2, <2>7, <3>1 DEF Stale
      <3>3. (\E s \in Range(reps[m]) : Halt(s)) => \E s \in Range(reps'[m]) : Halt(s)
        BY <2>2, <3>1
      <3>4. ByItself(m) /\ Stale(m) => lost >= 2
        BY <2>2, <2>3, <2>7 DEF Missed
      <3>5. pc = "stop" /\ query'.mcu = m /\ query'.answer = 0 => Stale(m)
        BY <2>1, <2>7 DEF Stale
      <3>. QED
        BY <2>1, <2>3, <2>7, <3>2, <3>3, <3>4, <3>5 DEF Missed
    <2>. QED
      BY <2>1, <2>4, <2>5, <2>6, <2>7
  <1>4. ASSUME Host, NEW x \in McuIds
        PROVE  Missed(x)'
    <2>1. UNCHANGED <<mcu, reps, failed, lost>>
      BY <1>4, HostLeaves
    <2>2. Missed(x) /\ ByItself(x)' = ByItself(x)
      BY <2>1 DEF MissedInv, ByItself
    <2>3. /\ Stale(x)' => Stale(x)
          /\ pc' = "stop" /\ query'.acked => pc = "stop" /\ query' = query
      BY <1>4, <2>1, HostAsks DEF Stale, None
    <2>4. ByItself(x) /\ x < Len(res') /\ res'[x + 1] = 0 => lost >= 2
      <3>1. CASE res' = res
        BY <2>2, <3>1 DEF Missed
      <3>2. CASE /\ pc = "stop" /\ query.acked /\ query.answer # None /\ res' = Append(res, query.answer)
        <4>1. query.mcu \in McuIds /\ Len(res) = query.mcu
          BY <3>2 DEF QueryInv, IInv
        <4>2. /\ Len(res') = Len(res) + 1 /\ res'[Len(res) + 1] = query.answer
              /\ \A i \in 1 .. Len(res) : res'[i] = res[i]
          BY <1>0, <3>2
        <4>3. x < Len(res') => x = Len(res) \/ (x < Len(res) /\ x + 1 \in 1 .. Len(res))
          BY <1>0, <4>1, <4>2
        <4>4. CASE x = Len(res)
          BY <2>2, <3>2, <4>1, <4>2, <4>4 DEF Missed
        <4>5. CASE x < Len(res) /\ x + 1 \in 1 .. Len(res)
          BY <2>2, <4>2, <4>5 DEF Missed
        <4>. QED
          BY <4>3, <4>4, <4>5
      <3>. QED
        BY <1>4, <3>1, <3>2, HostAsks
    <2>. QED
      BY <2>1, <2>2, <2>3, <2>4 DEF Missed
  <1>5. ASSUME EndstopHit \/ \E m \in McuIds : Controller(m), NEW x \in McuIds
        PROVE  Missed(x)'
    <2>1. PICK m \in McuIds :
             /\ mcu' \in [McuIds -> Trsync] /\ \A y \in McuIds \ {m} : mcu'[y] = mcu[y]
             /\ \A y \in McuIds : Range(cmds'[y]) \subseteq Range(cmds[y])
             /\ Says(m)
             /\ UNCHANGED <<failed, lost, disp, python>>
      BY <1>5, ControllerSays
    <2>2. /\ \A y \in McuIds \ {m} : reps'[y] = reps[y]
          /\ SameReason(m) \/ StopsNow(m)
          /\ Range(reps[m]) \subseteq Range(reps'[m])
          /\ \A r \in Range(reps'[m]) :
               \/ r \in Range(reps[m])
               \/ r.kind = "state" /\ r.armed = mcu'[m].armed /\ r.reason = mcu'[m].reason
               \/ r.kind = "ack" /\ \E c \in Range(cmds[m]) : c.kind = "query"
      BY <2>1, SaysMeans
    <2>3. /\ StopsNow(m) /\ m \notin failed => \E r \in Range(reps'[m]) : Halt(r)
          /\ StopsNow(m) /\ mcu'[m].reason # HOST_REQUEST => TwoHaltsBefore(reps'[m])
          /\ SameReason(m) /\ HaltBefore(reps[m]) /\ ~mcu[m].armed => HaltBefore(reps'[m])
          /\ SameReason(m) /\ TwoHaltsBefore(reps[m]) /\ ~mcu[m].armed =>
                \/ TwoHaltsBefore(reps'[m])
                \/ HaltBefore(reps'[m]) /\ m \notin failed /\ ~\E r \in Range(reps[m]) : Halt(r)
      BY <2>1, SaysMeans
    <2>4. UNCHANGED <<pc, query, res, failed, lost>>
      BY <2>1 DEF python
    <2>5. Missed(x)
      BY DEF MissedInv
    <2>6. CASE x # m
      <3>1. mcu'[x] = mcu[x] /\ reps'[x] = reps[x]
        BY <2>1, <2>2, <2>6
      <3>. QED
        BY <2>4, <2>5, <3>1 DEF Missed, Stale, ByItself
    <2>7. CASE x = m /\ SameReason(m)
      <3>1. ByItself(m)' = ByItself(m) /\ mcu'[m].armed = mcu[m].armed
        BY <2>7 DEF SameReason, ByItself
      <3>2. ByItself(m) => ~mcu[m].armed
        BY DEF ByItself, ReasonInv
      <3>3. ~mcu[m].armed /\ Stale(m)' => Stale(m)
        BY <2>2, <2>4, <3>1 DEF Stale, Live
      <3>4. ~mcu[m].armed /\ Stale(m)' => m \in failed \/ lost >= 1 \/ \E r \in Range(reps[m]) : Halt(r)
        BY <2>5, <2>7, <3>3 DEF Missed
      <3>5. ByItself(m) /\ Stale(m)' =>
              lost >= 2 \/ (lost >= 1 /\ HaltBefore(reps'[m])) \/ TwoHaltsBefore(reps'[m])
        BY <2>3, <2>5, <2>7, <3>2, <3>3, <3>4 DEF Missed
      <3>. QED
        BY <2>2, <2>4, <2>5, <2>7, <3>1, <3>4, <3>5 DEF Missed
    <2>8. CASE x = m /\ StopsNow(m)
      <3>1. mcu[m].armed
        BY <2>8 DEF StopsNow
      <3>2. ~(pc = "stop" /\ query.mcu = m /\ query.acked) /\ ~(m < Len(res))
        BY <3>1 DEF IInv, AnswersInv, TruthInv
      <3>3. ByItself(m)' => mcu'[m].reason # HOST_REQUEST
        BY DEF ByItself
      <3>. QED
        BY <2>3, <2>4, <2>8, <3>2, <3>3 DEF Missed
    <2>. QED
      BY <2>2, <2>6, <2>7, <2>8
  <1>. QED
    BY <1>1, <1>2, <1>3, <1>4, <1>5, Steps DEF MissedInv

\* The host never forgets what it has heard.
LEMMA HeardKeeps ==
    ASSUME HomedInv, [Next]_vars, NEW x \in McuIds, Heard(x)
    PROVE  Heard(x)' /\ mcu'[x].reason = mcu[x].reason
  <1>. USE DEF HomedInv
  <1>0. /\ LinksTypeOK /\ mcu \in [McuIds -> Trsync] /\ res \in Seq(Reasons)
        /\ \A y \in McuIds : y \in Nat
    BY TrSyncAssumption DEF IInv, TypeOK, LinksTypeOK, HostTypeOK, McuIds
  <1>1. CASE UNCHANGED <<mcu, pc, query, res>> /\ Range(reps'[x]) \subseteq Range(reps[x])
    BY <1>1 DEF Heard
  <1>2. CASE Quiet
    BY <1>1, <1>2 DEF Quiet
  <1>3. ASSUME NEW m \in McuIds, LosesOne(m)
        PROVE  Heard(x)' /\ mcu'[x].reason = mcu[x].reason
    BY <1>0, <1>1, <1>3, ReportsLeft DEF LosesOne
  <1>4. ASSUME NEW m \in McuIds, Receives(m)
        PROVE  Heard(x)' /\ mcu'[x].reason = mcu[x].reason
    <2>0. PICK r : r = Head(reps[m])
      OBVIOUS
    <2>1. /\ r \in Range(reps[m]) /\ (Live(r) \/ Halt(r) \/ r.kind = "ack")
          /\ reps' = [reps EXCEPT ![m] = Tail(@)] /\ reps[m] # <<>>
          /\ UNCHANGED <<mcu, failed, lost, pc, res, reading>>
          /\ query'.mcu = query.mcu
          /\ IF pc = "stop" /\ query.mcu = m
               THEN IF r.kind = "ack" THEN query'.answer = query.answer
                                      ELSE query'.answer = r.reason /\ query'.acked = query.acked
               ELSE query' = query
      BY <1>4, <2>0, ReceivesTells
    <2>2. Range(reps'[x]) \subseteq Range(reps[x])
      BY <1>0, <2>1, ReportsLeft
    <2>3. CASE query' = query
      BY <1>1, <2>1, <2>2, <2>3
    <2>4. CASE pc = "stop" /\ query.mcu = m
      <3>1. x = m => query'.answer \in {None, mcu[x].reason}
        <4>1. x = m => ~Live(r) /\ (Halt(r) => r.reason = mcu[x].reason)
          BY <2>1 DEF Heard, MessagesInv
        <4>. QED
          BY <2>1, <2>4, <4>1 DEF Heard
      <3>. QED
        BY <2>1, <2>2, <2>4, <3>1 DEF Heard
    <2>. QED
      BY <2>1, <2>3, <2>4
  <1>5. CASE Host
    <2>1. mcu' = mcu /\ reps' = reps
      BY <1>5, HostLeaves
    <2>2. CASE UNCHANGED <<query, res>> /\ (pc' = "stop" => pc = "stop")
      BY <2>1, <2>2 DEF Heard
    <2>3. CASE res' = res /\ query'.answer = None
      BY <2>1, <2>3 DEF Heard
    <2>4. CASE /\ pc = "stop" /\ query.acked /\ query.answer # None /\ res' = Append(res, query.answer)
               /\ (pc' = "done" \/ query'.answer = None)
      <3>1. query.mcu \in McuIds /\ Len(res) = query.mcu
        BY <2>4 DEF QueryInv, IInv
      <3>2. /\ Len(res') = Len(res) + 1 /\ res'[Len(res) + 1] = query.answer
            /\ \A i \in 1 .. Len(res) : res'[i] = res[i]
        BY <1>0, <2>4
      <3>3. x < Len(res') => x = Len(res) \/ (x < Len(res) /\ x + 1 \in 1 .. Len(res))
        BY <1>0, <3>1, <3>2
      <3>4. x < Len(res') => res'[x + 1] = mcu[x].reason
        <4>1. CASE x = Len(res)
          BY <2>4, <3>1, <3>2, <4>1 DEF Heard
        <4>2. CASE x < Len(res) /\ x + 1 \in 1 .. Len(res)
          BY <3>2, <4>2 DEF Heard
        <4>. QED
          BY <3>3, <4>1, <4>2
      <3>. QED
        BY <2>1, <2>4, <3>4 DEF Heard
    <2>. QED
      BY <1>5, <2>2, <2>3, <2>4, HostAsks
  <1>6. CASE EndstopHit \/ \E m \in McuIds : Controller(m)
    <2>1. PICK m \in McuIds :
             /\ mcu' \in [McuIds -> Trsync] /\ \A y \in McuIds \ {m} : mcu'[y] = mcu[y]
             /\ \A y \in McuIds : Range(cmds'[y]) \subseteq Range(cmds[y])
             /\ Says(m)
             /\ UNCHANGED <<failed, lost, disp, python>>
      BY <1>6, ControllerSays
    <2>2. /\ \A y \in McuIds \ {m} : reps'[y] = reps[y]
          /\ SameReason(m) \/ StopsNow(m)
          /\ \A r \in Range(reps'[m]) :
               \/ r \in Range(reps[m])
               \/ r.kind = "state" /\ r.armed = mcu'[m].armed /\ r.reason = mcu'[m].reason
               \/ r.kind = "ack" /\ \E c \in Range(cmds[m]) : c.kind = "query"
      BY <2>1, SaysMeans
    <2>3. UNCHANGED <<pc, query, res>>
      BY <2>1 DEF python
    <2>4. ~mcu'[x].armed /\ mcu'[x].reason = mcu[x].reason
      BY <2>1, <2>2 DEF Heard, SameReason, StopsNow
    <2>5. \A r \in Range(reps'[x]) : ~Live(r)
      BY <2>2, <2>4 DEF Heard, Live
    <2>. QED
      BY <2>3, <2>4, <2>5 DEF Heard
  <1>. QED
    BY <1>2, <1>3, <1>4, <1>5, <1>6, Steps

\* The first to complete the move, or to use up the trigger, is a trsync that
\* stopped by itself.
LEMMA HeardStep ==
    ASSUME HomedInv, [Next]_vars
    PROVE  HeardInv'
  <1>. USE DEF HomedInv
  <1>0. LinksTypeOK /\ ClocksTypeOK /\ res \in Seq(Reasons)
    BY DEF IInv, TypeOK, HostTypeOK
  <1>1. CASE failed' = {} => failed = {} /\ (HostStops' => HostStops)
    BY <1>1, HeardKeeps DEF HeardInv
  <1>2. CASE Quiet
    BY <1>1, <1>2 DEF Quiet, HostStops
  <1>3. ASSUME NEW m \in McuIds, LosesOne(m)
        PROVE  HeardInv'
    BY <1>1, <1>3 DEF LosesOne, HostStops
  <1>4. ASSUME NEW m \in McuIds, Receives(m)
        PROVE  HeardInv'
    <2>0. PICK r : r = Head(reps[m])
      OBVIOUS
    <2>1. /\ r \in Range(reps[m])
          /\ reps' = [reps EXCEPT ![m] = Tail(@)] /\ reps[m] # <<>>
          /\ UNCHANGED <<mcu, failed, lost, pc, res, reading>>
          /\ ~can_trigger' \/ completion' =>
                ~can_trigger \/ completion \/ (Halt(r) /\ pc \in {"move", "wait"})
      BY <1>4, <2>0, ReceivesTells
    <2>2. \A x \in McuIds : \A c \in Range(cmds'[x]) :
            \/ c \in Range(cmds[x]) \/ c.kind = "set_timeout"
            \/ can_trigger' # can_trigger
            \/ c.arg = PAST_END_TIME
      BY <1>0, <1>4, ReceivesCommands
    <2>3. can_trigger' # can_trigger => ~can_trigger'
      <3>1. HandleTrsyncState(m, r)
        BY <1>4, <2>0 DEF Receives
      <3>. QED
        BY <3>1 DEF HandleTrsyncState, disp
    <2>4. CASE HostStops
      BY <1>1, <2>1, <2>4
    <2>5. CASE ~HostStops' \/ failed' # {}
      BY <2>5 DEF HeardInv
    <2>6. CASE ~HostStops /\ HostStops' /\ failed' = {}
      <3>1. ~can_trigger' \/ completion'
        <4>1. HOST_REQUEST # PAST_END_TIME
          BY DEF HOST_REQUEST, PAST_END_TIME
        <4>. QED
          BY <2>1, <2>2, <2>3, <2>6, <4>1 DEF HostStops
      <3>2. Halt(r) /\ pc \in {"move", "wait"} /\ ~completion
        BY <2>1, <2>6, <3>1 DEF HostStops
      <3>3. ~mcu[m].armed /\ mcu[m].reason # HOST_REQUEST
        BY <2>1, <2>6, <3>2 DEF MessagesInv, HostStops
      <3>4. \A s \in Range(reps'[m]) : ~Live(s)
        BY <1>0, <2>0, <2>1, <3>2, ReportsLeft DEF Live, Halt
      <3>5. res = <<>> /\ ~(m < Len(res))
        <4>1. res = <<>>
          BY <3>2 DEF IInv, QueryInv
        <4>. QED
          BY <4>1, TrSyncAssumption DEF McuIds
      <3>6. Heard(m)'
        BY <2>1, <3>2, <3>3, <3>4, <3>5 DEF Heard
      <3>. QED
        BY <2>1, <3>3, <3>6 DEF HeardInv
    <2>. QED
      BY <2>4, <2>5, <2>6
  <1>5. CASE Host
    <2>1. UNCHANGED <<mcu, failed, can_trigger>>
      BY <1>5, HostLeaves
    <2>2. completion' => completion \/ failed # {}
      BY <1>5, HostAsks
    <2>3. \A x \in McuIds : \A c \in Range(cmds'[x]) : c \in Range(cmds[x]) \/ completion
      BY <1>5, HostCommands
    <2>. QED
      BY <1>1, <2>1, <2>2, <2>3 DEF HostStops
  <1>6. CASE EndstopHit \/ \E m \in McuIds : Controller(m)
    <2>1. PICK m \in McuIds :
             /\ mcu' \in [McuIds -> Trsync] /\ \A x \in McuIds \ {m} : mcu'[x] = mcu[x]
             /\ \A x \in McuIds : Range(cmds'[x]) \subseteq Range(cmds[x])
             /\ Says(m)
             /\ UNCHANGED <<failed, lost, disp, python>>
      BY <1>6, ControllerSays
    <2>2. SameReason(m) \/ StopsNow(m)
      BY <2>1, SaysMeans
    <2>3. UNCHANGED <<failed, can_trigger, completion>>
      BY <2>1 DEF disp, python
    <2>4. ASSUME NEW x \in McuIds, mcu'[x].reason = HOST_REQUEST
          PROVE  HostStops
      BY <2>1, <2>2, <2>4 DEF HostStops, SameReason, StopsNow
    <2>. QED
      BY <1>1, <2>1, <2>3, <2>4 DEF HostStops
  <1>. QED
    BY <1>2, <1>3, <1>4, <1>5, <1>6, Steps

\* All of it holds when the move begins.
LEMMA HomedInvInit == Init => HomedInv
  <1>. SUFFICES ASSUME Init
                PROVE  HomedInv
    OBVIOUS
  <1>1. IInv
    BY InitInv
  <1>2. Len(<<>>) = 0 /\ \A i : i \notin 1 .. 0
    OBVIOUS
  <1>3. \A m \in McuIds : /\ mcu[m].armed /\ mcu[m].reason = 0
                          /\ cmds[m] = <<>> /\ reps[m] = <<>> /\ Range(cmds[m]) = {} /\ Range(reps[m]) = {}
    BY <1>2 DEF Init, Range
  <1>4. ReasonInv
    BY <1>3 DEF ReasonInv, ENDSTOP_HIT, PAST_END_TIME
  <1>5. MessagesInv
    BY <1>2, <1>3 DEF MessagesInv, LiveFirst
  <1>6. HostInv /\ pc = "move" /\ ~completion /\ can_trigger
    BY DEF Init, HostInv
  <1>7. res = <<>> /\ \A m \in McuIds : ~(m < Len(res))
    <2>1. \A m \in McuIds : ~(m < 0)
      BY TrSyncAssumption DEF McuIds
    <2>. QED
      BY <1>2, <2>1 DEF Init
  <1>8. TruthInv
    BY <1>6, <1>7 DEF TruthInv
  <1>9. MissedInv
    BY <1>3, <1>6, <1>7 DEF MissedInv, Missed, ByItself, Stale
  <1>10. HeardInv
    BY <1>3, <1>6 DEF HeardInv, HostStops, HOST_REQUEST
  <1>. QED
    BY <1>1, <1>4, <1>5, <1>6, <1>8, <1>9, <1>10 DEF HomedInv

\* What the answers of stop() rest on holds in every reachable state.
THEOREM HomedInvariance == Spec => []HomedInv
  <1>1. HomedInv /\ [Next]_vars => HomedInv'
    <2>. SUFFICES ASSUME HomedInv, [Next]_vars
                  PROVE  HomedInv'
      OBVIOUS
    <2>1. IInv'
      BY StepInv DEF HomedInv
    <2>2. ReasonInv' /\ MessagesInv' /\ HostInv'
      BY ReasonStep, HostStep DEF HomedInv
    <2>3. TruthInv' /\ MissedInv' /\ HeardInv'
      BY TruthStep, MissedStep, HeardStep
    <2>. QED
      BY <2>1, <2>2, <2>3 DEF HomedInv
  <1>. QED
    BY <1>1, HomedInvInit, PTL DEF Spec

\* What home_wait makes of the answers.
LEMMA OutcomeSays ==
    ASSUME HomedInv, pc = "done"
    PROVE  /\ Outcome = "hit" => mcu[0].reason = ENDSTOP_HIT /\ \A m \in McuIds : res[m + 1] < COMMS_TIMEOUT
           /\ \A m \in McuIds : res[m + 1] \in {0, mcu[m].reason}
           /\ (\E m \in McuIds : res[m + 1] = COMMS_TIMEOUT) \/ res[1] = ENDSTOP_HIT => Outcome # "no trigger"
  <1>1. /\ res \in Seq(Reasons) /\ Len(res) = N /\ N \in Nat \ {0} /\ DOMAIN res = 1 .. N
        /\ \A i \in 1 .. N : res[i] \in Reasons
    BY TrSyncAssumption DEF HomedInv, IInv, TypeOK, HostTypeOK, HostInv
  <1>2. /\ \A m \in McuIds : m + 1 \in 1 .. N /\ m < Len(res)
        /\ 0 \in McuIds /\ 1 \in 1 .. N
    BY <1>1 DEF McuIds
  <1>3. \A m \in McuIds : res[m + 1] \in {0, mcu[m].reason}
    BY <1>2 DEF HomedInv, TruthInv
  <1>4. \A i \in 1 .. N : res[i] \in Int /\ ~(res[i] >= COMMS_TIMEOUT /\ res[i] < COMMS_TIMEOUT)
    BY <1>1 DEF Reasons, COMMS_TIMEOUT
  <1>5. (\E i \in 1 .. N : res[i] >= COMMS_TIMEOUT) => Outcome = "timeout"
    <2>1. (\E i \in 1 .. N : res[i] >= COMMS_TIMEOUT) => ~\A i \in 1 .. N : res[i] < COMMS_TIMEOUT
      BY <1>4
    <2>. QED
      BY <1>1, <2>1 DEF Outcome
  <1>6. ASSUME ~\E i \in 1 .. N : res[i] >= COMMS_TIMEOUT
        PROVE  /\ \A i \in 1 .. N : res[i] < COMMS_TIMEOUT
               /\ Outcome = IF res[1] = ENDSTOP_HIT THEN "hit" ELSE "no trigger"
    <2>1. \A i \in 1 .. N : res[i] < COMMS_TIMEOUT
      BY <1>4, <1>6 DEF COMMS_TIMEOUT
    <2>. QED
      BY <1>1, <1>6, <2>1 DEF Outcome
  <1>7. Outcome = "hit" => mcu[0].reason = ENDSTOP_HIT /\ \A m \in McuIds : res[m + 1] < COMMS_TIMEOUT
    <2>. SUFFICES ASSUME Outcome = "hit"
                  PROVE  mcu[0].reason = ENDSTOP_HIT /\ \A m \in McuIds : res[m + 1] < COMMS_TIMEOUT
      OBVIOUS
    <2>1. res[1] = ENDSTOP_HIT /\ \A i \in 1 .. N : res[i] < COMMS_TIMEOUT
      BY <1>5, <1>6
    <2>2. res[0 + 1] \in {0, mcu[0].reason}
      BY <1>2, <1>3
    <2>. QED
      BY <1>2, <2>1, <2>2 DEF ENDSTOP_HIT
  <1>8. (\E m \in McuIds : res[m + 1] = COMMS_TIMEOUT) \/ res[1] = ENDSTOP_HIT => Outcome # "no trigger"
    <2>1. ASSUME NEW m \in McuIds, res[m + 1] = COMMS_TIMEOUT
          PROVE  \E i \in 1 .. N : res[i] >= COMMS_TIMEOUT
      BY <1>2, <2>1 DEF COMMS_TIMEOUT
    <2>. QED
      BY <1>5, <1>6, <2>1
  <1>. QED
    BY <1>3, <1>7, <1>8

\* home_wait reports a trigger only if the endstop was hit, whatever reports are
\* lost; and then no trsync timed out, unless two reports were.
THEOREM ReportedIsTrue ==
    Spec => [](pc = "done" /\ Outcome = "hit" =>
                 /\ mcu[0].reason = ENDSTOP_HIT
                 /\ lost < 2 => \A m \in McuIds : mcu[m].reason # COMMS_TIMEOUT)
  <1>1. HomedInv => (pc = "done" /\ Outcome = "hit" =>
                       /\ mcu[0].reason = ENDSTOP_HIT
                       /\ lost < 2 => \A m \in McuIds : mcu[m].reason # COMMS_TIMEOUT)
    <2>. SUFFICES ASSUME HomedInv, pc = "done", Outcome = "hit"
                  PROVE  /\ mcu[0].reason = ENDSTOP_HIT
                         /\ lost < 2 => \A m \in McuIds : mcu[m].reason # COMMS_TIMEOUT
      OBVIOUS
    <2>1. /\ mcu[0].reason = ENDSTOP_HIT
          /\ \A m \in McuIds : res[m + 1] < COMMS_TIMEOUT /\ res[m + 1] \in {0, mcu[m].reason}
      BY OutcomeSays
    <2>2. ASSUME NEW m \in McuIds, mcu[m].reason = COMMS_TIMEOUT
          PROVE  lost >= 2
      <3>1. res[m + 1] = 0
        BY <2>1, <2>2 DEF COMMS_TIMEOUT
      <3>2. m < Len(res)
        BY TrSyncAssumption DEF HomedInv, HostInv, McuIds
      <3>3. ByItself(m)
        BY <2>2 DEF ByItself, COMMS_TIMEOUT, HOST_REQUEST
      <3>. QED
        BY <3>1, <3>2, <3>3 DEF HomedInv, MissedInv, Missed
    <2>3. lost \in Nat
      BY DEF HomedInv, IInv, TypeOK, LinksTypeOK
    <2>. QED
      BY <2>1, <2>2, <2>3
  <1>. QED
    BY <1>1, HomedInvariance, PTL

\* home_wait does not say "no trigger" when the endstop was hit, unless a link
\* failed: somebody stopped by itself, and stop() has heard of it.
THEOREM HitIsReported ==
    Spec => [](pc = "done" /\ mcu[0].reason = ENDSTOP_HIT /\ failed = {} => Outcome # "no trigger")
  <1>1. HomedInv => (pc = "done" /\ mcu[0].reason = ENDSTOP_HIT /\ failed = {} => Outcome # "no trigger")
    <2>. SUFFICES ASSUME HomedInv, pc = "done", mcu[0].reason = ENDSTOP_HIT, failed = {}
                  PROVE  Outcome # "no trigger"
      OBVIOUS
    <2>1. completion /\ Len(res) = N
      BY DEF HomedInv, HostInv
    <2>2. PICK m \in McuIds : Heard(m) /\ mcu[m].reason # HOST_REQUEST
      BY <2>1 DEF HomedInv, HeardInv, HostStops
    <2>3. m < Len(res)
      BY <2>1, TrSyncAssumption DEF McuIds
    <2>4. res[m + 1] = mcu[m].reason /\ ~mcu[m].armed
      BY <2>2, <2>3 DEF Heard
    <2>5. mcu[m].reason \in Reasons /\ mcu[m].reason # 0
      BY <2>4 DEF HomedInv, IInv, TypeOK, LinksTypeOK, Trsync, ReasonInv
    <2>6. mcu[m].reason \in {ENDSTOP_HIT, PAST_END_TIME} \/ mcu[m].reason = COMMS_TIMEOUT
      BY <2>2, <2>5 DEF Reasons, ENDSTOP_HIT, HOST_REQUEST, PAST_END_TIME, COMMS_TIMEOUT
    <2>7. CASE mcu[m].reason = COMMS_TIMEOUT
      BY <2>4, <2>7, OutcomeSays
    <2>8. CASE m = 0
      <3>1. m + 1 = 1
        BY <2>8
      <3>2. res[1] = ENDSTOP_HIT
        BY <2>4, <2>8, <3>1
      <3>. QED
        BY <3>2, OutcomeSays
    <2>. QED
      BY <2>6, <2>7, <2>8 DEF HomedInv, ReasonInv
  <1>. QED
    BY <1>1, HomedInvariance, PTL

\* When a homing move is over every controller has stopped, a trigger that is
\* reported is one, and one that was is reported: HomedIsTrue, for any timing,
\* as long as no two reports are lost.
THEOREM HomingIsTrue == Spec => [](lost < 2 => HomedIsTrue)
  <1>1. StoppedWhenDone
          /\ (pc = "done" /\ Outcome = "hit" =>
                /\ mcu[0].reason = ENDSTOP_HIT
                /\ lost < 2 => \A m \in McuIds : mcu[m].reason # COMMS_TIMEOUT)
          /\ (pc = "done" /\ mcu[0].reason = ENDSTOP_HIT /\ failed = {} => Outcome # "no trigger")
        => (lost < 2 => HomedIsTrue)
    BY DEF HomedIsTrue
  <1>. QED
    BY <1>1, AllStoppedWhenDone, ReportedIsTrue, HitIsReported, PTL
-----------------------------------------------------------------------------
(* That no trsync times out while every link keeps to its latency.  The     *)
(* host's last status of each is then at most Report + Latency old, what it *)
(* extends a timeout to is less than MinExtend short of what that allows,   *)
(* and the command takes at most Latency.                                   *)
Punctual == failed = {} /\ lost = 0

\* The least timeout a command leaves in force that is sent at clock.
Reach(clock) == Timeout + clock - Latency - Report - MinExtend + 1

\* What is under way in q at time is in order, none of it from the future and
\* none late.
Timely(q, time) ==
    /\ \A i \in 1 .. Len(q) : q[i].clock <= time /\ time <= q[i].clock + Latency
    /\ \A i, j \in 1 .. Len(q) : i <= j => q[i].clock <= q[j].clock

\* The first report under way in q is at most Report later than the status the
\* host has, of clock, and each is than the one before, if that says that the
\* trsync worked.
Regular(q, clock) ==
    /\ q # <<>> => q[1].clock <= clock + Report
    /\ \A i \in 1 .. Len(q) : i # Len(q) /\ q[i].armed => q[i + 1].clock <= q[i].clock + Report

\* A trsync t that works sends the next report in time; if it has stopped, the
\* last report under way says so.
LastClock(q, clock) == IF q = <<>> THEN clock ELSE q[Len(q)].clock
Reporting(t, q, clock, time) ==
    IF t.armed THEN t.next # None /\ time <= t.next /\ t.next <= LastClock(q, clock) + Report
               ELSE q # <<>> /\ ~q[Len(q)].armed

\* No timeout is MinExtend short of what the status of the others allows.
Extended(m) == \E x \in Others(m) : Timeout + last_status_clock[x] < expire_clock[m] + MinExtend

\* Until it hears of a trsync that stopped the host hears of all of them, and
\* extends their timeouts.
Attends ==
    /\ reading /\ ~completion
    /\ \A m \in McuIds :
        /\ Regular(reps[m], last_status_clock[m])
        /\ Reporting(mcu[m], reps[m], last_status_clock[m], now)
        /\ Extended(m)

\* The timeout in force, low, lasts until the first command in q was sent, and
\* some time longer; so does every timeout in q until the next command was sent.
Lasting(q, low) ==
    /\ q # <<>> => Reach(q[1].clock) <= low
    /\ \A i \in 1 .. Len(q) : i # Len(q) /\ q[i].kind = "set_timeout" => Reach(q[i + 1].clock) <= q[i].arg

\* The last command in q stops the trsync or is high, its last timeout, and more
\* may follow; if there is none then high is in force, and more may follow.
Ends(q, low, high, more) ==
    IF q = <<>> THEN more /\ low = high
                ELSE q[Len(q)].kind = "set_timeout" => more /\ q[Len(q)].arg = high

Served(m) ==
    /\ Timely(cmds[m], now) /\ Timely(reps[m], now)
    /\ mcu[m].armed =>
        /\ Lasting(cmds[m], mcu[m].expire)
        /\ Ends(cmds[m], mcu[m].expire, expire_clock[m], can_trigger)
    /\ mcu[m].reason # COMMS_TIMEOUT

PunctualInv == Punctual => (can_trigger => Attends) /\ \A m \in McuIds : Served(m)

\* A queue whose first message is taken, and one with a message more.
LEMMA TailShape ==
    ASSUME NEW S, NEW q \in Seq(S), q # <<>>
    PROVE  /\ Tail(q) \in Seq(S) /\ Len(q) \in Nat \ {0} /\ Len(Tail(q)) = Len(q) - 1 /\ Head(q) = q[1]
           /\ \A i \in 1 .. Len(q) - 1 : Tail(q)[i] = q[i + 1]
           /\ Tail(q) = <<>> => Len(q) = 1
           /\ Len(q) = 1 => Tail(q) = <<>>
  <1>1. /\ Tail(q) \in Seq(S) /\ Len(q) \in Nat \ {0} /\ Len(Tail(q)) = Len(q) - 1 /\ Head(q) = q[1]
        /\ \A i \in 1 .. Len(q) - 1 : Tail(q)[i] = q[i + 1]
    OBVIOUS
  <1>2. ASSUME NEW t \in Seq(S)
        PROVE  (t = <<>> => Len(t) = 0) /\ (Len(t) = 0 => t = <<>>)
    OBVIOUS
  <1>3. (Tail(q) = <<>> => Len(Tail(q)) = 0) /\ (Len(Tail(q)) = 0 => Tail(q) = <<>>)
    BY <1>1, <1>2
  <1>4. \A m, n \in Int : m = n - 1 => (m = 0 <=> n = 1)
    OBVIOUS
  <1>5. Len(Tail(q)) = 0 <=> Len(q) = 1
    BY <1>1, <1>4
  <1>. QED
    BY <1>1, <1>3, <1>5, Zenon

LEMMA AppendShape ==
    ASSUME NEW S, NEW q \in Seq(S), NEW e \in S
    PROVE  /\ Append(q, e) \in Seq(S) /\ Len(q) \in Nat /\ Len(Append(q, e)) = Len(q) + 1
           /\ \A i \in 1 .. Len(q) : Append(q, e)[i] = q[i]
           /\ Append(q, e)[Len(q) + 1] = e /\ Append(q, e) # <<>>
           /\ q = <<>> <=> Len(q) = 0
  OBVIOUS

LEMMA TimelyTail ==
    ASSUME NEW S, NEW q \in Seq(S), q # <<>>, NEW time, Timely(q, time)
    PROVE  Timely(Tail(q), time)
  <1>1. PICK t : t = Tail(q)
    OBVIOUS
  <1>2. /\ Len(q) \in Nat \ {0} /\ Len(t) = Len(q) - 1
        /\ \A i \in 1 .. Len(q) - 1 : t[i] = q[i + 1]
    BY <1>1, TailShape
  <1>3. \A i \in 1 .. Len(t) : t[i] = q[i + 1] /\ i + 1 \in 1 .. Len(q)
    BY <1>2
  <1>4. \A i \in 1 .. Len(t) : t[i].clock <= time /\ time <= t[i].clock + Latency
    BY <1>3 DEF Timely
  <1>5. \A i, j \in 1 .. Len(t) : i <= j => t[i].clock <= t[j].clock
    <2>1. \A i, j \in 1 .. Len(t) : i <= j => i + 1 <= j + 1
      BY <1>2
    <2>. QED
      BY <1>3, <2>1 DEF Timely
  <1>. QED
    BY <1>1, <1>4, <1>5 DEF Timely

LEMMA TimelyAppend ==
    ASSUME NEW S, \A x \in S : x.clock \in Int, NEW q \in Seq(S), NEW e \in S,
           NEW time \in Int, e.clock = time, Timely(q, time)
    PROVE  Timely(Append(q, e), time)
  <1>1. PICK t : t = Append(q, e)
    OBVIOUS
  <1>2. /\ Len(q) \in Nat /\ Len(t) = Len(q) + 1 /\ t[Len(q) + 1] = e
        /\ \A i \in 1 .. Len(q) : t[i] = q[i]
    BY <1>1, AppendShape
  <1>3. \A i \in 1 .. Len(t) : (i \in 1 .. Len(q) /\ t[i] = q[i]) \/ (i = Len(q) + 1 /\ t[i] = e)
    BY <1>2
  <1>4. \A i \in 1 .. Len(t) : t[i].clock <= time /\ time <= t[i].clock + Latency
    BY <1>3, TrSyncAssumption DEF Timely
  <1>5. ASSUME NEW i \in 1 .. Len(t), NEW j \in 1 .. Len(t), i <= j PROVE t[i].clock <= t[j].clock
    <2>1. CASE j = Len(q) + 1
      BY <1>2, <1>4, <2>1
    <2>2. CASE j \in 1 .. Len(q)
      <3>1. i \in 1 .. Len(q)
        BY <1>2, <1>5, <2>2
      <3>. QED
        BY <1>2, <1>5, <2>2, <3>1 DEF Timely
    <2>. QED
      BY <1>3, <2>1, <2>2
  <1>. QED
    BY <1>1, <1>4, <1>5 DEF Timely

\* Time may pass if the first message is not due yet.
LEMMA TimelyTick ==
    ASSUME NEW S, \A x \in S : x.clock \in Int, NEW q \in Seq(S), NEW time \in Int, Timely(q, time),
           q # <<>> => Head(q).clock + Latency > time
    PROVE  Timely(q, time + 1)
  <1>1. \A i \in 1 .. Len(q) : q[i].clock \in Int
    OBVIOUS
  <1>2. ASSUME NEW i \in 1 .. Len(q) PROVE q[i].clock <= time + 1 /\ time + 1 <= q[i].clock + Latency
    <2>1. q # <<>> /\ 1 \in 1 .. Len(q) /\ 1 <= i /\ Head(q) = q[1]
      OBVIOUS
    <2>2. q[1].clock <= q[i].clock /\ q[i].clock <= time
      BY <2>1 DEF Timely
    <2>. QED
      BY <1>1, <2>1, <2>2, TrSyncAssumption
  <1>. QED
    BY <1>2 DEF Timely

\* The reports under way stay regular when a trsync sends one more, the last one
\* it may send being due by then.
LEMMA ReportAdded ==
    ASSUME NEW q \in Seq(Messages), NEW t \in Trsync, NEW u \in Trsync, NEW clock \in Nat, NEW time \in Nat,
           NEW e \in Messages, e.clock = time, e.armed = u.armed,
           u.armed => t.armed /\ u.next = time + Report,
           Regular(q, clock), Reporting(t, q, clock, time)
    PROVE  Regular(Append(q, e), clock) /\ Reporting(u, Append(q, e), clock, time)
  <1>1. PICK p : p = Append(q, e)
    OBVIOUS
  <1>2. /\ Len(q) \in Nat /\ Len(p) = Len(q) + 1 /\ p[Len(q) + 1] = e /\ p # <<>>
        /\ \A i \in 1 .. Len(q) : p[i] = q[i]
        /\ q = <<>> => Len(q) = 0
        /\ q # <<>> => Len(q) # 0
    BY <1>1, AppendShape
  <1>3. t.armed => t.next \in Nat /\ time <= t.next /\ t.next <= LastClock(q, clock) + Report
    BY DEF Reporting, Trsync
  <1>4. CASE q = <<>>
    <2>1. Len(p) = 1 /\ p[1] = e
      BY <1>2, <1>4
    <2>2. t.armed
      BY <1>4 DEF Reporting
    <2>3. time <= clock + Report
      BY <1>3, <1>4, <2>2, TrSyncAssumption DEF LastClock
    <2>4. Regular(p, clock)
      BY <2>1, <2>3 DEF Regular
    <2>5. Reporting(u, p, clock, time)
      BY <1>2, <2>1, TrSyncAssumption DEF Reporting, LastClock, None
    <2>. QED
      BY <1>1, <2>4, <2>5
  <1>5. CASE q # <<>>
    <2>1. Len(q) # 0 /\ 1 \in 1 .. Len(q) /\ Len(q) \in 1 .. Len(q) /\ p[1] = q[1]
      BY <1>2, <1>5
    <2>2. q[1].clock <= clock + Report
      BY <1>5 DEF Regular
    <2>3. ASSUME q[Len(q)].armed PROVE time <= q[Len(q)].clock + Report
      <3>1. t.armed
        BY <2>3 DEF Reporting
      <3>2. q[Len(q)] \in Messages
        BY <2>1
      <3>3. q[Len(q)].clock \in Int
        BY <3>2 DEF Messages
      <3>. QED
        BY <1>3, <1>5, <3>1, <3>3, TrSyncAssumption DEF LastClock
    <2>4. ASSUME NEW i \in 1 .. Len(p), i # Len(p), p[i].armed PROVE p[i + 1].clock <= p[i].clock + Report
      <3>1. i \in 1 .. Len(q) /\ p[i] = q[i]
        BY <1>2, <2>4
      <3>2. CASE i = Len(q)
        BY <1>2, <2>3, <2>4, <3>1, <3>2
      <3>3. CASE i # Len(q)
        <4>1. i + 1 \in 1 .. Len(q)
          BY <1>2, <3>1, <3>3
        <4>2. q[i + 1].clock <= q[i].clock + Report
          BY <2>4, <3>1, <3>3 DEF Regular
        <4>. QED
          BY <1>2, <3>1, <4>1, <4>2
      <3>. QED
        BY <3>2, <3>3
    <2>5. Regular(p, clock)
      BY <2>1, <2>2, <2>4 DEF Regular
    <2>6. Reporting(u, p, clock, time)
      BY <1>2, TrSyncAssumption DEF Reporting, LastClock, None
    <2>. QED
      BY <1>1, <2>5, <2>6
  <1>. QED
    BY <1>4, <1>5

\* They do when the host takes one that says that the trsync worked.
LEMMA ReportTaken ==
    ASSUME NEW q \in Seq(Messages), q # <<>>, NEW t, NEW clock, NEW time,
           q[1].armed, Regular(q, clock), Reporting(t, q, clock, time)
    PROVE  Regular(Tail(q), q[1].clock) /\ Reporting(t, Tail(q), q[1].clock, time)
  <1>1. PICK p : p = Tail(q)
    OBVIOUS
  <1>2. /\ Len(q) \in Nat \ {0} /\ Len(p) = Len(q) - 1 /\ \A i \in 1 .. Len(q) - 1 : p[i] = q[i + 1]
        /\ p = <<>> => Len(q) = 1
        /\ Len(q) = 1 => p = <<>>
    BY <1>1, TailShape
  <1>3. CASE p = <<>>
    <2>1. Regular(p, q[1].clock)
      BY <1>3 DEF Regular
    <2>2. Reporting(t, p, q[1].clock, time)
      BY <1>2, <1>3 DEF Reporting, LastClock
    <2>. QED
      BY <1>1, <2>1, <2>2
  <1>4. CASE p # <<>>
    <2>1. Len(q) # 1 /\ 1 \in 1 .. Len(q) - 1 /\ p[1] = q[1 + 1] /\ p[Len(p)] = q[Len(q)]
      BY <1>2, <1>4
    <2>2. p[1].clock <= q[1].clock + Report
      BY <1>2, <2>1 DEF Regular
    <2>3. ASSUME NEW i \in 1 .. Len(p), i # Len(p), p[i].armed PROVE p[i + 1].clock <= p[i].clock + Report
      <3>1. i + 1 \in 1 .. Len(q) /\ i + 1 # Len(q) /\ p[i] = q[i + 1] /\ p[i + 1] = q[(i + 1) + 1]
        BY <1>2, <2>3
      <3>. QED
        BY <2>3, <3>1 DEF Regular
    <2>4. Regular(p, q[1].clock)
      BY <2>2, <2>3 DEF Regular
    <2>5. Reporting(t, p, q[1].clock, time)
      BY <1>4, <2>1 DEF Reporting, LastClock
    <2>. QED
      BY <1>1, <2>4, <2>5
  <1>. QED
    BY <1>3, <1>4

\* What the host knows of a trsync is at most Report and Latency old.
LEMMA StatusIsRecent ==
    ASSUME NEW q \in Seq(Messages), NEW t \in Trsync, NEW clock \in Nat, NEW time \in Nat,
           Timely(q, time), Regular(q, clock), Reporting(t, q, clock, time)
    PROVE  time <= clock + Report + Latency
  <1>1. CASE q = <<>>
    <2>1. t.armed /\ t.next \in Nat /\ time <= t.next /\ t.next <= clock + Report
      BY <1>1 DEF Reporting, LastClock, Trsync
    <2>. QED
      BY <2>1, TrSyncAssumption
  <1>2. CASE q # <<>>
    <2>1. 1 \in 1 .. Len(q) /\ q[1] \in Messages
      BY <1>2
    <2>2. q[1].clock \in Int
      BY <2>1 DEF Messages
    <2>3. q[1].clock <= clock + Report /\ time <= q[1].clock + Latency
      BY <1>2, <2>1 DEF Regular, Timely
    <2>. QED
      BY <2>2, <2>3, TrSyncAssumption
  <1>. QED
    BY <1>1, <1>2

\* The timeouts last when one more command is sent, if the last one lasts
\* until then.
LEMMA CommandAdded ==
    ASSUME NEW q \in Seq(Commands), NEW low \in Int, NEW high \in Int, NEW later \in Int,
           NEW more \in BOOLEAN, NEW yet \in BOOLEAN, NEW time \in Nat,
           NEW e \in Commands, e.clock = time, e.kind = "set_timeout" => yet /\ e.arg = later,
           Lasting(q, low), Ends(q, low, high, more), more => Reach(time) <= high
    PROVE  Lasting(Append(q, e), low) /\ Ends(Append(q, e), low, later, yet)
  <1>1. PICK p : p = Append(q, e)
    OBVIOUS
  <1>2. /\ Len(q) \in Nat /\ Len(p) = Len(q) + 1 /\ p[Len(q) + 1] = e /\ p # <<>>
        /\ \A i \in 1 .. Len(q) : p[i] = q[i]
        /\ q = <<>> => Len(q) = 0
        /\ q # <<>> => Len(q) # 0
    BY <1>1, AppendShape
  <1>3. Ends(p, low, later, yet)
    BY <1>2 DEF Ends
  <1>4. CASE q = <<>>
    <2>1. Len(p) = 1 /\ p[1] = e
      BY <1>2, <1>4
    <2>2. Reach(time) <= low
      BY <1>4 DEF Ends
    <2>3. Lasting(p, low)
      BY <2>1, <2>2 DEF Lasting
    <2>. QED
      BY <1>1, <1>3, <2>3
  <1>5. CASE q # <<>>
    <2>1. Len(q) # 0 /\ 1 \in 1 .. Len(q) /\ Len(q) \in 1 .. Len(q) /\ p[1] = q[1]
      BY <1>2, <1>5
    <2>2. Reach(p[1].clock) <= low
      BY <1>5, <2>1 DEF Lasting
    <2>3. q[Len(q)].kind = "set_timeout" => Reach(time) <= q[Len(q)].arg
      BY <1>5 DEF Ends
    <2>4. ASSUME NEW i \in 1 .. Len(p), i # Len(p), p[i].kind = "set_timeout" PROVE Reach(p[i + 1].clock) <= p[i].arg
      <3>1. i \in 1 .. Len(q) /\ p[i] = q[i]
        BY <1>2, <2>4
      <3>2. CASE i = Len(q)
        BY <1>2, <2>3, <2>4, <3>1, <3>2
      <3>3. CASE i # Len(q)
        <4>1. i + 1 \in 1 .. Len(q)
          BY <1>2, <3>1, <3>3
        <4>2. Reach(q[i + 1].clock) <= q[i].arg
          BY <2>4, <3>1, <3>3 DEF Lasting
        <4>. QED
          BY <1>2, <3>1, <4>1, <4>2
      <3>. QED
        BY <3>2, <3>3
    <2>5. Lasting(p, low)
      BY <2>2, <2>4 DEF Lasting
    <2>. QED
      BY <1>1, <1>3, <2>5
  <1>. QED
    BY <1>4, <1>5

\* They do when the first one replaces the one in force.
LEMMA CommandTaken ==
    ASSUME NEW q \in Seq(Commands), q # <<>>, NEW low, NEW high, NEW more,
           q[1].kind = "set_timeout", Lasting(q, low), Ends(q, low, high, more)
    PROVE  Lasting(Tail(q), q[1].arg) /\ Ends(Tail(q), q[1].arg, high, more)
  <1>1. PICK p : p = Tail(q)
    OBVIOUS
  <1>2. /\ Len(q) \in Nat \ {0} /\ Len(p) = Len(q) - 1 /\ \A i \in 1 .. Len(q) - 1 : p[i] = q[i + 1]
        /\ p = <<>> => Len(q) = 1
        /\ Len(q) = 1 => p = <<>>
    BY <1>1, TailShape
  <1>3. CASE p = <<>>
    <2>1. Len(p) = 0 /\ Len(q) = 1
      BY <1>2, <1>3
    <2>2. Lasting(p, q[1].arg)
      BY <1>3, <2>1 DEF Lasting
    <2>3. Ends(p, q[1].arg, high, more)
      BY <1>3, <2>1 DEF Ends
    <2>. QED
      BY <1>1, <2>2, <2>3
  <1>4. CASE p # <<>>
    <2>1. Len(q) # 1 /\ 1 \in 1 .. Len(q) - 1 /\ p[1] = q[1 + 1] /\ p[Len(p)] = q[Len(q)]
      BY <1>2, <1>4
    <2>2. Reach(p[1].clock) <= q[1].arg
      BY <1>2, <2>1 DEF Lasting
    <2>3. ASSUME NEW i \in 1 .. Len(p), i # Len(p), p[i].kind = "set_timeout" PROVE Reach(p[i + 1].clock) <= p[i].arg
      <3>1. i + 1 \in 1 .. Len(q) /\ i + 1 # Len(q) /\ p[i] = q[i + 1] /\ p[i + 1] = q[(i + 1) + 1]
        BY <1>2, <2>3
      <3>. QED
        BY <2>3, <3>1 DEF Lasting
    <2>4. Lasting(p, q[1].arg)
      BY <2>2, <2>3 DEF Lasting
    <2>5. Ends(p, q[1].arg, high, more)
      BY <1>4, <2>1 DEF Ends
    <2>. QED
      BY <1>1, <2>4, <2>5
  <1>. QED
    BY <1>3, <1>4

\* The links stay in order if they are, and were.
LEMMA PunctualBefore ==
    ASSUME IInv, [Next]_vars, Punctual'
    PROVE  /\ Punctual /\ failed' = {} /\ lost' = 0
           /\ \A m \in McuIds : ~Loses(m) /\ ~Fails(m)
  <1>0. lost \in Nat /\ failed' = {} /\ lost' = 0
    BY DEF IInv, TypeOK, LinksTypeOK, Punctual
  <1>1. \A m \in McuIds : ~Loses(m) /\ ~Fails(m)
    BY <1>0 DEF Loses, Fails
  <1>2. UNCHANGED <<failed, lost>>
    <2>1. CASE Tick
      BY <2>1 DEF Tick, link
    <2>2. CASE EndstopHit
      BY <2>2 DEF EndstopHit, Stop
    <2>3. CASE Host
      BY <2>3, HostLeaves
    <2>4. ASSUME NEW m \in McuIds, Controller(m) PROVE UNCHANGED <<failed, lost>>
      BY <2>4 DEF Controller, Expires, Stop, Reports, Executes
    <2>5. ASSUME NEW m \in McuIds, Receives(m) PROVE UNCHANGED <<failed, lost>>
      BY <2>5 DEF Receives
    <2>6. CASE UNCHANGED vars
      BY <2>6 DEF vars, link
    <2>. QED
      BY <1>1, <2>1, <2>2, <2>3, <2>4, <2>5, <2>6 DEF Next
  <1>. QED
    BY <1>0, <1>1, <1>2 DEF Punctual

\* The numbers of a state.
LEMMA PunctualTypes ==
    ASSUME IInv
    PROVE  /\ now \in Nat
           /\ \A m \in McuIds : /\ mcu[m] \in Trsync /\ last_status_clock[m] \in Nat /\ expire_clock[m] \in Nat
                                /\ cmds[m] \in Seq(Commands) /\ reps[m] \in Seq(Messages)
                                /\ Others(m) \subseteq McuIds
           /\ \A x \in Commands : x.clock \in Int
           /\ \A x \in Messages : x.clock \in Int
  <1>1. now \in Nat
    BY DEF IInv, TypeOK, ClocksTypeOK
  <1>2. ASSUME NEW m \in McuIds
        PROVE  /\ mcu[m] \in Trsync /\ cmds[m] \in Seq(Commands) /\ reps[m] \in Seq(Messages)
               /\ last_status_clock[m] \in Nat /\ expire_clock[m] \in Nat
    <2>1. mcu[m] \in Trsync /\ cmds[m] \in Seq(Commands) /\ reps[m] \in Seq(Messages)
      BY DEF IInv, TypeOK, LinksTypeOK
    <2>2. last_status_clock[m] \in 0 .. MaxTime /\ expire_clock[m] \in Times
      BY DEF IInv, TypeOK, ClocksTypeOK
    <2>. QED
      BY <2>1, <2>2 DEF Times
  <1>3. \A m \in McuIds : Others(m) \subseteq McuIds
    BY DEF Others
  <1>4. (\A x \in Commands : x.clock \in Int) /\ (\A x \in Messages : x.clock \in Int)
    BY DEF Commands, Messages
  <1>. QED
    BY <1>1, <1>2, <1>3, <1>4

\* While the host attends to the controllers a timeout sent last would do if it
\* was sent now.
LEMMA LastTimeoutLasts ==
    ASSUME IInv, PunctualInv, Punctual, can_trigger, NEW m \in McuIds
    PROVE  Reach(now) <= expire_clock[m]
  <1>1. PICK x \in Others(m) : Timeout + last_status_clock[x] < expire_clock[m] + MinExtend
    BY DEF PunctualInv, Attends, Extended
  <1>2. /\ now \in Nat /\ expire_clock[m] \in Nat /\ x \in McuIds
        /\ mcu[x] \in Trsync /\ last_status_clock[x] \in Nat /\ reps[x] \in Seq(Messages)
    BY <1>1, PunctualTypes
  <1>3. /\ Timely(reps[x], now) /\ Regular(reps[x], last_status_clock[x])
        /\ Reporting(mcu[x], reps[x], last_status_clock[x], now)
    BY <1>2 DEF PunctualInv, Attends, Served
  <1>4. now <= last_status_clock[x] + Report + Latency
    <2>1. PICK q \in Seq(Messages), t \in Trsync, clock \in Nat, time \in Nat :
            q = reps[x] /\ t = mcu[x] /\ clock = last_status_clock[x] /\ time = now
      BY <1>2
    <2>. QED
      BY <1>3, <2>1, StatusIsRecent
  <1>. QED
    BY <1>1, <1>2, <1>4, TrSyncAssumption DEF Reach

\* No timeout expires.
LEMMA NotExpired ==
    ASSUME IInv, PunctualInv, Punctual, 2 * Latency + Report + MinExtend <= Timeout, NEW m \in McuIds, mcu[m].armed
    PROVE  now < mcu[m].expire
  <1>1. /\ now \in Nat /\ mcu[m] \in Trsync /\ cmds[m] \in Seq(Commands)
    BY PunctualTypes
  <1>2. /\ Timely(cmds[m], now) /\ Lasting(cmds[m], mcu[m].expire)
        /\ Ends(cmds[m], mcu[m].expire, expire_clock[m], can_trigger)
    BY DEF PunctualInv, Served
  <1>3. mcu[m].expire \in Int
    BY <1>1, TrSyncAssumption DEF Trsync, Times, None
  <1>4. CASE cmds[m] = <<>>
    <2>1. can_trigger /\ mcu[m].expire = expire_clock[m]
      BY <1>2, <1>4 DEF Ends
    <2>2. Reach(now) <= mcu[m].expire
      BY <2>1, LastTimeoutLasts
    <2>. QED
      BY <1>1, <1>3, <2>2, TrSyncAssumption DEF Reach
  <1>5. CASE cmds[m] # <<>>
    <2>1. 1 \in 1 .. Len(cmds[m]) /\ cmds[m][1] \in Commands
      BY <1>1, <1>5
    <2>2. cmds[m][1].clock \in Int
      BY <2>1, PunctualTypes
    <2>3. Reach(cmds[m][1].clock) <= mcu[m].expire /\ now <= cmds[m][1].clock + Latency
      BY <1>2, <1>5, <2>1 DEF Lasting, Timely
    <2>4. PICK c \in Int, e \in Int, t \in Int : c = cmds[m][1].clock /\ e = mcu[m].expire /\ t = now
      BY <1>1, <1>3, <2>2
    <2>5. Timeout + c - Latency - Report - MinExtend + 1 <= e /\ t <= c + Latency
      BY <2>3, <2>4 DEF Reach
    <2>6. t < e
      BY <2>5, TrSyncAssumption
    <2>. QED
      BY <2>4, <2>6
  <1>. QED
    BY <1>4, <1>5
-----------------------------------------------------------------------------
(* Step by step.                                                           *)
LEMMA PunctualTick ==
    ASSUME IInv, PunctualInv, Punctual, Tick
    PROVE  (can_trigger' => Attends') /\ \A m \in McuIds : Served(m)'
  <1>1. /\ now' = now + 1 /\ \A m \in McuIds : OnTime(m)
        /\ UNCHANGED <<mcu, cmds, reps, failed, lost, can_trigger, reading, last_status_clock, expire_clock, completion>>
    BY DEF Tick, mcus, link, disp, python
  <1>2. now \in Nat
    BY PunctualTypes
  <1>3. \A m \in McuIds : Timely(cmds[m], now + 1) /\ Timely(reps[m], now + 1)
    <2>. SUFFICES ASSUME NEW m \in McuIds PROVE Timely(cmds[m], now + 1) /\ Timely(reps[m], now + 1)
      OBVIOUS
    <2>1. /\ cmds[m] # <<>> => Head(cmds[m]).clock + Latency > now
          /\ reps[m] # <<>> => Head(reps[m]).clock + Latency > now
      BY <1>1 DEF OnTime, Punctual
    <2>2. Timely(cmds[m], now) /\ Timely(reps[m], now)
      BY DEF PunctualInv, Served
    <2>3. PICK c \in Seq(Commands), r \in Seq(Messages), time \in Nat : c = cmds[m] /\ r = reps[m] /\ time = now
      BY PunctualTypes
    <2>4. Timely(c, time + 1)
      <3>1. Timely(c, time) /\ (c # <<>> => Head(c).clock + Latency > time) /\ \A x \in Commands : x.clock \in Int
        BY <2>1, <2>2, <2>3, PunctualTypes
      <3>. QED
        BY <3>1, TimelyTick
    <2>5. Timely(r, time + 1)
      <3>1. Timely(r, time) /\ (r # <<>> => Head(r).clock + Latency > time) /\ \A x \in Messages : x.clock \in Int
        BY <2>1, <2>2, <2>3, PunctualTypes
      <3>. QED
        BY <3>1, TimelyTick
    <2>. QED
      BY <2>3, <2>4, <2>5
  <1>4. \A m \in McuIds : Served(m)'
    BY <1>1, <1>3 DEF PunctualInv, Served
  <1>5. ASSUME can_trigger PROVE Attends'
    <2>1. reading' /\ ~completion'
      BY <1>1, <1>5 DEF PunctualInv, Attends
    <2>2. ASSUME NEW m \in McuIds
          PROVE  /\ Regular(reps'[m], last_status_clock'[m])
                 /\ Reporting(mcu'[m], reps'[m], last_status_clock'[m], now + 1)
                 /\ Extended(m)'
      <3>1. Regular(reps[m], last_status_clock[m]) /\ Reporting(mcu[m], reps[m], last_status_clock[m], now) /\ Extended(m)
        BY <1>5 DEF PunctualInv, Attends
      <3>2. Extended(m)'
        BY <1>1, <3>1 DEF Extended
      <3>3. mcu[m].next # now /\ (mcu[m].next # None => mcu[m].next \in Nat)
        BY <1>1, PunctualTypes DEF OnTime, Trsync
      <3>4. Reporting(mcu[m], reps[m], last_status_clock[m], now + 1)
        BY <1>2, <3>1, <3>3 DEF Reporting
      <3>. QED
        BY <1>1, <3>1, <3>2, <3>4
    <2>. QED
      BY <1>1, <2>1, <2>2 DEF Attends
  <1>. QED
    BY <1>1, <1>4, <1>5

\* The host's own questions.
LEMMA PunctualHost ==
    ASSUME IInv, HostInv, PunctualInv, Punctual, Host
    PROVE  (can_trigger' => Attends') /\ \A m \in McuIds : Served(m)'
  <1>1. UNCHANGED <<now, mcu, stopped, reps, failed, lost, can_trigger, last_status_clock, expire_clock>>
    BY HostLeaves
  <1>2. ASSUME can_trigger PROVE Attends'
    <2>1. reading /\ ~completion
      BY <1>2 DEF PunctualInv, Attends
    <2>2. reading' /\ ~completion'
      BY <2>1, HostAsks DEF Punctual
    <2>3. ASSUME NEW m \in McuIds
          PROVE  /\ Regular(reps'[m], last_status_clock'[m])
                 /\ Reporting(mcu'[m], reps'[m], last_status_clock'[m], now')
                 /\ Extended(m)'
      BY <1>1, <1>2 DEF PunctualInv, Attends, Extended
    <2>. QED
      BY <2>2, <2>3 DEF Attends
  <1>3. ASSUME NEW m \in McuIds
        PROVE  \/ cmds'[m] = cmds[m]
               \/ \E c \in Commands : c.kind # "set_timeout" /\ c.clock = now /\ cmds'[m] = Append(cmds[m], c)
    <2>1. ASSUME NEW x, Ask(x)
          PROVE  \/ cmds'[m] = cmds[m]
                 \/ \E c \in Commands : c.kind # "set_timeout" /\ c.clock = now /\ cmds'[m] = Append(cmds[m], c)
      <3>1. PICK c : c = [kind |-> "query", arg |-> HOST_REQUEST, clock |-> now]
        OBVIOUS
      <3>2. c \in Commands /\ c.kind # "set_timeout" /\ c.clock = now
        <4>1. now \in 0 .. MaxTime
          BY DEF IInv, TypeOK, ClocksTypeOK
        <4>. QED
          BY <3>1, <4>1 DEF Commands, Reasons, HOST_REQUEST, COMMS_TIMEOUT
      <3>3. cmds \in [McuIds -> Seq(Commands)] /\ cmds[m] \in Seq(Commands)
        BY DEF IInv, TypeOK, LinksTypeOK
      <3>4. cmds' = [cmds EXCEPT ![x] = @ \o <<c>>]
        BY <2>1, <3>1 DEF Ask, Command, Punctual
      <3>5. cmds[m] \o <<c>> = Append(cmds[m], c)
        BY <3>2, <3>3, AppendIsConcat
      <3>6. cmds'[m] = cmds[m] \/ cmds'[m] = cmds[m] \o <<c>>
        BY <3>3, <3>4
      <3>7. cmds'[m] = cmds[m] \/ cmds'[m] = Append(cmds[m], c)
        BY <3>5, <3>6
      <3>. QED
        BY <3>2, <3>7
    <2>2. cmds' = cmds \/ \E x : Ask(x)
      BY DEF Host, EndOfMove, StopDispatch, QueryReturns, QueryAgain, QueryFails, Shutdown
    <2>. QED
      BY <2>1, <2>2
  <1>4. ASSUME NEW m \in McuIds PROVE Served(m)'
    <2>1. /\ Timely(cmds[m], now) /\ Timely(reps[m], now) /\ mcu[m].reason # COMMS_TIMEOUT
          /\ mcu[m].armed =>
                /\ Lasting(cmds[m], mcu[m].expire)
                /\ Ends(cmds[m], mcu[m].expire, expire_clock[m], can_trigger)
      BY DEF PunctualInv, Served
    <2>2. CASE cmds'[m] = cmds[m]
      BY <1>1, <2>1, <2>2 DEF Served
    <2>3. ASSUME NEW c \in Commands, c.kind # "set_timeout", c.clock = now, cmds'[m] = Append(cmds[m], c)
          PROVE  Served(m)'
      <3>1. PICK q \in Seq(Commands), time \in Nat : q = cmds[m] /\ time = now
        BY PunctualTypes
      <3>2. Timely(Append(q, c), time)
        BY <2>1, <2>3, <3>1, PunctualTypes, TimelyAppend
      <3>3. ASSUME mcu[m].armed
            PROVE  /\ Lasting(Append(q, c), mcu[m].expire)
                   /\ Ends(Append(q, c), mcu[m].expire, expire_clock[m], can_trigger)
        <4>1. PICK low \in Int, high \in Int, more \in BOOLEAN :
                low = mcu[m].expire /\ high = expire_clock[m] /\ more = can_trigger
          <5>1. mcu[m] \in Trsync /\ expire_clock[m] \in Nat /\ can_trigger \in BOOLEAN
            BY PunctualTypes DEF IInv, TypeOK, HostTypeOK
          <5>2. mcu[m].expire \in Int
            BY <5>1, TrSyncAssumption DEF Trsync, Times, None
          <5>. QED
            BY <5>1, <5>2
        <4>2. more => Reach(time) <= high
          BY <3>1, <4>1, LastTimeoutLasts
        <4>3. Lasting(q, low) /\ Ends(q, low, high, more)
          BY <2>1, <3>1, <3>3, <4>1
        <4>4. Lasting(Append(q, c), low) /\ Ends(Append(q, c), low, high, more)
          BY <2>3, <3>1, <4>2, <4>3, CommandAdded
        <4>. QED
          BY <4>1, <4>4
      <3>. QED
        BY <1>1, <2>1, <2>3, <3>1, <3>2, <3>3 DEF Served
    <2>. QED
      BY <1>3, <2>2, <2>3
  <1>. QED
    BY <1>1, <1>2, <1>4

\* A step of the controller m, by what it leaves: u of its trsync, and what is
\* under way to it and from it.
LEMMA ControllerKeeps ==
    ASSUME IInv, PunctualInv, Punctual, NEW m \in McuIds, NEW u \in Trsync, mcu' = [mcu EXCEPT ![m] = u],
           UNCHANGED <<now, failed, lost, can_trigger, reading, completion, last_status_clock, expire_clock>>,
           \A x \in McuIds \ {m} : cmds'[x] = cmds[x] /\ reps'[x] = reps[x],
           Timely(cmds'[m], now), Timely(reps'[m], now), u.reason # COMMS_TIMEOUT,
           u.armed => Lasting(cmds'[m], u.expire) /\ Ends(cmds'[m], u.expire, expire_clock[m], can_trigger),
           can_trigger => Regular(reps'[m], last_status_clock[m]) /\ Reporting(u, reps'[m], last_status_clock[m], now)
    PROVE  (can_trigger' => Attends') /\ \A x \in McuIds : Served(x)'
  <1>1. mcu'[m] = u /\ \A x \in McuIds \ {m} : mcu'[x] = mcu[x]
    BY DEF IInv, TypeOK, LinksTypeOK
  <1>2. Served(m)'
    BY <1>1 DEF Served
  <1>3. ASSUME NEW x \in McuIds \ {m} PROVE Served(x)'
    <2>1. Served(x)
      BY DEF PunctualInv
    <2>. QED
      BY <1>1, <2>1 DEF Served
  <1>4. ASSUME can_trigger PROVE Attends'
    <2>1. /\ reading /\ ~completion
          /\ \A x \in McuIds : /\ Regular(reps[x], last_status_clock[x])
                               /\ Reporting(mcu[x], reps[x], last_status_clock[x], now)
                               /\ Extended(x)
      BY <1>4 DEF PunctualInv, Attends
    <2>2. \A x \in McuIds : Extended(x)'
      BY <2>1 DEF Extended
    <2>3. Regular(reps'[m], last_status_clock'[m]) /\ Reporting(mcu'[m], reps'[m], last_status_clock'[m], now')
      BY <1>1, <1>4
    <2>4. \A x \in McuIds \ {m} : /\ Regular(reps'[x], last_status_clock'[x])
                                  /\ Reporting(mcu'[x], reps'[x], last_status_clock'[x], now')
      BY <1>1, <2>1
    <2>. QED
      BY <2>1, <2>2, <2>3, <2>4 DEF Attends
  <1>. QED
    BY <1>2, <1>3, <1>4

\* What it sends is in order.
LEMMA ReportSent ==
    ASSUME IInv, NEW m \in McuIds, NEW q \in Seq(Messages), NEW t \in Trsync, NEW u \in Trsync,
           NEW e \in Messages, e.clock = now, e.armed = u.armed,
           u.armed => t.armed /\ u.next = now + Report,
           Timely(q, now),
           can_trigger => Regular(q, last_status_clock[m]) /\ Reporting(t, q, last_status_clock[m], now)
    PROVE  /\ Append(q, e) \in Seq(Messages) /\ Timely(Append(q, e), now)
           /\ can_trigger => /\ Regular(Append(q, e), last_status_clock[m])
                             /\ Reporting(u, Append(q, e), last_status_clock[m], now)
  <1>1. PICK time \in Nat, clock \in Nat : time = now /\ clock = last_status_clock[m]
    BY PunctualTypes
  <1>2. \A x \in Messages : x.clock \in Int
    BY PunctualTypes
  <1>3. Append(q, e) \in Seq(Messages) /\ Timely(Append(q, e), time)
    BY <1>1, <1>2, TimelyAppend
  <1>4. ASSUME can_trigger
        PROVE  Regular(Append(q, e), clock) /\ Reporting(u, Append(q, e), clock, time)
    BY <1>1, <1>4, ReportAdded
  <1>. QED
    BY <1>1, <1>3, <1>4

LEMMA PunctualController ==
    ASSUME IInv, ReasonInv, PunctualInv, Punctual, 2 * Latency + Report + MinExtend <= Timeout,
           EndstopHit \/ \E m \in McuIds : Controller(m)
    PROVE  (can_trigger' => Attends') /\ \A m \in McuIds : Served(m)'
  <1>1. UNCHANGED <<now, failed, lost, can_trigger, reading, completion, last_status_clock, expire_clock>>
    BY ControllerLeaves DEF IInv, TypeOK, disp, python
  <1>2. /\ now \in 0 .. MaxTime /\ now \in Nat /\ cmds \in [McuIds -> Seq(Commands)]
        /\ mcu \in [McuIds -> Trsync] /\ reps \in [McuIds -> Seq(Messages)]
    BY PunctualTypes DEF IInv, TypeOK, ClocksTypeOK, LinksTypeOK
  <1>3. \A t \in Trsync : State(t) \in Messages /\ State(t).clock = now /\ State(t).armed = t.armed
    BY <1>2 DEF State, Messages, Trsync
  <1>4. \A m \in McuIds :
          /\ Timely(cmds[m], now) /\ Timely(reps[m], now) /\ mcu[m].reason # COMMS_TIMEOUT
          /\ mcu[m].armed => /\ Lasting(cmds[m], mcu[m].expire)
                             /\ Ends(cmds[m], mcu[m].expire, expire_clock[m], can_trigger)
          /\ can_trigger => /\ Regular(reps[m], last_status_clock[m])
                            /\ Reporting(mcu[m], reps[m], last_status_clock[m], now)
    BY DEF PunctualInv, Attends, Served
  <1>5. \A m \in McuIds : \A s : s \in Messages => reps[m] \o <<s>> = Append(reps[m], s)
    BY <1>2, AppendIsConcat
  <1>6. CASE EndstopHit
    <2>1. 0 \in McuIds
      BY TrSyncAssumption DEF McuIds
    <2>2. PICK u \in Trsync : u = Triggered(mcu[0], ENDSTOP_HIT) /\ ~u.armed /\ u.reason = ENDSTOP_HIT
      <3>1. mcu[0].armed /\ mcu[0] \in Trsync /\ ENDSTOP_HIT \in Reasons
        BY <1>2, <1>6, <2>1 DEF EndstopHit, Stop, Reasons, ENDSTOP_HIT, COMMS_TIMEOUT
      <3>. QED
        BY <3>1, TriggeredLeaves, TriggeredReason
    <2>3. mcu' = [mcu EXCEPT ![0] = u] /\ cmds' = cmds /\ mcu'[0] = u
      BY <1>2, <1>6, <2>1, <2>2 DEF EndstopHit, Stop
    <2>4. PICK s \in Messages : s = State(u) /\ s.clock = now /\ s.armed = u.armed
      BY <1>3
    <2>5. reps' = [reps EXCEPT ![0] = Append(reps[0], s)]
      <3>1. reps' = [reps EXCEPT ![0] = @ \o <<s>>]
        BY <1>6, <2>3, <2>4 DEF EndstopHit, Stop, Send, Punctual
      <3>. QED
        BY <1>5, <2>1, <3>1
    <2>6. /\ Timely(Append(reps[0], s), now)
          /\ can_trigger => /\ Regular(Append(reps[0], s), last_status_clock[0])
                            /\ Reporting(u, Append(reps[0], s), last_status_clock[0], now)
      BY <1>2, <1>4, <2>1, <2>2, <2>4, ReportSent
    <2>7. reps'[0] = Append(reps[0], s) /\ \A x \in McuIds \ {0} : cmds'[x] = cmds[x] /\ reps'[x] = reps[x]
      BY <1>2, <2>1, <2>3, <2>5
    <2>8. u.reason # COMMS_TIMEOUT
      BY <2>2 DEF ENDSTOP_HIT, COMMS_TIMEOUT
    <2>. QED
      BY <1>1, <1>4, <2>1, <2>2, <2>3, <2>6, <2>7, <2>8, ControllerKeeps
  <1>7. ASSUME NEW m \in McuIds, Expires(m) PROVE FALSE
    <2>1. mcu[m].armed /\ mcu[m].expire = now
      BY <1>7 DEF Expires, Stop
    <2>. QED
      BY <1>2, <2>1, NotExpired
  <1>8. ASSUME NEW m \in McuIds, Reports(m)
        PROVE  (can_trigger' => Attends') /\ \A x \in McuIds : Served(x)'
    <2>1. PICK u \in Trsync : /\ u = [mcu[m] EXCEPT !.next = now + Report]
                              /\ u.armed = mcu[m].armed /\ u.reason = mcu[m].reason
                              /\ u.expire = mcu[m].expire /\ u.next = now + Report
      <3>1. PICK t \in Trsync, n \in Nat : t = mcu[m] /\ n = now + Report
        BY <1>2, TrSyncAssumption
      <3>. DEFINE u == [t EXCEPT !.next = n]
      <3>2. u \in Trsync /\ u.armed = t.armed /\ u.reason = t.reason /\ u.expire = t.expire /\ u.next = n
        BY DEF Trsync
      <3>. HIDE DEF u
      <3>3. u = [mcu[m] EXCEPT !.next = now + Report]
        BY <3>1 DEF u
      <3>. QED
        BY <3>1, <3>2, <3>3
    <2>2. mcu' = [mcu EXCEPT ![m] = u] /\ cmds' = cmds
      BY <1>2, <1>8, <2>1 DEF Reports
    <2>3. PICK s \in Messages : s = State(mcu[m]) /\ s.clock = now /\ s.armed = u.armed
      BY <1>2, <1>3, <2>1
    <2>4. reps' = [reps EXCEPT ![m] = Append(reps[m], s)]
      <3>1. reps' = [reps EXCEPT ![m] = @ \o <<s>>]
        BY <1>8, <2>3 DEF Reports, Send, Punctual
      <3>. QED
        BY <1>5, <3>1
    <2>5. /\ Timely(Append(reps[m], s), now)
          /\ can_trigger => /\ Regular(Append(reps[m], s), last_status_clock[m])
                            /\ Reporting(u, Append(reps[m], s), last_status_clock[m], now)
      BY <1>2, <1>4, <2>1, <2>3, ReportSent
    <2>6. reps'[m] = Append(reps[m], s) /\ \A x \in McuIds \ {m} : cmds'[x] = cmds[x] /\ reps'[x] = reps[x]
      BY <1>2, <2>2, <2>4
    <2>. QED
      BY <1>1, <1>4, <2>1, <2>2, <2>5, <2>6, ControllerKeeps
  <1>9. ASSUME NEW m \in McuIds, Executes(m)
        PROVE  (can_trigger' => Attends') /\ \A x \in McuIds : Served(x)'
    <2>. DEFINE c == Head(cmds[m])
    <2>1. cmds[m] # <<>> /\ cmds' = [cmds EXCEPT ![m] = Tail(@)] /\ c \in Commands
      BY <1>9, ExecutesLeaves DEF IInv, TypeOK
    <2>2. /\ cmds'[m] = Tail(cmds[m]) /\ Timely(Tail(cmds[m]), now) /\ c = cmds[m][1]
          /\ \A x \in McuIds \ {m} : cmds'[x] = cmds[x]
      <3>1. cmds[m] \in Seq(Commands) /\ Timely(cmds[m], now)
        BY <1>2, <1>4
      <3>2. Timely(Tail(cmds[m]), now)
        BY <2>1, <3>1, TimelyTail
      <3>. QED
        BY <1>2, <2>1, <3>1, <3>2
    <2>3. c.kind # "set_timeout" => c.arg \in {HOST_REQUEST, PAST_END_TIME}
      <3>1. c \in Range(cmds[m])
        BY <1>2, <2>1, TailRange
      <3>. QED
        BY <3>1 DEF ReasonInv
    <2>. HIDE DEF c
    <2>4. CASE /\ c.kind = "set_timeout"
               /\ mcu' = [mcu EXCEPT ![m].expire = IF mcu[m].armed THEN c.arg ELSE @] /\ reps' = reps
      <3>1. c.arg \in Times
        BY <2>1, <2>4 DEF Commands
      <3>2. PICK u \in Trsync : /\ u = [mcu[m] EXCEPT !.expire = IF mcu[m].armed THEN c.arg ELSE mcu[m].expire]
                                /\ u.armed = mcu[m].armed /\ u.reason = mcu[m].reason /\ u.next = mcu[m].next
                                /\ u.armed => u.expire = c.arg
        <4>1. PICK t \in Trsync, e \in Times \cup {None} : t = mcu[m] /\ e = IF t.armed THEN c.arg ELSE t.expire
          BY <1>2, <3>1 DEF Trsync
        <4>. DEFINE u == [t EXCEPT !.expire = e]
        <4>2. u \in Trsync /\ u.armed = t.armed /\ u.reason = t.reason /\ u.next = t.next /\ u.expire = e
          BY DEF Trsync
        <4>. HIDE DEF u
        <4>3. u = [mcu[m] EXCEPT !.expire = IF mcu[m].armed THEN c.arg ELSE mcu[m].expire]
          BY <4>1 DEF u
        <4>4. t.armed => e = c.arg
          BY <4>1
        <4>. QED
          BY <4>1, <4>2, <4>3, <4>4
      <3>3. mcu' = [mcu EXCEPT ![m] = u]
        BY <1>2, <2>4, <3>2
      <3>4. ASSUME u.armed
            PROVE  /\ Lasting(Tail(cmds[m]), u.expire)
                   /\ Ends(Tail(cmds[m]), u.expire, expire_clock[m], can_trigger)
        <4>1. cmds[m][1].kind = "set_timeout" /\ cmds[m][1].arg = u.expire
          BY <2>2, <2>4, <3>2, <3>4
        <4>2. Lasting(cmds[m], mcu[m].expire) /\ Ends(cmds[m], mcu[m].expire, expire_clock[m], can_trigger)
          BY <1>4, <3>2, <3>4
        <4>3. cmds[m] \in Seq(Commands)
          BY <1>2
        <4>. QED
          BY <2>1, <4>1, <4>2, <4>3, CommandTaken
      <3>5. can_trigger => Reporting(u, reps[m], last_status_clock[m], now)
        BY <1>4, <3>2 DEF Reporting
      <3>. QED
        BY <1>1, <1>4, <2>2, <2>4, <3>2, <3>3, <3>4, <3>5, ControllerKeeps
    <2>5. CASE /\ c.kind # "set_timeout" /\ mcu' = [mcu EXCEPT ![m] = [Triggered(@, c.arg) EXCEPT !.next = None]]
               /\ Send(m, IF c.kind = "query" THEN <<State(mcu'[m]), Ack>> ELSE <<State(mcu'[m])>>)
      <3>1. PICK u \in Trsync : /\ mcu' = [mcu EXCEPT ![m] = u] /\ mcu'[m] = u /\ ~u.armed
                                /\ u.reason = IF mcu[m].armed THEN c.arg ELSE mcu[m].reason
        <4>1. c.arg \in Reasons /\ mcu[m] \in Trsync
          BY <1>2, <2>1, <2>5 DEF Commands
        <4>2. PICK t \in Trsync : /\ t = Triggered(mcu[m], c.arg) /\ ~t.armed
                                  /\ t.reason = IF mcu[m].armed THEN c.arg ELSE mcu[m].reason
          BY <4>1, TriggeredReason, TriggeredLeaves
        <4>3. [t EXCEPT !.next = None] \in Trsync /\ ~[t EXCEPT !.next = None].armed /\ [t EXCEPT !.next = None].reason = t.reason
          BY <4>2 DEF Trsync
        <4>4. mcu' = [mcu EXCEPT ![m] = [t EXCEPT !.next = None]]
          BY <1>2, <2>5, <4>2
        <4>. QED
          BY <1>2, <4>2, <4>3, <4>4
      <3>2. u.reason # COMMS_TIMEOUT
        BY <1>4, <2>3, <2>5, <3>1 DEF HOST_REQUEST, PAST_END_TIME, COMMS_TIMEOUT
      <3>3. PICK s \in Messages : s = State(u) /\ s.clock = now /\ s.armed = u.armed
        BY <1>3
      <3>4. PICK a \in Messages : a = Ack /\ a.clock = now /\ a.armed = u.armed
        <4>1. Ack \in Messages /\ Ack.clock = now /\ Ack.armed = FALSE
          BY <1>2 DEF Ack, Messages, Reasons, COMMS_TIMEOUT
        <4>2. u.armed = FALSE
          BY <3>1 DEF Trsync
        <4>. QED
          BY <4>1, <4>2
      <3>. DEFINE q == Append(reps[m], s)
      <3>5. /\ q \in Seq(Messages) /\ Timely(q, now)
            /\ can_trigger => Regular(q, last_status_clock[m]) /\ Reporting(u, q, last_status_clock[m], now)
        BY <1>2, <1>4, <3>1, <3>3, ReportSent
      <3>6. /\ Timely(Append(q, a), now)
            /\ can_trigger => Regular(Append(q, a), last_status_clock[m]) /\ Reporting(u, Append(q, a), last_status_clock[m], now)
        <4>. HIDE DEF q
        <4>. QED
          BY <3>1, <3>4, <3>5, ReportSent
      <3>7. \/ reps'[m] = q
            \/ reps'[m] = Append(q, a)
        <4>1. reps' = [reps EXCEPT ![m] = @ \o (IF c.kind = "query" THEN <<s, a>> ELSE <<s>>)]
          BY <2>5, <3>1, <3>3, <3>4 DEF Send, Punctual
        <4>2. reps[m] \o <<s>> = q
          BY <1>5, <3>3
        <4>3. reps[m] \o <<s, a>> = Append(q, a)
          <5>1. reps[m] \in Seq(Messages)
            BY <1>2
          <5>2. <<s, a>> = Append(<<s>>, a) /\ <<s>> \in Seq(Messages)
            OBVIOUS
          <5>3. \A p \in Seq(Messages), r \in Seq(Messages) : p \o Append(r, a) = Append(p \o r, a)
            OBVIOUS
          <5>. QED
            BY <4>2, <5>1, <5>2, <5>3
        <4>. QED
          BY <1>2, <4>1, <4>2, <4>3
      <3>8. \A x \in McuIds \ {m} : reps'[x] = reps[x]
        BY <1>2, <2>5 DEF Send
      <3>. HIDE DEF q
      <3>9. /\ Timely(reps'[m], now)
            /\ can_trigger => Regular(reps'[m], last_status_clock[m]) /\ Reporting(u, reps'[m], last_status_clock[m], now)
        BY <3>5, <3>6, <3>7
      <3>. QED
        BY <1>1, <2>2, <3>1, <3>2, <3>8, <3>9, ControllerKeeps
    <2>. QED
      BY <1>9, <2>4, <2>5 DEF Executes, c
  <1>. QED
    BY <1>6, <1>7, <1>8, <1>9 DEF Controller

\* A controller to which the host sends a timeout, if it extends it, or an order
\* to stop, and may send a command that the move is over.
LEMMA ReceivesServes ==
    ASSUME IInv, PunctualInv, Punctual, NEW m \in McuIds, Receives(m), NEW x \in McuIds,
           can_trigger' \in BOOLEAN, ~can_trigger => ~can_trigger' /\ expire_clock' = expire_clock,
           can_trigger /\ ~can_trigger' => expire_clock' = expire_clock
    PROVE  Served(x)'
  <1>0. ClocksTypeOK /\ LinksTypeOK
    BY DEF IInv, TypeOK
  <1>1. /\ Timely(cmds[x], now) /\ Timely(reps[x], now) /\ mcu[x].reason # COMMS_TIMEOUT
        /\ mcu[x].armed => Lasting(cmds[x], mcu[x].expire) /\ Ends(cmds[x], mcu[x].expire, expire_clock[x], can_trigger)
    BY DEF PunctualInv, Served
  <1>2. /\ now' = now /\ mcu' = mcu /\ failed = {} /\ now \in 0 .. MaxTime
        /\ expire_clock'[x] \in Times /\ expire_clock[x] <= expire_clock'[x] /\ expire_clock[x] \in Times
    BY <1>0, ReceivesLeaves, ExpireClockGrows DEF Punctual, ClocksTypeOK
  <1>3. Timely(reps'[x], now)
    <2>1. reps[m] # <<>> /\ reps' = [reps EXCEPT ![m] = Tail(@)] /\ reps[m] \in Seq(Messages)
      BY <1>0, ReceivesLeaves DEF LinksTypeOK
    <2>2. reps'[x] = IF x = m THEN Tail(reps[m]) ELSE reps[x]
      BY <1>0, <2>1 DEF LinksTypeOK
    <2>3. Timely(Tail(reps[m]), now)
      <3>1. Timely(reps[m], now)
        BY DEF PunctualInv, Served
      <3>. QED
        BY <2>1, <3>1, TimelyTail
    <2>. QED
      BY <1>1, <2>2, <2>3
  <1>. DEFINE d == Dispatched(x)
              e == IF x = m /\ PastEnd(m, Head(reps[m])) THEN Command(m, "trigger", PAST_END_TIME) ELSE <<>>
  <1>4. cmds'[x] = cmds[x] \o d \o e
    BY DEF Receives
  <1>5. PICK time \in Nat, low \in Int, old \in Int, new \in Int, more \in BOOLEAN, yet \in BOOLEAN :
          /\ time = now /\ low = mcu[x].expire /\ old = expire_clock[x] /\ new = expire_clock'[x]
          /\ more = can_trigger /\ yet = can_trigger'
    <2>1. now \in Nat /\ expire_clock[x] \in Int /\ expire_clock'[x] \in Int
      BY <1>2, TrSyncAssumption DEF Times
    <2>2. mcu[x] \in Trsync /\ can_trigger \in BOOLEAN
      BY <1>0 DEF LinksTypeOK, IInv, TypeOK, HostTypeOK
    <2>3. mcu[x].expire \in Int
      BY <2>2, TrSyncAssumption DEF Trsync, Times, None
    <2>. QED
      BY <2>1, <2>2, <2>3
  <1>6. \/ d = <<>> /\ new = old /\ yet = more
        \/ \E c \in Commands : d = <<c>> /\ c.clock = time /\ (c.kind = "set_timeout" => yet /\ c.arg = new)
    <2>1. CASE can_trigger' # can_trigger
      <3>1. PICK c : c = [kind |-> "trigger", arg |-> HOST_REQUEST, clock |-> now]
        OBVIOUS
      <3>2. c \in Commands /\ c.clock = now /\ c.kind # "set_timeout"
        BY <1>2, <3>1 DEF Commands, Reasons, HOST_REQUEST, COMMS_TIMEOUT
      <3>3. d = <<c>>
        BY <1>2, <2>1, <3>1 DEF Dispatched, Command
      <3>. QED
        BY <1>5, <3>2, <3>3
    <2>2. CASE can_trigger' = can_trigger /\ expire_clock'[x] # expire_clock[x]
      <3>1. PICK c : c = [kind |-> "set_timeout", arg |-> expire_clock'[x], clock |-> now]
        OBVIOUS
      <3>2. c \in Commands /\ c.clock = now /\ c.arg = expire_clock'[x]
        BY <1>2, <3>1 DEF Commands
      <3>3. d = <<c>>
        BY <1>2, <2>2, <3>1 DEF Dispatched, Command
      <3>4. can_trigger'
        BY <2>2
      <3>. QED
        BY <1>5, <3>2, <3>3, <3>4
    <2>3. CASE can_trigger' = can_trigger /\ expire_clock'[x] = expire_clock[x]
      BY <1>5, <2>3 DEF Dispatched
    <2>. QED
      BY <2>1, <2>2, <2>3
  <1>7. e = <<>> \/ \E c \in Commands : e = <<c>> /\ c.clock = time /\ c.kind # "set_timeout"
    <2>1. PICK c : c = [kind |-> "trigger", arg |-> PAST_END_TIME, clock |-> now]
      OBVIOUS
    <2>2. c \in Commands /\ c.clock = now /\ c.kind # "set_timeout"
      BY <1>2, <2>1 DEF Commands, Reasons, PAST_END_TIME, COMMS_TIMEOUT
    <2>3. e = <<>> \/ e = <<c>>
      BY <2>1 DEF Command
    <2>. QED
      BY <1>5, <2>2, <2>3
  <1>8. (more => Reach(time) <= old) /\ old <= new /\ (yet => more)
    <2>1. can_trigger => Reach(now) <= expire_clock[x]
      BY LastTimeoutLasts
    <2>. QED
      BY <1>2, <1>5, <2>1
  <1>9. Reach(time) \in Int
    BY TrSyncAssumption DEF Reach
  <1>. HIDE DEF d, e
  <1>10. PICK q \in Seq(Commands) : q = cmds[x]
    BY <1>0 DEF LinksTypeOK
  <1>11. \A c \in Commands, p \in Seq(Commands) : p \o <<c>> = Append(p, c) /\ p \o <<>> = p /\ Append(p, c) \in Seq(Commands)
    OBVIOUS
  <1>12. \A c \in Commands : c.clock \in Int
    BY PunctualTypes
  <1>13. /\ q \o d \in Seq(Commands) /\ Timely(q \o d, time)
         /\ mcu[x].armed => Lasting(q \o d, low) /\ Ends(q \o d, low, new, yet)
    <2>1. /\ Timely(q, time)
          /\ mcu[x].armed => Lasting(q, low) /\ Ends(q, low, old, more)
      BY <1>1, <1>5, <1>10
    <2>2. CASE d = <<>> /\ new = old /\ yet = more
      BY <1>11, <2>1, <2>2
    <2>3. ASSUME NEW c \in Commands, d = <<c>>, c.clock = time, c.kind = "set_timeout" => yet /\ c.arg = new
          PROVE  /\ q \o d \in Seq(Commands) /\ Timely(q \o d, time)
                 /\ mcu[x].armed => Lasting(q \o d, low) /\ Ends(q \o d, low, new, yet)
      <3>1. q \o d = Append(q, c) /\ Append(q, c) \in Seq(Commands)
        BY <1>11, <2>3
      <3>2. Timely(Append(q, c), time)
        BY <1>12, <2>1, <2>3, TimelyAppend
      <3>3. mcu[x].armed => Lasting(Append(q, c), low) /\ Ends(Append(q, c), low, new, yet)
        BY <1>8, <2>1, <2>3, CommandAdded
      <3>. QED
        BY <3>1, <3>2, <3>3
    <2>. QED
      BY <1>6, <2>2, <2>3
  <1>14. PICK p \in Seq(Commands) : p = q \o d
    BY <1>13
  <1>15. yet => Reach(time) <= new
    BY <1>8, <1>9
  <1>16. /\ Timely(p \o e, time)
         /\ mcu[x].armed => Lasting(p \o e, low) /\ Ends(p \o e, low, new, yet)
    <2>1. CASE e = <<>>
      BY <1>11, <1>13, <1>14, <2>1
    <2>2. ASSUME NEW c \in Commands, e = <<c>>, c.clock = time, c.kind # "set_timeout"
          PROVE  /\ Timely(p \o e, time)
                 /\ mcu[x].armed => Lasting(p \o e, low) /\ Ends(p \o e, low, new, yet)
      <3>1. p \o e = Append(p, c)
        BY <1>11, <2>2
      <3>2. Timely(Append(p, c), time)
        BY <1>12, <1>13, <1>14, <2>2, TimelyAppend
      <3>3. mcu[x].armed => Lasting(Append(p, c), low) /\ Ends(Append(p, c), low, new, yet)
        <4>1. mcu[x].armed => Lasting(p, low) /\ Ends(p, low, new, yet)
          BY <1>13, <1>14
        <4>. QED
          BY <1>15, <2>2, <4>1, CommandAdded
      <3>. QED
        BY <3>1, <3>2, <3>3
    <2>. QED
      BY <1>7, <2>1, <2>2
  <1>17. p \o e = cmds'[x]
    BY <1>4, <1>10, <1>14
  <1>. QED
    BY <1>1, <1>2, <1>3, <1>5, <1>16, <1>17 DEF Served

LEMMA PunctualReceives ==
    ASSUME IInv, MessagesInv, HostInv, PunctualInv, Punctual, NEW m \in McuIds, Receives(m)
    PROVE  (can_trigger' => Attends') /\ \A x \in McuIds : Served(x)'
  <1>0. ClocksTypeOK /\ LinksTypeOK /\ can_trigger \in BOOLEAN /\ reading \in BOOLEAN
    BY DEF IInv, TypeOK, HostTypeOK
  <1>. DEFINE r == Head(reps[m])
  <1>1. /\ reps[m] # <<>> /\ reps' = [reps EXCEPT ![m] = Tail(@)] /\ r \in Messages
        /\ UNCHANGED <<now, mcu>>
        /\ HandleTrsyncState(m, r) /\ PyHandleTrsyncState(m, r)
    BY <1>0, ReceivesLeaves DEF Receives
  <1>2. r \in Range(reps[m]) /\ reps[m] \in Seq(Messages) /\ r = reps[m][1]
    BY <1>0, <1>1, TailRange DEF LinksTypeOK
  <1>. HIDE DEF r
  <1>3. can_trigger => r.kind = "state" /\ pc \in {"move", "wait"}
    <2>1. can_trigger => reading
      BY DEF PunctualInv, Attends
    <2>2. reading => pc \in {"move", "wait"}
      BY DEF HostInv
    <2>3. r.kind = "ack" => pc \notin {"move", "wait"}
      BY <1>2 DEF MessagesInv
    <2>4. r.kind \in {"state", "ack"}
      BY <1>1 DEF Messages
    <2>. QED
      BY <2>1, <2>2, <2>3, <2>4
  <1>4. CASE ~can_trigger
    <2>1. UNCHANGED disp
      BY <1>1, <1>4 DEF HandleTrsyncState
    <2>2. ~can_trigger' /\ can_trigger' \in BOOLEAN /\ expire_clock' = expire_clock
      BY <1>0, <1>4, <2>1 DEF disp
    <2>. QED
      BY <1>4, <2>2, ReceivesServes
  <1>5. CASE can_trigger /\ ~r.armed
    <2>1. reading
      BY <1>5 DEF PunctualInv, Attends
    <2>2. can_trigger' = FALSE /\ expire_clock' = expire_clock
      BY <1>1, <1>3, <1>5, <2>1 DEF HandleTrsyncState
    <2>. QED
      BY <1>5, <2>2, ReceivesServes
  <1>6. CASE can_trigger /\ r.armed
    <2>1. /\ reading /\ ~completion
          /\ \A x \in McuIds : /\ Regular(reps[x], last_status_clock[x])
                               /\ Reporting(mcu[x], reps[x], last_status_clock[x], now)
                               /\ Extended(x)
      BY <1>6 DEF PunctualInv, Attends
    <2>2. /\ last_status_clock' = [last_status_clock EXCEPT ![m] = r.clock]
          /\ expire_clock' = [x \in McuIds |-> IF Extends(Expire(x), x) THEN Expire(x) ELSE expire_clock[x]]
          /\ can_trigger' = can_trigger /\ reading' = reading
      BY <1>1, <1>3, <1>6, <2>1 DEF HandleTrsyncState
    <2>3. ~completion'
      BY <1>1, <1>3, <1>6, <2>1 DEF PyHandleTrsyncState, Completes
    <2>4. /\ Regular(Tail(reps[m]), r.clock)
          /\ Reporting(mcu[m], Tail(reps[m]), r.clock, now)
      <3>1. reps[m][1].armed /\ Regular(reps[m], last_status_clock[m]) /\ Reporting(mcu[m], reps[m], last_status_clock[m], now)
        BY <1>2, <1>6, <2>1
      <3>. QED
        BY <1>1, <1>2, <3>1, ReportTaken
    <2>5. last_status_clock' \in [McuIds -> 0 .. MaxTime]
      BY <1>0, ReceivesLeaves
    <2>6. ASSUME NEW x \in McuIds PROVE Extended(x)'
      <3>1. PICK y \in Others(x) : Expire(x) = Timeout + last_status_clock'[y]
        BY <2>5, ExpireBound
      <3>2. y \in McuIds
        BY PunctualTypes
      <3>3. PICK s \in Nat, old \in Nat, e \in Nat :
              s = last_status_clock'[y] /\ old = expire_clock[x] /\ e = Expire(x) /\ e = Timeout + s
        <4>1. last_status_clock'[y] \in Nat
          BY <2>5, <3>2
        <4>2. expire_clock[x] \in Nat
          BY PunctualTypes
        <4>3. Timeout + last_status_clock'[y] \in Nat
          BY <4>1, TrSyncAssumption
        <4>. QED
          BY <3>1, <4>1, <4>2, <4>3
      <3>4. expire_clock'[x] = IF e - old >= MinExtend THEN e ELSE old
        BY <2>2, <3>3 DEF Extends
      <3>5. e < expire_clock'[x] + MinExtend
        BY <3>4, TrSyncAssumption
      <3>. QED
        BY <3>1, <3>3, <3>5 DEF Extended
    <2>7. ASSUME NEW x \in McuIds
          PROVE  Regular(reps'[x], last_status_clock'[x]) /\ Reporting(mcu'[x], reps'[x], last_status_clock'[x], now')
      <3>1. CASE x = m
        <4>1. reps'[x] = Tail(reps[m]) /\ last_status_clock'[x] = r.clock
          BY <1>0, <1>1, <2>2, <3>1 DEF LinksTypeOK, ClocksTypeOK
        <4>. QED
          BY <1>1, <2>4, <3>1, <4>1
      <3>2. CASE x # m
        <4>1. reps'[x] = reps[x] /\ last_status_clock'[x] = last_status_clock[x]
          BY <1>0, <1>1, <2>2, <3>2 DEF LinksTypeOK, ClocksTypeOK
        <4>. QED
          BY <1>1, <2>1, <4>1
      <3>. QED
        BY <3>1, <3>2
    <2>8. Attends'
      BY <2>1, <2>2, <2>3, <2>6, <2>7 DEF Attends
    <2>9. \A x \in McuIds : Served(x)'
      BY <1>0, <1>6, <2>2, ReceivesServes
    <2>. QED
      BY <2>8, <2>9
  <1>. QED
    BY <1>4, <1>5, <1>6
-----------------------------------------------------------------------------
LEMMA PunctualInit == Init => PunctualInv
  <1>. SUFFICES ASSUME Init
                PROVE  Attends /\ \A m \in McuIds : Served(m)
    BY DEF PunctualInv
  <1>1. IInv
    BY InitInv
  <1>2. ASSUME NEW m \in McuIds
        PROVE  /\ mcu[m].armed /\ mcu[m].reason = 0 /\ mcu[m].expire = Timeout /\ mcu[m].next = FirstReport(m)
               /\ cmds[m] = <<>> /\ reps[m] = <<>>
               /\ last_status_clock[m] = 0 /\ expire_clock[m] = Timeout
    BY DEF Init
  <1>3. now = 0 /\ reading /\ ~completion /\ can_trigger
    BY DEF Init
  <1>4. ASSUME NEW m \in McuIds PROVE FirstReport(m) \in Nat /\ FirstReport(m) <= Report
    <2>1. m \in Nat /\ m <= N - 1 /\ Report \in Nat /\ N \in Nat \ {0} /\ FirstReport(m) \in Nat
      BY FirstReportIsDue, TrSyncAssumption DEF McuIds
    <2>. DEFINE a == 2 * Report * m + N
                b == 2 * N
    <2>2. \A x, y, z \in Nat : x <= y => z * x <= z * y
      OBVIOUS
    <2>3. 2 * Report * m <= 2 * Report * (N - 1) /\ 2 * Report * (N - 1) \in Nat /\ 2 * Report * m \in Nat
      <3>1. 2 * Report \in Nat /\ N - 1 \in Nat
        BY <2>1
      <3>. QED
        BY <2>1, <2>2, <3>1
    <2>4. 2 * Report * (N - 1) + N < b * (Report + 1)
      BY <2>1
    <2>5. a \in Nat /\ b \in Nat \ {0} /\ a < b * (Report + 1) /\ b * (Report + 1) \in Nat
      BY <2>1, <2>3, <2>4
    <2>. HIDE DEF a, b
    <2>6. b * (a \div b) <= a /\ a \div b \in Nat
      BY <2>5
    <2>7. ASSUME Report + 1 <= a \div b PROVE FALSE
      <3>1. b * (Report + 1) <= b * (a \div b) /\ b * (a \div b) \in Nat
        BY <2>1, <2>2, <2>5, <2>6, <2>7
      <3>. QED
        BY <2>5, <2>6, <3>1
    <2>8. FirstReport(m) = a \div b
      BY DEF FirstReport, a, b
    <2>. QED
      BY <2>1, <2>6, <2>7, <2>8
  <1>5. ASSUME NEW m \in McuIds
        PROVE  /\ Regular(reps[m], last_status_clock[m])
               /\ Reporting(mcu[m], reps[m], last_status_clock[m], now)
    <2>1. Regular(reps[m], last_status_clock[m])
      BY <1>2 DEF Regular
    <2>2. mcu[m].armed /\ now <= mcu[m].next /\ mcu[m].next # None /\ mcu[m].next <= 0 + Report
      BY <1>2, <1>3, <1>4, TrSyncAssumption DEF None
    <2>3. LastClock(reps[m], last_status_clock[m]) = 0
      BY <1>2 DEF LastClock
    <2>. QED
      BY <2>1, <2>2, <2>3 DEF Reporting
  <1>6. ASSUME NEW m \in McuIds PROVE Extended(m)
    <2>1. Others(m) # {} /\ Others(m) \subseteq McuIds
      <3>1. CASE N = 1
        BY <3>1 DEF Others
      <3>2. CASE N # 1
        <4>1. 0 \in McuIds /\ 1 \in McuIds
          BY <3>2, TrSyncAssumption DEF McuIds
        <4>. QED
          BY <3>2, <4>1 DEF Others
      <3>. QED
        BY <3>1, <3>2
    <2>. QED
      BY <1>2, <2>1, TrSyncAssumption DEF Extended
  <1>7. Attends
    BY <1>3, <1>5, <1>6 DEF Attends
  <1>8. ASSUME NEW m \in McuIds PROVE Served(m)
    <2>1. Timely(cmds[m], now) /\ Timely(reps[m], now) /\ Lasting(cmds[m], mcu[m].expire)
      BY <1>2 DEF Timely, Lasting
    <2>2. Ends(cmds[m], mcu[m].expire, expire_clock[m], can_trigger)
      BY <1>2, <1>3 DEF Ends
    <2>. QED
      BY <1>2, <2>1, <2>2 DEF Served, COMMS_TIMEOUT
  <1>. QED
    BY <1>7, <1>8

LEMMA PunctualStep ==
    ASSUME HomedInv, PunctualInv, [Next]_vars, 2 * Latency + Report + MinExtend <= Timeout
    PROVE  PunctualInv'
  <1>. SUFFICES ASSUME Punctual'
                PROVE  (can_trigger' => Attends') /\ \A m \in McuIds : Served(m)'
    BY DEF PunctualInv
  <1>1. IInv /\ ReasonInv /\ MessagesInv /\ HostInv
    BY DEF HomedInv
  <1>2. Punctual /\ \A m \in McuIds : ~Loses(m) /\ ~Fails(m)
    BY <1>1, PunctualBefore
  <1>3. CASE Tick
    BY <1>1, <1>2, <1>3, PunctualTick
  <1>4. CASE Host
    BY <1>1, <1>2, <1>4, PunctualHost
  <1>5. CASE EndstopHit \/ \E m \in McuIds : Controller(m)
    BY <1>1, <1>2, <1>5, PunctualController
  <1>6. ASSUME NEW m \in McuIds, Receives(m)
        PROVE  (can_trigger' => Attends') /\ \A x \in McuIds : Served(x)'
    BY <1>1, <1>2, <1>6, PunctualReceives
  <1>7. CASE UNCHANGED vars
    <2>1. (can_trigger => Attends) /\ \A m \in McuIds : Served(m)
      BY <1>2 DEF PunctualInv
    <2>2. UNCHANGED <<now, mcu, cmds, reps, failed, lost, can_trigger, reading, completion, last_status_clock, expire_clock>>
      BY <1>7 DEF vars, mcus, link, disp, python
    <2>. QED
      BY <2>1, <2>2 DEF Attends, Extended, Served
  <1>. QED
    BY <1>2, <1>3, <1>4, <1>5, <1>6, <1>7 DEF Next

\* If a report and a command take at most Latency each, and that, the time
\* between two reports and the least extension fit into the timeout, no trsync
\* times out as long as no report is lost and no link fails.
THEOREM NobodyTimesOut ==
    2 * Latency + Report + MinExtend <= Timeout => (Spec => []NoFalseTimeout)
  <1>. SUFFICES ASSUME 2 * Latency + Report + MinExtend <= Timeout
                PROVE  Spec => []NoFalseTimeout
    OBVIOUS
  <1>1. HomedInv /\ PunctualInv /\ [Next]_vars => PunctualInv'
    BY PunctualStep
  <1>2. PunctualInv => NoFalseTimeout
    BY DEF PunctualInv, NoFalseTimeout, Punctual, Served
  <1>. QED
    BY <1>1, <1>2, PunctualInit, HomedInvariance, PTL DEF Spec
=============================================================================
