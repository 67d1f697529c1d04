------------------------------- MODULE TrSync -------------------------------
(***************************************************************************)
(* A homing move watched by several controllers (mcu.py MCU_trsync,        *)
(* TriggerDispatch, MCU_endstop; chelper/trdispatch.c; homing.py).  Each   *)
(* controller stops its steppers when its trsync triggers: at the endstop, *)
(* on a command, or when its timeout expires.  A C thread per controller   *)
(* extends the timeouts from the reports and passes a trigger on, Python   *)
(* ends the move.  The controllers and the links are external: commands    *)
(* arrive in order, reports may be lost, and a link in order takes at most *)
(* Latency.  Time is counted in ticks from the start of the move.          *)
(***************************************************************************)
EXTENDS Integers, FiniteSets, SequencesExt

CONSTANTS N,          \* number of trsyncs; 0 is the endstop's
          Timeout,    \* TRSYNC_TIMEOUT
          Report,     \* report_ticks
          MinExtend,  \* min_extend_ticks
          Latency,    \* of a link in order
          MoveEnd,    \* when the move ends if nothing triggers
          MaxTime,    \* bound: time
          MaxFaults   \* bound: reports lost by a link in order, and links that fail
ASSUME TrSyncAssumption ==
  /\ N \in Nat \ {0} /\ Timeout \in Nat /\ Report \in Nat \ {0} /\ MinExtend \in Nat \ {0}
  /\ Latency \in Nat /\ MoveEnd \in Nat /\ MaxTime \in Nat /\ MaxFaults \in Nat

McuIds == 0..(N - 1)
ENDSTOP_HIT   == 1
HOST_REQUEST  == 2
PAST_END_TIME == 3
COMMS_TIMEOUT == 4

VARIABLES now,
          mcu,          \* external: the trsync of each controller
          stopped,      \* history: when the first controller stopped
          cmds, reps,   \* external: commands and reports under way
          failed,       \* external: links out of order
          lost,
          can_trigger, reading,               \* trdispatch: not yet triggered; fast readers registered
          last_status_clock, expire_clock,    \* trdispatch_mcu
          pc,           \* where homing_move is
          home_end_clock, completion,
          query,        \* stop(): the trsync it asks, the answer, and if the question is acknowledged
          res           \* stop(): the reasons collected

mcus   == <<mcu, stopped>>
link   == <<reps, failed, lost>>
disp   == <<can_trigger, reading, last_status_clock, expire_clock>>
python == <<pc, home_end_clock, completion, query, res>>
vars == <<now, mcus, cmds, link, disp, python>>

None == -1
Command(m, kind, arg) == IF m \in failed THEN <<>> ELSE <<[kind |-> kind, arg |-> arg, clock |-> now]>>
-----------------------------------------------------------------------------
(* External: a trsync of a controller.  It reports when it triggers and    *)
(* from time to time, until a trsync_trigger command ends the reports.     *)
Triggered(t, reason) ==
  IF t.armed THEN [t EXCEPT !.armed = FALSE, !.reason = reason, !.expire = None] ELSE t
NoteStop == stopped' = IF stopped = None /\ \E m \in McuIds : ~mcu'[m].armed THEN now ELSE stopped
State(t) == [kind |-> "state", armed |-> t.armed, reason |-> t.reason, clock |-> now]
Ack      == [kind |-> "ack", armed |-> FALSE, reason |-> 0, clock |-> now]
Send(m, messages) == reps' = [reps EXCEPT ![m] = IF m \in failed THEN @ ELSE @ \o messages]

Stop(m, reason) ==
  /\ mcu[m].armed
  /\ mcu' = [mcu EXCEPT ![m] = Triggered(@, reason)] /\ NoteStop
  /\ Send(m, <<State(mcu'[m])>>)
  /\ UNCHANGED <<now, cmds, failed, lost, disp, python>>
EndstopHit == Stop(0, ENDSTOP_HIT)
Expires(m) == mcu[m].expire = now /\ Stop(m, COMMS_TIMEOUT)

Reports(m) ==
  /\ mcu[m].next = now
  /\ mcu' = [mcu EXCEPT ![m].next = @ + Report] /\ UNCHANGED stopped
  /\ Send(m, <<State(mcu[m])>>)
  /\ UNCHANGED <<now, cmds, failed, lost, disp, python>>

Executes(m) ==
  /\ cmds[m] # <<>> /\ cmds' = [cmds EXCEPT ![m] = Tail(@)]
  /\ LET c == Head(cmds[m])
     IN \/ /\ c.kind = "set_timeout"
           /\ mcu' = [mcu EXCEPT ![m].expire = IF mcu[m].armed THEN c.arg ELSE @]
           /\ UNCHANGED reps
        \/ /\ c.kind # "set_timeout"
           /\ mcu' = [mcu EXCEPT ![m] = [Triggered(@, c.arg) EXCEPT !.next = None]]
           /\ Send(m, IF c.kind = "query" THEN <<State(mcu'[m]), Ack>> ELSE <<State(mcu'[m])>>)
  /\ NoteStop
  /\ UNCHANGED <<now, failed, lost, disp, python>>

(* External: a link loses a report, or fails: what is under way arrives at *)
(* any time or never, and what follows is lost.                            *)
Faults == lost + Cardinality(failed)
Loses(m) ==
  /\ reps[m] # <<>> /\ reps' = [reps EXCEPT ![m] = Tail(@)]
  /\ Head(reps[m]).kind = "state"    \* an acknowledgement is repeated
  /\ m \notin failed /\ Faults < MaxFaults /\ lost' = lost + 1
  /\ UNCHANGED <<now, mcus, cmds, failed, disp, python>>
Fails(m) ==
  /\ m \notin failed /\ Faults < MaxFaults
  /\ failed' = failed \cup {m}
  /\ UNCHANGED <<now, mcus, cmds, reps, lost, disp, python>>

(* Time passes when no timer is due and no message is late.                *)
OnTime(m) ==
  /\ mcu[m].armed => mcu[m].expire # now
  /\ mcu[m].next # now
  /\ m \in failed \/ \A q \in {cmds[m], reps[m]} : q # <<>> => Head(q).clock + Latency > now
Tick ==
  /\ now < MaxTime /\ pc \notin {"done", "error"} /\ \A m \in McuIds : OnTime(m)
  /\ now < MoveEnd \/ pc # "move"    \* steps are generated ahead of time
  /\ now' = now + 1
  /\ UNCHANGED <<mcus, cmds, link, disp, python>>
-----------------------------------------------------------------------------
(* trdispatch.c, in the thread of each link, under the lock of trdispatch. *)

\* How long a trsync may run: from the status of the slowest other one.  The
\* loop that finds it, by the least status time and the next one, is in MCTrSync.
Others(m)      == IF N = 1 THEN McuIds ELSE McuIds \ {m}
SlowestOf(set) == CHOOSE t \in {last_status_clock'[x] : x \in set} : \A x \in set : t <= last_status_clock'[x]
Expire_Own(m)  == Timeout + last_status_clock'[m]   \* mutant: each by its own reports
Expire(m)      == Timeout + SlowestOf(Others(m))

Extends_Late(expire, m) == expire - expire_clock[m] >= Timeout   \* mutant: of expire_ticks
Extends(expire, m) == expire - expire_clock[m] >= MinExtend

HandleTrsyncState(m, r) ==
  LET active == reading /\ can_trigger /\ r.kind = "state"
  IN \/ /\ ~active /\ UNCHANGED disp
     \/ /\ active /\ ~r.armed
        /\ can_trigger' = FALSE
        /\ UNCHANGED <<reading, last_status_clock, expire_clock>>
     \/ /\ active /\ r.armed
        /\ last_status_clock' = [last_status_clock EXCEPT ![m] = r.clock]
        /\ expire_clock' = [x \in McuIds |-> IF Extends(Expire(x), x) THEN Expire(x) ELSE expire_clock[x]]
        /\ UNCHANGED <<can_trigger, reading>>

\* What the step above sends to each controller.
Dispatched(x) == CASE can_trigger' # can_trigger -> Command(x, "trigger", HOST_REQUEST)
                   [] expire_clock'[x] # expire_clock[x] -> Command(x, "set_timeout", expire_clock'[x])
                   [] OTHER -> <<>>
-----------------------------------------------------------------------------
(* Python's handler of trsync_state, and of the query of stop().  Its      *)
(* thread takes the messages of a link in the order the C thread does.     *)
PastEnd(m, r) ==
  pc = "wait" /\ m = 0 /\ r.armed /\ home_end_clock # None /\ r.clock >= home_end_clock

Completes_Failures(r) == ~r.armed /\ r.reason >= COMMS_TIMEOUT   \* mutant: only is_failure completes
Completes(r) == ~r.armed

PyHandleTrsyncState(m, r) ==
  \/ /\ pc \in {"move", "wait"}
     /\ completion' = (completion \/ Completes(r))
     /\ home_end_clock' = IF PastEnd(m, r) THEN None ELSE home_end_clock
     /\ UNCHANGED query
  \/ /\ pc = "stop" /\ m = query.mcu
     /\ query' = IF r.kind = "ack" THEN [query EXCEPT !.acked = TRUE] ELSE [query EXCEPT !.answer = r.reason]
     /\ UNCHANGED <<completion, home_end_clock>>
  \/ /\ pc \in {"done", "error"} \/ (pc = "stop" /\ m # query.mcu)
     /\ UNCHANGED <<query, completion, home_end_clock>>

Receives(m) ==
  /\ reps[m] # <<>> /\ reps' = [reps EXCEPT ![m] = Tail(@)]
  /\ LET r == Head(reps[m])
     IN /\ HandleTrsyncState(m, r)
        /\ PyHandleTrsyncState(m, r)
        /\ cmds' = [x \in McuIds |-> cmds[x] \o Dispatched(x)
                      \o IF x = m /\ PastEnd(m, r) THEN Command(m, "trigger", PAST_END_TIME) ELSE <<>>]
  /\ UNCHANGED <<now, mcus, failed, lost, pc, res>>

\* The host gives up on a failed link (check_active) when more than forty clock
\* queries, one a second, went unanswered: long after every timeout.
GivesUpOn(m) == m \in failed /\ (now = MaxTime \/ \A x \in McuIds : ~mcu[x].armed)

Shutdown ==
  /\ \E m \in McuIds : GivesUpOn(m)
  /\ ~completion /\ completion' = TRUE
  /\ UNCHANGED <<now, mcus, cmds, link, disp, pc, home_end_clock, query, res>>

(* homing_move: drip_move returns, home_wait begins.                       *)
EndOfMove ==
  /\ pc = "move" /\ pc' = "wait" /\ home_end_clock' = MoveEnd
  /\ UNCHANGED <<now, mcus, cmds, link, disp, completion, query, res>>

\* stop() asks one trsync after the other; the question is a trigger command.
Ask(m) ==
  /\ query' = [mcu |-> m, answer |-> None, acked |-> FALSE]
  /\ cmds' = [cmds EXCEPT ![m] = @ \o Command(m, "query", HOST_REQUEST)]

StopDispatch ==
  /\ pc = "wait" /\ completion /\ pc' = "stop"
  /\ reading' = FALSE
  /\ Ask(0)
  /\ UNCHANGED <<now, mcus, link, can_trigger, last_status_clock, expire_clock, home_end_clock, completion, res>>

Answered_NotAcked == query.answer # None   \* mutant: any report answers
Answered == query.acked /\ query.answer # None
IsLast_OneMore(m) == m = N   \* mutant: one trsync too many
IsLast(m) == m = N - 1
QueryReturns ==
  /\ pc = "stop" /\ Answered
  /\ res' = Append(res, query.answer)
  /\ IF IsLast(query.mcu) THEN pc' = "done" /\ UNCHANGED <<query, cmds>>
                          ELSE Ask(query.mcu + 1) /\ UNCHANGED pc
  /\ UNCHANGED <<now, mcus, link, disp, home_end_clock, completion>>
QueryAgain ==   \* the answer was lost
  /\ pc = "stop" /\ query.acked /\ query.answer = None
  /\ Ask(query.mcu)
  /\ UNCHANGED <<now, mcus, link, disp, pc, home_end_clock, completion, res>>
QueryFails ==   \* the retries are used up, or the connection is closed
  /\ pc = "stop" /\ GivesUpOn(query.mcu) /\ pc' = "error"
  /\ UNCHANGED <<now, mcus, cmds, link, disp, home_end_clock, completion, query, res>>

\* What home_wait makes of the reasons.
Outcome ==
  CASE \E i \in DOMAIN res : res[i] >= COMMS_TIMEOUT -> "timeout"
    [] (\A i \in DOMAIN res : res[i] < COMMS_TIMEOUT) /\ res[1] = ENDSTOP_HIT -> "hit"
    [] OTHER -> "no trigger"
-----------------------------------------------------------------------------
(* home_start has armed every trsync and registered the fast readers.      *)
FirstReport(m) == (2 * Report * m + N) \div (2 * N)   \* int(report_ticks * m / N + .5)
Init ==
  /\ now = 0 /\ stopped = None
  /\ mcu = [m \in McuIds |-> [armed |-> TRUE, reason |-> 0, expire |-> Timeout, next |-> FirstReport(m)]]
  /\ cmds = [m \in McuIds |-> <<>>] /\ reps = [m \in McuIds |-> <<>>]
  /\ failed = {} /\ lost = 0
  /\ can_trigger = TRUE /\ reading = TRUE
  /\ last_status_clock = [m \in McuIds |-> 0] /\ expire_clock = [m \in McuIds |-> Timeout]
  /\ pc = "move" /\ home_end_clock = None /\ completion = FALSE
  /\ query = [mcu |-> None, answer |-> None, acked |-> FALSE] /\ res = <<>>

Controller(m) == Expires(m) \/ Reports(m) \/ Executes(m)
Host == EndOfMove \/ StopDispatch \/ QueryReturns \/ QueryAgain \/ QueryFails \/ Shutdown
Next ==
  \/ Tick \/ EndstopHit \/ Host
  \/ \E m \in McuIds : Controller(m) \/ Loses(m) \/ Fails(m) \/ Receives(m)

(* Timers and threads run; a link that has not failed delivers; the host   *)
(* notices a link that has.                                                *)
Fairness ==
  /\ WF_vars(Tick) /\ WF_vars(Host)
  /\ \A m \in McuIds : /\ WF_vars(Expires(m)) /\ WF_vars(Reports(m))
                       /\ WF_vars(m \notin failed /\ (Executes(m) \/ Receives(m)))
Spec == Init /\ [][Next]_vars
FairSpec == Spec /\ Fairness
-----------------------------------------------------------------------------
Times    == 0..(MaxTime + Timeout)
Reasons  == 0..COMMS_TIMEOUT
Trsync   == [armed : BOOLEAN, reason : Reasons, expire : Times \cup {None}, next : Nat \cup {None}]
Commands == [kind : {"set_timeout"}, arg : Times, clock : 0..MaxTime]
            \cup [kind : {"trigger", "query"}, arg : Reasons, clock : 0..MaxTime]
Messages == [kind : {"state", "ack"}, armed : BOOLEAN, reason : Reasons, clock : 0..MaxTime]

(* The values the variables have.                                          *)
ClocksTypeOK ==
  /\ now \in 0..MaxTime /\ stopped \in 0..MaxTime \cup {None}
  /\ last_status_clock \in [McuIds -> 0..MaxTime] /\ expire_clock \in [McuIds -> Times]
LinksTypeOK ==
  /\ mcu \in [McuIds -> Trsync]
  /\ cmds \in [McuIds -> Seq(Commands)] /\ reps \in [McuIds -> Seq(Messages)]
  /\ failed \subseteq McuIds /\ lost \in Nat /\ Faults \in 0..MaxFaults
HostTypeOK ==
  /\ {can_trigger, reading, completion} \subseteq BOOLEAN
  /\ pc \in {"move", "wait", "stop", "done", "error"}
  /\ home_end_clock \in {None, MoveEnd}
  /\ query \in [mcu : McuIds \cup {None}, answer : Reasons \cup {None}, acked : BOOLEAN]
  /\ res \in Seq(Reasons) /\ Len(res) <= N
TypeOK == ClocksTypeOK /\ LinksTypeOK /\ HostTypeOK

(* Once one controller has stopped its steppers, every other one stops     *)
(* within Timeout, whatever becomes of the links, of the report of the     *)
(* trigger and of the host: no timeout is extended past it.                *)
StopsInTime ==
  stopped # None /\ (\E m \in McuIds : mcu[m].armed) => now <= stopped + Timeout

(* While every link keeps to its latency and no report is lost, no trsync  *)
(* times out: the timeouts are extended soon and often enough.             *)
NoFalseTimeout ==
  failed = {} /\ lost = 0 => \A m \in McuIds : mcu[m].reason # COMMS_TIMEOUT

(* When stop() has its answers every controller has stopped.               *)
StoppedWhenDone == pc = "done" => \A m \in McuIds : ~mcu[m].armed

(* Every controller has stopped then, and home_wait reports a trigger only *)
(* if the endstop was hit and none timed out; it reports one that was,     *)
(* unless a link failed.  A trsync that times out because a report was     *)
(* lost, and whose last two reports are lost as well, passes for one that  *)
(* was stopped: a status from before, that comes late, answers the query.  *)
HomedIsTrue ==
  /\ StoppedWhenDone
  /\ pc = "done" =>
       /\ Outcome = "hit" /\ lost < 3 =>
            /\ mcu[0].reason = ENDSTOP_HIT
            /\ \A m \in McuIds : mcu[m].reason # COMMS_TIMEOUT
       /\ mcu[0].reason = ENDSTOP_HIT /\ failed = {} => Outcome # "no trigger"

(* A homing move ends, though reports are lost and links fail.             *)
HomingEnds == <>(pc \in {"done", "error"})
=============================================================================
