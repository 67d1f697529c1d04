--------------------------- MODULE JobQueue_proofs ---------------------------
(***************************************************************************)
(* Theorems about JobQueue: its types, that the queue never says it loads  *)
(* or starts a job nothing is working on, that no job is printed twice,    *)
(* and that a pause holds.                                                 *)
(***************************************************************************)
EXTENDS JobQueue, QueueLemmas

\* What a coroutine awaits while it holds the lock tells what it is: only
\* start_queue waits for the query without a job, only _pop_job for the rest.
\* Nothing but a pause changes the state of the queue during start_print.
LockInv ==
    /\ lock.pc = "free" => lock = Free
    /\ lock.pc = "query" => lock.task.op = "start"
    /\ lock.pc \in {"check", "gcode", "print"} => lock.task.op = "pop"
    /\ lock.pc = "print" => queue_state \in {"starting", "paused"}

\* Klippy's answer to SDCARD_PRINT_FILE is under way only while _pop_job awaits
\* it, and a job that has begun and that the connection outlived is not refused.
AnswerInv ==
    /\ answer = "begun" => lock.pc = "print" /\ lock.uid \in started
    /\ lock.pc = "print" /\ lock.uid \in started \ cut => answer \in {"begun", "ok"}

\* A queue that was paused, with nothing about to set it going, is paused.
PausedInv == halted => queue_state = "paused" /\ ~Restarting

\* The inductive invariant.
IInv == TypeOK /\ LockInv /\ NeverStranded /\ NoJobTwice /\ AnswerInv /\ PausedInv

\* Klippy is asked for a print by a queue that is loading, whatever came in
\* between the await and its end.
PrintAsked == lock.pc # "print" /\ lock'.pc = "print" => queue_state = "loading"

\* What the coroutines in the lock are about, the one that holds it included.
Ops == {lock.task.op} \cup {waiting[i].op : i \in DOMAIN waiting}
-----------------------------------------------------------------------------
\* Both questions the module asks of the lock are questions about Ops.
LEMMA PendingOps ==
    /\ PopPending <=> timers # <<>> \/ "pop" \in Ops
    /\ Restarting <=> Ops \cap Restarts # {}
  BY DEF PopPending, Restarting, Ops

\* The same one step later.
LEMMA PendingOpsNext ==
    /\ PopPending' <=> timers' # <<>> \/ "pop" \in Ops'
    /\ Restarting' <=> Ops' \cap Restarts # {}
  BY DEF PopPending, Restarting, Ops

\* A coroutine that asks for the lock enters it or waits at its end: what was
\* in the lock stays there, and the coroutine is there.
LEMMA AcquireLeaves ==
    ASSUME LockTypeOK, LockInv, NEW task \in TaskSet,
           IF Available THEN lock' = [pc |-> "enter", task |-> task, uid |-> NoJob] /\ UNCHANGED waiting
                        ELSE waiting' = Append(waiting, task) /\ UNCHANGED lock
    PROVE  /\ LockTypeOK'
           /\ lock' = lock \/ (lock.pc = "free" /\ lock'.pc = "enter")
           /\ Ops' \subseteq Ops \cup {task.op} /\ Ops \subseteq Ops' \cup {None} /\ task.op \in Ops'
  <1>1. CASE Available
    <2>1. lock' = [pc |-> "enter", task |-> task, uid |-> NoJob] /\ waiting' = waiting
      BY <1>1
    <2>2. lock.pc = "free" /\ lock.task.op = None
      BY <1>1 DEF Available, Free, Task
    <2>. QED
      BY <2>1, <2>2 DEF LockTypeOK, Ops, NoJob
  <1>2. CASE ~Available
    <2>1. waiting' = Append(waiting, task) /\ lock' = lock
      BY <1>2
    <2>2. /\ waiting' \in Seq(TaskSet) /\ Len(waiting') = Len(waiting) + 1
          /\ \A i \in 1 .. Len(waiting) : waiting'[i] = waiting[i]
          /\ waiting'[Len(waiting) + 1] = task
      BY <2>1 DEF LockTypeOK
    <2>3. DOMAIN waiting' = DOMAIN waiting \cup {Len(waiting) + 1}
      BY <2>2 DEF LockTypeOK
    <2>4. DOMAIN waiting = 1 .. Len(waiting)
      BY DEF LockTypeOK
    <2>5. {waiting'[i].op : i \in DOMAIN waiting'} = {waiting[i].op : i \in DOMAIN waiting} \cup {task.op}
      BY <2>2, <2>3, <2>4
    <2>. QED
      BY <2>1, <2>2, <2>5 DEF LockTypeOK, Ops
  <1>. QED
    BY <1>1, <1>2

\* The coroutine that has waited longest is woken with the lock.
LEMMA WakeLeaves ==
    ASSUME LockTypeOK, Wake
    PROVE  LockTypeOK' /\ lock'.pc = "enter" /\ Ops' \subseteq Ops /\ Ops \subseteq Ops' \cup {None}
  <1>1. lock.task.op = None /\ waiting \in Seq(TaskSet) /\ waiting # <<>>
    BY DEF Wake, Free, Task, LockTypeOK
  <1>2. lock' = [pc |-> "enter", task |-> waiting[1], uid |-> NoJob] /\ waiting' = Tail(waiting)
    BY <1>1 DEF Wake
  <1>3. /\ Len(waiting) \in Nat \ {0} /\ waiting' \in Seq(TaskSet) /\ Len(waiting') = Len(waiting) - 1
        /\ \A i \in 1 .. Len(waiting) - 1 : waiting'[i] = waiting[i + 1]
    BY <1>1, <1>2
  <1>4. waiting[1] \in TaskSet
    BY <1>1, <1>3
  <1>5. LockTypeOK' /\ lock'.pc = "enter"
    BY <1>2, <1>3, <1>4 DEF LockTypeOK, NoJob
  <1>6. ASSUME NEW i \in 1 .. Len(waiting)
        PROVE  waiting[i].op \in {lock'.task.op} \cup {waiting'[j].op : j \in DOMAIN waiting'}
    <2>1. CASE i = 1
      BY <2>1, <1>2
    <2>2. CASE i # 1
      <3>1. i - 1 \in DOMAIN waiting' /\ waiting'[i - 1] = waiting[i]
        BY <2>2, <1>3
      <3>. QED
        BY <3>1
    <2>. QED
      BY <2>1, <2>2
  <1>7. Ops \subseteq Ops' \cup {None}
    BY <1>1, <1>3, <1>6 DEF Ops
  <1>8. \A i \in DOMAIN waiting' : i + 1 \in DOMAIN waiting /\ waiting'[i] = waiting[i + 1]
    BY <1>3
  <1>9. lock'.task.op \in {waiting[j].op : j \in DOMAIN waiting}
    BY <1>2, <1>3
  <1>10. Ops' \subseteq Ops
    BY <1>8, <1>9 DEF Ops
  <1>. QED
    BY <1>5, <1>7, <1>10

\* The lock given back: only what held it is gone.
LEMMA ReleaseLeaves ==
    ASSUME LockTypeOK, lock' = Free, waiting' = waiting
    PROVE  /\ LockTypeOK' /\ lock'.pc = "free" /\ Ops' \subseteq Ops \cup {None}
           /\ Ops \subseteq Ops' \cup {lock.task.op} /\ \A i \in DOMAIN waiting : waiting[i].op \in Ops'
  BY DEF LockTypeOK, Ops, Free, Task, TaskSet, NoJob, None

\* A coroutine that waits with the lock in its hands stays what it is.
LEMMA HoldingLeaves ==
    ASSUME LockTypeOK, waiting' = waiting,
           NEW pc \in {"query", "check", "gcode", "print"}, lock' = [lock EXCEPT !.pc = pc]
    PROVE  LockTypeOK' /\ lock'.pc = pc /\ lock'.task = lock.task /\ lock'.uid = lock.uid /\ Ops' = Ops
  <1>1. lock' = [pc |-> pc, task |-> lock.task, uid |-> lock.uid]
    BY DEF LockTypeOK
  <1>2. Ops' = Ops
    BY <1>1 DEF Ops
  <1>. QED
    BY <1>1, <1>2 DEF LockTypeOK

\* So does _pop_job when it has picked the job it loads.
LEMMA PickingLeaves ==
    ASSUME LockTypeOK, waiting' = waiting, NEW uid \in Nat,
           lock' = [pc |-> "check", task |-> lock.task, uid |-> uid]
    PROVE  LockTypeOK' /\ lock'.pc = "check" /\ lock'.task = lock.task /\ lock'.uid = uid /\ Ops' = Ops
  BY DEF LockTypeOK, Ops

\* Cancelling the delayed call of which the handle is kept leaves the others.
LEMMA CancelHeldLeaves ==
    ASSUME TimersTypeOK, CancelHeld
    PROVE  timers' \in Seq([trans: BOOLEAN, held: BOOLEAN]) /\ \A i \in DOMAIN timers' : ~timers'[i].held
  <1>. DEFINE R == [trans: BOOLEAN, held: BOOLEAN]
  <1>1. timers \in Seq(R) /\ DOMAIN timers = 1 .. Len(timers) /\ \A i \in DOMAIN timers : timers[i] \in R
    <2>1. timers \in Seq(R)
      BY DEF TimersTypeOK
    <2>. QED
      BY <2>1, LenProperties, ElementOfSeq
  <1>2. CASE HeldTimers = {}
    BY <1>1, <1>2 DEF CancelHeld, HeldTimers
  <1>3. CASE HeldTimers # {}
    <2>1. PICK k \in HeldTimers : timers' = RemoveAt(timers, k)
      BY <1>3 DEF CancelHeld
    <2>2. k \in 1 .. Len(timers) /\ \A i \in DOMAIN timers : i # k => ~timers[i].held
      BY <1>1 DEF HeldTimers, TimersTypeOK
    <2>3. /\ timers' \in Seq(R) /\ Len(timers') = Len(timers) - 1
          /\ \A j \in 1 .. Len(timers) - 1 : timers'[j] = IF j < k THEN timers[j] ELSE timers[j + 1]
      BY <2>1, <2>2, <1>1, SequenceRemoveAt
    <2>4. ASSUME NEW j \in 1 .. Len(timers) - 1 PROVE ~timers'[j].held
      <3>1. j \in DOMAIN timers /\ j + 1 \in DOMAIN timers
        BY <1>1
      <3>2. CASE j < k
        BY <3>1, <3>2, <2>2, <2>3
      <3>3. CASE ~(j < k)
        <4>1. j + 1 # k
          BY <3>3, <2>2
        <4>. QED
          BY <4>1, <3>1, <3>3, <2>2, <2>3
      <3>. QED
        BY <3>2, <3>3
    <2>. QED
      BY <2>3, <2>4
  <1>. QED
    BY <1>2, <1>3

\* The handle dropped: the same calls, none held.
LEMMA DroppedLeaves ==
    ASSUME NEW ts \in Seq([trans: BOOLEAN, held: BOOLEAN])
    PROVE  /\ Dropped(ts) \in Seq([trans: BOOLEAN, held: BOOLEAN]) /\ Len(Dropped(ts)) = Len(ts)
           /\ \A i \in 1 .. Len(ts) : ~Dropped(ts)[i].held
  <1>. DEFINE R == [trans: BOOLEAN, held: BOOLEAN]
              d == Dropped(ts)
  <1>1. Len(ts) \in Nat /\ DOMAIN ts = 1 .. Len(ts) /\ \A i \in 1 .. Len(ts) : ts[i] \in R
    BY LenProperties, ElementOfSeq
  <1>2. d = [i \in 1 .. Len(ts) |-> [ts[i] EXCEPT !.held = FALSE]]
    BY <1>1 DEF Dropped
  <1>3. \A i \in 1 .. Len(ts) : [ts[i] EXCEPT !.held = FALSE] \in R /\ ~[ts[i] EXCEPT !.held = FALSE].held
    BY <1>1
  <1>. HIDE DEF d, R
  <1>4. d \in [1 .. Len(ts) -> R]
    BY <1>2, <1>3
  <1>5. d \in Seq(R) /\ Len(d) = Len(ts)
    BY <1>1, <1>4
  <1>. QED
    BY <1>2, <1>3, <1>5 DEF d, R

\* A new delayed call is the only one of which the handle is kept.
LEMMA DelayLeaves ==
    ASSUME TimersTypeOK, NEW trans \in BOOLEAN,
           timers' = Append(Dropped(timers), [trans |-> trans, held |-> TRUE])
    PROVE  /\ timers' \in Seq([trans: BOOLEAN, held: BOOLEAN]) /\ timers' # <<>>
           /\ \A i \in DOMAIN timers' : timers'[i].held => i = Len(timers')
  <1>. DEFINE R == [trans: BOOLEAN, held: BOOLEAN]
              d == Dropped(timers)
              e == [trans |-> trans, held |-> TRUE]
  <1>1. timers \in Seq(R) /\ DOMAIN timers = 1 .. Len(timers) /\ \A i \in DOMAIN timers : timers[i] \in R
    <2>1. timers \in Seq(R)
      BY DEF TimersTypeOK
    <2>. QED
      BY <2>1, LenProperties, ElementOfSeq
  <1>2. d \in Seq(R) /\ Len(d) = Len(timers) /\ \A i \in 1 .. Len(d) : ~d[i].held
    BY <1>1, DroppedLeaves
  <1>3. e \in R /\ timers' = Append(d, e)
    OBVIOUS
  <1>. HIDE DEF d, e, R
  <1>4. timers' \in Seq(R) /\ Len(timers') = Len(d) + 1 /\ \A i \in 1 .. Len(d) : timers'[i] = d[i]
    <2>1. \A q \in Seq(R) : \A x \in R : /\ Append(q, x) \in Seq(R) /\ Len(Append(q, x)) = Len(q) + 1
                                        /\ \A i \in 1 .. Len(q) : Append(q, x)[i] = q[i]
      BY AppendProperties
    <2>2. Append(d, e) \in Seq(R) /\ Len(Append(d, e)) = Len(d) + 1 /\ \A i \in 1 .. Len(d) : Append(d, e)[i] = d[i]
      BY <1>2, <1>3, <2>1
    <2>. QED
      BY <1>3, <2>2
  <1>5. timers' # <<>>
    BY <1>2, <1>4
  <1>. QED
    BY <1>2, <1>4, <1>5 DEF R

\* A delayed call that runs leaves the others, and none is held any longer.
LEMMA FireLeaves ==
    ASSUME TimersTypeOK, NEW i \in DOMAIN timers, timers' = Dropped(RemoveAt(timers, i))
    PROVE  /\ timers' \in Seq([trans: BOOLEAN, held: BOOLEAN]) /\ \A j \in DOMAIN timers' : ~timers'[j].held
           /\ Task("pop", NoJob, timers[i].trans) \in TaskSet
  <1>. DEFINE R == [trans: BOOLEAN, held: BOOLEAN]
              r == RemoveAt(timers, i)
  <1>1. timers \in Seq(R) /\ i \in 1 .. Len(timers) /\ timers[i] \in R
    <2>1. timers \in Seq(R)
      BY DEF TimersTypeOK
    <2>. QED
      BY <2>1, LenProperties, ElementOfSeq
  <1>2. r \in Seq(R)
    BY <1>1, SequenceRemoveAt
  <1>3. timers' = Dropped(r)
    OBVIOUS
  <1>. HIDE DEF r
  <1>4. timers' \in Seq(R) /\ Len(timers') = Len(r) /\ \A j \in 1 .. Len(r) : ~timers'[j].held
    BY <1>2, <1>3, DroppedLeaves
  <1>. QED
    BY <1>1, <1>4 DEF Task, TaskSet, NoJob

\* A queue nothing has touched is not stranded while what was in the lock, or
\* delayed, still is.
LEMMA StrandedKept ==
    ASSUME NeverStranded, Ops \subseteq Ops' \cup {None}, timers # <<>> => timers' # <<>> \/ "pop" \in Ops',
           lock.pc = "print" => lock'.pc = "print", unhandled' = unhandled, queue_state' = queue_state
    PROVE  NeverStranded'
  BY PendingOps, PendingOpsNext DEF NeverStranded, None

\* Nothing is on its way in a queue that is paused or ready.
LEMMA StrandedNot ==
    ASSUME queue_state' \in {"paused", "ready"}
    PROVE  NeverStranded'
  BY DEF NeverStranded

\* Without a job the dictionary holds the others.
LEMMA WithoutLeaves ==
    ASSUME JobsTypeOK, NEW j
    PROVE  /\ Without(j) \in Seq(1 .. made) /\ IsInjective(Without(j))
           /\ Range(Without(j)) = Range(queued_jobs) \ {j}
  BY QueueRemove DEF JobsTypeOK, Without

\* Jobs that are queued come after those that stay, under ids of their own.
LEMMA QueueJobLeaves ==
    ASSUME JobsTypeOK, made \in Nat, NEW number \in Nat, NEW reset \in BOOLEAN,
           made' = made + number,
           queued_jobs' = (IF reset THEN <<>> ELSE queued_jobs) \o [i \in 1 .. number |-> made + i]
    PROVE  /\ queued_jobs' \in Seq(1 .. made') /\ IsInjective(queued_jobs')
           /\ Range(queued_jobs') \subseteq Range(queued_jobs) \cup (made + 1 .. made')
  <1>. DEFINE old == IF reset THEN <<>> ELSE queued_jobs
              new == [i \in 1 .. number |-> made + i]
              all == made + number
  <1>1. old \in Seq(1 .. all) /\ IsInjective(old) /\ Range(old) \subseteq Range(queued_jobs) /\ Range(old) \subseteq 1 .. made
    <2>1. CASE reset
      BY <2>1 DEF IsInjective, Range
    <2>2. CASE ~reset
      <3>1. queued_jobs \in Seq(1 .. all)
        BY DEF JobsTypeOK
      <3>. QED
        BY <3>1, <2>2, QueueRange DEF JobsTypeOK
    <2>. QED
      BY <2>1, <2>2
  <1>2. new \in Seq(1 .. all) /\ IsInjective(new) /\ Range(new) \subseteq made + 1 .. all
    <2>1. new \in [1 .. number -> 1 .. all]
      OBVIOUS
    <2>2. new \in Seq(1 .. all) /\ DOMAIN new = 1 .. number
      BY <2>1
    <2>. QED
      BY <2>2 DEF IsInjective, Range
  <1>3. Range(old) \cap Range(new) = {}
    BY <1>1, <1>2
  <1>4. queued_jobs' = old \o new /\ made' = all
    OBVIOUS
  <1>. HIDE DEF old, new, all
  <1>5. /\ old \o new \in Seq(1 .. all) /\ IsInjective(old \o new)
        /\ Range(old \o new) = Range(old) \cup Range(new)
    BY <1>1, <1>2, <1>3, QueueConcat
  <1>. QED
    BY <1>1, <1>2, <1>4, <1>5

\* A job that jumps the queue is still in it once, with all the others.
LEMMA JumpLeaves ==
    ASSUME JobsTypeOK, NEW job,
           queued_jobs' = IF job \in Range(queued_jobs) THEN <<job>> \o Without(job) ELSE queued_jobs
    PROVE  queued_jobs' \in Seq(1 .. made) /\ IsInjective(queued_jobs') /\ Range(queued_jobs') = Range(queued_jobs)
  <1>1. CASE job \in Range(queued_jobs)
    <2>1. job \in 1 .. made
      BY <1>1, QueueRange DEF JobsTypeOK
    <2>2. <<job>> \in Seq(1 .. made) /\ IsInjective(<<job>>) /\ Range(<<job>>) = {job}
      BY <2>1 DEF IsInjective, Range
    <2>3. /\ Without(job) \in Seq(1 .. made) /\ IsInjective(Without(job))
          /\ Range(Without(job)) = Range(queued_jobs) \ {job}
      BY WithoutLeaves
    <2>. DEFINE first == <<job>>
                rest  == Without(job)
    <2>4. queued_jobs' = first \o rest /\ Range(first) \cap Range(rest) = {}
      BY <1>1, <2>2, <2>3
    <2>. HIDE DEF first, rest
    <2>5. /\ first \o rest \in Seq(1 .. made) /\ IsInjective(first \o rest)
          /\ Range(first \o rest) = Range(first) \cup Range(rest)
      <3>1. first \in Seq(1 .. made) /\ IsInjective(first) /\ rest \in Seq(1 .. made) /\ IsInjective(rest)
        BY <2>2, <2>3 DEF first, rest
      <3>. QED
        BY <2>4, <3>1, QueueConcat
    <2>6. Range(first) \cup Range(rest) = Range(queued_jobs)
      BY <1>1, <2>2, <2>3 DEF first, rest
    <2>. QED
      BY <2>4, <2>5, <2>6
  <1>2. CASE job \notin Range(queued_jobs)
    BY <1>2 DEF JobsTypeOK
  <1>. QED
    BY <1>1, <1>2

-----------------------------------------------------------------------------
\* Every operation leaves the flags and states in their types.
LEMMA FlagsTypeOKStep ==
    ASSUME IInv, [Next]_vars
    PROVE  FlagsTypeOK'
  <1>. USE DEF IInv, TypeOK, FlagsTypeOK, States, JobEvents, None, vars, lockVars, klippyVars, stateVars, bounds, queueVars, Release, Ask, Acquire, Change
  <1>1. CASE Finish
    <2>. USE <1>1 DEF Finish
    <2>1. lock.task.flag \in BOOLEAN /\ lock.task.job \in Nat
      BY DEF LockTypeOK, TaskSet
    <2>2. CASE lock.task.op = "queue" /\ QueueJob(lock.task.job, lock.task.flag)
      BY <2>1, <2>2 DEF QueueJob
    <2>3. CASE HandleReady /\ made' = made
      BY <2>3 DEF HandleReady
    <2>4. CASE OnJobComplete /\ made' = made
      BY <2>4 DEF OnJobComplete
    <2>5. CASE OnJobAbort /\ made' = made
      BY <2>5 DEF OnJobAbort
    <2>6. CASE DeleteJob(lock.task.job, lock.task.flag) /\ made' = made
      BY <2>6 DEF DeleteJob
    <2>7. CASE Jump(lock.task.job) /\ made' = made
      BY <2>7 DEF Jump
    <2>8. CASE PauseTail(lock.task) /\ made' = made
      BY <2>8, <2>1 DEF PauseTail
    <2>. QED
      BY <2>2, <2>3, <2>4, <2>5, <2>6, <2>7, <2>8
  <1>2. CASE StartQueue
    BY <1>2 DEF StartQueue
  <1>3. CASE StartQueueChecked
    BY <1>3 DEF StartQueueChecked, Ready
  <1>4. CASE PopJob
    BY <1>4 DEF PopJob
  <1>5. CASE PopChecked
    BY <1>5 DEF PopChecked, StartPrint, GiveUp
  <1>6. CASE PopTransition
    BY <1>6 DEF PopTransition, StartPrint, GiveUp
  <1>7. CASE PopDone
    BY <1>7 DEF PopDone, AfterStart, Ready
  <1>8. CASE PopTimesOut
    BY <1>8 DEF PopTimesOut
  <1>9. CASE Wake
    BY <1>9 DEF Wake
  <1>10. CASE HandleEvent
    BY <1>10 DEF HandleEvent, CancelHeld
  <1>11. CASE StatusUpdate
    BY <1>11 DEF StatusUpdate, JobEvent
  <1>12. ASSUME NEW i \in DOMAIN timers, Fire(i) PROVE FlagsTypeOK'
    <2>1. halted' \in BOOLEAN
      BY <1>12 DEF Fire
    <2>2. UNCHANGED <<conf, pause_requested, unhandled, queue_state, answer, klippy, print, seen, last_event, made>>
      BY <1>12 DEF Fire
    <2>. QED
      BY <2>1, <2>2
  <1>13. CASE CallQueue
    <2>1. halted' \in BOOLEAN
      BY <1>13 DEF CallQueue, Call
    <2>2. UNCHANGED <<conf, pause_requested, unhandled, queue_state, answer, klippy, print, seen, last_event, made>>
      BY <1>13 DEF CallQueue, Call
    <2>. QED
      BY <2>1, <2>2
  <1>14. CASE CallDelete
    <2>1. halted' \in BOOLEAN
      BY <1>14 DEF CallDelete, Call
    <2>2. UNCHANGED <<conf, pause_requested, unhandled, queue_state, answer, klippy, print, seen, last_event, made>>
      BY <1>14 DEF CallDelete, Call
    <2>. QED
      BY <2>1, <2>2
  <1>15. CASE CallJump
    <2>1. halted' \in BOOLEAN
      BY <1>15 DEF CallJump, Call
    <2>2. UNCHANGED <<conf, pause_requested, unhandled, queue_state, answer, klippy, print, seen, last_event, made>>
      BY <1>15 DEF CallJump, Call
    <2>. QED
      BY <2>1, <2>2
  <1>16. CASE CallStart
    <2>1. halted' \in BOOLEAN
      BY <1>16 DEF CallStart, Call
    <2>2. UNCHANGED <<conf, pause_requested, unhandled, queue_state, answer, klippy, print, seen, last_event, made>>
      BY <1>16 DEF CallStart, Call
    <2>. QED
      BY <2>1, <2>2
  <1>17. CASE CallPause
    BY <1>17 DEF CallPause, Call, CancelHeld
  <1>18. CASE KlippyAnswers
    BY <1>18 DEF KlippyAnswers
  <1>19. CASE KlippyReplies
    BY <1>19 DEF KlippyReplies
  <1>20. CASE PrintChanges
    BY <1>20 DEF PrintChanges, NextPrint
  <1>21. CASE ShutDown
    BY <1>21 DEF ShutDown
  <1>22. CASE Disconnect
    BY <1>22 DEF Disconnect, FailPending
  <1>23. CASE Reconnect
    BY <1>23 DEF Reconnect
  <1>24. CASE UNCHANGED vars
    BY <1>24
  <1>. QED
    BY <1>1, <1>2, <1>3, <1>4, <1>5, <1>6, <1>7, <1>8, <1>9, <1>10, <1>11, <1>12, <1>13, <1>14, <1>15, <1>16, <1>17, <1>18, <1>19, <1>20, <1>21, <1>22, <1>23, <1>24 DEF Next, Coroutine, Loop, Clients, Klippy

\* The lock: who holds it is what its await says it is.
LEMMA LockStep ==
    ASSUME IInv, [Next]_vars
    PROVE  LockTypeOK' /\ LockInv' /\ PrintAsked
  <1>. USE DEF IInv, TypeOK, None, PrintAsked, vars, lockVars, klippyVars, stateVars, bounds, queueVars
  <1>1. CASE Finish
    <2>1. lock' = Free /\ waiting' = waiting
      BY <1>1 DEF Finish, Release
    <2>2. LockTypeOK' /\ lock'.pc = "free"
      BY <2>1, ReleaseLeaves
    <2>. QED
      BY <2>1, <2>2 DEF LockInv
  <1>2. CASE StartQueue
    <2>1. CASE lock' = Free /\ waiting' = waiting
      BY <2>1, ReleaseLeaves DEF LockInv
    <2>2. CASE lock' = [lock EXCEPT !.pc = "query"] /\ waiting' = waiting
      <3>1. LockTypeOK' /\ lock'.pc = "query" /\ lock'.task = lock.task
        BY <2>2, HoldingLeaves
      <3>. QED
        BY <1>2, <3>1 DEF LockInv, StartQueue
    <2>. QED
      BY <1>2, <2>1, <2>2 DEF StartQueue, Ask, Holding, Release
  <1>3. CASE StartQueueChecked
    <2>1. lock' = Free /\ waiting' = waiting
      BY <1>3 DEF StartQueueChecked, Release
    <2>2. LockTypeOK' /\ lock'.pc = "free"
      BY <2>1, ReleaseLeaves
    <2>. QED
      BY <2>1, <2>2 DEF LockInv
  <1>4. CASE PopJob
    <2>1. CASE lock' = Free /\ waiting' = waiting
      BY <2>1, ReleaseLeaves DEF LockInv
    <2>2. CASE queued_jobs # <<>> /\ lock' = [lock EXCEPT !.pc = "check", !.uid = Head(queued_jobs)] /\ waiting' = waiting
      <3>1. PICK uid \in Nat : uid = Head(queued_jobs)
        BY <2>2 DEF JobsTypeOK, FlagsTypeOK
      <3>2. LockTypeOK' /\ lock'.pc = "check" /\ lock'.task = lock.task
        <4>1. lock' = [pc |-> "check", task |-> lock.task, uid |-> uid] /\ waiting' = waiting
          BY <2>2, <3>1 DEF LockTypeOK
        <4>. QED
          BY <4>1, PickingLeaves
      <3>. QED
        BY <1>4, <3>2 DEF LockInv, PopJob
    <2>. QED
      BY <1>4, <2>1, <2>2 DEF PopJob, Release
  <1>5. CASE PopChecked
    <2>1. CASE lock' = Free /\ waiting' = waiting
      BY <2>1, ReleaseLeaves DEF LockInv
    <2>2. ASSUME NEW pc \in {"gcode", "print"}, lock' = [lock EXCEPT !.pc = pc], waiting' = waiting,
                 pc = "print" => queue_state = "loading" /\ queue_state' = "starting"
          PROVE  LockTypeOK' /\ LockInv' /\ PrintAsked
      <3>1. LockTypeOK' /\ lock'.pc = pc /\ lock'.task = lock.task
        BY <2>2, HoldingLeaves
      <3>2. lock.task.op = "pop"
        BY <1>5 DEF PopChecked, LockInv
      <3>. QED
        BY <2>2, <3>1, <3>2 DEF LockInv
    <2>. QED
      BY <1>5, <2>1, <2>2 DEF PopChecked, StartPrint, GiveUp, MustStop, Ask, Holding, Release
  <1>6. CASE PopTransition
    <2>1. CASE lock' = Free /\ waiting' = waiting
      BY <2>1, ReleaseLeaves DEF LockInv
    <2>2. ASSUME NEW pc \in {"gcode", "print"}, lock' = [lock EXCEPT !.pc = pc], waiting' = waiting,
                 pc = "print" => queue_state = "loading" /\ queue_state' = "starting"
          PROVE  LockTypeOK' /\ LockInv' /\ PrintAsked
      <3>1. LockTypeOK' /\ lock'.pc = pc /\ lock'.task = lock.task
        BY <2>2, HoldingLeaves
      <3>2. lock.task.op = "pop"
        BY <1>6 DEF PopTransition, LockInv
      <3>. QED
        BY <2>2, <3>1, <3>2 DEF LockInv
    <2>. QED
      BY <1>6, <2>1, <2>2 DEF PopTransition, StartPrint, GiveUp, MustStop, Ask, Holding, Release
  <1>7. CASE PopDone
    <2>1. lock' = Free /\ waiting' = waiting
      BY <1>7 DEF PopDone, Release
    <2>2. LockTypeOK' /\ lock'.pc = "free"
      BY <2>1, ReleaseLeaves
    <2>. QED
      BY <2>1, <2>2 DEF LockInv
  <1>8. CASE PopTimesOut
    <2>1. lock' = Free /\ waiting' = waiting
      BY <1>8 DEF PopTimesOut, Release
    <2>2. LockTypeOK' /\ lock'.pc = "free"
      BY <2>1, ReleaseLeaves
    <2>. QED
      BY <2>1, <2>2 DEF LockInv
  <1>9. CASE Wake
    BY <1>9, WakeLeaves DEF LockInv
  <1>10. CASE HandleEvent
    <2>1. CASE UNCHANGED lockVars
      BY <1>10, <2>1 DEF HandleEvent, lockVars, LockTypeOK, LockInv
    <2>2. ASSUME NEW e \in {"ready", "abort", "shutdown", "complete"}, Acquire(Task(e, NoJob, pause_requested))
          PROVE  LockTypeOK' /\ LockInv' /\ PrintAsked
      <3>1. Task(e, NoJob, pause_requested) \in TaskSet
        BY DEF Task, TaskSet, NoJob, FlagsTypeOK
      <3>2. LockTypeOK' /\ (lock' = lock \/ (lock.pc = "free" /\ lock'.pc = "enter"))
        BY <2>2, <3>1, AcquireLeaves DEF Acquire
      <3>3. queue_state' \in {queue_state, "paused"}
        BY <1>10 DEF HandleEvent
      <3>. QED
        BY <3>2, <3>3 DEF LockTypeOK, LockInv
    <2>. QED
      BY <1>10, <2>1, <2>2 DEF HandleEvent
  <1>11. CASE StatusUpdate
    BY <1>11 DEF StatusUpdate, LockTypeOK, LockInv
  <1>12. ASSUME NEW i \in DOMAIN timers, Fire(i) PROVE LockTypeOK' /\ LockInv' /\ PrintAsked
    <2>1. Task("pop", NoJob, timers[i].trans) \in TaskSet
      BY <1>12, FireLeaves DEF Fire
    <2>2. LockTypeOK' /\ (lock' = lock \/ (lock.pc = "free" /\ lock'.pc = "enter"))
      BY <1>12, <2>1, AcquireLeaves DEF Fire, Acquire
    <2>3. queue_state' \in {queue_state, "paused"}
      BY <1>12 DEF Fire
    <2>. QED
      BY <2>2, <2>3 DEF LockTypeOK, LockInv
  <1>13. CASE CallQueue
    <2>1. PICK number \in 1 .. Queueable, reset \in BOOLEAN : Call(Task("queue", number, reset)) /\ UNCHANGED <<queue_state, timers>>
      BY <1>13 DEF CallQueue
    <2>2. Task("queue", number, reset) \in TaskSet
      BY DEF Task, TaskSet
    <2>3. LockTypeOK' /\ (lock' = lock \/ (lock.pc = "free" /\ lock'.pc = "enter"))
      BY <2>1, <2>2, AcquireLeaves DEF Call, Acquire
    <2>. QED
      BY <2>1, <2>3 DEF LockTypeOK, LockInv
  <1>14. CASE CallDelete
    <2>1. PICK j \in 0 .. made : Call(Task("delete", j, j = 0)) /\ UNCHANGED <<queue_state, timers>>
      BY <1>14 DEF CallDelete
    <2>2. Task("delete", j, j = 0) \in TaskSet
      BY DEF Task, TaskSet, FlagsTypeOK
    <2>3. LockTypeOK' /\ (lock' = lock \/ (lock.pc = "free" /\ lock'.pc = "enter"))
      BY <2>1, <2>2, AcquireLeaves DEF Call, Acquire
    <2>. QED
      BY <2>1, <2>3 DEF LockTypeOK, LockInv
  <1>15. CASE CallJump
    <2>1. PICK j \in 1 .. made : Call(Task("jump", j, FALSE)) /\ UNCHANGED <<queue_state, timers>>
      BY <1>15 DEF CallJump
    <2>2. Task("jump", j, FALSE) \in TaskSet
      BY DEF Task, TaskSet, FlagsTypeOK
    <2>3. LockTypeOK' /\ (lock' = lock \/ (lock.pc = "free" /\ lock'.pc = "enter"))
      BY <2>1, <2>2, AcquireLeaves DEF Call, Acquire
    <2>. QED
      BY <2>1, <2>3 DEF LockTypeOK, LockInv
  <1>16. CASE CallStart
    <2>1. Task("start", NoJob, FALSE) \in TaskSet
      BY DEF Task, TaskSet, NoJob
    <2>2. LockTypeOK' /\ (lock' = lock \/ (lock.pc = "free" /\ lock'.pc = "enter"))
      BY <1>16, <2>1, AcquireLeaves DEF CallStart, Call, Acquire
    <2>3. queue_state' \in {queue_state, "paused"}
      BY <1>16 DEF CallStart, Call
    <2>. QED
      BY <2>2, <2>3 DEF LockTypeOK, LockInv
  <1>17. CASE CallPause
    <2>1. Task("pause", NoJob, TRUE) \in TaskSet
      BY DEF Task, TaskSet, NoJob
    <2>2. LockTypeOK' /\ (lock' = lock \/ (lock.pc = "free" /\ lock'.pc = "enter"))
      BY <1>17, <2>1, AcquireLeaves DEF CallPause, Call, Acquire
    <2>3. queue_state' \in {queue_state, "paused"}
      BY <1>17 DEF CallPause, Call
    <2>. QED
      BY <2>2, <2>3 DEF LockTypeOK, LockInv
  <1>18. CASE KlippyAnswers
    BY <1>18 DEF KlippyAnswers, LockTypeOK, LockInv
  <1>19. CASE KlippyReplies
    BY <1>19 DEF KlippyReplies, LockTypeOK, LockInv
  <1>20. CASE PrintChanges
    BY <1>20 DEF PrintChanges, Change, LockTypeOK, LockInv
  <1>21. CASE ShutDown
    BY <1>21 DEF ShutDown, Change, LockTypeOK, LockInv
  <1>22. CASE Disconnect
    BY <1>22 DEF Disconnect, Change, LockTypeOK, LockInv
  <1>23. CASE Reconnect
    BY <1>23 DEF Reconnect, Change, LockTypeOK, LockInv
  <1>24. CASE UNCHANGED vars
    BY <1>24 DEF LockTypeOK, LockInv
  <1>. QED
    BY <1>1, <1>2, <1>3, <1>4, <1>5, <1>6, <1>7, <1>8, <1>9, <1>10, <1>11, <1>12, <1>13, <1>14, <1>15, <1>16, <1>17, <1>18, <1>19, <1>20, <1>21, <1>22, <1>23, <1>24 DEF Next, Coroutine, Loop, Clients, Klippy

\* The delayed calls and the events: at most one call has its handle kept.
LEMMA TimersTypeOKStep ==
    ASSUME IInv, [Next]_vars
    PROVE  TimersTypeOK'
  <1>. USE DEF IInv, TypeOK, vars, lockVars, klippyVars, stateVars, bounds, queueVars
  <1>1. CASE Finish
    <2>1. CASE UNCHANGED timers
      BY <1>1, <2>1 DEF Finish, QueueJob, HandleReady, OnJobComplete, OnJobAbort, DeleteJob, Jump, PauseTail, TimersTypeOK, HeldTimers
    <2>2. ASSUME NEW trans \in BOOLEAN, Delay(trans)
          PROVE  TimersTypeOK'
      <3>1. /\ timers' \in Seq([trans: BOOLEAN, held: BOOLEAN])
            /\ \A i \in DOMAIN timers' : timers'[i].held => i = Len(timers')
        BY <2>2, DelayLeaves DEF Delay
      <3>2. events' = events
        BY <1>1 DEF Finish, stateVars
      <3>. QED
        BY <3>1, <3>2 DEF TimersTypeOK, HeldTimers
    <2>. QED
      BY <1>1, <2>1, <2>2 DEF Finish, QueueJob, HandleReady, OnJobComplete, OnJobAbort, DeleteJob, Jump, PauseTail
  <1>2. CASE StartQueue
    BY <1>2 DEF StartQueue, TimersTypeOK, HeldTimers
  <1>3. CASE StartQueueChecked
    <2>1. CASE UNCHANGED timers
      BY <1>3, <2>1 DEF StartQueueChecked, TimersTypeOK, HeldTimers
    <2>2. ASSUME NEW trans \in BOOLEAN, Delay(trans)
          PROVE  TimersTypeOK'
      <3>1. /\ timers' \in Seq([trans: BOOLEAN, held: BOOLEAN])
            /\ \A i \in DOMAIN timers' : timers'[i].held => i = Len(timers')
        BY <2>2, DelayLeaves DEF Delay
      <3>2. events' = events
        BY <1>3 DEF StartQueueChecked, stateVars
      <3>. QED
        BY <3>1, <3>2 DEF TimersTypeOK, HeldTimers
    <2>. QED
      BY <1>3, <2>1, <2>2 DEF StartQueueChecked
  <1>4. CASE PopJob
    BY <1>4 DEF PopJob, TimersTypeOK, HeldTimers
  <1>5. CASE PopChecked
    BY <1>5 DEF PopChecked, StartPrint, GiveUp, TimersTypeOK, HeldTimers
  <1>6. CASE PopTransition
    BY <1>6 DEF PopTransition, StartPrint, GiveUp, TimersTypeOK, HeldTimers
  <1>7. CASE PopDone
    BY <1>7 DEF PopDone, TimersTypeOK, HeldTimers
  <1>8. CASE PopTimesOut
    BY <1>8 DEF PopTimesOut, TimersTypeOK, HeldTimers
  <1>9. CASE Wake
    BY <1>9 DEF Wake, TimersTypeOK, HeldTimers
  <1>10. CASE HandleEvent
    <2>1. events' = Tail(events) /\ events # <<>> /\ (UNCHANGED timers \/ CancelHeld)
      BY <1>10 DEF HandleEvent
    <2>2. events' \in Seq({"ready", "started", "disconnect", "shutdown", "complete", "abort"})
      BY <2>1 DEF TimersTypeOK
    <2>3. CASE UNCHANGED timers
      BY <2>2, <2>3 DEF TimersTypeOK, HeldTimers
    <2>4. CASE CancelHeld
      BY <2>2, <2>4, CancelHeldLeaves DEF TimersTypeOK, HeldTimers
    <2>. QED
      BY <2>1, <2>3, <2>4
  <1>11. CASE StatusUpdate
    <2>1. PICK e \in {<<"complete">>, <<"abort">>, <<>>} : events' = events \o e
      BY <1>11 DEF StatusUpdate
    <2>2. e \in Seq({"ready", "started", "disconnect", "shutdown", "complete", "abort"})
      <3>1. <<"complete">> \in Seq({"ready", "started", "disconnect", "shutdown", "complete", "abort"})
        OBVIOUS
      <3>2. <<"abort">> \in Seq({"ready", "started", "disconnect", "shutdown", "complete", "abort"})
        OBVIOUS
      <3>3. <<>> \in Seq({"ready", "started", "disconnect", "shutdown", "complete", "abort"})
        OBVIOUS
      <3>. QED
        BY <3>1, <3>2, <3>3
    <2>3. events' \in Seq({"ready", "started", "disconnect", "shutdown", "complete", "abort"})
      BY <2>1, <2>2, ConcatProperties DEF TimersTypeOK
    <2>4. timers' = timers
      BY <1>11 DEF StatusUpdate
    <2>. QED
      BY <2>3, <2>4 DEF TimersTypeOK, HeldTimers
  <1>12. ASSUME NEW i \in DOMAIN timers, Fire(i) PROVE TimersTypeOK'
    <2>1. timers' \in Seq([trans: BOOLEAN, held: BOOLEAN]) /\ \A j \in DOMAIN timers' : ~timers'[j].held
      BY <1>12, FireLeaves DEF Fire
    <2>. QED
      BY <1>12, <2>1 DEF Fire, TimersTypeOK, HeldTimers
  <1>13. CASE CallQueue
    BY <1>13 DEF CallQueue, Call, TimersTypeOK, HeldTimers
  <1>14. CASE CallDelete
    BY <1>14 DEF CallDelete, Call, TimersTypeOK, HeldTimers
  <1>15. CASE CallJump
    BY <1>15 DEF CallJump, Call, TimersTypeOK, HeldTimers
  <1>16. CASE CallStart
    BY <1>16 DEF CallStart, Call, TimersTypeOK, HeldTimers
  <1>17. CASE CallPause
    <2>1. timers' \in Seq([trans: BOOLEAN, held: BOOLEAN]) /\ \A i \in DOMAIN timers' : ~timers'[i].held
      BY <1>17, CancelHeldLeaves DEF CallPause
    <2>. QED
      BY <1>17, <2>1 DEF CallPause, Call, TimersTypeOK, HeldTimers
  <1>18. CASE KlippyAnswers
    BY <1>18 DEF KlippyAnswers, TimersTypeOK, HeldTimers
  <1>19. CASE KlippyReplies
    BY <1>19 DEF KlippyReplies, TimersTypeOK, HeldTimers
  <1>20. CASE PrintChanges
    BY <1>20 DEF Change, PrintChanges, TimersTypeOK, HeldTimers
  <1>21. CASE ShutDown
    BY <1>21 DEF Change, ShutDown, TimersTypeOK, HeldTimers
  <1>22. CASE Disconnect
    BY <1>22 DEF Change, Disconnect, TimersTypeOK, HeldTimers
  <1>23. CASE Reconnect
    BY <1>23 DEF Change, Reconnect, TimersTypeOK, HeldTimers
  <1>24. CASE UNCHANGED vars
    BY <1>24 DEF TimersTypeOK, HeldTimers
  <1>. QED
    BY <1>1, <1>2, <1>3, <1>4, <1>5, <1>6, <1>7, <1>8, <1>9, <1>10, <1>11, <1>12, <1>13, <1>14, <1>15, <1>16, <1>17, <1>18, <1>19, <1>20, <1>21, <1>22, <1>23, <1>24 DEF Next, Coroutine, Loop, Clients, Klippy

\* The dictionary: whatever is queued, deleted, moved or popped, no job is in it
\* twice, and every job in it or printed was queued.
LEMMA JobsTypeOKStep ==
    ASSUME IInv, [Next]_vars
    PROVE  JobsTypeOK'
  <1>. USE DEF IInv, TypeOK
  <1>1. CASE Finish
    <2>1. started' = started /\ cut' = cut /\ lock.task.flag \in BOOLEAN /\ lock.task.job \in Nat
      BY <1>1 DEF Finish, klippyVars, LockTypeOK, TaskSet
    <2>2. CASE QueueJob(lock.task.job, lock.task.flag)
      <3>1. made' \in Nat /\ made' >= made
        BY <2>1, <2>2 DEF QueueJob, FlagsTypeOK
      <3>2. queued_jobs' \in Seq(1 .. made') /\ IsInjective(queued_jobs')
        BY <2>1, <2>2, QueueJobLeaves DEF QueueJob, FlagsTypeOK
      <3>3. 1 .. made \subseteq 1 .. made'
        BY <3>1 DEF FlagsTypeOK
      <3>. QED
        BY <2>1, <3>2, <3>3 DEF JobsTypeOK
    <2>3. CASE DeleteJob(lock.task.job, lock.task.flag) /\ made' = made
      <3>1. <<>> \in Seq(1 .. made) /\ IsInjective(<<>>)
        BY DEF IsInjective
      <3>. QED
        BY <2>1, <2>3, <3>1, WithoutLeaves DEF DeleteJob, JobsTypeOK
    <2>4. CASE Jump(lock.task.job) /\ made' = made
      BY <2>1, <2>4, JumpLeaves DEF Jump, JobsTypeOK
    <2>5. CASE queued_jobs' = queued_jobs /\ made' = made
      BY <2>1, <2>5 DEF JobsTypeOK
    <2>. QED
      BY <1>1, <2>2, <2>3, <2>4, <2>5 DEF Finish, HandleReady, OnJobComplete, OnJobAbort, PauseTail
  <1>2. CASE StartQueue
    BY <1>2 DEF StartQueue, JobsTypeOK, queueVars, klippyVars, bounds
  <1>3. CASE StartQueueChecked
    BY <1>3 DEF StartQueueChecked, JobsTypeOK, queueVars, klippyVars, bounds
  <1>4. CASE PopJob
    BY <1>4 DEF PopJob, JobsTypeOK, queueVars, klippyVars, bounds
  <1>5. CASE PopChecked
    BY <1>5 DEF PopChecked, StartPrint, GiveUp, JobsTypeOK, queueVars, klippyVars, bounds
  <1>6. CASE PopTransition
    BY <1>6 DEF PopTransition, StartPrint, GiveUp, JobsTypeOK, queueVars, klippyVars, bounds
  <1>7. CASE PopDone
    <2>1. UNCHANGED <<made, started, cut>> /\ (queued_jobs' = queued_jobs \/ queued_jobs' = Without(lock.uid))
      BY <1>7 DEF PopDone, klippyVars, bounds
    <2>. QED
      BY <2>1, WithoutLeaves DEF JobsTypeOK
  <1>8. CASE PopTimesOut
    BY <1>8 DEF PopTimesOut, JobsTypeOK, queueVars, klippyVars, bounds
  <1>9. CASE Wake
    BY <1>9 DEF Wake, JobsTypeOK, queueVars, klippyVars, bounds
  <1>10. CASE HandleEvent
    BY <1>10 DEF HandleEvent, JobsTypeOK, queueVars, klippyVars, bounds
  <1>11. CASE StatusUpdate
    BY <1>11 DEF StatusUpdate, JobsTypeOK, queueVars, klippyVars, bounds
  <1>12. ASSUME NEW i \in DOMAIN timers, Fire(i) PROVE JobsTypeOK'
    BY <1>12 DEF Fire, JobsTypeOK, queueVars, klippyVars, bounds
  <1>13. CASE CallQueue
    BY <1>13 DEF CallQueue, Call, JobsTypeOK, queueVars, klippyVars, bounds
  <1>14. CASE CallDelete
    BY <1>14 DEF CallDelete, Call, JobsTypeOK, queueVars, klippyVars, bounds
  <1>15. CASE CallJump
    BY <1>15 DEF CallJump, Call, JobsTypeOK, queueVars, klippyVars, bounds
  <1>16. CASE CallStart
    BY <1>16 DEF CallStart, Call, JobsTypeOK, queueVars, klippyVars, bounds
  <1>17. CASE CallPause
    BY <1>17 DEF CallPause, Call, JobsTypeOK, queueVars, klippyVars, bounds
  <1>18. CASE KlippyAnswers
    <2>1. UNCHANGED <<queued_jobs, made, cut>> /\ (started' = started \/ (started' = started \cup {lock.uid} /\ lock.pc = "print"))
      BY <1>18 DEF KlippyAnswers, queueVars
    <2>2. lock.pc = "print" => lock.uid \in 1 .. made
      BY QueueRange DEF NoJobTwice, JobsTypeOK
    <2>. QED
      BY <2>1, <2>2 DEF JobsTypeOK
  <1>19. CASE KlippyReplies
    BY <1>19 DEF KlippyReplies, JobsTypeOK, queueVars, klippyVars, bounds
  <1>20. CASE PrintChanges
    BY <1>20 DEF Change, PrintChanges, JobsTypeOK, queueVars, klippyVars, bounds
  <1>21. CASE ShutDown
    BY <1>21 DEF Change, ShutDown, JobsTypeOK, queueVars, klippyVars, bounds
  <1>22. CASE Disconnect
    <2>1. UNCHANGED <<queued_jobs, made, started>> /\ (cut' = cut \/ (cut' = cut \cup {lock.uid} /\ answer = "begun"))
      BY <1>22 DEF Disconnect, Change, queueVars
    <2>. QED
      BY <2>1 DEF JobsTypeOK, AnswerInv
  <1>23. CASE Reconnect
    BY <1>23 DEF Change, Reconnect, JobsTypeOK, queueVars, klippyVars, bounds
  <1>24. CASE UNCHANGED vars
    BY <1>24 DEF vars, JobsTypeOK, queueVars, klippyVars, bounds
  <1>. QED
    BY <1>1, <1>2, <1>3, <1>4, <1>5, <1>6, <1>7, <1>8, <1>9, <1>10, <1>11, <1>12, <1>13, <1>14, <1>15, <1>16, <1>17, <1>18, <1>19, <1>20, <1>21, <1>22, <1>23, <1>24 DEF Next, Coroutine, Loop, Clients, Klippy

\* What is loading has a _pop_job on its way, after every step.
LEMMA NeverStrandedStep ==
    ASSUME IInv, [Next]_vars
    PROVE  NeverStranded'
  <1>. USE DEF IInv, TypeOK
  <1>1. CASE Finish
    <2>1. lock.task.op # "pop" /\ lock' = Free /\ waiting' = waiting
      BY <1>1 DEF Finish, Release
    <2>2. Ops \subseteq Ops' \cup {lock.task.op} /\ unhandled' = unhandled /\ lock.pc # "print"
      BY <1>1, <2>1, ReleaseLeaves DEF Finish
    <2>3. CASE queue_state' \in {"paused", "ready"}
      BY <2>3, StrandedNot
    <2>4. CASE UNCHANGED <<queue_state, timers>>
      BY <2>1, <2>2, <2>4, PendingOps, PendingOpsNext DEF NeverStranded
    <2>5. ASSUME queue_state' = "loading", NEW trans \in BOOLEAN, Delay(trans)
          PROVE  NeverStranded'
      BY <2>5, DelayLeaves, PendingOpsNext DEF NeverStranded, Delay
    <2>. QED
      BY <1>1, <2>3, <2>4, <2>5 DEF Finish, QueueJob, HandleReady, OnJobComplete, OnJobAbort, DeleteJob, Jump, PauseTail
  <1>2. CASE StartQueue
    <2>1. CASE queue_state' = "paused"
      BY <2>1, StrandedNot
    <2>2. CASE queue_state' = queue_state
      <3>1. lock.task.op = "start" /\ waiting' = waiting /\ (lock' = Free \/ lock' = [lock EXCEPT !.pc = "query"])
        BY <1>2 DEF StartQueue, Ask, Holding, Release
      <3>2. "pop" \in Ops => "pop" \in Ops'
        <4>1. CASE lock' = Free
          BY <4>1, <3>1, ReleaseLeaves
        <4>2. CASE lock' = [lock EXCEPT !.pc = "query"]
          BY <4>2, <3>1, HoldingLeaves
        <4>. QED
          BY <3>1, <4>1, <4>2
      <3>3. UNCHANGED <<timers, unhandled>> /\ lock.pc # "print"
        BY <1>2 DEF StartQueue
      <3>. QED
        BY <2>2, <3>2, <3>3, PendingOps, PendingOpsNext DEF NeverStranded
    <2>. QED
      BY <1>2, <2>1, <2>2 DEF StartQueue
  <1>3. CASE StartQueueChecked
    <2>1. CASE queue_state' \in {"paused", "ready"}
      BY <2>1, StrandedNot
    <2>2. CASE queue_state' = "loading" /\ Delay(FALSE)
      BY <2>2, DelayLeaves, PendingOpsNext DEF NeverStranded, Delay
    <2>. QED
      BY <1>3, <2>1, <2>2 DEF StartQueueChecked, Ready
  <1>4. CASE PopJob
    <2>1. CASE queue_state' = "paused"
      BY <2>1, StrandedNot
    <2>2. CASE queue_state' # "paused"
      <3>1. /\ lock' = [lock EXCEPT !.pc = "check", !.uid = Head(queued_jobs)]
            /\ UNCHANGED <<waiting, queue_state, timers, unhandled>> /\ lock.pc # "print"
        BY <1>4, <2>2 DEF PopJob
      <3>2. lock'.task = lock.task
        BY <3>1 DEF LockTypeOK
      <3>3. Ops' = Ops
        BY <3>1, <3>2 DEF Ops
      <3>. QED
        BY <3>1, <3>3, StrandedKept
    <2>. QED
      BY <2>1, <2>2
  <1>5. CASE PopChecked
    <2>1. CASE queue_state' = "paused"
      BY <2>1, StrandedNot
    <2>2. CASE Ask("gcode") /\ UNCHANGED <<queue_state, unhandled>>
      <3>1. lock' = [lock EXCEPT !.pc = "gcode"] /\ waiting' = waiting /\ timers' = timers /\ lock.pc # "print"
        BY <1>5, <2>2 DEF PopChecked, Ask, Holding
      <3>2. Ops' = Ops
        BY <3>1, HoldingLeaves
      <3>. QED
        BY <2>2, <3>1, <3>2, StrandedKept
    <2>3. CASE queue_state' = "starting" /\ (Ask("print") \/ unhandled')
      <3>1. Ask("print") => lock'.pc = "print"
        BY DEF Ask, Holding, LockTypeOK
      <3>. QED
        BY <2>3, <3>1 DEF NeverStranded
    <2>. QED
      BY <1>5, <2>1, <2>2, <2>3 DEF PopChecked, GiveUp, StartPrint
  <1>6. CASE PopTransition
    <2>1. CASE queue_state' = "paused"
      BY <2>1, StrandedNot
    <2>3. CASE queue_state' = "starting" /\ (Ask("print") \/ unhandled')
      <3>1. Ask("print") => lock'.pc = "print"
        BY DEF Ask, Holding, LockTypeOK
      <3>. QED
        BY <2>3, <3>1 DEF NeverStranded
    <2>. QED
      BY <1>6, <2>1, <2>3 DEF PopTransition, GiveUp, StartPrint
  <1>7. CASE PopDone
    <2>1. queue_state' # "starting" /\ (queue_state' = "loading" => queue_state = "loading")
      BY <1>7 DEF PopDone, AfterStart, Ready
    <2>2. queue_state # "loading"
      BY <1>7 DEF PopDone, LockInv
    <2>. QED
      BY <2>1, <2>2 DEF NeverStranded
  <1>8. CASE PopTimesOut
    <2>1. unhandled' /\ queue_state' # "loading"
      BY <1>8 DEF PopTimesOut, LockInv
    <2>. QED
      BY <2>1 DEF NeverStranded
  <1>9. CASE Wake
    <2>1. lock.pc = "free"
      BY <1>9 DEF Wake, Free
    <2>2. UNCHANGED <<timers, queue_state, unhandled>>
      BY <1>9 DEF Wake, queueVars
    <2>. QED
      BY <1>9, <2>1, <2>2, WakeLeaves, StrandedKept
  <1>10. CASE HandleEvent
    <2>1. CASE queue_state' = "paused"
      BY <2>1, StrandedNot
    <2>2. CASE UNCHANGED <<queue_state, timers>>
      <3>1. (lock' = lock \/ (lock.pc = "free" /\ lock'.pc = "enter")) /\ Ops \subseteq Ops' \cup {None}
        <4>1. CASE UNCHANGED lockVars
          BY <4>1 DEF lockVars, Ops
        <4>2. ASSUME NEW e \in {"ready", "abort", "shutdown", "complete"}, Acquire(Task(e, NoJob, pause_requested))
              PROVE  (lock' = lock \/ (lock.pc = "free" /\ lock'.pc = "enter")) /\ Ops \subseteq Ops' \cup {None}
          <5>1. Task(e, NoJob, pause_requested) \in TaskSet
            BY DEF Task, TaskSet, NoJob, FlagsTypeOK
          <5>. QED
            BY <4>2, <5>1, AcquireLeaves DEF Acquire
        <4>. QED
          BY <1>10, <4>1, <4>2 DEF HandleEvent
      <3>2. unhandled' = unhandled
        BY <1>10 DEF HandleEvent
      <3>. QED
        BY <2>2, <3>1, <3>2, StrandedKept
    <2>. QED
      BY <1>10, <2>1, <2>2 DEF HandleEvent
  <1>11. CASE StatusUpdate
    <2>1. UNCHANGED <<lock, waiting, timers, queue_state, unhandled>>
      BY <1>11 DEF StatusUpdate, queueVars, lockVars
    <2>. QED
      BY <2>1, StrandedKept DEF Ops
  <1>12. ASSUME NEW i \in DOMAIN timers, Fire(i) PROVE NeverStranded'
    <2>1. Task("pop", NoJob, timers[i].trans) \in TaskSet
      BY <1>12, FireLeaves DEF Fire
    <2>2. /\ lock' = lock \/ (lock.pc = "free" /\ lock'.pc = "enter")
          /\ Ops \subseteq Ops' \cup {None} /\ "pop" \in Ops'
      <3>1. Task("pop", NoJob, timers[i].trans).op = "pop"
        BY DEF Task
      <3>. QED
        BY <1>12, <2>1, <3>1, AcquireLeaves DEF Fire, Acquire
    <2>3. UNCHANGED <<queue_state, unhandled>>
      BY <1>12 DEF Fire
    <2>. QED
      BY <2>2, <2>3, StrandedKept
  <1>13. CASE CallQueue
    <2>1. PICK number \in 1 .. Queueable, reset \in BOOLEAN : Call(Task("queue", number, reset)) /\ UNCHANGED <<queue_state, timers>>
      BY <1>13 DEF CallQueue
    <2>2. Task("queue", number, reset) \in TaskSet
      BY DEF Task, TaskSet
    <2>3. (lock' = lock \/ (lock.pc = "free" /\ lock'.pc = "enter")) /\ Ops \subseteq Ops' \cup {None}
      BY <2>1, <2>2, AcquireLeaves DEF Call, Acquire
    <2>4. UNCHANGED <<queue_state, unhandled, timers>>
      BY <2>1 DEF Call
    <2>. QED
      BY <2>3, <2>4, StrandedKept
  <1>14. CASE CallDelete
    <2>1. PICK j \in 0 .. made : Call(Task("delete", j, j = 0)) /\ UNCHANGED <<queue_state, timers>>
      BY <1>14 DEF CallDelete
    <2>2. Task("delete", j, j = 0) \in TaskSet
      BY DEF Task, TaskSet, FlagsTypeOK
    <2>3. (lock' = lock \/ (lock.pc = "free" /\ lock'.pc = "enter")) /\ Ops \subseteq Ops' \cup {None}
      BY <2>1, <2>2, AcquireLeaves DEF Call, Acquire
    <2>4. UNCHANGED <<queue_state, unhandled, timers>>
      BY <2>1 DEF Call
    <2>. QED
      BY <2>3, <2>4, StrandedKept
  <1>15. CASE CallJump
    <2>1. PICK j \in 1 .. made : Call(Task("jump", j, FALSE)) /\ UNCHANGED <<queue_state, timers>>
      BY <1>15 DEF CallJump
    <2>2. Task("jump", j, FALSE) \in TaskSet
      BY DEF Task, TaskSet, FlagsTypeOK
    <2>3. (lock' = lock \/ (lock.pc = "free" /\ lock'.pc = "enter")) /\ Ops \subseteq Ops' \cup {None}
      BY <2>1, <2>2, AcquireLeaves DEF Call, Acquire
    <2>4. UNCHANGED <<queue_state, unhandled, timers>>
      BY <2>1 DEF Call
    <2>. QED
      BY <2>3, <2>4, StrandedKept
  <1>16. CASE CallStart
    <2>1. Task("start", NoJob, FALSE) \in TaskSet
      BY DEF Task, TaskSet, NoJob
    <2>2. (lock' = lock \/ (lock.pc = "free" /\ lock'.pc = "enter")) /\ Ops \subseteq Ops' \cup {None}
      BY <1>16, <2>1, AcquireLeaves DEF CallStart, Call, Acquire
    <2>3. UNCHANGED <<queue_state, unhandled, timers>>
      BY <1>16 DEF CallStart, Call
    <2>. QED
      BY <2>2, <2>3, StrandedKept
  <1>17. CASE CallPause
    BY <1>17, StrandedNot DEF CallPause
  <1>18. CASE KlippyAnswers
    <2>1. UNCHANGED <<lock, waiting, timers, queue_state, unhandled>>
      BY <1>18 DEF KlippyAnswers, queueVars, lockVars
    <2>. QED
      BY <2>1, StrandedKept DEF Ops
  <1>19. CASE KlippyReplies
    <2>1. UNCHANGED <<lock, waiting, timers, queue_state, unhandled>>
      BY <1>19 DEF KlippyReplies, queueVars, lockVars
    <2>. QED
      BY <2>1, StrandedKept DEF Ops
  <1>20. CASE PrintChanges
    <2>1. UNCHANGED <<lock, waiting, timers, queue_state, unhandled>>
      BY <1>20 DEF PrintChanges, Change, queueVars
    <2>. QED
      BY <2>1, StrandedKept DEF Ops
  <1>21. CASE ShutDown
    <2>1. UNCHANGED <<lock, waiting, timers, queue_state, unhandled>>
      BY <1>21 DEF ShutDown, Change, queueVars
    <2>. QED
      BY <2>1, StrandedKept DEF Ops
  <1>22. CASE Disconnect
    <2>1. UNCHANGED <<lock, waiting, timers, queue_state, unhandled>>
      BY <1>22 DEF Disconnect, Change, queueVars
    <2>. QED
      BY <2>1, StrandedKept DEF Ops
  <1>23. CASE Reconnect
    <2>1. UNCHANGED <<lock, waiting, timers, queue_state, unhandled>>
      BY <1>23 DEF Reconnect, Change, queueVars
    <2>. QED
      BY <2>1, StrandedKept DEF Ops
  <1>24. CASE UNCHANGED vars
    <2>1. UNCHANGED <<lock, waiting, timers, queue_state, unhandled>>
      BY <1>24 DEF vars, queueVars, lockVars
    <2>. QED
      BY <2>1, StrandedKept DEF Ops
  <1>. QED
    BY <1>1, <1>2, <1>3, <1>4, <1>5, <1>6, <1>7, <1>8, <1>9, <1>10, <1>11, <1>12, <1>13, <1>14, <1>15, <1>16, <1>17, <1>18, <1>19, <1>20, <1>21, <1>22, <1>23, <1>24 DEF Next, Coroutine, Loop, Clients, Klippy

\* Who comes to the lock, or leaves it alone, changes nothing about the job
\* that is being loaded.
LEMMA Entering ==
    ASSUME NoJobTwice, AnswerInv, UNCHANGED <<queued_jobs, started, cut, answer>>,
           lock' = lock \/ (lock.pc \notin {"check", "gcode", "print"} /\ lock'.pc = "enter")
    PROVE  NoJobTwice' /\ AnswerInv'
  <1>1. CASE lock' = lock
    BY <1>1 DEF NoJobTwice, AnswerInv
  <1>2. CASE lock.pc \notin {"check", "gcode", "print"} /\ lock'.pc = "enter"
    BY <1>2 DEF NoJobTwice, AnswerInv
  <1>. QED
    BY <1>1, <1>2

\* No job is printed twice, after every step.
LEMMA NoJobTwiceStep ==
    ASSUME IInv, [Next]_vars
    PROVE  NoJobTwice' /\ AnswerInv'
  <1>. USE DEF IInv, TypeOK
  <1>1. CASE Finish
    <2>1. lock'.pc = "free" /\ answer' = None /\ lock.pc = "enter" /\ UNCHANGED <<started, cut>>
      BY <1>1 DEF Finish, Release, Free, klippyVars
    <2>2. started \subseteq 1 .. made /\ made \in Nat /\ lock.task.flag \in BOOLEAN /\ lock.task.job \in Nat
      BY DEF JobsTypeOK, FlagsTypeOK, LockTypeOK, TaskSet
    <2>3. CASE QueueJob(lock.task.job, lock.task.flag)
      <3>1. Range(queued_jobs') \subseteq Range(queued_jobs) \cup (made + 1 .. made')
        BY <2>2, <2>3, QueueJobLeaves DEF QueueJob
      <3>2. \A j \in started : j \notin made + 1 .. made'
        BY <2>2
      <3>. QED
        BY <2>1, <3>1, <3>2 DEF NoJobTwice, AnswerInv, None
    <2>4. CASE DeleteJob(lock.task.job, lock.task.flag)
      <3>1. Range(queued_jobs') \subseteq Range(queued_jobs)
        <4>1. Range(<<>>) = {}
          BY DEF Range
        <4>. QED
          BY <2>4, <4>1, WithoutLeaves DEF DeleteJob
      <3>. QED
        BY <2>1, <3>1 DEF NoJobTwice, AnswerInv, None
    <2>5. CASE Jump(lock.task.job)
      <3>1. Range(queued_jobs') = Range(queued_jobs)
        BY <2>5, JumpLeaves DEF Jump
      <3>. QED
        BY <2>1, <3>1 DEF NoJobTwice, AnswerInv, None
    <2>6. CASE queued_jobs' = queued_jobs
      BY <2>1, <2>6 DEF NoJobTwice, AnswerInv, None
    <2>. QED
      BY <1>1, <2>3, <2>4, <2>5, <2>6 DEF Finish, HandleReady, OnJobComplete, OnJobAbort, PauseTail
  <1>2. CASE StartQueue
    <2>1. UNCHANGED <<queued_jobs, started, cut>> /\ lock.pc = "enter" /\ answer' \in {None, "error"}
      BY <1>2 DEF StartQueue, klippyVars, Ask, Release
    <2>2. lock'.pc \in {"free", "query"}
      <3>1. lock' = Free \/ lock' = Holding("query")
        BY <1>2 DEF StartQueue, Ask, Release
      <3>2. CASE lock' = Free
        BY <3>2 DEF Free
      <3>3. CASE lock' = Holding("query")
        BY <3>3 DEF Holding, LockTypeOK
      <3>. QED
        BY <3>1, <3>2, <3>3
    <2>. QED
      BY <2>1, <2>2 DEF NoJobTwice, AnswerInv, None
  <1>3. CASE StartQueueChecked
    <2>1. lock'.pc = "free" /\ answer' = None /\ lock.pc = "query"
      BY <1>3 DEF StartQueueChecked, Release, Free
    <2>2. UNCHANGED <<queued_jobs, started, cut>>
      BY <1>3 DEF StartQueueChecked, klippyVars
    <2>. QED
      BY <2>1, <2>2 DEF NoJobTwice, AnswerInv, None
  <1>4. CASE PopJob
    <2>1. UNCHANGED <<queued_jobs, started, cut>> /\ lock.pc = "enter" /\ answer' \in {None, "error"}
      BY <1>4 DEF PopJob, klippyVars, Release
    <2>2. lock'.pc = "free" \/ (queued_jobs # <<>> /\ lock'.pc = "check" /\ lock'.uid = Head(queued_jobs))
      <3>1. lock' = Free \/ (queued_jobs # <<>> /\ lock' = [lock EXCEPT !.pc = "check", !.uid = Head(queued_jobs)])
        BY <1>4 DEF PopJob, Release
      <3>2. CASE lock' = Free
        BY <3>2 DEF Free
      <3>3. CASE queued_jobs # <<>> /\ lock' = [lock EXCEPT !.pc = "check", !.uid = Head(queued_jobs)]
        BY <3>3 DEF LockTypeOK
      <3>. QED
        BY <3>1, <3>2, <3>3
    <2>. QED
      BY <2>1, <2>2 DEF NoJobTwice, AnswerInv, None
  <1>5. CASE PopChecked
    <2>1. UNCHANGED <<queued_jobs, started, cut>> /\ lock.pc = "check" /\ answer' \in {None, "error"}
      BY <1>5 DEF PopChecked, klippyVars, GiveUp, StartPrint, Ask, Release
    <2>2. lock'.pc = "free" \/ (lock'.pc \in {"gcode", "print"} /\ lock'.uid = lock.uid)
      <3>1. lock' = Free \/ lock' = Holding("gcode") \/ lock' = Holding("print")
        BY <1>5 DEF PopChecked, GiveUp, StartPrint, Ask, Release
      <3>2. CASE lock' = Free
        BY <3>2 DEF Free
      <3>3. CASE lock' = Holding("gcode")
        BY <3>3 DEF Holding, LockTypeOK
      <3>4. CASE lock' = Holding("print")
        BY <3>4 DEF Holding, LockTypeOK
      <3>. QED
        BY <3>1, <3>2, <3>3, <3>4
    <2>3. queued_jobs # <<>> /\ Head(queued_jobs) = lock.uid /\ lock.uid \in Range(queued_jobs)
      BY <2>1, QueueRange DEF NoJobTwice, JobsTypeOK
    <2>4. \A j \in started \ cut : j \notin Range(queued_jobs)
      BY <2>1 DEF NoJobTwice
    <2>. QED
      BY <2>1, <2>2, <2>3, <2>4 DEF NoJobTwice, AnswerInv, None
  <1>6. CASE PopTransition
    <2>1. UNCHANGED <<queued_jobs, started, cut>> /\ lock.pc = "gcode" /\ answer' \in {None, "error"}
      BY <1>6 DEF PopTransition, klippyVars, GiveUp, StartPrint, Ask, Release
    <2>2. lock'.pc = "free" \/ (lock'.pc \in {"gcode", "print"} /\ lock'.uid = lock.uid)
      <3>1. lock' = Free \/ lock' = Holding("gcode") \/ lock' = Holding("print")
        BY <1>6 DEF PopTransition, GiveUp, StartPrint, Ask, Release
      <3>2. CASE lock' = Free
        BY <3>2 DEF Free
      <3>3. CASE lock' = Holding("gcode")
        BY <3>3 DEF Holding, LockTypeOK
      <3>4. CASE lock' = Holding("print")
        BY <3>4 DEF Holding, LockTypeOK
      <3>. QED
        BY <3>1, <3>2, <3>3, <3>4
    <2>3. queued_jobs # <<>> /\ Head(queued_jobs) = lock.uid /\ lock.uid \in Range(queued_jobs)
      BY <2>1, QueueRange DEF NoJobTwice, JobsTypeOK
    <2>4. \A j \in started \ cut : j \notin Range(queued_jobs)
      BY <2>1 DEF NoJobTwice
    <2>. QED
      BY <2>1, <2>2, <2>3, <2>4 DEF NoJobTwice, AnswerInv, None
  <1>7. CASE PopDone
    <2>1. UNCHANGED <<started, cut>> /\ lock'.pc = "free" /\ answer' = None /\ lock.pc = "print"
      BY <1>7 DEF PopDone, Release, Free, klippyVars
    <2>2. CASE queued_jobs' = Without(lock.uid)
      <3>1. Range(queued_jobs') = Range(queued_jobs) \ {lock.uid}
        BY <2>2, WithoutLeaves
      <3>. QED
        BY <2>1, <3>1 DEF NoJobTwice, AnswerInv, None
    <2>3. CASE queued_jobs' = queued_jobs /\ answer \notin {"ok", "begun"}
      BY <2>1, <2>3 DEF NoJobTwice, AnswerInv, None
    <2>. QED
      BY <1>7, <2>2, <2>3 DEF PopDone, Loaded
  <1>8. CASE PopTimesOut
    <2>1. UNCHANGED <<queued_jobs, started, cut>> /\ lock'.pc = "free" /\ answer' = None /\ lock.pc = "print" /\ answer = None
      BY <1>8 DEF PopTimesOut, Release, Free, klippyVars
    <2>. QED
      BY <2>1 DEF NoJobTwice, AnswerInv, None
  <1>9. CASE Wake
    <2>1. lock.pc = "free" /\ lock'.pc = "enter"
      BY <1>9, WakeLeaves DEF Wake, Free
    <2>2. UNCHANGED <<queued_jobs, started, cut, answer>>
      BY <1>9 DEF Wake, queueVars, klippyVars
    <2>. QED
      BY <2>1, <2>2, Entering
  <1>10. CASE HandleEvent
    <2>1. UNCHANGED <<queued_jobs, started, cut, answer>>
      BY <1>10 DEF HandleEvent, Acquire, klippyVars, lockVars
    <2>2. CASE UNCHANGED lockVars
      BY <2>1, <2>2, Entering DEF lockVars
    <2>3. ASSUME NEW e \in {"ready", "abort", "shutdown", "complete"}, Acquire(Task(e, NoJob, pause_requested))
          PROVE  lock' = lock \/ (lock.pc = "free" /\ lock'.pc = "enter")
      <3>1. Task(e, NoJob, pause_requested) \in TaskSet
        BY DEF Task, TaskSet, NoJob, FlagsTypeOK
      <3>. QED
        BY <2>3, <3>1, AcquireLeaves DEF Acquire
    <2>. QED
      BY <1>10, <2>1, <2>2, <2>3, Entering DEF HandleEvent
  <1>11. CASE StatusUpdate
    <2>1. UNCHANGED <<lock, queued_jobs, started, cut, answer>>
      BY <1>11 DEF StatusUpdate, queueVars, klippyVars, lockVars
    <2>. QED
      BY <2>1, Entering
  <1>12. ASSUME NEW i \in DOMAIN timers, Fire(i) PROVE NoJobTwice' /\ AnswerInv'
    <2>1. Task("pop", NoJob, timers[i].trans) \in TaskSet
      BY <1>12, FireLeaves DEF Fire
    <2>2. lock' = lock \/ (lock.pc = "free" /\ lock'.pc = "enter")
      BY <1>12, <2>1, AcquireLeaves DEF Fire, Acquire
    <2>3. UNCHANGED <<queued_jobs, started, cut, answer>>
      BY <1>12 DEF Fire, Acquire, klippyVars
    <2>. QED
      BY <2>2, <2>3, Entering
  <1>13. CASE CallQueue
    <2>1. PICK number \in 1 .. Queueable, reset \in BOOLEAN : Call(Task("queue", number, reset)) /\ UNCHANGED <<queue_state, timers>>
      BY <1>13 DEF CallQueue
    <2>2. Task("queue", number, reset) \in TaskSet
      BY DEF Task, TaskSet
    <2>3. lock' = lock \/ (lock.pc = "free" /\ lock'.pc = "enter")
      BY <2>1, <2>2, AcquireLeaves DEF Call, Acquire
    <2>4. UNCHANGED <<queued_jobs, started, cut, answer>>
      BY <2>1 DEF Call, Acquire, klippyVars
    <2>. QED
      BY <2>3, <2>4, Entering
  <1>14. CASE CallDelete
    <2>1. PICK j \in 0 .. made : Call(Task("delete", j, j = 0)) /\ UNCHANGED <<queue_state, timers>>
      BY <1>14 DEF CallDelete
    <2>2. Task("delete", j, j = 0) \in TaskSet
      BY DEF Task, TaskSet, FlagsTypeOK
    <2>3. lock' = lock \/ (lock.pc = "free" /\ lock'.pc = "enter")
      BY <2>1, <2>2, AcquireLeaves DEF Call, Acquire
    <2>4. UNCHANGED <<queued_jobs, started, cut, answer>>
      BY <2>1 DEF Call, Acquire, klippyVars
    <2>. QED
      BY <2>3, <2>4, Entering
  <1>15. CASE CallJump
    <2>1. PICK j \in 1 .. made : Call(Task("jump", j, FALSE)) /\ UNCHANGED <<queue_state, timers>>
      BY <1>15 DEF CallJump
    <2>2. Task("jump", j, FALSE) \in TaskSet
      BY DEF Task, TaskSet, FlagsTypeOK
    <2>3. lock' = lock \/ (lock.pc = "free" /\ lock'.pc = "enter")
      BY <2>1, <2>2, AcquireLeaves DEF Call, Acquire
    <2>4. UNCHANGED <<queued_jobs, started, cut, answer>>
      BY <2>1 DEF Call, Acquire, klippyVars
    <2>. QED
      BY <2>3, <2>4, Entering
  <1>16. CASE CallStart
    <2>1. Task("start", NoJob, FALSE) \in TaskSet
      BY DEF Task, TaskSet, NoJob
    <2>2. lock' = lock \/ (lock.pc = "free" /\ lock'.pc = "enter")
      BY <1>16, <2>1, AcquireLeaves DEF CallStart, Call, Acquire
    <2>3. UNCHANGED <<queued_jobs, started, cut, answer>>
      BY <1>16 DEF CallStart, Call, Acquire, klippyVars
    <2>. QED
      BY <2>2, <2>3, Entering
  <1>17. CASE CallPause
    <2>1. Task("pause", NoJob, TRUE) \in TaskSet
      BY DEF Task, TaskSet, NoJob
    <2>2. lock' = lock \/ (lock.pc = "free" /\ lock'.pc = "enter")
      BY <1>17, <2>1, AcquireLeaves DEF CallPause, Call, Acquire
    <2>3. UNCHANGED <<queued_jobs, started, cut, answer>>
      BY <1>17 DEF CallPause, Call, Acquire, klippyVars
    <2>. QED
      BY <2>2, <2>3, Entering
  <1>18. CASE KlippyAnswers
    <2>1. UNCHANGED <<lock, queued_jobs, cut>> /\ answer = None
      BY <1>18 DEF KlippyAnswers, queueVars
    <2>2. CASE UNCHANGED started /\ answer' # "begun"
      BY <2>1, <2>2 DEF NoJobTwice, AnswerInv, None
    <2>3. CASE lock.pc = "print" /\ started' = started \cup {lock.uid} /\ answer' = "begun"
      BY <2>1, <2>3 DEF NoJobTwice, AnswerInv
    <2>. QED
      BY <1>18, <2>2, <2>3 DEF KlippyAnswers
  <1>19. CASE KlippyReplies
    BY <1>19 DEF KlippyReplies, queueVars, klippyVars, NoJobTwice, AnswerInv
  <1>20. CASE PrintChanges
    <2>1. UNCHANGED <<lock, queued_jobs, started, cut, answer>>
      BY <1>20 DEF PrintChanges, Change, queueVars, klippyVars, lockVars
    <2>. QED
      BY <2>1, Entering
  <1>21. CASE ShutDown
    <2>1. UNCHANGED <<lock, queued_jobs, started, cut, answer>>
      BY <1>21 DEF ShutDown, Change, queueVars, klippyVars, lockVars
    <2>. QED
      BY <2>1, Entering
  <1>22. CASE Disconnect
    <2>1. UNCHANGED <<lock, queued_jobs, started>>
      BY <1>22 DEF Disconnect, Change, queueVars
    <2>2. /\ cut' = IF answer = "begun" THEN cut \cup {lock.uid} ELSE cut
          /\ answer' = IF lock.pc \in {"check", "query", "gcode", "print"} /\ answer \in {None, "begun"} THEN "error" ELSE answer
      BY <1>22 DEF Disconnect, FailPending
    <2>3. CASE answer = "begun"
      BY <2>1, <2>2, <2>3 DEF NoJobTwice, AnswerInv
    <2>4. CASE answer # "begun"
      BY <2>1, <2>2, <2>4 DEF NoJobTwice, AnswerInv, None
    <2>. QED
      BY <2>3, <2>4
  <1>23. CASE Reconnect
    <2>1. UNCHANGED <<lock, queued_jobs, started, cut, answer>>
      BY <1>23 DEF Reconnect, Change, queueVars, klippyVars, lockVars
    <2>. QED
      BY <2>1, Entering
  <1>24. CASE UNCHANGED vars
    BY <1>24, Entering DEF vars, queueVars, klippyVars, lockVars
  <1>. QED
    BY <1>1, <1>2, <1>3, <1>4, <1>5, <1>6, <1>7, <1>8, <1>9, <1>10, <1>11, <1>12, <1>13, <1>14, <1>15, <1>16, <1>17, <1>18, <1>19, <1>20, <1>21, <1>22, <1>23, <1>24 DEF Next, Coroutine, Loop, Clients, Klippy

\* Who asks for the lock to set the queue going ends the pause; who does not,
\* leaves it, or begins it.
LEMMA AcquireHalts ==
    ASSUME PausedInv, LockTypeOK, LockInv, NEW task \in TaskSet,
           IF Available THEN lock' = [pc |-> "enter", task |-> task, uid |-> NoJob] /\ UNCHANGED waiting
                        ELSE waiting' = Append(waiting, task) /\ UNCHANGED lock,
           halted' = IF task.op \in {"pause", "shutdown"} THEN ~Restarting
                     ELSE halted /\ task.op \notin Restarts,
           queue_state' = "paused" \/ (queue_state' = queue_state /\ task.op \notin {"pause", "shutdown"})
    PROVE  PausedInv'
  <1>1. Ops' \subseteq Ops \cup {task.op}
    BY AcquireLeaves
  <1>2. CASE task.op \in {"pause", "shutdown"}
    <2>1. task.op \notin Restarts
      BY <1>2 DEF Restarts
    <2>. QED
      BY <1>1, <1>2, <2>1, PendingOps, PendingOpsNext DEF PausedInv
  <1>3. CASE task.op \notin {"pause", "shutdown"}
    <2>1. halted' => halted /\ task.op \notin Restarts
      BY <1>3
    <2>. QED
      BY <1>1, <1>3, <2>1, PendingOps, PendingOpsNext DEF PausedInv
  <1>. QED
    BY <1>2, <1>3

\* A pause lasts while nothing comes to the lock and the queue stays paused.
LEMMA PauseKept ==
    ASSUME PausedInv, Ops' \subseteq Ops \cup {None}, halted' = halted,
           halted => queue_state' = "paused"
    PROVE  PausedInv'
  BY PendingOps, PendingOpsNext DEF PausedInv, Restarts, None

\* A paused queue stays paused until something is to set it going.
LEMMA PausedInvStep ==
    ASSUME IInv, [Next]_vars
    PROVE  PausedInv'
  <1>. USE DEF IInv, TypeOK
  <1>1. CASE Finish
    <2>1. lock' = Free /\ UNCHANGED <<waiting, halted>>
      BY <1>1 DEF Finish, Release
    <2>2. Ops' \subseteq Ops \cup {None}
      BY <2>1, ReleaseLeaves
    <2>3. halted => lock.task.op \notin Restarts /\ queue_state = "paused"
      BY DEF PausedInv, Restarting
    <2>4. halted => queue_state' = "paused"
      BY <1>1, <2>3 DEF Finish, Restarts, QueueJob, HandleReady, OnJobComplete, OnJobAbort, DeleteJob, Jump, PauseTail
    <2>. QED
      BY <2>1, <2>2, <2>4, PauseKept
  <1>2. CASE StartQueue
    <2>1. UNCHANGED <<halted, waiting>> /\ (lock' = Free \/ lock' = Holding("query"))
      BY <1>2 DEF StartQueue, Ask, Release
    <2>2. Ops' \subseteq Ops \cup {None}
      <3>1. CASE lock' = Free
        BY <2>1, <3>1, ReleaseLeaves
      <3>2. CASE lock' # Free
        <4>1. lock'.task = lock.task
          BY <2>1, <3>2 DEF Holding, LockTypeOK
        <4>. QED
          BY <2>1, <4>1 DEF Ops
      <3>. QED
        BY <3>1, <3>2
    <2>3. halted => lock.task.op \notin Restarts /\ queue_state = "paused"
      BY DEF PausedInv, Restarting
    <2>4. halted => queue_state' = "paused"
      BY <1>2, <2>3 DEF StartQueue, Restarts
    <2>. QED
      BY <2>1, <2>2, <2>4, PauseKept
  <1>3. CASE StartQueueChecked
    <2>1. lock' = Free /\ UNCHANGED <<waiting, halted>>
      BY <1>3 DEF StartQueueChecked, Release
    <2>2. Ops' \subseteq Ops \cup {None}
      BY <2>1, ReleaseLeaves
    <2>3. halted => lock.task.op \notin Restarts /\ queue_state = "paused"
      BY DEF PausedInv, Restarting
    <2>4. halted => queue_state' = "paused"
      BY <1>3, <2>3 DEF StartQueueChecked, Restarts, LockInv
    <2>. QED
      BY <2>1, <2>2, <2>4, PauseKept
  <1>4. CASE PopJob
    <2>1. UNCHANGED <<halted, waiting>> /\ (lock' = Free \/ lock' = [lock EXCEPT !.pc = "check", !.uid = Head(queued_jobs)])
      BY <1>4 DEF PopJob, Ask, Release
    <2>2. Ops' \subseteq Ops \cup {None}
      <3>1. CASE lock' = Free
        BY <2>1, <3>1, ReleaseLeaves
      <3>2. CASE lock' # Free
        <4>1. lock'.task = lock.task
          BY <2>1, <3>2 DEF Holding, LockTypeOK
        <4>. QED
          BY <2>1, <4>1 DEF Ops
      <3>. QED
        BY <3>1, <3>2
    <2>3. halted => lock.task.op \notin Restarts /\ queue_state = "paused"
      BY DEF PausedInv, Restarting
    <2>4. halted => queue_state' = "paused"
      BY <1>4, <2>3 DEF PopJob
    <2>. QED
      BY <2>1, <2>2, <2>4, PauseKept
  <1>5. CASE PopChecked
    <2>1. UNCHANGED <<halted, waiting>> /\ (lock' = Free \/ lock' = Holding("gcode") \/ lock' = Holding("print"))
      BY <1>5 DEF PopChecked, GiveUp, StartPrint, Ask, Release
    <2>2. Ops' \subseteq Ops \cup {None}
      <3>1. CASE lock' = Free
        BY <2>1, <3>1, ReleaseLeaves
      <3>2. CASE lock' # Free
        <4>1. lock'.task = lock.task
          BY <2>1, <3>2 DEF Holding, LockTypeOK
        <4>. QED
          BY <2>1, <4>1 DEF Ops
      <3>. QED
        BY <3>1, <3>2
    <2>3. halted => lock.task.op \notin Restarts /\ queue_state = "paused"
      BY DEF PausedInv, Restarting
    <2>4. halted => queue_state' = "paused"
      BY <1>5, <2>3 DEF PopChecked, MustStop, GiveUp
    <2>. QED
      BY <2>1, <2>2, <2>4, PauseKept
  <1>6. CASE PopTransition
    <2>1. UNCHANGED <<halted, waiting>> /\ (lock' = Free \/ lock' = Holding("print"))
      BY <1>6 DEF PopTransition, GiveUp, StartPrint, Ask, Release
    <2>2. Ops' \subseteq Ops \cup {None}
      <3>1. CASE lock' = Free
        BY <2>1, <3>1, ReleaseLeaves
      <3>2. CASE lock' # Free
        <4>1. lock'.task = lock.task
          BY <2>1, <3>2 DEF Holding, LockTypeOK
        <4>. QED
          BY <2>1, <4>1 DEF Ops
      <3>. QED
        BY <3>1, <3>2
    <2>3. halted => lock.task.op \notin Restarts /\ queue_state = "paused"
      BY DEF PausedInv, Restarting
    <2>4. halted => queue_state' = "paused"
      BY <1>6, <2>3 DEF PopTransition, MustStop, GiveUp
    <2>. QED
      BY <2>1, <2>2, <2>4, PauseKept
  <1>7. CASE PopDone
    <2>1. lock' = Free /\ UNCHANGED <<waiting, halted>>
      BY <1>7 DEF PopDone, Release
    <2>2. Ops' \subseteq Ops \cup {None}
      BY <2>1, ReleaseLeaves
    <2>3. halted => lock.task.op \notin Restarts /\ queue_state = "paused"
      BY DEF PausedInv, Restarting
    <2>4. halted => queue_state' = "paused"
      BY <1>7, <2>3 DEF PopDone, AfterStart
    <2>. QED
      BY <2>1, <2>2, <2>4, PauseKept
  <1>8. CASE PopTimesOut
    <2>1. lock' = Free /\ UNCHANGED <<waiting, halted>>
      BY <1>8 DEF PopTimesOut, Release
    <2>2. Ops' \subseteq Ops \cup {None}
      BY <2>1, ReleaseLeaves
    <2>3. halted => lock.task.op \notin Restarts /\ queue_state = "paused"
      BY DEF PausedInv, Restarting
    <2>4. halted => queue_state' = "paused"
      BY <1>8, <2>3 DEF PopTimesOut
    <2>. QED
      BY <2>1, <2>2, <2>4, PauseKept
  <1>9. CASE Wake
    <2>1. queue_state' = queue_state /\ halted' = halted
      BY <1>9 DEF Wake, queueVars
    <2>. QED
      BY <1>9, <2>1, WakeLeaves, PauseKept DEF PausedInv
  <1>10. CASE HandleEvent
    <2>1. queue_state' = "paused" \/ (queue_state' = queue_state /\ Head(events) # "shutdown")
      BY <1>10 DEF HandleEvent
    <2>2. CASE UNCHANGED lockVars
      <3>1. Ops' = Ops /\ halted' = halted
        BY <2>2 DEF lockVars, Ops
      <3>. QED
        BY <2>1, <3>1, PauseKept DEF PausedInv
    <2>3. CASE Head(events) \in {"ready", "abort", "shutdown", "complete"} /\ Acquire(Task(Head(events), NoJob, pause_requested))
      <3>1. PICK e \in {"ready", "abort", "shutdown", "complete"} : e = Head(events)
        BY <2>3
      <3>2. Task(e, NoJob, pause_requested) \in TaskSet /\ Task(e, NoJob, pause_requested).op = e
        BY DEF Task, TaskSet, NoJob, FlagsTypeOK
      <3>3. Acquire(Task(e, NoJob, pause_requested))
        BY <2>3, <3>1
      <3>. QED
        BY <2>1, <3>1, <3>2, <3>3, AcquireHalts DEF Acquire
    <2>. QED
      BY <1>10, <2>2, <2>3 DEF HandleEvent
  <1>11. CASE StatusUpdate
    <2>1. UNCHANGED <<lock, waiting, halted, queue_state>>
      BY <1>11 DEF StatusUpdate, queueVars, lockVars
    <2>. QED
      BY <2>1, PauseKept DEF PausedInv, Ops
  <1>12. ASSUME NEW i \in DOMAIN timers, Fire(i) PROVE PausedInv'
    <2>1. Task("pop", NoJob, timers[i].trans) \in TaskSet
      BY <1>12, FireLeaves DEF Fire
    <2>2. Task("pop", NoJob, timers[i].trans).op = "pop"
      BY DEF Task
    <2>3. queue_state' = queue_state
      BY <1>12 DEF Fire
    <2>. QED
      BY <1>12, <2>1, <2>2, <2>3, AcquireHalts DEF Fire, Acquire
  <1>13. CASE CallQueue
    <2>1. PICK number \in 1 .. Queueable, reset \in BOOLEAN : Call(Task("queue", number, reset)) /\ UNCHANGED <<queue_state, timers>>
      BY <1>13 DEF CallQueue
    <2>2. Task("queue", number, reset) \in TaskSet /\ Task("queue", number, reset).op = "queue"
      BY DEF Task, TaskSet
    <2>. QED
      BY <2>1, <2>2, AcquireHalts DEF Call, Acquire
  <1>14. CASE CallDelete
    <2>1. PICK j \in 0 .. made : Call(Task("delete", j, j = 0)) /\ UNCHANGED <<queue_state, timers>>
      BY <1>14 DEF CallDelete
    <2>2. Task("delete", j, j = 0) \in TaskSet /\ Task("delete", j, j = 0).op = "delete"
      BY DEF Task, TaskSet, FlagsTypeOK
    <2>. QED
      BY <2>1, <2>2, AcquireHalts DEF Call, Acquire
  <1>15. CASE CallJump
    <2>1. PICK j \in 1 .. made : Call(Task("jump", j, FALSE)) /\ UNCHANGED <<queue_state, timers>>
      BY <1>15 DEF CallJump
    <2>2. Task("jump", j, FALSE) \in TaskSet /\ Task("jump", j, FALSE).op = "jump"
      BY DEF Task, TaskSet, FlagsTypeOK
    <2>. QED
      BY <2>1, <2>2, AcquireHalts DEF Call, Acquire
  <1>16. CASE CallStart
    <2>1. Task("start", NoJob, FALSE) \in TaskSet /\ Task("start", NoJob, FALSE).op = "start"
      BY DEF Task, TaskSet, NoJob
    <2>2. queue_state' = queue_state
      BY <1>16 DEF CallStart, Call
    <2>. QED
      BY <1>16, <2>1, <2>2, AcquireHalts DEF CallStart, Call, Acquire
  <1>17. CASE CallPause
    <2>1. Task("pause", NoJob, TRUE) \in TaskSet /\ Task("pause", NoJob, TRUE).op = "pause"
      BY DEF Task, TaskSet, NoJob
    <2>2. queue_state' = "paused"
      BY <1>17 DEF CallPause, Call
    <2>. QED
      BY <1>17, <2>1, <2>2, AcquireHalts DEF CallPause, Call, Acquire
  <1>18. CASE KlippyAnswers
    <2>1. UNCHANGED <<lock, waiting, halted, queue_state>>
      BY <1>18 DEF KlippyAnswers, queueVars, lockVars
    <2>. QED
      BY <2>1, PauseKept DEF PausedInv, Ops
  <1>19. CASE KlippyReplies
    <2>1. UNCHANGED <<lock, waiting, halted, queue_state>>
      BY <1>19 DEF KlippyReplies, queueVars, lockVars
    <2>. QED
      BY <2>1, PauseKept DEF PausedInv, Ops
  <1>20. CASE PrintChanges
    <2>1. UNCHANGED <<lock, waiting, halted, queue_state>>
      BY <1>20 DEF PrintChanges, Change, queueVars, lockVars
    <2>. QED
      BY <2>1, PauseKept DEF PausedInv, Ops
  <1>21. CASE ShutDown
    <2>1. UNCHANGED <<lock, waiting, halted, queue_state>>
      BY <1>21 DEF ShutDown, Change, queueVars, lockVars
    <2>. QED
      BY <2>1, PauseKept DEF PausedInv, Ops
  <1>22. CASE Disconnect
    <2>1. UNCHANGED <<lock, waiting, halted, queue_state>>
      BY <1>22 DEF Disconnect, Change, queueVars, lockVars
    <2>. QED
      BY <2>1, PauseKept DEF PausedInv, Ops
  <1>23. CASE Reconnect
    <2>1. UNCHANGED <<lock, waiting, halted, queue_state>>
      BY <1>23 DEF Reconnect, Change, queueVars, lockVars
    <2>. QED
      BY <2>1, PauseKept DEF PausedInv, Ops
  <1>24. CASE UNCHANGED vars
    <2>1. UNCHANGED <<lock, waiting, halted, queue_state>>
      BY <1>24 DEF vars, queueVars, lockVars
    <2>. QED
      BY <2>1, PauseKept DEF PausedInv, Ops
  <1>. QED
    BY <1>1, <1>2, <1>3, <1>4, <1>5, <1>6, <1>7, <1>8, <1>9, <1>10, <1>11, <1>12, <1>13, <1>14, <1>15, <1>16, <1>17, <1>18, <1>19, <1>20, <1>21, <1>22, <1>23, <1>24 DEF Next, Coroutine, Loop, Clients, Klippy

-----------------------------------------------------------------------------
\* Nothing is queued, delayed or asked when Moonraker starts.
LEMMA InitInv == Init => IInv
  <1>. SUFFICES ASSUME Init
                PROVE  IInv
    OBVIOUS
  <1>1. lock = Free /\ waiting = <<>> /\ answer = None /\ queue_state = "paused" /\ started = {} /\ cut = {}
    BY DEF Init
  <1>2. FlagsTypeOK
    BY BoundsAssumption DEF Init, FlagsTypeOK, States, JobEvents, None
  <1>3. LockTypeOK
    BY <1>1 DEF LockTypeOK, Free, Task, TaskSet, NoJob, None
  <1>4. TimersTypeOK
    BY DEF Init, TimersTypeOK, HeldTimers
  <1>5. JobsTypeOK
    BY DEF Init, JobsTypeOK, IsInjective
  <1>6. LockInv /\ NeverStranded /\ NoJobTwice /\ AnswerInv
    BY <1>1 DEF LockInv, NeverStranded, NoJobTwice, AnswerInv, Free, None
  <1>7. PausedInv
    BY DEF Init, PausedInv
  <1>. QED
    BY <1>2, <1>3, <1>4, <1>5, <1>6, <1>7 DEF IInv, TypeOK

\* The invariant holds in every reachable state, for any number of jobs, calls,
\* changes and failures and whatever the sections of the configuration.
THEOREM Invariance == Spec => []IInv
  <1>1. Init => IInv
    BY InitInv
  <1>2. IInv /\ [Next]_vars => IInv'
    <2>. SUFFICES ASSUME IInv, [Next]_vars
                  PROVE  IInv'
      OBVIOUS
    <2>1. FlagsTypeOK' /\ TimersTypeOK' /\ JobsTypeOK'
      BY FlagsTypeOKStep, TimersTypeOKStep, JobsTypeOKStep
    <2>2. LockTypeOK' /\ LockInv'
      BY LockStep
    <2>3. NeverStranded' /\ NoJobTwice' /\ AnswerInv' /\ PausedInv'
      BY NeverStrandedStep, NoJobTwiceStep, PausedInvStep
    <2>. QED
      BY <2>1, <2>2, <2>3 DEF IInv, TypeOK
  <1>. QED
    BY <1>1, <1>2, PTL DEF Spec

\* Every variable keeps its type; no job is in the dictionary twice, and every
\* job in it was queued.
THEOREM TypeCorrect == Spec => []TypeOK
  <1>1. IInv => TypeOK
    BY DEF IInv
  <1>. QED
    BY <1>1, Invariance, PTL

\* A queue that is loading has a _pop_job on its way, and one that is starting
\* a print has its request out, whatever is paused, aborted or lost meanwhile.
THEOREM QueueNeverStranded == Spec => []NeverStranded
  <1>1. IInv => NeverStranded
    BY DEF IInv
  <1>. QED
    BY <1>1, Invariance, PTL

\* A job Klippy has begun to print leaves the queue with its answer, so that no
\* transition prints it again; the job being loaded stays the head of the queue.
THEOREM NoJobPrintedTwice == Spec => []NoJobTwice
  <1>1. IInv => NoJobTwice
    BY DEF IInv
  <1>. QED
    BY <1>1, Invariance, PTL

\* A queue that was paused asks Klippy for no job before something sets it
\* going: whichever await of _pop_job the pause fell into, it is noticed.
THEOREM PauseIsHeld == Spec => PauseHolds
  <1>1. IInv /\ [Next]_vars => [halted => ~(lock.pc # "print" /\ lock.pc' = "print")]_vars
    <2>. SUFFICES ASSUME IInv, [Next]_vars
                  PROVE  [halted => ~(lock.pc # "print" /\ lock.pc' = "print")]_vars
      OBVIOUS
    <2>1. PrintAsked
      BY LockStep
    <2>. QED
      BY <2>1 DEF PrintAsked, IInv, PausedInv
  <1>. QED
    BY <1>1, Invariance, PTL DEF Spec, PauseHolds
=============================================================================
