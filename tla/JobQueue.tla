------------------------------ MODULE JobQueue ------------------------------
(***************************************************************************)
(* Moonraker's job queue (components/job_queue.py), with the parts of      *)
(* job_state.py and klippy_apis.py it is driven by.  Everything runs in    *)
(* one event loop: a coroutine runs undisturbed from one await to the      *)
(* next, so an action is what happens between two awaits.  Klippy answers  *)
(* a request some time after it was sent, and its print_stats change on    *)
(* their own (other clients print, reset and cancel too).                  *)
(***************************************************************************)
EXTENDS Naturals, FiniteSets, SequencesExt

CONSTANTS MaxJobs,     \* bound: jobs queued; the n-th one has the id n
          Configs,     \* the [job_queue] sections considered
          MaxCalls,    \* bound: calls of clients
          MaxChanges,  \* bound: changes of Klippy and of its print job
          MaxFaults    \* bound: scripts and copies that fail

ASSUME BoundsAssumption ==
  /\ MaxJobs \in Nat /\ MaxCalls \in Nat /\ MaxChanges \in Nat /\ MaxFaults \in Nat
  /\ Configs \subseteq [automatic: BOOLEAN, load_on_start: BOOLEAN, transition: BOOLEAN]

VARIABLES conf,             \* the options of the section
          queued_jobs,      \* the ordered dictionary, as the sequence of its keys
          queue_state,
          pause_requested,
          timers,           \* delayed calls of _pop_job; held: pop_queue_handle
          lock,             \* who holds the lock, and at which await
          waiting,          \* the coroutines queued in the lock, oldest first
          answer,           \* what Klippy says to the request being awaited
          klippy,           \* ready, shutdown or gone
          print,            \* Klippy's print_stats state
          seen,             \* job_state.last_print_stats["state"]
          last_event,       \* job_state.last_event
          events,           \* server events sent and not yet handled
          made,             \* jobs queued so far
          calls, changes, faults,
          started,          \* history: jobs Klippy has begun to print
          cut,              \* history: ... whose answer was lost with the connection
          unhandled,        \* history: _pop_job ended in an exception nobody expects
          halted            \* history: paused, and nothing that sets it going has come since

lockVars   == <<lock, waiting, answer, halted>>
klippyVars == <<klippy, print, started, cut>>
stateVars  == <<seen, last_event, events>>
bounds     == <<made, calls, changes, faults>>
queueVars  == <<queued_jobs, queue_state, pause_requested, timers, unhandled>>
vars == <<conf, lockVars, klippyVars, stateVars, bounds, queueVars>>

None == "none"
NoJob == 0
States    == {"standby", "printing", "paused", "complete", "error", "cancelled"}
JobEvents == {"standby", "started", "paused", "resumed", "complete", "error", "cancelled"}
Task(op, job, flag) == [op |-> op, job |-> job, flag |-> flag]
Free      == [pc |-> "free", task |-> Task(None, NoJob, FALSE), uid |-> NoJob]
-----------------------------------------------------------------------------
(* asyncio.Lock.  A coroutine that finds it free goes on at once: no other *)
(* action is possible while pc is "enter".                                 *)
Restarts      == {"start", "queue", "ready"}
Restarting    == lock.task.op \in Restarts \/ \E i \in DOMAIN waiting : waiting[i].op \in Restarts
Holding(pc)   == [lock EXCEPT !.pc = pc]
Available     == lock = Free /\ waiting = <<>>
Acquire(task) == /\ IF Available THEN lock' = [pc |-> "enter", task |-> task, uid |-> NoJob] /\ UNCHANGED waiting
                                 ELSE waiting' = Append(waiting, task) /\ UNCHANGED lock
                 /\ halted' = IF task.op \in {"pause", "shutdown"} THEN ~Restarting
                              ELSE halted /\ task.op \notin Restarts
                 /\ UNCHANGED answer
Wake    == /\ lock = Free /\ waiting # <<>>
           /\ lock' = [pc |-> "enter", task |-> Head(waiting), uid |-> NoJob]
           /\ waiting' = Tail(waiting)
           /\ UNCHANGED <<conf, answer, halted, klippyVars, stateVars, bounds, queueVars>>
Release == lock' = Free /\ answer' = None /\ UNCHANGED <<waiting, halted>>

Dropped(ts)   == [i \in DOMAIN ts |-> [ts[i] EXCEPT !.held = FALSE]]
Delay(trans)  == timers' = Append(Dropped(timers), [trans |-> trans, held |-> TRUE])
HeldTimers    == {i \in DOMAIN timers : timers[i].held}
CancelHeld    == timers' = IF HeldTimers = {} THEN timers
                           ELSE RemoveAt(timers, CHOOSE i \in HeldTimers : TRUE)
IsPrinting(e) == e \in {"started", "resumed"}
Without(j)    == RemoveFirst(queued_jobs, j)
Ready         == IF conf.automatic THEN "ready" ELSE "paused"
-----------------------------------------------------------------------------
(* What a coroutine does with the lock when it does not wait any further.  *)
HandleReady ==
  /\ IF conf.load_on_start /\ queued_jobs # <<>> /\ queue_state \in {"ready", "paused"}
     THEN queue_state' = "loading" /\ Delay(FALSE)
     ELSE UNCHANGED <<queue_state, timers>>
  /\ UNCHANGED <<queued_jobs, pause_requested>>

OnJobComplete ==
  /\ IF queue_state = "ready" /\ queued_jobs # <<>>
     THEN queue_state' = "loading" /\ Delay(TRUE)
     ELSE UNCHANGED <<queue_state, timers>>
  /\ UNCHANGED <<queued_jobs, pause_requested>>

OnJobAbort ==
  /\ queue_state' = IF queued_jobs # <<>> THEN "paused" ELSE queue_state
  /\ UNCHANGED <<queued_jobs, pause_requested, timers>>

QueueJob(number, reset) ==
  /\ queued_jobs' = (IF reset THEN <<>> ELSE queued_jobs) \o [i \in 1..number |-> made + i]
  /\ made' = made + number
  /\ queue_state' = IF /\ conf.automatic /\ ~pause_requested
                       /\ IsPrinting(last_event) \/ last_event = "paused"
                    THEN "ready" ELSE queue_state
  /\ UNCHANGED <<pause_requested, timers>>

DeleteJob(job, all) ==
  /\ queued_jobs' = IF all THEN <<>> ELSE Without(job)
  /\ UNCHANGED <<queue_state, pause_requested, timers>>

Jump_NotPopped(job) ==   \* mutant: the job is looked up, not popped
  queued_jobs' = <<job>> \o queued_jobs /\ UNCHANGED <<queue_state, pause_requested, timers>>
Jump(job) ==   \* the error for an unknown id changes nothing
  /\ queued_jobs' = IF job \in Range(queued_jobs) THEN <<job>> \o Without(job) ELSE queued_jobs
  /\ UNCHANGED <<queue_state, pause_requested, timers>>

(* The second half of pause_queue; _handle_shutdown then puts back the     *)
(* value it had saved (flag).                                              *)
PauseTail(task) ==
  /\ pause_requested' = (task.op = "pause" \/ task.flag)
  /\ UNCHANGED <<queued_jobs, queue_state, timers>>

Finish == /\ lock.pc = "enter"
          /\ LET t == lock.task IN
               \/ t.op = "queue" /\ QueueJob(t.job, t.flag)
               \/ /\ \/ t.op = "ready"    /\ HandleReady
                     \/ t.op = "complete" /\ OnJobComplete
                     \/ t.op = "abort"    /\ OnJobAbort
                     \/ t.op = "delete"   /\ DeleteJob(t.job, t.flag)
                     \/ t.op = "jump"     /\ Jump(t.job)
                     \/ t.op \in {"pause", "shutdown"} /\ PauseTail(t)
                  /\ UNCHANGED made
          /\ Release
          /\ UNCHANGED <<conf, klippyVars, stateVars, calls, changes, faults, unhandled>>
-----------------------------------------------------------------------------
(* Requests to Klippy.  One that is sent without a connection fails.       *)
Ask(pc) == lock' = Holding(pc) /\ answer' = (IF klippy = "gone" THEN "error" ELSE None) /\ UNCHANGED <<waiting, halted>>

StartQueue ==   \* start_queue up to its query
  /\ lock.pc = "enter" /\ lock.task.op = "start"
  /\ pause_requested' = FALSE
  /\ IF queue_state \in {"ready", "paused"} /\ queued_jobs # <<>>
     THEN Ask("query") /\ UNCHANGED queue_state
     ELSE /\ queue_state' = IF queue_state = "ready" THEN "paused" ELSE queue_state
          /\ Release
  /\ UNCHANGED <<conf, klippyVars, stateVars, bounds, queued_jobs, timers, unhandled>>

StartQueueChecked ==
  /\ lock.pc = "query" /\ answer # None
  /\ IF answer = "ok" THEN queue_state' = "loading" /\ Delay(FALSE)
                      ELSE queue_state' = Ready /\ UNCHANGED timers
  /\ Release
  /\ UNCHANGED <<conf, klippyVars, stateVars, bounds, queued_jobs, pause_requested, unhandled>>

PopJob ==   \* _pop_job up to _check_can_print
  /\ lock.pc = "enter" /\ lock.task.op = "pop"
  /\ IF queue_state = "paused" \/ queued_jobs = <<>>
     THEN queue_state' = "paused" /\ Release
     ELSE /\ lock' = [lock EXCEPT !.pc = "check", !.uid = Head(queued_jobs)]
          /\ answer' = IF klippy = "gone" THEN "error" ELSE None
          /\ UNCHANGED <<waiting, halted, queue_state>>
  /\ UNCHANGED <<conf, klippyVars, stateVars, bounds, queued_jobs, pause_requested, timers, unhandled>>

(* start_print until it waits.  The copy to .cache may fail for            *)
(* want of space (a server error); a file that is gone raises what         *)
(* _pop_job does not catch, and the state stays "starting".                *)
StartPrint ==
  \/ /\ queue_state' = "starting" /\ Ask("print")
     /\ UNCHANGED <<faults, unhandled>>
  \/ /\ faults < MaxFaults /\ faults' = faults + 1
     /\ \/ queue_state' = "paused" /\ UNCHANGED unhandled
        \/ queue_state' = "starting" /\ unhandled' = TRUE
     /\ Release

(* What _pop_job does when it may not go on: it tests the answer and, as   *)
(* the lock does not keep pause_queue out, the state of the queue again.   *)
MustStop_NoRecheck == answer # "ok"   \* mutant
MustStop == answer # "ok" \/ queue_state # "loading"
GiveUp_Silent == Release /\ UNCHANGED <<queue_state, faults, unhandled>>   \* mutant: a plain return
GiveUp == queue_state' = "paused" /\ Release /\ UNCHANGED <<faults, unhandled>>

PopChecked ==
  /\ lock.pc = "check" /\ answer # None
  /\ \/ MustStop /\ GiveUp
     \/ ~MustStop /\ conf.transition /\ lock.task.flag
        /\ Ask("gcode") /\ UNCHANGED <<queue_state, faults, unhandled>>
     \/ ~MustStop /\ ~(conf.transition /\ lock.task.flag) /\ StartPrint
  /\ UNCHANGED <<conf, klippyVars, stateVars, made, calls, changes, queued_jobs, pause_requested, timers>>

PopTransition ==
  /\ lock.pc = "gcode" /\ answer # None
  /\ (MustStop /\ GiveUp) \/ (~MustStop /\ StartPrint)
  /\ UNCHANGED <<conf, klippyVars, stateVars, made, calls, changes, queued_jobs, pause_requested, timers>>

AfterStart(left) == IF queue_state # "starting" THEN queue_state
                    ELSE IF left # <<>> THEN Ready ELSE "paused"
Loaded_Starting == answer = "ok" /\ queue_state = "starting"   \* mutant: a pause keeps the job in the queue
Loaded == answer = "ok"

PopDone ==
  /\ lock.pc = "print" /\ answer \in {"ok", "refused", "error"}
  /\ IF Loaded
     THEN /\ queued_jobs' = Without(lock.uid)
          /\ queue_state' = AfterStart(queued_jobs')
     ELSE queue_state' = "paused" /\ UNCHANGED queued_jobs
  /\ Release
  /\ UNCHANGED <<conf, klippyVars, stateVars, bounds, pause_requested, timers, unhandled>>

(* wait_started raises TimeoutError while the connection is initialising.  *)
PopTimesOut ==
  /\ lock.pc = "print" /\ answer = None
  /\ faults < MaxFaults /\ faults' = faults + 1
  /\ unhandled' = TRUE
  /\ Release
  /\ UNCHANGED <<conf, klippyVars, stateVars, made, calls, changes,
                 queued_jobs, queue_state, pause_requested, timers>>
-----------------------------------------------------------------------------
(* What sets coroutines going: clients, timers, events.                    *)
Call(task) == /\ calls < MaxCalls /\ calls' = calls + 1
              /\ Acquire(task)
              /\ UNCHANGED <<conf, klippyVars, stateVars, made, changes, faults,
                             queued_jobs, pause_requested, unhandled>>

Queueable == MaxJobs - made   \* less what calls in the lock will queue
             - FoldSeq(LAMBDA t, n : n + (IF t.op = "queue" THEN t.job ELSE 0), 0, waiting)
CallQueue == \E number \in 1..Queueable, reset \in BOOLEAN :
  Call(Task("queue", number, reset)) /\ UNCHANGED <<queue_state, timers>>
CallDelete == \E j \in 0..made :   \* 0: all of them
  Call(Task("delete", j, j = 0)) /\ UNCHANGED <<queue_state, timers>>
CallJump == \E j \in 1..made :
  Call(Task("jump", j, FALSE)) /\ UNCHANGED <<queue_state, timers>>
CallStart == Call(Task("start", NoJob, FALSE)) /\ UNCHANGED <<queue_state, timers>>
(* The first half of pause_queue comes before the lock.                    *)
CallPause == /\ queue_state' = "paused" /\ CancelHeld
             /\ Call(Task("pause", NoJob, TRUE))

Fire(i) ==   \* a timer runs out: _pop_job forgets the handle, whichever timer it is
  /\ timers' = Dropped(RemoveAt(timers, i))
  /\ Acquire(Task("pop", NoJob, timers[i].trans))
  /\ UNCHANGED <<conf, klippyVars, stateVars, bounds, queued_jobs, queue_state, pause_requested, unhandled>>

(* The handlers of an event, the job state's and the queue's.              *)
HandleEvent ==
  /\ events # <<>> /\ events' = Tail(events)
  /\ LET e == Head(events) IN
     /\ seen' = IF e = "disconnect" /\ seen \in {"printing", "paused"} THEN "error"
                ELSE IF e = "started" THEN print ELSE seen
     /\ last_event' = IF e = "disconnect" /\ seen \in {"printing", "paused"} THEN "error" ELSE last_event
     /\ IF e = "shutdown" THEN queue_state' = "paused" /\ CancelHeld
                          ELSE UNCHANGED <<queue_state, timers>>
     /\ IF e \in {"ready", "abort", "shutdown"} \/ (e = "complete" /\ conf.automatic)
        THEN Acquire(Task(e, NoJob, pause_requested))
        ELSE UNCHANGED lockVars
  /\ UNCHANGED <<conf, klippyVars, bounds, queued_jobs, pause_requested, unhandled>>

(* job_state._status_update: Klippy reports the state of the moment, so a  *)
(* state that came and went between two reports is never seen.             *)
JobEvent(new, resumed) == IF new # "printing" THEN new ELSE IF resumed THEN "resumed" ELSE "started"
StatusUpdate ==
  /\ klippy # "gone" /\ print # seen
  /\ ~ \E i \in DOMAIN events : events[i] \in {"disconnect", "started"}
  /\ seen' = print
  /\ \E resumed \in {FALSE, seen = "paused"} :
       last_event' = JobEvent(print, resumed)
  /\ events' = events \o (IF print = "complete" THEN <<"complete">>
                          ELSE IF print \in {"error", "cancelled"} THEN <<"abort">> ELSE <<>>)
  /\ UNCHANGED <<conf, lockVars, klippyVars, bounds, queueVars>>
-----------------------------------------------------------------------------
(* Klippy, as far as the queue sees it: what it answers, and the state of  *)
(* its print_stats.                                                        *)
KlippyAnswers ==
  /\ klippy # "gone" /\ answer = None
  /\ \/ /\ lock.pc \in {"check", "query"}
        /\ answer' = IF print \in {"printing", "paused"} THEN "refused" ELSE "ok"
        /\ UNCHANGED <<print, started, faults>>
     \/ /\ lock.pc = "gcode"
        /\ answer' \in {IF klippy = "ready" THEN "ok" ELSE "error"} \cup (IF faults < MaxFaults THEN {"error"} ELSE {})
        /\ faults' = IF answer' = "error" /\ faults < MaxFaults THEN faults + 1 ELSE faults
        /\ UNCHANGED <<print, started>>
     \/ /\ lock.pc = "print"   \* SDCARD_PRINT_FILE
        /\ IF klippy = "ready" /\ print # "printing"
           THEN answer' = "begun" /\ print' = "printing" /\ started' = started \cup {lock.uid}
           ELSE answer' = "refused" /\ UNCHANGED <<print, started>>
        /\ UNCHANGED faults
  /\ UNCHANGED <<conf, lock, waiting, halted, klippy, cut, stateVars, made, calls, changes, queueVars>>
KlippyReplies == /\ answer = "begun" /\ answer' = "ok"
                 /\ UNCHANGED <<conf, lock, waiting, halted, klippyVars, stateVars, bounds, queueVars>>

(* note_start, note_pause, _note_finish, and reset, which SDCARD_RESET_FILE *)
(* and the start of another file call whatever the state is.               *)
NextPrint == {<<"printing", "paused">>, <<"printing", "complete">>, <<"printing", "error">>, <<"printing", "cancelled">>,
              <<"paused", "printing">>, <<"paused", "cancelled">>}
             \cup {<<s, "printing">> : s \in {"standby", "complete", "error", "cancelled"}}
             \cup {<<s, "standby">> : s \in States \ {"standby"}}
Change == changes < MaxChanges /\ changes' = changes + 1
          /\ UNCHANGED <<conf, lock, waiting, halted, made, calls, faults, queueVars>>
PrintChanges == /\ Change /\ klippy = "ready"
                /\ print' \in {s \in States : <<print, s>> \in NextPrint}
                /\ UNCHANGED <<answer, klippy, started, cut, stateVars>>
ShutDown == /\ Change /\ klippy = "ready" /\ klippy' = "shutdown"
            /\ print' = IF print = "printing" THEN "error" ELSE print
            /\ events' = Append(events, "shutdown")
            /\ UNCHANGED <<answer, started, cut, seen, last_event>>
FailPending_Silent == answer   \* mutant: the requests are dropped
FailPending == IF lock.pc \in {"check", "query", "gcode", "print"} /\ answer \in {None, "begun"}
               THEN "error" ELSE answer
Disconnect == /\ Change /\ klippy # "gone" /\ klippy' = "gone" /\ print' = "standby"
              /\ answer' = FailPending
              /\ cut' = IF answer = "begun" THEN cut \cup {lock.uid} ELSE cut
              /\ events' = Append(events, "disconnect")
              /\ UNCHANGED <<started, seen, last_event>>
Reconnect == /\ Change /\ klippy = "gone" /\ klippy' = "ready"
             /\ events' = events \o <<"started", "ready">>
             /\ UNCHANGED <<answer, print, started, cut, seen, last_event>>
-----------------------------------------------------------------------------
Init ==
  /\ conf \in Configs
  /\ queued_jobs = <<>> /\ queue_state = "paused" /\ pause_requested = FALSE /\ timers = <<>>
  /\ lock = Free /\ waiting = <<>> /\ answer = None
  /\ klippy = "ready" /\ print = "standby" /\ seen = "standby" /\ last_event = "standby" /\ events = <<>>
  /\ made = 0 /\ calls = 0 /\ changes = 0 /\ faults = 0
  /\ started = {} /\ cut = {} /\ unhandled = FALSE /\ halted = FALSE

Coroutine == Finish \/ StartQueue \/ StartQueueChecked \/ PopJob \/ PopChecked \/ PopTransition \/ PopDone
Loop      == Wake \/ HandleEvent \/ StatusUpdate \/ (\E i \in DOMAIN timers : Fire(i))
Clients   == CallQueue \/ CallDelete \/ CallJump \/ CallStart \/ CallPause
Klippy    == KlippyAnswers \/ KlippyReplies \/ PrintChanges \/ ShutDown \/ Disconnect \/ Reconnect
Next == \/ Coroutine
        \/ lock.pc # "enter" /\ (PopTimesOut \/ Loop \/ Clients \/ Klippy)

(* The loop runs what is ready to run; Klippy answers what it was asked.   *)
Fairness == /\ WF_vars(Coroutine) /\ WF_vars(lock.pc # "enter" /\ Wake)
            /\ WF_vars(lock.pc # "enter" /\ \E i \in DOMAIN timers : Fire(i))
            /\ WF_vars(lock.pc # "enter" /\ (KlippyAnswers \/ KlippyReplies))
Spec == Init /\ [][Next]_vars /\ Fairness
-----------------------------------------------------------------------------
TaskSet == [op: {None, "ready", "complete", "abort", "shutdown", "pop", "queue", "delete", "jump", "pause", "start"},
            job: Nat, flag: BOOLEAN]

FlagsTypeOK ==
  /\ conf \in [automatic: BOOLEAN, load_on_start: BOOLEAN, transition: BOOLEAN]
  /\ {pause_requested, unhandled, halted} \subseteq BOOLEAN
  /\ queue_state \in {"paused", "ready", "loading", "starting"}
  /\ answer \in {None, "ok", "refused", "error", "begun"}
  /\ klippy \in {"ready", "shutdown", "gone"}
  /\ {print, seen} \subseteq States /\ last_event \in JobEvents
  /\ made \in Nat

LockTypeOK ==
  /\ lock \in [pc: {"free", "enter", "query", "check", "gcode", "print"}, task: TaskSet, uid: Nat]
  /\ waiting \in Seq(TaskSet)

TimersTypeOK ==
  /\ timers \in Seq([trans: BOOLEAN, held: BOOLEAN])
  /\ \A i, j \in HeldTimers : i = j
  /\ events \in Seq({"ready", "started", "disconnect", "shutdown", "complete", "abort"})

JobsTypeOK ==
  /\ queued_jobs \in Seq(1..made) /\ IsInjective(queued_jobs)
  /\ started \subseteq 1..made /\ cut \subseteq started

(* Every variable has its type (job_queue.py, job_state.py): no job is in  *)
(* the dictionary twice, only jobs that were queued are in it or printed,  *)
(* and at most one delayed _pop_job is the one pop_queue_handle holds.     *)
TypeOK == FlagsTypeOK /\ LockTypeOK /\ TimersTypeOK /\ JobsTypeOK

PopPending == \/ timers # <<>> \/ lock.task.op = "pop"
              \/ \E i \in DOMAIN waiting : waiting[i].op = "pop"

(* A queue that says it is loading has a _pop_job on its way, and one that *)
(* says it is starting has its request out: pauses, aborts and restarts    *)
(* that cancel or forget timers, in any order, never leave the queue in a  *)
(* state start_queue does not leave (it acts on ready and paused only).    *)
(* Only an exception _pop_job does not catch does that.                    *)
NeverStranded ==
  /\ queue_state = "loading" => PopPending
  /\ queue_state = "starting" => lock.pc = "print" \/ unhandled

(* The job being loaded is the head of the queue at every await of         *)
(* _pop_job, whatever the clients ask for meanwhile; and a job that Klippy *)
(* has begun to print is not in the queue once _pop_job has had its        *)
(* answer, so that no transition prints it again.  A connection lost       *)
(* between the start and the answer is the one exception.                  *)
NoJobTwice ==
  /\ lock.pc \in {"check", "gcode", "print"} => queued_jobs # <<>> /\ Head(queued_jobs) = lock.uid
  /\ \A j \in started \ cut : j \in Range(queued_jobs) => lock.pc = "print" /\ lock.uid = j

(* Every call and every event handler that waits for the lock gets it and  *)
(* gives it back, and a queue that is loading does not stay so.            *)
CallsReturn ==
  /\ []<>(waiting = <<>> /\ lock = Free)
  /\ []<>(queue_state # "loading")

(* A pause stops a job that is being loaded at whichever await _pop_job is *)
(* (the query, the transition script), by client or by Klippy's shutdown:  *)
(* once paused the queue asks Klippy for no new job until a start_queue, a *)
(* new job or a restart of Klippy comes.  It says nothing of a start_queue *)
(* or queue_job already in the lock when the pause comes: those undo it.   *)
PauseHolds == [][halted => ~(lock.pc # "print" /\ lock.pc' = "print")]_vars
=============================================================================
