--------------------------- MODULE PrintJob_proofs ---------------------------
(***************************************************************************)
(* Theorems about PrintJob: its types; the mutual exclusion the gcode      *)
(* mutex provides; the job state, which rests on it; the order of the      *)
(* lines; and, under conditions on what users ask for, what cancel, pause  *)
(* and reset owe to a handler that is still at work.                       *)
(***************************************************************************)
EXTENDS PrintJob, TLAPS

\* A greenlet in the middle of a command has that command at the head of its
\* script; a client that does nothing has no script.
AtHand(g) ==
    /\ pc[g] \in InScript \ {"run"} => script[g] # <<>>
    /\ pc[g] = "wait" /\ after[g] \in {"reset", "m25"} => script[g] # <<>>
    /\ pc[g] = "idle" /\ g # Sd => script[g] = <<>>

ScriptAtHand == \A g \in Greenlets : AtHand(g)

\* While the work handler exists its timer is registered, so that no second
\* one can be started.
HandlerHasTimer == pc[Sd] # "idle" => workTimer

LockInv == LockConsistent /\ ScriptAtHand /\ HandlerHasTimer

\* The part of the invariant that speaks of greenlets and the mutex.
ScheduleInv == SchedTypeOK /\ LoopTypeOK /\ LockInv

IInv == ScheduleInv /\ DataTypeOK

\* A cancelled job has no file and is not under way.
CancelledIsClosed == state = "cancelled" => currentFile = NoFile /\ ~started

\* While an archive is extracted no job exists.
ExtractsAlone ==
    \A g \in Greenlets :
        At(g, "extract") => ~workTimer /\ ~started /\ state # "cancelled"

\* A job that prints has its handler, past its start, and has its file until
\* the handler has closed it at its end.
PrintingJob ==
    state = "printing" =>
        /\ started
        /\ workTimer
        /\ ~At(Sd, "start")
        /\ currentFile = NoFile => At(Sd, "exit")

JobInv == CancelledIsClosed /\ ExtractsAlone /\ PrintingJob

-----------------------------------------------------------------------------
(* What the building blocks of the actions do to the schedule.             *)

\* The mutex is not touched, one greenlet moves, and it holds the mutex
\* afterwards exactly if it did before.
LEMMA OneMoves ==
    ASSUME NEW g \in Greenlets,
           IInv,
           \A h \in Greenlets \ {g} :
               pc'[h] = pc[h] /\ script'[h] = script[h] /\ after'[h] = after[h],
           UNCHANGED mutexVars,
           Holds(g)' <=> Holds(g),
           AtHand(g)',
           HandlerHasTimer'
    PROVE  LockInv'
<1>1. \A h \in Greenlets : Holds(h)' <=> Holds(h)
    BY DEF Holds
<1>2. LockConsistent'
    BY <1>1 DEF IInv, ScheduleInv, LoopTypeOK, MutexTypeOK, LockInv,
                LockConsistent, mutexVars
<1>3. ScriptAtHand'
    BY DEF IInv, ScheduleInv, LockInv, ScriptAtHand, AtHand
<1> QED BY <1>2, <1>3 DEF LockInv

\* A command ends.
LEMMA DoneKeeps ==
    ASSUME NEW g \in Greenlets,
           IInv, Holds(g), script[g] # <<>>,
           CommandDone(g), workTimer' = workTimer
    PROVE  ScheduleInv'
<1>1. SchedTypeOK'
    BY DEF IInv, ScheduleInv, SchedTypeOK, CommandDone, PcValues
<1>2. LoopTypeOK'
    BY DEF IInv, ScheduleInv, LoopTypeOK, MutexTypeOK, CommandDone, loopVars,
           mutexVars, workVars
<1>3. pc'[g] = "run" /\ HandlerHasTimer'
    BY GreenletsAssumption
    DEF IInv, ScheduleInv, LockInv, SchedTypeOK, CommandDone, HandlerHasTimer,
        Holds, InScript, InCall
<1>4. LockInv'
    BY <1>3, OneMoves
    DEF IInv, ScheduleInv, SchedTypeOK, CommandDone, loopVars, AtHand, Holds,
        InScript
<1> QED BY <1>1, <1>2, <1>4 DEF ScheduleInv

\* A script ends, one way or another.
LEMMA LeaveKeeps ==
    ASSUME NEW g \in Greenlets, NEW how,
           IInv, Holds(g),
           LeaveScript(g, how), workTimer' = workTimer
    PROVE  ScheduleInv'
<1>1. SchedTypeOK'
  <2>1. PICK s \in Seq(Commands), l \in PcValues :
            script' = [script EXCEPT ![g] = s] /\ pc' = [pc EXCEPT ![g] = l]
    <3>1. <<>> \in Seq(Commands) /\ <<"CANCEL_PRINT">> \in Seq(Commands)
        BY DEF Commands
    <3>2. {"idle", "enter", "next", "exit"} \subseteq PcValues
        BY DEF PcValues
    <3>3. CASE g # Sd
        BY <3>1, <3>2, <3>3 DEF LeaveScript
    <3>4. CASE g = Sd /\ how = "error" /\ ~sdError
        BY <3>1, <3>2, <3>4 DEF LeaveScript
    <3>5. CASE g = Sd /\ ~(how = "error" /\ ~sdError)
        BY <3>1, <3>2, <3>5 DEF LeaveScript
    <3> QED BY <3>3, <3>4, <3>5
  <2> QED BY <2>1 DEF IInv, ScheduleInv, SchedTypeOK, LeaveScript
<1>2. LoopTypeOK'
    BY DEF IInv, ScheduleInv, LoopTypeOK, MutexTypeOK, LeaveScript, Exit
<1>3. /\ pc'[g] \in {"idle", "enter", "next", "exit"}
      /\ g # Sd => pc'[g] = "idle" /\ script'[g] = <<>>
      /\ \A h \in Greenlets \ {g} :
             pc'[h] = pc[h] /\ script'[h] = script[h] /\ after'[h] = after[h]
    BY DEF IInv, ScheduleInv, SchedTypeOK, LeaveScript
<1>4. /\ ~Holds(g)'
      /\ \A h \in Greenlets \ {g} : ~Holds(h)
      /\ \A h \in Greenlets \ {g} : Holds(h)' <=> Holds(h)
    BY <1>3 DEF IInv, ScheduleInv, LockInv, LockConsistent, Holds, InScript,
                InCall
<1>5. LockConsistent'
    BY <1>4 DEF IInv, ScheduleInv, LoopTypeOK, MutexTypeOK, LockInv,
                LockConsistent, LeaveScript, Exit
<1>6. ScriptAtHand'
    BY <1>3 DEF IInv, ScheduleInv, LockInv, ScriptAtHand, AtHand, InScript
<1>7. HandlerHasTimer'
    BY <1>3, GreenletsAssumption
    DEF IInv, ScheduleInv, LockInv, HandlerHasTimer, Holds, InScript, InCall
<1> QED BY <1>1, <1>2, <1>5, <1>6, <1>7 DEF ScheduleInv, LockInv

\* A command starts the work handler; the handler itself cannot.
LEMMA ResumeKeeps ==
    ASSUME NEW g \in Greenlets,
           IInv, Holds(g), script[g] # <<>>, ~workTimer,
           DoResume(g)
    PROVE  ScheduleInv'
<1>1. g # Sd
    BY DEF IInv, ScheduleInv, LockInv, HandlerHasTimer, Holds, InScript, InCall
<1>2. SchedTypeOK'
    BY GreenletsAssumption
    DEF IInv, ScheduleInv, SchedTypeOK, DoResume, PcValues, loopVars
<1>3. LoopTypeOK'
    BY DEF IInv, ScheduleInv, LoopTypeOK, MutexTypeOK, DoResume, loopVars,
           mutexVars, workVars
<1>4. /\ pc'[g] = "run"
      /\ pc'[Sd] = "start"
      /\ \A h \in Greenlets \ {g, Sd} : pc'[h] = pc[h]
      /\ \A h \in Greenlets \ {g} : script'[h] = script[h]
      /\ after' = after
    BY <1>1, GreenletsAssumption
    DEF IInv, ScheduleInv, SchedTypeOK, DoResume
<1>5. /\ Holds(g)' /\ ~Holds(Sd)' /\ ~Holds(Sd)
      /\ \A h \in Greenlets \ {g, Sd} : Holds(h)' <=> Holds(h)
    BY <1>1, <1>4, GreenletsAssumption
    DEF IInv, ScheduleInv, LockInv, LockConsistent, Holds, InScript, InCall
<1>6. LockConsistent'
    BY <1>5 DEF IInv, ScheduleInv, LoopTypeOK, MutexTypeOK, LockInv,
                LockConsistent, DoResume, loopVars, mutexVars
<1>7. ScriptAtHand'
    BY <1>4 DEF IInv, ScheduleInv, LockInv, ScriptAtHand, AtHand, InScript
<1>8. HandlerHasTimer'
    BY DEF DoResume, HandlerHasTimer
<1> QED BY <1>2, <1>3, <1>6, <1>7, <1>8 DEF ScheduleInv, LockInv

\* A command or a call goes on at another place, or waits there.
LEMMA GoesOn ==
    ASSUME NEW g \in Greenlets, NEW label \in PcValues,
           IInv, pc[g] # "idle",
           Goto(g, label) \/ Suspend(g, label),
           UNCHANGED loopVars, workTimer' = workTimer,
           Holds(g)' <=> Holds(g), AtHand(g)'
    PROVE  ScheduleInv'
<1>1. SchedTypeOK'
    BY DEF IInv, ScheduleInv, SchedTypeOK, Goto, Suspend
<1>2. LoopTypeOK'
    BY DEF IInv, ScheduleInv, LoopTypeOK, MutexTypeOK, loopVars, mutexVars,
           workVars
<1>3. HandlerHasTimer'
    BY GreenletsAssumption
    DEF IInv, ScheduleInv, LockInv, SchedTypeOK, HandlerHasTimer, Goto, Suspend
<1>4. LockInv'
    BY <1>3, OneMoves
    DEF IInv, ScheduleInv, SchedTypeOK, Goto, Suspend, loopVars
<1> QED BY <1>1, <1>2, <1>4 DEF ScheduleInv

\* A command or a call enters do_pause.
LEMMA PauseKeeps ==
    ASSUME NEW g \in Greenlets, NEW label \in {"paused", "close", "reset", "m25"},
           IInv, DoPause(g, label),
           pc[g] \in {"run", "sendpause"},
           label \in {"reset", "m25"} \/ pc[g] = "run" => script[g] # <<>>
    PROVE  ScheduleInv'
<1>1. SchedTypeOK'
    BY DEF IInv, ScheduleInv, SchedTypeOK, DoPause, PcValues
<1>2. LoopTypeOK'
    BY DEF IInv, ScheduleInv, LoopTypeOK, MutexTypeOK, DoPause, loopVars,
           mutexVars, workVars
<1>3. /\ pc'[g] = "wait" /\ after'[g] = label /\ script' = script
      /\ HandlerHasTimer'
    BY GreenletsAssumption
    DEF IInv, ScheduleInv, LockInv, SchedTypeOK, HandlerHasTimer, DoPause
<1>4. (Holds(g)' <=> Holds(g)) /\ AtHand(g)'
    BY <1>3 DEF Holds, AtHand, InScript, InCall
<1>5. LockInv'
    BY <1>3, <1>4, OneMoves
    DEF IInv, ScheduleInv, SchedTypeOK, DoPause, loopVars
<1> QED BY <1>1, <1>2, <1>5 DEF ScheduleInv

\* A greenlet about to carry out a command (the loop of _process_commands)
\* holds the gcode mutex and has that command at the head of its script.
LEMMA AtCommand ==
    ASSUME NEW g \in Greenlets, NEW cmd, Command(g, cmd)
    PROVE  pc[g] = "run" /\ Holds(g) /\ script[g] # <<>>
BY DEF Command, At, Holds, InScript

\* A step that leaves the data alone keeps its types.
LEMMA DataKept ==
    ASSUME IInv, UNCHANGED dataVars
    PROVE  DataTypeOK' /\ workTimer' = workTimer
BY DEF IInv, DataTypeOK, StatsTypeOK, dataVars, jobVars, printVars, fileVars,
       plrVars, statsVars, pauseVars, sysVars

-----------------------------------------------------------------------------
(* Every step keeps IInv.                                                  *)

\* Scripts: taking the mutex, their end, refused commands, macros and the
\* commands of other modules (gcode.py, gcode_macro.cfg) keep IInv.
LEMMA ScriptStepsKeep ==
    ASSUME NEW g \in Greenlets, IInv,
           \/ RunScript(g) \/ MutexGranted(g) \/ ScriptEnd(g)
           \/ CommandRefused(g) \/ Macro(g) \/ Move(g) \/ MoveEnd(g)
    PROVE  IInv'
<1>1. CASE RunScript(g)
  <2>1. DataTypeOK' /\ workTimer' = workTimer
      BY <1>1, DataKept DEF RunScript
  <2>2. pc[g] = "enter" /\ ~Holds(g)
      BY <1>1 DEF RunScript, At, Holds, InScript, InCall
  <2>3. CASE EnterFree /\ pc' = [pc EXCEPT ![g] = "run"]
             /\ aborted' = [aborted EXCEPT ![g] = FALSE] /\ running' = g
    <3>1. SchedTypeOK' /\ LoopTypeOK'
        BY <1>1, <2>3
        DEF IInv, ScheduleInv, SchedTypeOK, LoopTypeOK, MutexTypeOK, RunScript,
            EnterFree, workVars, PcValues
    <3>2. Holds(g)' /\ \A h \in Greenlets \ {g} : ~Holds(h) /\ ~Holds(h)'
        BY <1>1, <2>3
        DEF IInv, ScheduleInv, SchedTypeOK, LockInv, LockConsistent, RunScript,
            EnterFree, Holds, InScript, InCall
    <3>3. LockConsistent'
        BY <2>3, <3>2 DEF IInv, ScheduleInv, LoopTypeOK, MutexTypeOK, LockInv,
                          LockConsistent, EnterFree
    <3>4. ScriptAtHand' /\ HandlerHasTimer'
        BY <1>1, <2>1, <2>2, <2>3, GreenletsAssumption
        DEF IInv, ScheduleInv, SchedTypeOK, LockInv, ScriptAtHand, AtHand,
            HandlerHasTimer, RunScript, InScript
    <3> QED BY <2>1, <3>1, <3>3, <3>4 DEF IInv, ScheduleInv, LockInv
  <2>4. CASE EnterQueue(g) /\ pc' = [pc EXCEPT ![g] = "queued"]
             /\ running' = NoOne /\ UNCHANGED aborted
    <3>1. SchedTypeOK' /\ LoopTypeOK'
        BY <1>1, <2>4
        DEF IInv, ScheduleInv, SchedTypeOK, LoopTypeOK, MutexTypeOK, RunScript,
            EnterQueue, workVars, PcValues
    <3>2. \A h \in Greenlets : Holds(h)' <=> Holds(h)
        BY <1>1, <2>2, <2>4
        DEF IInv, ScheduleInv, SchedTypeOK, RunScript, Holds, InScript, InCall
    <3>3. LockConsistent'
        BY <2>4, <3>2 DEF IInv, ScheduleInv, LoopTypeOK, MutexTypeOK, LockInv,
                          LockConsistent, EnterQueue
    <3>4. ScriptAtHand' /\ HandlerHasTimer'
        BY <1>1, <2>1, <2>2, <2>4, GreenletsAssumption
        DEF IInv, ScheduleInv, SchedTypeOK, LockInv, ScriptAtHand, AtHand,
            HandlerHasTimer, RunScript, InScript
    <3> QED BY <2>1, <3>1, <3>3, <3>4 DEF IInv, ScheduleInv, LockInv
  <2> QED BY <1>1, <2>3, <2>4 DEF RunScript
<1>2. CASE MutexGranted(g)
  <2>1. DataTypeOK' /\ workTimer' = workTimer
      BY <1>2, DataKept DEF MutexGranted
  <2>2. pc[g] = "queued" /\ ~Holds(g)
      BY <1>2 DEF MutexGranted, At, Holds, InScript, InCall
  <2>3. SchedTypeOK' /\ LoopTypeOK'
    <3>1. SchedTypeOK'
        BY <1>2 DEF IInv, ScheduleInv, SchedTypeOK, MutexGranted, PcValues
    <3>2. Tail(queue) \in Seq(Greenlets)
        BY <1>2 DEF IInv, ScheduleInv, LoopTypeOK, MutexTypeOK, MutexGranted,
                    EnterWake
    <3>3. LoopTypeOK'
        BY <1>2, <3>2
        DEF IInv, ScheduleInv, LoopTypeOK, MutexTypeOK, MutexGranted, EnterWake,
            workVars
    <3> QED BY <3>1, <3>3
  <2>4. Holds(g)' /\ \A h \in Greenlets \ {g} : ~Holds(h) /\ ~Holds(h)'
      BY <1>2
      DEF IInv, ScheduleInv, SchedTypeOK, LockInv, LockConsistent, MutexGranted,
          EnterWake, Holds, InScript, InCall
  <2>5. LockConsistent'
      BY <1>2, <2>4
      DEF IInv, ScheduleInv, LoopTypeOK, MutexTypeOK, LockInv, LockConsistent,
          MutexGranted, EnterWake
  <2>6. ScriptAtHand' /\ HandlerHasTimer'
      BY <1>2, <2>1, <2>2, GreenletsAssumption
      DEF IInv, ScheduleInv, SchedTypeOK, LockInv, ScriptAtHand, AtHand,
          HandlerHasTimer, MutexGranted, InScript
  <2> QED BY <2>1, <2>3, <2>5, <2>6 DEF IInv, ScheduleInv, LockInv
<1>3. CASE ScriptEnd(g)
    BY <1>3, DataKept, LeaveKeeps DEF ScriptEnd, At, Holds, InScript, IInv
<1>4. CASE CommandRefused(g)
    BY <1>4, DataKept, LeaveKeeps
    DEF CommandRefused, CommandError, At, Holds, InScript, IInv
<1>5. CASE Macro(g)
  <2>1. PICK cmd \in {"PAUSE", "RESUME", "CANCEL_PRINT"} :
            /\ Command(g, cmd)
            /\ script' = [script EXCEPT ![g] =
                             Body(cmd, isPaused) \o Tail(script[g])]
      BY <1>5 DEF Macro
  <2>2. pc[g] = "run" /\ Holds(g) /\ script[g] # <<>>
      BY <2>1, AtCommand
  <2>3. Body(cmd, isPaused) \in Seq(Commands)
    <3>1. /\ <<>> \in Seq(Commands)
          /\ <<"BASE_PAUSE", "MOVE">> \in Seq(Commands)
          /\ <<"MOVE", "BASE_RESUME">> \in Seq(Commands)
          /\ <<"MOVE", "BASE_CANCEL_PRINT", "MOVE">> \in Seq(Commands)
        BY DEF Commands
    <3>2. CASE cmd = "PAUSE"
        BY <3>1, <3>2 DEF Body
    <3>3. CASE cmd = "RESUME"
        BY <3>1, <3>3 DEF Body
    <3>4. CASE cmd = "CANCEL_PRINT"
        BY <3>1, <3>4 DEF Body
    <3> QED BY <3>2, <3>3, <3>4
  <2>4. Body(cmd, isPaused) \o Tail(script[g]) \in Seq(Commands)
      BY <2>2, <2>3 DEF IInv, ScheduleInv, SchedTypeOK
  <2>5. DataTypeOK' /\ workTimer' = workTimer
      BY <1>5, DataKept DEF Macro
  <2>6. SchedTypeOK' /\ LoopTypeOK'
      BY <1>5, <2>1, <2>4
      DEF IInv, ScheduleInv, SchedTypeOK, LoopTypeOK, MutexTypeOK, Macro,
          loopVars, mutexVars, workVars
  <2>7. Holds(g)' /\ AtHand(g)' /\ HandlerHasTimer'
      BY <1>5, <2>2, <2>5
      DEF IInv, ScheduleInv, LockInv, HandlerHasTimer, Macro, Holds, AtHand,
          InScript
  <2>8. LockInv'
      BY <1>5, <2>1, <2>2, <2>7, OneMoves
      DEF IInv, ScheduleInv, SchedTypeOK, Macro, loopVars
  <2> QED BY <2>5, <2>6, <2>8 DEF IInv, ScheduleInv
<1>6. CASE Move(g)
  <2>1. DataTypeOK' /\ workTimer' = workTimer
      BY <1>6, DataKept DEF Move
  <2>2. pc[g] = "run" /\ Holds(g) /\ script[g] # <<>>
      BY <1>6, AtCommand DEF Move
  <2>3. CASE CommandDone(g)
      BY <2>1, <2>2, <2>3, DoneKeeps DEF IInv
  <2>4. CASE CommandError(g)
      BY <2>1, <2>2, <2>4, LeaveKeeps DEF IInv, CommandError
  <2>5. CASE Suspend(g, "busy") /\ UNCHANGED loopVars
    <3>1. Holds(g)' /\ AtHand(g)' /\ "busy" \in PcValues
        BY <2>2, <2>5
        DEF IInv, ScheduleInv, SchedTypeOK, Suspend, Holds, AtHand, InScript,
            PcValues
    <3> QED BY <2>1, <2>2, <2>5, <3>1, GoesOn DEF IInv
  <2> QED BY <1>6, <2>3, <2>4, <2>5 DEF Move
<1>7. CASE MoveEnd(g)
  <2>1. DataTypeOK' /\ workTimer' = workTimer
      BY <1>7, DataKept DEF MoveEnd
  <2>2. Holds(g) /\ script[g] # <<>>
      BY <1>7 DEF MoveEnd, At, Holds, InScript, IInv, ScheduleInv, LockInv,
                  ScriptAtHand, AtHand
  <2>3. CASE CommandDone(g)
      BY <2>1, <2>2, <2>3, DoneKeeps DEF IInv
  <2>4. CASE CommandError(g)
      BY <2>1, <2>2, <2>4, LeaveKeeps DEF IInv, CommandError
  <2> QED BY <1>7, <2>3, <2>4 DEF MoveEnd
<1> QED BY <1>1, <1>2, <1>3, <1>4, <1>5, <1>6, <1>7

\* A greenlet in the middle of a command holds the gcode mutex.
LEMMA InCommand ==
    ASSUME NEW g \in Greenlets, IInv, pc[g] \in InScript \ {"run"}
    PROVE  Holds(g) /\ script[g] # <<>>
BY DEF Holds, IInv, ScheduleInv, LockInv, ScriptAtHand, AtHand

\* The commands of virtual_sdcard.py that load no file, and the end of a
\* loop (sdcard_loop.py), keep IInv.
LEMMA CardStepsKeep ==
    ASSUME NEW g \in Greenlets, IInv,
           \/ SdcardResetFile(g) \/ ResetClose(g) \/ CloseNone(g)
           \/ M24(g) \/ M9925(g) \/ M25Return(g) \/ M26(g) \/ SdcardLoopEnd(g)
    PROVE  IInv'
<1>1. CASE SdcardResetFile(g)
  <2>1. pc[g] = "run" /\ Holds(g) /\ script[g] # <<>>
      BY <1>1, AtCommand DEF SdcardResetFile
  <2>2. CASE CommandError(g) /\ UNCHANGED <<jobVars, fileVars, statsVars>>
    <3>1. DataTypeOK' /\ workTimer' = workTimer
        BY <1>1, <2>2, DataKept DEF SdcardResetFile, dataVars, printVars
    <3> QED BY <2>1, <2>2, <3>1, LeaveKeeps DEF IInv, CommandError
  <2>3. CASE DoPause(g, "reset") /\ UNCHANGED <<fileVars, statsVars>>
    <3>1. DataTypeOK'
        BY <1>1, <2>3
        DEF IInv, DataTypeOK, StatsTypeOK, SdcardResetFile, DoPause, AskToPause,
            fileVars, statsVars, plrVars, pauseVars, sysVars
    <3> QED BY <2>1, <2>3, <3>1, PauseKeeps DEF IInv
  <2>4. CASE /\ filePosition' = 0 /\ StatsReset /\ CommandDone(g)
             /\ UNCHANGED <<currentFile, jobVars>>
    <3>1. DataTypeOK' /\ workTimer' = workTimer
        BY <1>1, <2>4
        DEF IInv, DataTypeOK, StatsTypeOK, SdcardResetFile, StatsReset, JobStates,
            jobVars, plrVars, pauseVars, sysVars
    <3> QED BY <2>1, <2>4, <3>1, DoneKeeps DEF IInv
  <2> QED BY <1>1, <2>2, <2>3, <2>4 DEF SdcardResetFile
<1>2. CASE ResetClose(g)
  <2>1. Holds(g) /\ script[g] # <<>>
      BY <1>2, InCommand DEF ResetClose, At, InScript
  <2>2. DataTypeOK' /\ workTimer' = workTimer
      BY <1>2
      DEF IInv, DataTypeOK, StatsTypeOK, ResetClose, StatsReset, JobStates,
          jobVars, plrVars, pauseVars, sysVars
  <2> QED BY <1>2, <2>1, <2>2, DoneKeeps DEF ResetClose, IInv
<1>3. CASE CloseNone(g)
  <2>1. DataTypeOK' /\ workTimer' = workTimer
      BY <1>3
      DEF IInv, DataTypeOK, StatsTypeOK, CloseNone, AskToPause, printVars,
          fileVars, plrVars, statsVars, pauseVars
  <2>2. CASE script[g] = <<>>
    <3>1. pc[g] = "close" /\ ~Holds(g)
        BY <1>3, <2>2
        DEF IInv, ScheduleInv, LockInv, ScriptAtHand, AtHand, CloseNone, At, Holds,
            InScript
    <3>2. Suspend(g, "idle") /\ UNCHANGED loopVars
        BY <1>3, <2>2 DEF CloseNone
    <3>3. ~Holds(g)' /\ AtHand(g)' /\ "idle" \in PcValues
        BY <2>2, <3>2
        DEF IInv, ScheduleInv, SchedTypeOK, Suspend, Holds, AtHand, InScript,
            InCall, PcValues
    <3> QED BY <2>1, <3>1, <3>2, <3>3, GoesOn DEF IInv
  <2>3. CASE script[g] # <<>>
    <3>1. Holds(g)
        BY <1>3, <2>3 DEF CloseNone, At, Holds, InScript, InCall
    <3> QED BY <1>3, <2>1, <2>3, <3>1, LeaveKeeps DEF CloseNone, CommandCrash, IInv
  <2> QED BY <2>2, <2>3
<1>4. CASE M24(g)
  <2>1. pc[g] = "run" /\ Holds(g) /\ script[g] # <<>>
      BY <1>4, AtCommand DEF M24
  <2>2. CASE workTimer
    <3>1. DataTypeOK' /\ workTimer' = workTimer
        BY <1>4, <2>2, DataKept DEF M24, dataVars
    <3> QED BY <1>4, <2>1, <2>2, <3>1, LeaveKeeps DEF M24, IInv, CommandError
  <2>3. CASE ~workTimer
    <3>1. DataTypeOK'
        BY <1>4, <2>3
        DEF IInv, DataTypeOK, StatsTypeOK, M24, DoResume, printVars, fileVars,
            plrVars, statsVars, pauseVars, sysVars
    <3> QED BY <1>4, <2>1, <2>3, <3>1, ResumeKeeps DEF M24, IInv
  <2> QED BY <2>2, <2>3
<1>5. CASE M9925(g)
  <2>1. pc[g] = "run" /\ script[g] # <<>>
      BY <1>5, AtCommand DEF M9925
  <2>2. DataTypeOK'
      BY <1>5
      DEF IInv, DataTypeOK, StatsTypeOK, M9925, DoPause, AskToPause, printVars,
          fileVars, plrVars, statsVars, pauseVars, sysVars
  <2> QED BY <1>5, <2>1, <2>2, PauseKeeps DEF M9925, IInv
<1>6. CASE M25Return(g)
  <2>1. Holds(g) /\ script[g] # <<>>
      BY <1>6, InCommand DEF M25Return, At, InScript
  <2> QED BY <1>6, <2>1, DataKept, DoneKeeps DEF M25Return, IInv
<1>7. CASE M26(g)
  <2>1. pc[g] = "run" /\ Holds(g) /\ script[g] # <<>>
      BY <1>7, AtCommand DEF M26
  <2>2. DataTypeOK' /\ workTimer' = workTimer
    <3>1. filePosition' \in Nat
        BY <1>7, FilesAssumption DEF M26, SeekPositions, IInv, DataTypeOK
    <3> QED BY <1>7, <3>1
        DEF IInv, DataTypeOK, StatsTypeOK, M26, jobVars, plrVars, statsVars,
            pauseVars, sysVars
  <2> QED BY <1>7, <2>1, <2>2, DoneKeeps, LeaveKeeps DEF M26, IInv, CommandError
<1>8. CASE SdcardLoopEnd(g)
  <2>1. pc[g] = "run" /\ Holds(g) /\ script[g] # <<>>
      BY <1>8, AtCommand DEF SdcardLoopEnd
  <2>2. DataTypeOK' /\ workTimer' = workTimer
      BY <1>8, DataKept DEF SdcardLoopEnd
  <2>3. CASE CommandDone(g) \/ CommandError(g)
      BY <2>1, <2>2, <2>3, DoneKeeps, LeaveKeeps DEF IInv, CommandError
  <2>4. CASE /\ nextFilePosition' \in 0..filePosition \cup SeekPositions
             /\ script' = [script EXCEPT ![g] = Tail(script[g])]
             /\ UNCHANGED <<running, pc, aborted, after, mutexVars, lines,
                            readPos, lineEnd, sdError>>
    <3>1. SchedTypeOK'
        BY <2>1, <2>4 DEF IInv, ScheduleInv, SchedTypeOK
    <3>2. LoopTypeOK'
      <4>1. nextFilePosition' \in Nat
          BY <2>4, FilesAssumption DEF SeekPositions, IInv, DataTypeOK
      <4> QED BY <2>4, <4>1
          DEF IInv, ScheduleInv, LoopTypeOK, MutexTypeOK, mutexVars
    <3>3. Holds(g)' /\ AtHand(g)' /\ HandlerHasTimer'
        BY <2>1, <2>2, <2>4
        DEF IInv, ScheduleInv, LockInv, HandlerHasTimer, Holds, AtHand, InScript
    <3>4. LockInv'
        BY <2>1, <2>4, <3>3, OneMoves DEF IInv, ScheduleInv, SchedTypeOK
    <3> QED BY <2>2, <3>1, <3>2, <3>4 DEF IInv, ScheduleInv
  <2> QED BY <1>8, <2>3, <2>4 DEF SdcardLoopEnd
<1> QED BY <1>1, <1>2, <1>3, <1>4, <1>5, <1>6, <1>7, <1>8

\* The commands that load a file (_load_file) keep IInv.
LEMMA LoadStepsKeep ==
    ASSUME NEW g \in Greenlets, NEW cmd \in LoadCommands, IInv,
           \/ LoadRefused(g, cmd) \/ LoadFailed(g, cmd) \/ LoadNothing(g, cmd)
           \/ LoadFile(g, cmd) \/ Extracted(g) \/ Loaded(g)
    PROVE  IInv'
<1>1. CASE LoadRefused(g, cmd)
  <2>1. Holds(g)
      BY <1>1, AtCommand DEF LoadRefused
  <2> QED BY <1>1, <2>1, DataKept, LeaveKeeps DEF LoadRefused, CommandError, IInv
<1>2. CASE LoadFailed(g, cmd)
  <2>1. Holds(g)
      BY <1>2, AtCommand DEF LoadFailed
  <2>2. DataTypeOK' /\ workTimer' = workTimer
      BY <1>2
      DEF IInv, DataTypeOK, StatsTypeOK, LoadFailed, StatsReset, JobStates,
          Continues, jobVars, pauseVars, sysVars
  <2> QED BY <1>2, <2>1, <2>2, LeaveKeeps DEF LoadFailed, CommandError, IInv
<1>3. CASE LoadNothing(g, cmd)
  <2>1. Holds(g)
      BY <1>3, AtCommand DEF LoadNothing
  <2>2. DataTypeOK' /\ workTimer' = workTimer
      BY <1>3
      DEF IInv, DataTypeOK, StatsTypeOK, LoadNothing, StatsReset, JobStates,
          jobVars, pauseVars
  <2> QED BY <1>3, <2>1, <2>2, LeaveKeeps DEF LoadNothing, CommandCrash, IInv
<1>4. CASE LoadFile(g, cmd)
  <2>1. pc[g] = "run" /\ Holds(g) /\ script[g] # <<>>
      BY <1>4, AtCommand DEF LoadFile
  <2>2. DataTypeOK' /\ workTimer' = workTimer
      BY <1>4
      DEF IInv, DataTypeOK, StatsTypeOK, LoadFile, StatsReset, NoteExtracting,
          JobStates, Continues, jobVars, pauseVars, sysVars
  <2>3. PICK label \in {"extract", "scan"} : Suspend(g, label)
      BY <1>4 DEF LoadFile
  <2>4. Holds(g)' /\ AtHand(g)' /\ label \in PcValues
      BY <2>1, <2>3
      DEF IInv, ScheduleInv, SchedTypeOK, Suspend, Holds, AtHand, InScript,
          PcValues
  <2> QED BY <1>4, <2>1, <2>2, <2>3, <2>4, GoesOn DEF LoadFile, IInv
<1>5. CASE Extracted(g)
  <2>1. pc[g] = "extract" /\ Holds(g) /\ script[g] # <<>>
      BY <1>5, InCommand DEF Extracted, At, InScript
  <2>2. CASE /\ currentFile' \in Archives
             /\ filePosition' = 0
             /\ plrJob' = Continues(Head(script[g]))
             /\ pc' = [pc EXCEPT ![g] = "scan"]
             /\ UNCHANGED <<running, script, aborted, after, loopVars, statsVars>>
    <3>1. DataTypeOK' /\ workTimer' = workTimer
        BY <1>5, <2>2, FilesAssumption
        DEF IInv, DataTypeOK, StatsTypeOK, Extracted, Continues, jobVars,
            statsVars, pauseVars, sysVars
    <3>2. Goto(g, "scan") /\ UNCHANGED loopVars
        BY <2>2 DEF Goto
    <3>3. Holds(g)' /\ AtHand(g)' /\ "scan" \in PcValues
        BY <2>1, <2>2
        DEF IInv, ScheduleInv, SchedTypeOK, Holds, AtHand, InScript, PcValues
    <3> QED BY <2>1, <3>1, <3>2, <3>3, GoesOn DEF IInv
  <2>3. CASE StatsReset /\ CommandError(g) /\ UNCHANGED <<fileVars, plrJob>>
    <3>1. DataTypeOK' /\ workTimer' = workTimer
        BY <1>5, <2>3
        DEF IInv, DataTypeOK, StatsTypeOK, Extracted, StatsReset, JobStates,
            jobVars, fileVars, pauseVars, sysVars
    <3> QED BY <2>1, <2>3, <3>1, LeaveKeeps DEF CommandError, IInv
  <2> QED BY <1>5, <2>2, <2>3 DEF Extracted
<1>6. CASE Loaded(g)
  <2>1. pc[g] = "scan" /\ Holds(g) /\ script[g] # <<>>
      BY <1>6, InCommand DEF Loaded, At, InScript
  <2>2. CASE UNCHANGED <<jobVars, filePosition>> /\ (CommandDone(g) \/ CommandError(g))
    <3>1. DataTypeOK' /\ workTimer' = workTimer
        BY <1>6, <2>2
        DEF IInv, DataTypeOK, StatsTypeOK, Loaded, StatsReset, JobStates, jobVars,
            plrVars, pauseVars, sysVars
    <3> QED BY <2>1, <2>2, <3>1, DoneKeeps, LeaveKeeps DEF CommandError, IInv
  <2>3. CASE /\ ~workTimer
             /\ DoResume(g)
             /\ UNCHANGED filePosition \/ filePosition' \in 0..MaxPosition
    <3>1. filePosition' \in Nat
        BY <2>3, FilesAssumption DEF IInv, DataTypeOK
    <3>2. DataTypeOK'
        BY <1>6, <2>3, <3>1
        DEF IInv, DataTypeOK, StatsTypeOK, Loaded, StatsReset, JobStates,
            DoResume, plrVars, pauseVars, sysVars
    <3> QED BY <2>1, <2>3, <3>2, ResumeKeeps DEF IInv
  <2> QED BY <1>6, <2>2, <2>3 DEF Loaded
<1> QED BY <1>1, <1>2, <1>3, <1>4, <1>5, <1>6

\* The commands of pause_resume.py keep IInv.
LEMMA PauseResumeStepsKeep ==
    ASSUME NEW g \in Greenlets, IInv,
           \/ BasePause(g) \/ BasePauseEnd(g) \/ BaseResume(g) \/ RestoreEnd(g)
           \/ SendResumeCommand(g) \/ ClearPause(g) \/ BaseCancelPrint(g)
           \/ SendPauseCommand(g) \/ PauseCommandSent(g)
    PROVE  IInv'
<1>1. CASE BasePause(g)
  <2>1. pc[g] = "run" /\ Holds(g) /\ script[g] # <<>>
      BY <1>1, AtCommand DEF BasePause
  <2>2. DataTypeOK' /\ workTimer' = workTimer
      BY <1>1, DataKept DEF BasePause
  <2>3. CASE CommandDone(g)
      BY <2>1, <2>2, <2>3, DoneKeeps DEF IInv
  <2>4. CASE Goto(g, "sendpause") /\ UNCHANGED loopVars
    <3>1. Holds(g)' /\ AtHand(g)' /\ "sendpause" \in PcValues
        BY <2>1, <2>4
        DEF IInv, ScheduleInv, SchedTypeOK, Goto, Holds, AtHand, InScript, InCall,
            PcValues
    <3> QED BY <2>1, <2>2, <2>4, <3>1, GoesOn DEF IInv
  <2> QED BY <1>1, <2>3, <2>4 DEF BasePause
<1>2. CASE BasePauseEnd(g)
  <2>1. Holds(g) /\ script[g] # <<>>
      BY <1>2 DEF BasePauseEnd, At, Holds, InCall
  <2>2. DataTypeOK' /\ workTimer' = workTimer
      BY <1>2
      DEF IInv, DataTypeOK, StatsTypeOK, BasePauseEnd, jobVars, printVars,
          fileVars, plrVars, statsVars, sysVars
  <2> QED BY <1>2, <2>1, <2>2, DoneKeeps DEF BasePauseEnd, IInv
<1>3. CASE BaseResume(g)
  <2>1. pc[g] = "run" /\ Holds(g) /\ script[g] # <<>>
      BY <1>3, AtCommand DEF BaseResume
  <2>2. DataTypeOK' /\ workTimer' = workTimer
      BY <1>3, DataKept DEF BaseResume
  <2>3. CASE CommandDone(g) \/ CommandError(g)
      BY <2>1, <2>2, <2>3, DoneKeeps, LeaveKeeps DEF CommandError, IInv
  <2>4. CASE (Goto(g, "restored") \/ Suspend(g, "restore")) /\ UNCHANGED loopVars
    <3>1. PICK label \in {"restored", "restore"} : Goto(g, label) \/ Suspend(g, label)
        BY <2>4
    <3>2. Holds(g)' /\ AtHand(g)' /\ label \in PcValues
        BY <2>1, <3>1
        DEF IInv, ScheduleInv, SchedTypeOK, Goto, Suspend, Holds, AtHand, InScript,
            PcValues
    <3> QED BY <2>1, <2>2, <2>4, <3>1, <3>2, GoesOn DEF IInv
  <2> QED BY <1>3, <2>3, <2>4 DEF BaseResume
<1>4. CASE RestoreEnd(g)
  <2>1. pc[g] = "restore" /\ Holds(g) /\ script[g] # <<>>
      BY <1>4, InCommand DEF RestoreEnd, At, InScript
  <2>2. DataTypeOK' /\ workTimer' = workTimer
      BY <1>4, DataKept DEF RestoreEnd
  <2>3. CASE CommandError(g)
      BY <2>1, <2>2, <2>3, LeaveKeeps DEF CommandError, IInv
  <2>4. CASE /\ running' = g
             /\ pc' = [pc EXCEPT ![g] = "restored"]
             /\ UNCHANGED <<script, aborted, after, loopVars>>
    <3>1. SchedTypeOK'
        BY <2>4 DEF IInv, ScheduleInv, SchedTypeOK, PcValues
    <3>2. LoopTypeOK'
        BY <2>4 DEF IInv, ScheduleInv, LoopTypeOK, MutexTypeOK, loopVars,
                    mutexVars, workVars
    <3>3. Holds(g)' /\ AtHand(g)' /\ HandlerHasTimer'
        BY <2>1, <2>2, <2>4, GreenletsAssumption
        DEF IInv, ScheduleInv, SchedTypeOK, LockInv, HandlerHasTimer, Holds,
            AtHand, InScript
    <3>4. LockInv'
        BY <2>1, <2>4, <3>3, OneMoves
        DEF IInv, ScheduleInv, SchedTypeOK, loopVars
    <3> QED BY <2>2, <3>1, <3>2, <3>4 DEF IInv, ScheduleInv
  <2> QED BY <1>4, <2>3, <2>4 DEF RestoreEnd
<1>5. CASE SendResumeCommand(g)
  <2>1. Holds(g) /\ script[g] # <<>>
      BY <1>5, InCommand DEF SendResumeCommand, At, InScript
  <2>2. DataTypeOK'
      BY <1>5
      DEF IInv, DataTypeOK, StatsTypeOK, SendResumeCommand, DoResume, jobVars,
          printVars, fileVars, plrVars, statsVars, pauseVars, sysVars
  <2>3. CASE (CommandDone(g) \/ CommandError(g)) /\ UNCHANGED jobVars
      BY <2>1, <2>2, <2>3, DoneKeeps, LeaveKeeps DEF CommandError, IInv, jobVars
  <2>4. CASE DoResume(g) /\ ~workTimer
      BY <2>1, <2>2, <2>4, ResumeKeeps DEF IInv
  <2> QED BY <1>5, <2>3, <2>4 DEF SendResumeCommand
<1>6. CASE ClearPause(g)
  <2>1. Holds(g) /\ script[g] # <<>>
      BY <1>6, AtCommand DEF ClearPause
  <2>2. DataTypeOK' /\ workTimer' = workTimer
      BY <1>6
      DEF IInv, DataTypeOK, StatsTypeOK, ClearPause, PauseCleared, jobVars,
          printVars, fileVars, plrVars, statsVars, sysVars
  <2> QED BY <1>6, <2>1, <2>2, DoneKeeps DEF ClearPause, IInv
<1>7. CASE BaseCancelPrint(g)
  <2>1. pc[g] = "run" /\ Holds(g) /\ script[g] # <<>>
      BY <1>7, AtCommand DEF BaseCancelPrint
  <2>2. DataTypeOK' /\ workTimer' = workTimer
      BY <1>7
      DEF IInv, DataTypeOK, StatsTypeOK, BaseCancelPrint, PauseCleared, jobVars,
          printVars, fileVars, plrVars, statsVars, pauseVars, sysVars
  <2>3. CASE CommandDone(g)
      BY <2>1, <2>2, <2>3, DoneKeeps DEF IInv
  <2>4. CASE Goto(g, "cancel") /\ UNCHANGED loopVars
    <3>1. Holds(g)' /\ AtHand(g)' /\ "cancel" \in PcValues
        BY <2>1, <2>4
        DEF IInv, ScheduleInv, SchedTypeOK, Goto, Holds, AtHand, InScript, InCall,
            PcValues
    <3> QED BY <2>1, <2>2, <2>4, <3>1, GoesOn DEF IInv
  <2> QED BY <1>7, <2>3, <2>4 DEF BaseCancelPrint
<1>8. CASE SendPauseCommand(g)
  <2>1. pc[g] = "sendpause" /\ (Holds(g) <=> script[g] # <<>>)
      BY <1>8 DEF SendPauseCommand, At, Holds, InScript, InCall
  <2>2. DataTypeOK'
      BY <1>8
      DEF IInv, DataTypeOK, StatsTypeOK, SendPauseCommand, DoPause, AskToPause,
          jobVars, printVars, fileVars, plrVars, statsVars, pauseVars, sysVars
  <2>3. CASE DoPause(g, "paused")
      BY <2>1, <2>2, <2>3, PauseKeeps DEF IInv
  <2>4. CASE Goto(g, "sent") /\ UNCHANGED <<loopVars, jobVars>>
    <3>1. (Holds(g)' <=> Holds(g)) /\ AtHand(g)' /\ "sent" \in PcValues
        BY <2>1, <2>4
        DEF IInv, ScheduleInv, SchedTypeOK, Goto, Holds, AtHand, InScript, InCall,
            PcValues
    <3> QED BY <2>1, <2>2, <2>4, <3>1, GoesOn DEF IInv, jobVars
  <2> QED BY <1>8, <2>3, <2>4 DEF SendPauseCommand
<1>9. CASE PauseCommandSent(g)
  <2>1. pc[g] = "paused" /\ (Holds(g) <=> script[g] # <<>>)
      BY <1>9 DEF PauseCommandSent, At, Holds, InScript, InCall
  <2>2. DataTypeOK' /\ workTimer' = workTimer
      BY <1>9
      DEF IInv, DataTypeOK, StatsTypeOK, PauseCommandSent, jobVars, printVars,
          fileVars, plrVars, statsVars, sysVars
  <2>3. (Holds(g)' <=> Holds(g)) /\ AtHand(g)' /\ "sent" \in PcValues
      BY <1>9, <2>1
      DEF IInv, ScheduleInv, SchedTypeOK, PauseCommandSent, Goto, Holds, AtHand,
          InScript, InCall, PcValues
  <2> QED BY <1>9, <2>1, <2>2, <2>3, GoesOn DEF PauseCommandSent, IInv
<1> QED BY <1>1, <1>2, <1>3, <1>4, <1>5, <1>6, <1>7, <1>8, <1>9

\* The end of do_cancel, in a request or in a command, keeps the schedule.
LEMMA CancelReturnKeeps ==
    ASSUME NEW g \in Greenlets, IInv, pc[g] \in {"close", "nofile"},
           CancelReturn(g), workTimer' = workTimer
    PROVE  ScheduleInv'
<1>1. CASE script[g] = <<>>
  <2>1. <<"CANCEL_PRINT">> \in Seq(Commands)
      BY DEF Commands
  <2>2. SchedTypeOK'
      BY <1>1, <2>1
      DEF IInv, ScheduleInv, SchedTypeOK, CancelReturn, PcValues
  <2>3. LoopTypeOK'
      BY <1>1 DEF IInv, ScheduleInv, LoopTypeOK, MutexTypeOK, CancelReturn,
                  loopVars, mutexVars, workVars
  <2>4. ~Holds(g) /\ ~Holds(g)' /\ AtHand(g)' /\ HandlerHasTimer'
      BY <1>1, GreenletsAssumption
      DEF IInv, ScheduleInv, SchedTypeOK, LockInv, HandlerHasTimer, CancelReturn,
          Holds, AtHand, InScript, InCall
  <2>5. LockInv'
      BY <1>1, <2>4, OneMoves
      DEF IInv, ScheduleInv, SchedTypeOK, CancelReturn, loopVars
  <2> QED BY <2>2, <2>3, <2>5 DEF ScheduleInv
<1>2. CASE script[g] # <<>>
  <2>1. Holds(g)
      BY <1>2 DEF Holds, InCall
  <2> QED BY <1>2, <2>1, DoneKeeps DEF CancelReturn
<1> QED BY <1>1, <1>2

\* The waits in do_pause and the steps of do_cancel keep IInv.
LEMMA CallStepsKeep ==
    ASSUME NEW g \in Greenlets, IInv,
           \/ DoPausePoll(g) \/ DoPauseWake(g)
           \/ DoCancel(g) \/ CancelNoFile(g) \/ CancelClose(g)
    PROVE  IInv'
<1>1. CASE DoPausePoll(g)
  <2>1. DataTypeOK' /\ workTimer' = workTimer
      BY <1>1, DataKept DEF DoPausePoll
  <2>2. pc[g] = "wait" /\ UNCHANGED loopVars
      BY <1>1 DEF DoPausePoll, At
  <2>3. PICK label \in {"wait", after[g]} : Goto(g, label) \/ Suspend(g, label)
      BY <1>1 DEF DoPausePoll
  <2>4. label \in PcValues /\ after[g] \in {"paused", "close", "reset", "m25"}
      BY DEF IInv, ScheduleInv, SchedTypeOK, PcValues
  <2>5. (Holds(g)' <=> Holds(g)) /\ AtHand(g)'
      BY <2>2, <2>3, <2>4
      DEF IInv, ScheduleInv, SchedTypeOK, LockInv, ScriptAtHand, AtHand, Goto,
          Suspend, Holds, InScript, InCall
  <2> QED BY <2>1, <2>2, <2>3, <2>4, <2>5, GoesOn DEF IInv
<1>2. CASE DoPauseWake(g)
  <2>1. DataTypeOK' /\ workTimer' = workTimer
      BY <1>2, DataKept DEF DoPauseWake
  <2>2. SchedTypeOK'
      BY <1>2 DEF IInv, ScheduleInv, SchedTypeOK, DoPauseWake
  <2>3. LoopTypeOK'
      BY <1>2 DEF IInv, ScheduleInv, LoopTypeOK, MutexTypeOK, DoPauseWake,
                  loopVars, mutexVars, workVars
  <2>4. LockInv'
      BY <1>2, <2>1, OneMoves
      DEF IInv, ScheduleInv, LockInv, ScriptAtHand, AtHand, HandlerHasTimer,
          Holds, DoPauseWake, loopVars
  <2> QED BY <2>1, <2>2, <2>3, <2>4 DEF IInv, ScheduleInv
<1>3. CASE DoCancel(g)
  <2>1. DataTypeOK' /\ workTimer' = workTimer
      BY <1>3
      DEF IInv, DataTypeOK, StatsTypeOK, DoCancel, AskToPause, printVars, fileVars,
          plrVars, statsVars, pauseVars, sysVars
  <2>2. PICK label \in {"nofile", "wait"} :
            /\ pc' = [pc EXCEPT ![g] = label]
            /\ IF label = "wait" THEN after' = [after EXCEPT ![g] = "close"]
               ELSE after' = after
      BY <1>3 DEF DoCancel
  <2>3. pc[g] = "cancel" /\ script' = script /\ UNCHANGED loopVars
      BY <1>3 DEF DoCancel, At
  <2>4. SchedTypeOK'
      BY <1>3, <2>2, <2>3 DEF IInv, ScheduleInv, SchedTypeOK, DoCancel, PcValues
  <2>5. LoopTypeOK'
      BY <2>3 DEF IInv, ScheduleInv, LoopTypeOK, MutexTypeOK, loopVars, mutexVars,
                  workVars
  <2>6. (Holds(g)' <=> Holds(g)) /\ AtHand(g)' /\ HandlerHasTimer'
      BY <2>1, <2>2, <2>3, GreenletsAssumption
      DEF IInv, ScheduleInv, SchedTypeOK, LockInv, HandlerHasTimer, Holds, AtHand,
          InScript, InCall
  <2>7. LockInv'
      BY <2>2, <2>3, <2>6, OneMoves
      DEF IInv, ScheduleInv, SchedTypeOK, loopVars
  <2> QED BY <2>1, <2>4, <2>5, <2>7 DEF IInv, ScheduleInv
<1>4. CASE CancelNoFile(g)
  <2>1. pc[g] = "nofile" /\ CancelReturn(g)
      BY <1>4 DEF CancelNoFile, At
  <2>2. DataTypeOK' /\ workTimer' = workTimer
      BY <1>4
      DEF IInv, DataTypeOK, StatsTypeOK, CancelNoFile, CancelReturn, PauseCleared,
          jobVars, plrVars, statsVars, pauseVars, sysVars
  <2> QED BY <2>1, <2>2, CancelReturnKeeps DEF IInv
<1>5. CASE CancelClose(g)
  <2>1. pc[g] = "close" /\ CancelReturn(g)
      BY <1>5 DEF CancelClose, At
  <2>2. DataTypeOK' /\ workTimer' = workTimer
      BY <1>5
      DEF IInv, DataTypeOK, StatsTypeOK, CancelClose, CancelReturn, PauseCleared,
          NoteFinish, JobStates, jobVars, plrVars, pauseVars, sysVars
  <2> QED BY <2>1, <2>2, CancelReturnKeeps DEF IInv
<1> QED BY <1>1, <1>2, <1>3, <1>4, <1>5

\* The work handler goes to another place without touching the mutex.
LEMMA WorkMoves ==
    ASSUME IInv,
           pc[Sd] \in {"start", "plr", "loop", "next", "exit"},
           NEW label \in {"idle", "plr", "loop", "enter", "exit"},
           pc' = [pc EXCEPT ![Sd] = label],
           \A h \in Greenlets \ {Sd} : script'[h] = script[h],
           UNCHANGED <<after, mutexVars>>,
           label # "idle" => workTimer' = workTimer
    PROVE  LockInv'
<1>1. Sd \in Greenlets
    BY GreenletsAssumption
<1>2. pc'[Sd] = label /\ \A h \in Greenlets \ {Sd} : pc'[h] = pc[h]
    BY <1>1 DEF IInv, ScheduleInv, SchedTypeOK
<1>3. ~Holds(Sd) /\ ~Holds(Sd)' /\ AtHand(Sd)'
    BY <1>2 DEF Holds, AtHand, InScript, InCall
<1>4. HandlerHasTimer'
    BY <1>2 DEF IInv, ScheduleInv, LockInv, HandlerHasTimer
<1> QED BY <1>1, <1>2, <1>3, <1>4, OneMoves

\* The steps of work_handler keep IInv.
LEMMA WorkStepKeeps ==
    ASSUME IInv, WorkStep
    PROVE  IInv'
<1>0. Sd \in Greenlets /\ <<>> \in Seq(LineRecords) /\ 0 \in Nat
    BY GreenletsAssumption
<1>1. CASE WorkStart
  <2>1. PICK label \in {"idle", "plr", "loop"} :
            /\ pc' = [pc EXCEPT ![Sd] = label]
            /\ label # "idle" => workTimer' = workTimer
      BY <1>1 DEF WorkStart, WorkAbandon, Suspend, jobVars
  <2>2. pc[Sd] = "start" /\ UNCHANGED <<script, after, aborted, mutexVars>>
      BY <1>1 DEF WorkStart, WorkAbandon, Suspend, At
  <2>3. LockInv'
      BY <2>1, <2>2, WorkMoves
  <2>4. SchedTypeOK'
      BY <1>0, <1>1, <2>1, <2>2
      DEF IInv, ScheduleInv, SchedTypeOK, WorkStart, WorkAbandon, Suspend, PcValues
  <2>5. LoopTypeOK'
    <3>1. CASE currentFile = NoFile
        BY <1>1, <2>2, <3>1
        DEF IInv, ScheduleInv, LoopTypeOK, MutexTypeOK, WorkStart, workVars,
            mutexVars
    <3>2. CASE currentFile # NoFile
        BY <1>0, <1>1, <2>2, <3>2
        DEF IInv, ScheduleInv, LoopTypeOK, DataTypeOK, MutexTypeOK, WorkStart,
            mutexVars
    <3> QED BY <3>1, <3>2
  <2>6. DataTypeOK'
      BY <1>1
      DEF IInv, DataTypeOK, StatsTypeOK, WorkStart, WorkAbandon, NoteStart,
          JobStates, jobVars, fileVars, plrVars, statsVars, pauseVars, sysVars
  <2> QED BY <2>3, <2>4, <2>5, <2>6 DEF IInv, ScheduleInv
<1>2. CASE PowerOffResumeEnd
  <2>1. PICK label \in {"idle", "loop"} :
            /\ pc' = [pc EXCEPT ![Sd] = label]
            /\ label # "idle" => workTimer' = workTimer
      BY <1>2 DEF PowerOffResumeEnd, WorkAbandon, Suspend, jobVars
  <2>2. pc[Sd] = "plr" /\ UNCHANGED <<script, after, aborted, mutexVars>>
      BY <1>2 DEF PowerOffResumeEnd, WorkAbandon, Suspend, At
  <2>3. LockInv'
      BY <2>1, <2>2, WorkMoves
  <2>4. SchedTypeOK'
      BY <1>0, <1>2, <2>1, <2>2
      DEF IInv, ScheduleInv, SchedTypeOK, PowerOffResumeEnd, WorkAbandon, Suspend,
          PcValues
  <2>5. LoopTypeOK'
    <3>1. CASE UNCHANGED workVars
        BY <2>2, <3>1
        DEF IInv, ScheduleInv, LoopTypeOK, MutexTypeOK, workVars, mutexVars
    <3>2. CASE WorkLocalsEnd /\ UNCHANGED <<nextFilePosition, sdError>>
        BY <1>0, <2>2, <3>2
        DEF IInv, ScheduleInv, LoopTypeOK, MutexTypeOK, WorkLocalsEnd, mutexVars
    <3> QED BY <1>2, <3>1, <3>2 DEF PowerOffResumeEnd
  <2>6. DataTypeOK'
      BY <1>2
      DEF IInv, DataTypeOK, StatsTypeOK, PowerOffResumeEnd, WorkAbandon,
          NoteFinish, JobStates, jobVars, fileVars, statsVars, pauseVars, sysVars
  <2> QED BY <2>3, <2>4, <2>5, <2>6 DEF IInv, ScheduleInv
<1>3. CASE WorkRead
  <2>1. PICK label \in {"exit", "loop"} : pc' = [pc EXCEPT ![Sd] = label]
      BY <1>3 DEF WorkRead, Goto, Suspend
  <2>2. /\ pc[Sd] = "loop" /\ workTimer' = workTimer
        /\ UNCHANGED <<script, after, aborted, mutexVars>>
      BY <1>3 DEF WorkRead, AtWorkLoop, Goto, Suspend, At, jobVars
  <2>3. LockInv'
      BY <2>1, <2>2, WorkMoves
  <2>4. SchedTypeOK'
      BY <1>0, <1>3, <2>1, <2>2
      DEF IInv, ScheduleInv, SchedTypeOK, WorkRead, Goto, Suspend, PcValues
  <2>5. LoopTypeOK'
    <3>1. CASE UNCHANGED workVars
        BY <2>2, <3>1 DEF IInv, ScheduleInv, LoopTypeOK, MutexTypeOK, workVars,
                          mutexVars
    <3>2. CASE /\ currentFile # NoFile /\ readPos < Len(Lines[currentFile])
               /\ lines' = NextLines /\ readPos' = readPos + LinesRead
               /\ UNCHANGED <<nextFilePosition, lineEnd, sdError>>
      <4>1. Lines[currentFile] \in Seq(Commands) /\ currentFile \in Files
          BY <3>2, InputsAssumption DEF IInv, DataTypeOK
      <4>2. Len(Lines[currentFile]) \in Nat /\ readPos \in Nat
          BY <4>1 DEF IInv, ScheduleInv, LoopTypeOK
      <4>3. LinesRead \in Nat /\ readPos + LinesRead <= Len(Lines[currentFile])
          BY <3>2, <4>2, FilesAssumption DEF LinesRead
      <4>4. \A i \in 1..LinesRead :
                [file |-> currentFile, pos |-> readPos + i - 1] \in LineRecords
        <5> TAKE i \in 1..LinesRead
        <5>1. readPos + i - 1 \in Nat /\ readPos + i - 1 < Len(Lines[currentFile])
            BY <4>2, <4>3
        <5> QED BY <4>1, <5>1 DEF LineRecords
      <4>5. NextLines \in Seq(LineRecords)
          BY <4>3, <4>4 DEF NextLines
      <4>6. readPos' \in Nat
          BY <3>2, <4>2, <4>3
      <4> QED BY <2>2, <3>2, <4>5, <4>6
          DEF IInv, ScheduleInv, LoopTypeOK, MutexTypeOK, mutexVars
    <3>3. \/ currentFile # NoFile /\ readPos < Len(Lines[currentFile])
          \/ currentFile = NoFile \/ readPos >= Len(Lines[currentFile])
      <4>1. currentFile # NoFile => Len(Lines[currentFile]) \in Nat
          BY InputsAssumption DEF IInv, DataTypeOK
      <4> QED BY <4>1 DEF IInv, ScheduleInv, LoopTypeOK
    <3> QED BY <1>3, <3>1, <3>2, <3>3 DEF WorkRead
  <2>6. DataTypeOK'
      BY <1>3
      DEF IInv, DataTypeOK, StatsTypeOK, WorkRead, jobVars, plrVars, statsVars,
          pauseVars, sysVars
  <2> QED BY <2>3, <2>4, <2>5, <2>6 DEF IInv, ScheduleInv
<1>4. CASE WorkYield
  <2>1. pc[Sd] = "loop" /\ UNCHANGED loopVars
      BY <1>4 DEF WorkYield, AtWorkLoop, At
  <2>2. DataTypeOK' /\ workTimer' = workTimer
      BY <1>4, DataKept DEF WorkYield
  <2>3. Suspend(Sd, "loop")
      BY <1>4 DEF WorkYield
  <2>4. (Holds(Sd)' <=> Holds(Sd)) /\ AtHand(Sd)' /\ "loop" \in PcValues
      BY <1>0, <2>1, <2>3
      DEF IInv, ScheduleInv, SchedTypeOK, Suspend, Holds, AtHand, InScript, InCall,
          PcValues
  <2> QED BY <1>0, <2>1, <2>2, <2>3, <2>4, GoesOn DEF IInv
<1>5. CASE WorkWake
  <2>1. DataTypeOK' /\ workTimer' = workTimer
      BY <1>5, DataKept DEF WorkWake
  <2>2. pc[Sd] = "loop" /\ UNCHANGED <<pc, script, aborted, after, loopVars>>
      BY <1>5 DEF WorkWake, At
  <2>3. SchedTypeOK'
      BY <1>0, <1>5, <2>2 DEF IInv, ScheduleInv, SchedTypeOK, WorkWake
  <2>4. LoopTypeOK'
      BY <2>2 DEF IInv, ScheduleInv, LoopTypeOK, MutexTypeOK, loopVars, mutexVars,
                  workVars
  <2>5. LockInv'
      BY <1>0, <2>1, <2>2, OneMoves
      DEF IInv, ScheduleInv, LockInv, ScriptAtHand, AtHand, HandlerHasTimer, Holds,
          loopVars
  <2> QED BY <2>1, <2>3, <2>4, <2>5 DEF IInv, ScheduleInv
<1>6. CASE WorkDispatch
  <2>1. /\ pc[Sd] = "loop" /\ pc' = [pc EXCEPT ![Sd] = "enter"]
        /\ workTimer' = workTimer
        /\ UNCHANGED <<running, after, aborted, mutexVars>>
      BY <1>6 DEF WorkDispatch, AtWorkLoop, At
  <2>2. Head(lines) \in LineRecords /\ Tail(lines) \in Seq(LineRecords)
      BY <1>6 DEF WorkDispatch, IInv, ScheduleInv, LoopTypeOK
  <2>3. Lines[Head(lines).file][Head(lines).pos + 1] \in Commands
    <3>1. Lines[Head(lines).file] \in Seq(Commands)
        BY <2>2, InputsAssumption DEF LineRecords
    <3>2. Head(lines).pos + 1 \in 1..Len(Lines[Head(lines).file])
        BY <2>2, <3>1 DEF LineRecords
    <3> QED BY <3>1, <3>2
  <2>4. PICK s \in Seq(Commands) : script' = [script EXCEPT ![Sd] = s]
    <3>1. <<Lines[Head(lines).file][Head(lines).pos + 1]>> \in Seq(Commands)
        BY <2>3
    <3> QED BY <1>6, <3>1, Zenon DEF WorkDispatch
  <2>5. \A h \in Greenlets \ {Sd} : script'[h] = script[h]
      BY <2>4 DEF IInv, ScheduleInv, SchedTypeOK
  <2>6. LockInv'
      BY <2>1, <2>5, WorkMoves
  <2>7. SchedTypeOK'
      BY <1>0, <2>1, <2>4 DEF IInv, ScheduleInv, SchedTypeOK, PcValues
  <2>8. LoopTypeOK'
      BY <1>6, <2>1, <2>2
      DEF IInv, ScheduleInv, LoopTypeOK, MutexTypeOK, DataTypeOK, WorkDispatch,
          mutexVars
  <2>9. DataTypeOK'
      BY <1>6
      DEF IInv, DataTypeOK, StatsTypeOK, WorkDispatch, printVars, fileVars, plrVars,
          statsVars, pauseVars, sysVars
  <2> QED BY <2>6, <2>7, <2>8, <2>9 DEF IInv, ScheduleInv
<1>7. CASE WorkNext
  <2>1. PICK label \in {"idle", "loop"} :
            /\ pc' = [pc EXCEPT ![Sd] = label]
            /\ label # "idle" => workTimer' = workTimer
      BY <1>7 DEF WorkNext, Goto, Suspend
  <2>2. pc[Sd] = "next" /\ UNCHANGED <<script, after, aborted, mutexVars>>
      BY <1>7 DEF WorkNext, Goto, Suspend, At
  <2>3. LockInv'
      BY <2>1, <2>2, WorkMoves
  <2>4. SchedTypeOK'
      BY <1>0, <1>7, <2>1, <2>2
      DEF IInv, ScheduleInv, SchedTypeOK, WorkNext, Goto, Suspend, PcValues
  <2>5. LoopTypeOK'
    <3>1. /\ lines' \in Seq(LineRecords)
          /\ {nextFilePosition', readPos', lineEnd'} \subseteq Nat
          /\ sdError' = sdError
      <4>1. lines' = lines \/ lines' = <<>>
          BY <1>7 DEF WorkNext, WorkLocalsEnd
      <4>2. /\ readPos' \in {0, readPos, nextFilePosition}
            /\ lineEnd' \in {0, lineEnd}
            /\ nextFilePosition' = nextFilePosition /\ sdError' = sdError
          BY <1>7 DEF WorkNext, WorkLocalsEnd
      <4> QED BY <1>0, <4>1, <4>2 DEF IInv, ScheduleInv, LoopTypeOK
    <3> QED BY <2>2, <3>1 DEF IInv, ScheduleInv, LoopTypeOK, MutexTypeOK, mutexVars
  <2>6. DataTypeOK'
      BY <1>7
      DEF IInv, ScheduleInv, LoopTypeOK, DataTypeOK, StatsTypeOK, WorkNext, plrVars,
          statsVars, pauseVars, sysVars
  <2> QED BY <2>3, <2>4, <2>5, <2>6 DEF IInv, ScheduleInv
<1>8. CASE WorkExit
  <2>1. /\ pc[Sd] \in {"loop", "exit"} /\ pc' = [pc EXCEPT ![Sd] = "idle"]
        /\ UNCHANGED <<script, after, aborted, mutexVars>>
      BY <1>8 DEF WorkExit, Suspend, At
  <2>2. LockInv'
      BY <2>1, WorkMoves
  <2>3. SchedTypeOK'
      BY <1>0, <1>8, <2>1
      DEF IInv, ScheduleInv, SchedTypeOK, WorkExit, Suspend, PcValues
  <2>4. LoopTypeOK'
      BY <1>0, <1>8, <2>1
      DEF IInv, ScheduleInv, LoopTypeOK, MutexTypeOK, WorkExit, WorkLocalsEnd,
          mutexVars
  <2>5. DataTypeOK'
      BY <1>8
      DEF IInv, DataTypeOK, StatsTypeOK, WorkExit, NoteFinish, NotePause, JobStates,
          fileVars, plrVars, pauseVars, sysVars
  <2> QED BY <2>2, <2>3, <2>4, <2>5 DEF IInv, ScheduleInv
<1> QED BY <1>1, <1>2, <1>3, <1>4, <1>5, <1>6, <1>7, <1>8 DEF WorkStep

\* New requests (webhooks) and the runout event handler keep IInv.
LEMMA RequestStepsKeep ==
    ASSUME NEW c \in Clients, IInv, RequestStep(c) \/ RunoutStep(c)
    PROVE  IInv'
<1>0. c \in Greenlets /\ c # Sd
    BY GreenletsAssumption
<1>1. CASE RequestStep(c)
  <2>1. PICK request \in Requests[c] : NewRequest(c, request)
      BY <1>1 DEF RequestStep, ScriptRequest, CancelRequest, RunoutEvent, NewRequest
  <2>2. pc[c] = "idle" /\ script[c] = <<>>
      BY <1>0, <2>1 DEF NewRequest, At, IInv, ScheduleInv, LockInv, ScriptAtHand,
                        AtHand
  <2>3. PICK label \in {"enter", "cancel", "sendpause"}, s \in Seq(Commands) :
            /\ pc' = [pc EXCEPT ![c] = label]
            /\ script' = [script EXCEPT ![c] = s]
            /\ label # "enter" => s = <<>>
    <3>0. script = [script EXCEPT ![c] = script[c]]
        BY <1>0 DEF IInv, ScheduleInv, SchedTypeOK
    <3>1. CASE ScriptRequest(c)
      <4>1. PICK r \in Requests[c] \ {WebCancel, SensorRunout} :
                /\ script' = [script EXCEPT ![c] = r]
                /\ pc' = [pc EXCEPT ![c] = "enter"]
          BY <3>1 DEF ScriptRequest
      <4>2. r \in Seq(Commands)
          BY <4>1, InputsAssumption
      <4> QED BY <4>1, <4>2
    <3>2. CASE CancelRequest(c)
      <4>1. <<>> \in Seq(Commands) /\ <<"CANCEL_PRINT">> \in Seq(Commands)
          BY DEF Commands
      <4>2. CASE workTimer \/ sdPaused
          BY <2>2, <3>0, <3>2, <4>1, <4>2 DEF CancelRequest
      <4>3. CASE ~(workTimer \/ sdPaused)
          BY <3>2, <4>1, <4>3 DEF CancelRequest
      <4> QED BY <4>2, <4>3
    <3>3. CASE RunoutEvent(c)
      <4>1. <<>> \in Seq(Commands)
          OBVIOUS
      <4> QED BY <2>2, <3>0, <3>3, <4>1 DEF RunoutEvent
    <3> QED BY <1>1, <3>1, <3>2, <3>3 DEF RequestStep
  <2>4. SchedTypeOK'
      BY <1>0, <2>1, <2>3
      DEF IInv, ScheduleInv, SchedTypeOK, NewRequest, PcValues
  <2>5. LoopTypeOK'
      BY <2>1 DEF IInv, ScheduleInv, LoopTypeOK, MutexTypeOK, NewRequest, loopVars,
                  mutexVars, workVars
  <2>6. DataTypeOK' /\ workTimer' = workTimer
      BY <2>1 DEF IInv, DataTypeOK, StatsTypeOK, NewRequest, jobVars, printVars,
                  fileVars, plrVars, statsVars, pauseVars
  <2>7. ~Holds(c) /\ ~Holds(c)' /\ AtHand(c)' /\ HandlerHasTimer'
      BY <1>0, <2>2, <2>3, <2>6, GreenletsAssumption
      DEF IInv, ScheduleInv, SchedTypeOK, LockInv, HandlerHasTimer, Holds, AtHand,
          InScript, InCall
  <2>8. LockInv'
      BY <1>0, <2>1, <2>3, <2>7, OneMoves
      DEF IInv, ScheduleInv, SchedTypeOK, NewRequest, loopVars
  <2> QED BY <2>4, <2>5, <2>6, <2>8 DEF IInv, ScheduleInv
<1>2. CASE RunoutDelay(c)
  <2>1. pc[c] = "sent" /\ script[c] = <<>> /\ Suspend(c, "delay") /\ UNCHANGED loopVars
      BY <1>2 DEF RunoutDelay, At
  <2>2. DataTypeOK' /\ workTimer' = workTimer
      BY <1>2, DataKept DEF RunoutDelay
  <2>3. ~Holds(c) /\ ~Holds(c)' /\ AtHand(c)' /\ "delay" \in PcValues
      BY <1>0, <2>1
      DEF IInv, ScheduleInv, SchedTypeOK, Suspend, Holds, AtHand, InScript, InCall,
          PcValues
  <2> QED BY <1>0, <2>1, <2>2, <2>3, GoesOn DEF IInv
<1>3. CASE RunoutScript(c)
  <2>1. <<"PAUSE", "MOVE">> \in Seq(Commands)
      BY DEF Commands
  <2>2. SchedTypeOK'
      BY <1>0, <1>3, <2>1
      DEF IInv, ScheduleInv, SchedTypeOK, RunoutScript, PcValues
  <2>3. LoopTypeOK'
      BY <1>3 DEF IInv, ScheduleInv, LoopTypeOK, MutexTypeOK, RunoutScript, loopVars,
                  mutexVars, workVars
  <2>4. DataTypeOK' /\ workTimer' = workTimer
      BY <1>3, DataKept DEF RunoutScript
  <2>5. ~Holds(c) /\ ~Holds(c)' /\ AtHand(c)' /\ HandlerHasTimer'
      BY <1>0, <1>3, <2>4, GreenletsAssumption
      DEF IInv, ScheduleInv, SchedTypeOK, LockInv, HandlerHasTimer, RunoutScript, At,
          Holds, AtHand, InScript, InCall
  <2>6. LockInv'
      BY <1>0, <1>3, <2>5, OneMoves
      DEF IInv, ScheduleInv, SchedTypeOK, RunoutScript, loopVars
  <2> QED BY <2>2, <2>3, <2>4, <2>6 DEF IInv, ScheduleInv
<1> QED BY <1>1, <1>2, <1>3 DEF RunoutStep

\* A step that changes nothing keeps IInv.
LEMMA StutterKeeps ==
    ASSUME IInv, UNCHANGED vars
    PROVE  IInv'
<1>1. UNCHANGED schedVars /\ UNCHANGED loopVars /\ UNCHANGED dataVars
    BY DEF vars
<1>2. DataTypeOK' /\ workTimer' = workTimer
    BY <1>1, DataKept
<1>3. SchedTypeOK' /\ LoopTypeOK'
    BY <1>1 DEF IInv, ScheduleInv, SchedTypeOK, LoopTypeOK, MutexTypeOK, schedVars,
                loopVars, mutexVars, workVars
<1>4. LockInv'
    BY <1>1, <1>2, OneMoves, GreenletsAssumption
    DEF IInv, ScheduleInv, LockInv, ScriptAtHand, AtHand, HandlerHasTimer, Holds,
        schedVars, loopVars
<1> QED BY <1>2, <1>3, <1>4 DEF IInv, ScheduleInv

\* handle_shutdown keeps IInv.
LEMMA ShutdownKeeps ==
    ASSUME IInv, Shutdown
    PROVE  IInv'
<1>1. UNCHANGED schedVars /\ UNCHANGED loopVars /\ workTimer' = workTimer
    BY DEF Shutdown
<1>2. DataTypeOK'
    BY DEF IInv, DataTypeOK, StatsTypeOK, Shutdown, AskToPause, printVars, fileVars,
           plrVars, statsVars, pauseVars
<1>3. SchedTypeOK' /\ LoopTypeOK'
    BY <1>1 DEF IInv, ScheduleInv, SchedTypeOK, LoopTypeOK, MutexTypeOK, schedVars,
                loopVars, mutexVars, workVars
<1>4. LockInv'
    BY <1>1, OneMoves, GreenletsAssumption
    DEF IInv, ScheduleInv, LockInv, ScriptAtHand, AtHand, HandlerHasTimer, Holds,
        schedVars, loopVars
<1> QED BY <1>2, <1>3, <1>4 DEF IInv, ScheduleInv

\* IInv holds when the klippy process starts.
LEMMA InitIInv == Init => IInv
<1> SUFFICES ASSUME Init PROVE IInv
    OBVIOUS
<1>1. SchedTypeOK
    BY DEF Init, SchedTypeOK, PcValues
<1>2. LoopTypeOK
  <2>1. <<>> \in Seq(LineRecords) /\ <<>> \in Seq(Greenlets)
      OBVIOUS
  <2>2. MutexTypeOK
      BY <2>1 DEF Init, MutexInit, MutexTypeOK
  <2>3. lines \in Seq(LineRecords) /\ sdError \in BOOLEAN
      BY <2>1 DEF Init
  <2>4. nextFilePosition \in Nat /\ readPos \in Nat /\ lineEnd \in Nat
      BY DEF Init
  <2> QED BY <2>2, <2>3, <2>4 DEF LoopTypeOK
<1>3. DataTypeOK
    BY DEF Init, DataTypeOK, StatsInit, StatsTypeOK, JobStates
<1>4. \A g \in Greenlets : pc[g] = "idle" /\ script[g] = <<>> /\ ~Holds(g)
    BY DEF Init, Holds, InScript, InCall
<1>5. LockInv
    BY <1>4, GreenletsAssumption
    DEF Init, MutexInit, LockInv, LockConsistent, ScriptAtHand, AtHand,
        HandlerHasTimer, InScript
<1> QED BY <1>1, <1>2, <1>3, <1>5 DEF IInv, ScheduleInv

\* Every step of the process keeps IInv.
LEMMA NextIInv == IInv /\ [Next]_vars => IInv'
<1> SUFFICES ASSUME IInv, [Next]_vars PROVE IInv'
    OBVIOUS
<1>1. ASSUME NEW g \in Greenlets, GreenletStep(g) PROVE IInv'
  <2>1. CASE CommandStep(g)
      BY <2>1, ScriptStepsKeep, CardStepsKeep, LoadStepsKeep, PauseResumeStepsKeep
      DEF CommandStep, LoadCommands
  <2>2. CASE ~CommandStep(g)
      BY <1>1, <2>2, ScriptStepsKeep, PauseResumeStepsKeep, CallStepsKeep
      DEF GreenletStep
  <2> QED BY <2>1, <2>2
<1>2. ASSUME NEW c \in Clients, RequestStep(c) \/ RunoutStep(c) PROVE IInv'
    BY <1>2, RequestStepsKeep
<1>3. CASE WorkStep
    BY <1>3, WorkStepKeeps
<1>4. CASE Shutdown
    BY <1>4, ShutdownKeeps
<1>5. CASE Quiet \/ UNCHANGED vars
    BY <1>5, StutterKeeps DEF Quiet
<1> QED BY <1>1, <1>2, <1>3, <1>4, <1>5 DEF Next

\* IInv is an invariant: types, the ownership of the gcode mutex, and who has
\* which command at hand.
THEOREM Invariance == Spec => []IInv
BY InitIInv, NextIInv, PTL DEF Spec

\* The variables keep their types in every reachable state.
THEOREM TypeCorrect == Spec => []TypeOK
BY Invariance, PTL DEF IInv, ScheduleInv, TypeOK

\* The gcode mutex excludes: at most one greenlet at a time carries out a
\* script, whoever waits in do_pause or was handed the mutex meanwhile.
THEOREM MutualExclusion == Spec => []LockConsistent
BY Invariance, PTL DEF IInv, ScheduleInv, LockInv

-----------------------------------------------------------------------------
(* The state of the job.  Each lemma shows for some steps that they keep   *)
(* JobInv and leave a cancelled job cancelled or load another.             *)

CancelledKept ==
    state = "cancelled" => state' \in {"cancelled", "standby", "extracting"}

JobStep == JobInv' /\ CancelledKept

\* Greenlet g goes to a place of no interest to JobInv.
Elsewhere(g) ==
    /\ pc[g] # "exit"
    /\ pc'[g] \notin {"extract", "start"}
    /\ \A h \in Greenlets \ {g} : pc'[h] = pc[h]

\* A greenlet that ends a command of its script does not go to a place where
\* a load or the start of the handler waits.
LEMMA ScriptMoves ==
    ASSUME NEW g \in Greenlets, IInv, Holds(g),
           CommandDone(g) \/ CommandError(g) \/ CommandCrash(g)
    PROVE  Elsewhere(g)
<1>1. pc[g] # "exit"
    BY DEF Holds, InScript, InCall
<1>2. CASE CommandDone(g)
    BY <1>1, <1>2 DEF IInv, ScheduleInv, SchedTypeOK, CommandDone, Elsewhere
<1>3. ASSUME NEW how, LeaveScript(g, how) PROVE Elsewhere(g)
    BY <1>1, <1>3 DEF IInv, ScheduleInv, SchedTypeOK, LeaveScript, Elsewhere
<1> QED BY <1>2, <1>3 DEF CommandError, CommandCrash

\* Nor does one that moves to any other place.
LEMMA PlaceMoves ==
    ASSUME NEW g \in Greenlets, IInv, pc[g] # "exit",
           NEW label \in PcValues \ {"extract", "start"},
           Goto(g, label) \/ Suspend(g, label)
               \/ (pc' = [pc EXCEPT ![g] = label])
    PROVE  Elsewhere(g)
BY DEF IInv, ScheduleInv, SchedTypeOK, Goto, Suspend, Elsewhere

\* A step that touches neither the job's state nor its file or timer keeps
\* JobInv and a cancelled job cancelled.
LEMMA JobUntouched ==
    ASSUME IInv, JobInv, UNCHANGED <<state, started, currentFile, workTimer>>,
           (\E g \in Greenlets : Elsewhere(g)) \/ pc' = pc
    PROVE  JobStep
<1>1. /\ \A h \in Greenlets : pc'[h] \in {"extract", "start"} => pc'[h] = pc[h]
      /\ pc[Sd] = "exit" => pc'[Sd] = "exit"
    BY GreenletsAssumption DEF Elsewhere
<1> QED BY <1>1, GreenletsAssumption
    DEF JobStep, JobInv, CancelledIsClosed, ExtractsAlone, PrintingJob,
        CancelledKept, At

\* So does one that resets the statistics (print_stats.reset).
LEMMA JobReset ==
    ASSUME IInv, JobInv, NEW g \in Greenlets, Elsewhere(g),
           StatsReset, workTimer' = workTimer
    PROVE  JobStep
BY DEF JobStep, JobInv, CancelledIsClosed, ExtractsAlone, PrintingJob,
       CancelledKept, At, StatsReset, Elsewhere

\* Holding the mutex, a command starts the work handler.
LEMMA JobResumed ==
    ASSUME IInv, JobInv, NEW g \in Greenlets, Holds(g), ~workTimer, DoResume(g),
           UNCHANGED statsVars \/ StatsReset, currentFile' = currentFile
    PROVE  JobStep
<1>1. \A h \in Greenlets : pc'[h] # "extract"
    BY DEF IInv, ScheduleInv, SchedTypeOK, LockInv, LockConsistent, Holds, InScript,
           DoResume
<1>2. state' # "printing"
    BY DEF JobInv, PrintingJob, StatsReset, statsVars
<1> QED BY <1>1, <1>2
    DEF JobStep, JobInv, CancelledIsClosed, ExtractsAlone, PrintingJob,
        CancelledKept, At, StatsReset, statsVars

\* No command breaks JobInv or overwrites the state of a cancelled job.
LEMMA CommandKeepsJob ==
    ASSUME NEW g \in Greenlets, IInv, JobInv, CommandStep(g)
    PROVE  JobStep
<1>a. \A h \in Greenlets : pc[h] = "exit" => ~Holds(h)
    BY DEF Holds, InScript, InCall
<1>1. CASE CommandRefused(g) \/ Move(g) \/ MoveEnd(g)
  <2>1. Holds(g) /\ pc[g] # "exit"
      BY <1>1, AtCommand
      DEF CommandRefused, Move, MoveEnd, At, Holds, InScript
  <2>2. UNCHANGED <<state, started, currentFile, workTimer>>
      BY <1>1 DEF CommandRefused, Move, MoveEnd, dataVars, jobVars, printVars,
                  fileVars, statsVars
  <2>3. CommandDone(g) \/ CommandError(g) \/ Suspend(g, "busy")
      BY <1>1 DEF CommandRefused, Move, MoveEnd
  <2>4. Elsewhere(g)
      BY <2>1, <2>3, ScriptMoves, PlaceMoves DEF PcValues
  <2> QED BY <2>2, <2>4, JobUntouched
<1>2. CASE Macro(g)
    BY <1>2, JobUntouched
    DEF Macro, dataVars, jobVars, printVars, fileVars, statsVars
<1>3. CASE SdcardResetFile(g)
  <2>1. pc[g] = "run" /\ Holds(g)
      BY <1>3, AtCommand DEF SdcardResetFile
  <2>2. CASE CommandError(g) /\ UNCHANGED <<jobVars, fileVars, statsVars>>
      BY <2>1, <2>2, ScriptMoves, JobUntouched DEF jobVars, fileVars, statsVars
  <2>3. CASE DoPause(g, "reset") /\ UNCHANGED <<fileVars, statsVars>>
    <3>1. Elsewhere(g)
        BY <2>1, <2>3, PlaceMoves DEF DoPause, PcValues
    <3> QED BY <2>3, <3>1, JobUntouched DEF DoPause, fileVars, statsVars
  <2>4. CASE StatsReset /\ CommandDone(g) /\ UNCHANGED jobVars
      BY <2>1, <2>4, ScriptMoves, JobReset DEF jobVars
  <2> QED BY <1>3, <2>2, <2>3, <2>4 DEF SdcardResetFile
<1>4. CASE ResetClose(g)
    BY <1>4, InCommand, ScriptMoves, JobReset
    DEF ResetClose, At, InScript, jobVars
<1>5. CASE CloseNone(g)
  <2>1. pc[g] # "exit" /\ (script[g] # <<>> => Holds(g))
      BY <1>5 DEF CloseNone, At, Holds, InScript, InCall
  <2>2. Elsewhere(g)
      BY <1>5, <2>1, ScriptMoves, PlaceMoves DEF CloseNone, PcValues
  <2> QED BY <1>5, <2>2, JobUntouched
      DEF CloseNone, printVars, fileVars, statsVars
<1>6. ASSUME NEW cmd \in LoadCommands,
             \/ LoadRefused(g, cmd) \/ LoadFailed(g, cmd)
             \/ LoadNothing(g, cmd) \/ LoadFile(g, cmd)
      PROVE  JobStep
  <2>1. pc[g] = "run" /\ Holds(g)
      BY <1>6, AtCommand DEF LoadRefused, LoadFailed, LoadNothing, LoadFile
  <2>2. CASE LoadRefused(g, cmd)
      BY <2>1, <2>2, ScriptMoves, JobUntouched
      DEF LoadRefused, dataVars, jobVars, printVars, fileVars, statsVars
  <2>3. CASE LoadFailed(g, cmd) \/ LoadNothing(g, cmd)
      BY <2>1, <2>3, ScriptMoves, JobReset DEF LoadFailed, LoadNothing, jobVars
  <2>4. CASE LoadFile(g, cmd)
    <3>1. CASE Suspend(g, "extract") /\ NoteExtracting
      <4>1. \A h \in Greenlets : pc'[h] = pc[h] \/ pc'[h] = "extract"
          BY <3>1 DEF IInv, ScheduleInv, SchedTypeOK, Suspend
      <4>2. ~workTimer /\ ~workTimer' /\ state' = "extracting" /\ ~started'
          BY <2>4, <3>1 DEF LoadFile, NoteExtracting, jobVars
      <4> QED BY <4>2
          DEF JobStep, JobInv, CancelledIsClosed, ExtractsAlone, PrintingJob,
              CancelledKept
    <3>2. CASE Suspend(g, "scan") /\ StatsReset
        BY <2>1, <2>4, <3>2, PlaceMoves, JobReset DEF LoadFile, jobVars, PcValues
    <3> QED BY <2>4, <3>1, <3>2 DEF LoadFile
  <2> QED BY <1>6, <2>2, <2>3, <2>4
<1>7. CASE Extracted(g)
  <2>1. pc[g] = "extract" /\ Holds(g)
      BY <1>7, InCommand DEF Extracted, At, InScript
  <2>2. CASE pc' = [pc EXCEPT ![g] = "scan"] /\ UNCHANGED statsVars
    <3>1. Elsewhere(g)
        BY <2>1, <2>2, PlaceMoves DEF PcValues
    <3>2. state # "cancelled" /\ state # "printing"
        BY <2>1 DEF JobInv, ExtractsAlone, PrintingJob, At
    <3> QED BY <1>7, <2>2, <3>1, <3>2
        DEF JobStep, JobInv, CancelledIsClosed, ExtractsAlone, PrintingJob,
            CancelledKept, At, Elsewhere, Extracted, statsVars, jobVars
  <2>3. CASE StatsReset /\ CommandError(g)
      BY <1>7, <2>1, <2>3, ScriptMoves, JobReset DEF Extracted, jobVars
  <2> QED BY <1>7, <2>2, <2>3 DEF Extracted
<1>8. CASE Loaded(g)
  <2>1. Holds(g)
      BY <1>8, InCommand DEF Loaded, At, InScript
  <2>2. StatsReset /\ currentFile' = currentFile
      BY <1>8 DEF Loaded
  <2>3. CASE (CommandDone(g) \/ CommandError(g)) /\ UNCHANGED jobVars
      BY <2>1, <2>2, <2>3, ScriptMoves, JobReset DEF jobVars
  <2>4. CASE DoResume(g) /\ ~workTimer
      BY <2>1, <2>2, <2>4, JobResumed
  <2> QED BY <1>8, <2>3, <2>4 DEF Loaded
<1>9. CASE M24(g) \/ SendResumeCommand(g)
  <2>1. Holds(g)
      BY <1>9, AtCommand, InCommand DEF M24, SendResumeCommand, At, InScript
  <2>2. UNCHANGED statsVars /\ currentFile' = currentFile
      BY <1>9 DEF M24, SendResumeCommand, printVars, fileVars
  <2>3. CASE (CommandDone(g) \/ CommandError(g)) /\ UNCHANGED jobVars
      BY <2>1, <2>2, <2>3, ScriptMoves, JobUntouched DEF statsVars, jobVars
  <2>4. CASE DoResume(g) /\ ~workTimer
      BY <2>1, <2>2, <2>4, JobResumed
  <2> QED BY <1>9, <2>3, <2>4 DEF M24, SendResumeCommand
<1>10. CASE M9925(g)
  <2>1. pc[g] = "run"
      BY <1>10, AtCommand DEF M9925
  <2>2. Elsewhere(g)
      BY <1>10, <2>1, PlaceMoves DEF M9925, DoPause, PcValues
  <2> QED BY <1>10, <2>2, JobUntouched
      DEF M9925, DoPause, printVars, fileVars, statsVars
<1>11. CASE M25Return(g) \/ M26(g) \/ BasePauseEnd(g) \/ ClearPause(g)
  <2>1. Holds(g)
      BY <1>11, AtCommand, InCommand
      DEF M25Return, M26, BasePauseEnd, ClearPause, At, Holds, InScript, InCall
  <2>2. CommandDone(g) \/ CommandError(g)
      BY <1>11 DEF M25Return, M26, BasePauseEnd, ClearPause
  <2>3. UNCHANGED <<state, started, currentFile, workTimer>>
      BY <1>11 DEF M25Return, M26, BasePauseEnd, ClearPause, dataVars, jobVars,
                   printVars, fileVars, statsVars
  <2> QED BY <2>1, <2>2, <2>3, ScriptMoves, JobUntouched
<1>12. CASE SdcardLoopEnd(g)
  <2>1. Holds(g)
      BY <1>12, AtCommand DEF SdcardLoopEnd
  <2>2. UNCHANGED <<state, started, currentFile, workTimer>>
      BY <1>12 DEF SdcardLoopEnd, dataVars, jobVars, printVars, fileVars, statsVars
  <2> QED BY <1>12, <2>1, <2>2, ScriptMoves, JobUntouched DEF SdcardLoopEnd
<1>13. CASE BasePause(g) \/ BaseResume(g) \/ RestoreEnd(g) \/ BaseCancelPrint(g)
  <2>1. Holds(g)
      BY <1>13, AtCommand, InCommand
      DEF BasePause, BaseResume, RestoreEnd, BaseCancelPrint, At, InScript
  <2>2. UNCHANGED <<state, started, currentFile, workTimer>>
      BY <1>13 DEF BasePause, BaseResume, RestoreEnd, BaseCancelPrint, dataVars,
                   jobVars, printVars, fileVars, statsVars
  <2>3. \/ CommandDone(g) \/ CommandError(g)
        \/ \E label \in {"sendpause", "restored", "restore", "cancel"} :
               Goto(g, label) \/ Suspend(g, label)
                   \/ pc' = [pc EXCEPT ![g] = label]
      BY <1>13 DEF BasePause, BaseResume, RestoreEnd, BaseCancelPrint
  <2>4. Elsewhere(g)
      BY <1>a, <2>1, <2>3, ScriptMoves, PlaceMoves DEF PcValues
  <2> QED BY <2>2, <2>4, JobUntouched
<1> QED
    BY <1>1, <1>2, <1>3, <1>4, <1>5, <1>6, <1>7, <1>8, <1>9, <1>10, <1>11, <1>12,
       <1>13
    DEF CommandStep

\* No step of a greenlet does, do_pause and do_cancel included.
LEMMA GreenletKeepsJob ==
    ASSUME NEW g \in Greenlets, IInv, JobInv, GreenletStep(g)
    PROVE  JobStep
<1>1. CASE CommandStep(g)
    BY <1>1, CommandKeepsJob
<1>2. CASE RunScript(g) \/ MutexGranted(g)
  <2>1. PICK label \in {"run", "queued"} : pc' = [pc EXCEPT ![g] = label]
      BY <1>2 DEF RunScript, MutexGranted
  <2>2. Elsewhere(g)
      BY <1>2, <2>1, PlaceMoves DEF RunScript, MutexGranted, At, PcValues
  <2> QED BY <1>2, <2>2, JobUntouched
      DEF RunScript, MutexGranted, dataVars, jobVars, printVars, fileVars, statsVars
<1>3. CASE ScriptEnd(g)
  <2>1. Holds(g) /\ pc[g] # "exit" /\ LeaveScript(g, "ok")
      BY <1>3 DEF ScriptEnd, At, Holds, InScript
  <2>2. Elsewhere(g)
      BY <2>1 DEF IInv, ScheduleInv, SchedTypeOK, LeaveScript, Elsewhere
  <2> QED BY <1>3, <2>2, JobUntouched
      DEF ScriptEnd, dataVars, jobVars, printVars, fileVars, statsVars
<1>4. CASE DoPausePoll(g)
  <2>1. PICK label \in {"wait", after[g]} : Goto(g, label) \/ Suspend(g, label)
      BY <1>4 DEF DoPausePoll
  <2>2. pc[g] = "wait" /\ label \in PcValues \ {"extract", "start"}
      BY <1>4 DEF DoPausePoll, At, IInv, ScheduleInv, SchedTypeOK, PcValues
  <2>3. Elsewhere(g)
      BY <2>1, <2>2, PlaceMoves
  <2> QED BY <1>4, <2>3, JobUntouched
      DEF DoPausePoll, dataVars, jobVars, printVars, fileVars, statsVars
<1>5. CASE DoPauseWake(g)
    BY <1>5, JobUntouched
    DEF DoPauseWake, dataVars, jobVars, printVars, fileVars, statsVars
<1>6. CASE SendPauseCommand(g) \/ PauseCommandSent(g)
  <2>1. \E label \in {"sent", "wait"} :
            Goto(g, label) \/ Suspend(g, label) \/ pc' = [pc EXCEPT ![g] = label]
      BY <1>6 DEF SendPauseCommand, PauseCommandSent, DoPause
  <2>2. Elsewhere(g)
      BY <1>6, <2>1, PlaceMoves DEF SendPauseCommand, PauseCommandSent, At, PcValues
  <2> QED BY <1>6, <2>2, JobUntouched
      DEF SendPauseCommand, PauseCommandSent, DoPause, jobVars, printVars, fileVars,
          statsVars
<1>7. CASE DoCancel(g)
  <2>1. PICK label \in {"nofile", "wait"} : pc' = [pc EXCEPT ![g] = label]
      BY <1>7 DEF DoCancel
  <2>2. Elsewhere(g)
      BY <1>7, <2>1, PlaceMoves DEF DoCancel, At, PcValues
  <2> QED BY <1>7, <2>2, JobUntouched
      DEF DoCancel, printVars, fileVars, statsVars
<1>8. CASE CancelNoFile(g) \/ CancelClose(g)
  <2>1. CancelReturn(g) /\ pc[g] \in {"nofile", "close"}
      BY <1>8 DEF CancelNoFile, CancelClose, At
  <2>2. Elsewhere(g)
    <3>1. CASE script[g] = <<>>
        BY <2>1, <3>1, PlaceMoves DEF CancelReturn, PcValues
    <3>2. CASE script[g] # <<>>
        BY <2>1, <3>2, ScriptMoves DEF CancelReturn, Holds, InCall
    <3> QED BY <3>1, <3>2
  <2>3. CASE CancelNoFile(g)
      BY <2>2, <2>3, JobUntouched DEF CancelNoFile, jobVars, statsVars
  <2>4. CASE CancelClose(g)
    <3>1. /\ currentFile' = NoFile /\ ~started' /\ workTimer' = workTimer
          /\ state' = IF started THEN "cancelled" ELSE state
        BY <2>4 DEF CancelClose, NoteFinish, jobVars
    <3>2. state' # "printing"
        BY <3>1 DEF JobInv, PrintingJob
    <3>3. ExtractsAlone'
        BY <2>2, <3>1 DEF JobInv, ExtractsAlone, At, Elsewhere
    <3> QED BY <3>1, <3>2, <3>3
        DEF JobStep, JobInv, CancelledIsClosed, PrintingJob, CancelledKept
  <2> QED BY <1>8, <2>3, <2>4
<1> QED BY <1>1, <1>2, <1>3, <1>4, <1>5, <1>6, <1>7, <1>8 DEF GreenletStep, CommandStep

\* No request and no runout event does.
LEMMA RequestKeepsJob ==
    ASSUME NEW c \in Clients, IInv, JobInv, RequestStep(c) \/ RunoutStep(c)
    PROVE  JobStep
<1>1. c \in Greenlets
    BY GreenletsAssumption
<1>2. \E label \in {"enter", "cancel", "sendpause", "delay"} :
          pc' = [pc EXCEPT ![c] = label]
    BY DEF RequestStep, RunoutStep, ScriptRequest, CancelRequest, RunoutEvent,
           RunoutDelay, RunoutScript, Suspend
<1>3. Elsewhere(c)
    BY <1>1, <1>2, PlaceMoves
    DEF RequestStep, RunoutStep, ScriptRequest, CancelRequest, RunoutEvent,
        NewRequest, RunoutDelay, RunoutScript, At, PcValues
<1>4. UNCHANGED <<state, started, currentFile, workTimer>>
    BY DEF RequestStep, RunoutStep, ScriptRequest, CancelRequest, RunoutEvent,
           NewRequest, RunoutDelay, RunoutScript, dataVars, jobVars, printVars,
           fileVars, statsVars
<1> QED BY <1>1, <1>3, <1>4, JobUntouched

\* No step of work_handler does: it notes how a job stands only for a job
\* that is under way.
LEMMA WorkKeepsJob ==
    ASSUME IInv, JobInv, WorkStep
    PROVE  JobStep
<1>1. Sd \in Greenlets
    BY GreenletsAssumption
<1>2. ASSUME NEW label \in PcValues \ {"extract", "start"},
             pc' = [pc EXCEPT ![Sd] = label],
             pc[Sd] \in {"start", "plr", "loop", "next", "exit"}
      PROVE  /\ pc'[Sd] = label
             /\ \A h \in Greenlets : pc'[h] # "extract"
  <2>1. workTimer
      BY <1>2 DEF IInv, ScheduleInv, LockInv, HandlerHasTimer
  <2>2. \A h \in Greenlets : pc[h] # "extract"
      BY <2>1 DEF JobInv, ExtractsAlone, At
  <2> QED BY <1>1, <1>2, <2>2 DEF IInv, ScheduleInv, SchedTypeOK
<1>3. CASE WorkStart
  <2>1. pc[Sd] = "start" /\ state # "printing"
      BY <1>3 DEF WorkStart, At, JobInv, PrintingJob
  <2>2. PICK label \in {"idle", "plr", "loop"} : pc' = [pc EXCEPT ![Sd] = label]
      BY <1>3 DEF WorkStart, WorkAbandon, Suspend
  <2>3. pc'[Sd] = label /\ \A h \in Greenlets : pc'[h] # "extract"
      BY <1>2, <2>1, <2>2 DEF PcValues
  <2>4. CASE currentFile = NoFile
      BY <1>3, <2>1, <2>3, <2>4
      DEF WorkStart, JobStep, JobInv, CancelledIsClosed, ExtractsAlone, PrintingJob,
          CancelledKept, At, statsVars, fileVars
  <2>5. CASE currentFile # NoFile
    <3>1. workTimer /\ workTimer' = workTimer
        BY <1>3, <2>1, <2>5
        DEF WorkStart, jobVars, IInv, ScheduleInv, LockInv, HandlerHasTimer
    <3>2. state' = "printing" /\ started' /\ currentFile' = currentFile
        BY <1>3, <2>5 DEF WorkStart, NoteStart, fileVars
    <3> QED BY <2>3, <2>5, <3>1, <3>2
        DEF JobStep, JobInv, CancelledIsClosed, ExtractsAlone, PrintingJob,
            CancelledKept, At
  <2> QED BY <2>4, <2>5
<1>4. CASE PowerOffResumeEnd
  <2>1. pc[Sd] = "plr" /\ currentFile' = currentFile
      BY <1>4 DEF PowerOffResumeEnd, At, fileVars
  <2>2. PICK label \in {"idle", "loop"} : pc' = [pc EXCEPT ![Sd] = label]
      BY <1>4 DEF PowerOffResumeEnd, WorkAbandon, Suspend
  <2>3. pc'[Sd] = label /\ \A h \in Greenlets : pc'[h] # "extract"
      BY <1>2, <2>1, <2>2 DEF PcValues
  <2>4. \/ UNCHANGED <<state, started, workTimer>>
        \/ state' = (IF started THEN "error" ELSE state) /\ ~started'
      BY <1>4 DEF PowerOffResumeEnd, NoteFinish, statsVars, jobVars
  <2> QED BY <2>1, <2>3, <2>4
      DEF JobStep, JobInv, CancelledIsClosed, ExtractsAlone, PrintingJob,
          CancelledKept, At
<1>5. CASE WorkRead
  <2>1. pc[Sd] = "loop" /\ UNCHANGED <<state, started, workTimer>>
      BY <1>5 DEF WorkRead, AtWorkLoop, At, statsVars, jobVars
  <2>2. PICK label \in {"exit", "loop"} :
            /\ pc' = [pc EXCEPT ![Sd] = label]
            /\ currentFile' = currentFile \/ (currentFile' = NoFile /\ label = "exit")
      BY <1>5 DEF WorkRead, Goto, Suspend
  <2>3. pc'[Sd] = label /\ \A h \in Greenlets : pc'[h] # "extract"
      BY <1>2, <2>1, <2>2 DEF PcValues
  <2> QED BY <2>1, <2>2, <2>3
      DEF JobStep, JobInv, CancelledIsClosed, ExtractsAlone, PrintingJob,
          CancelledKept, At
<1>6. CASE WorkYield \/ WorkWake \/ WorkDispatch
  <2>1. pc[Sd] = "loop" /\ UNCHANGED <<state, started, currentFile, workTimer>>
      BY <1>6 DEF WorkYield, WorkWake, WorkDispatch, AtWorkLoop, At, dataVars,
                  jobVars, printVars, fileVars, statsVars
  <2>2. pc' = pc \/ \E label \in {"loop", "enter"} : pc' = [pc EXCEPT ![Sd] = label]
      BY <1>6 DEF WorkYield, WorkWake, WorkDispatch, Suspend
  <2>3. pc' = pc \/ Elsewhere(Sd)
      BY <1>1, <2>1, <2>2, PlaceMoves DEF PcValues
  <2> QED BY <1>1, <2>1, <2>3, JobUntouched
<1>7. CASE WorkNext
  <2>1. pc[Sd] = "next" /\ UNCHANGED <<state, started, currentFile>>
      BY <1>7 DEF WorkNext, At, statsVars
  <2>2. PICK label \in {"idle", "loop"} :
            /\ pc' = [pc EXCEPT ![Sd] = label]
            /\ label = "loop" => workTimer' = workTimer
            /\ label = "idle" => currentFile = NoFile
      BY <1>7 DEF WorkNext, Goto, Suspend
  <2>3. pc'[Sd] = label /\ \A h \in Greenlets : pc'[h] # "extract"
      BY <1>2, <2>1, <2>2 DEF PcValues
  <2> QED BY <2>1, <2>2, <2>3
      DEF JobStep, JobInv, CancelledIsClosed, ExtractsAlone, PrintingJob,
          CancelledKept, At
<1>8. CASE WorkExit
  <2>1. /\ pc[Sd] \in {"loop", "exit"} /\ pc' = [pc EXCEPT ![Sd] = "idle"]
        /\ currentFile' = currentFile
      BY <1>8 DEF WorkExit, At, Suspend, fileVars
  <2>2. pc'[Sd] = "idle" /\ \A h \in Greenlets : pc'[h] # "extract"
      BY <1>2, <2>1 DEF PcValues
  <2>3. \/ \E final \in {"error", "complete"} :
               state' = (IF started THEN final ELSE state) /\ ~started'
        \/ /\ currentFile # NoFile
           /\ state' = (IF state = "error" THEN state ELSE "paused")
      BY <1>8 DEF WorkExit, NoteFinish, NotePause
  <2> QED BY <2>1, <2>2, <2>3
      DEF JobStep, JobInv, CancelledIsClosed, ExtractsAlone, PrintingJob,
          CancelledKept, At
<1> QED BY <1>3, <1>4, <1>5, <1>6, <1>7, <1>8 DEF WorkStep

\* Every step keeps JobInv and leaves a cancelled job cancelled, or loads or
\* resets.
LEMMA NextJob == IInv /\ JobInv /\ [Next]_vars => JobStep
<1> SUFFICES ASSUME IInv, JobInv, [Next]_vars PROVE JobStep
    OBVIOUS
<1>1. CASE Shutdown \/ Quiet \/ UNCHANGED vars
  <2>1. UNCHANGED vars \/ Shutdown
      BY <1>1 DEF Quiet
  <2> QED BY <2>1, JobUntouched
      DEF Shutdown, vars, schedVars, dataVars, jobVars, printVars, fileVars, statsVars
<1> QED BY <1>1, GreenletKeepsJob, RequestKeepsJob, WorkKeepsJob DEF Next

\* JobInv holds when the klippy process starts.
LEMMA InitJob == Init => JobInv
BY DEF Init, StatsInit, JobInv, CancelledIsClosed, ExtractsAlone, PrintingJob, At

\* JobInv is an invariant of the job's state.
LEMMA JobInvariance == Spec => []JobInv
<1>1. IInv /\ JobInv /\ [Next]_vars => JobInv'
    BY NextJob DEF JobStep
<1> QED BY <1>1, InitJob, Invariance, PTL DEF Spec

\* The state "printing" is never left behind by a work handler that is gone:
\* every way out of work_handler notes how the job stands.
THEOREM PrintingIsWorkedOn == Spec => []PrintingHasWorker
<1>1. JobInv => PrintingHasWorker
    BY DEF JobInv, PrintingJob, PrintingHasWorker
<1> QED BY <1>1, JobInvariance, PTL

\* Whatever the order in which requests, commands, events and the handler's
\* own end come: once do_cancel has noted the cancel, nothing but the load or
\* the reset of a file replaces that state.
THEOREM CancelledStays == Spec => CancelIsFinal
<1>1. IInv /\ JobInv /\ [Next]_vars =>
          [state = "cancelled" =>
              state' \in {"cancelled", "standby", "extracting"}]_vars
    BY NextJob DEF JobStep, CancelledKept
<1> QED BY <1>1, Invariance, JobInvariance, PTL DEF Spec, CancelIsFinal

-----------------------------------------------------------------------------
(* Where the greenlets and the work handler are in the job's code.         *)

\* Places a greenlet only passes through: it does not pause there.
Passing ==
    {"enter", "run", "paused", "close", "nofile", "reset", "m25", "cancel",
     "sendpause", "sent", "restored", "next", "exit"}

PassingRuns == \A g \in Greenlets : pc[g] \in Passing => running = g

\* Places of the handler outside the commands of the file.
Between == {"idle", "start", "plr", "loop"}

\* Places of the handler inside a command of the file or of the error script.
InLine == InScript \cup InCall \cup {"enter", "queued"}

\* cmd_from_sd is set from the dispatch of a line to the step after it, and an
\* error is remembered only on the way out of the loop.
HandlerPlace ==
    /\ pc[Sd] \in Between \cup InLine \cup {"next", "exit"}
    /\ pc[Sd] \in Between => ~cmdFromSd /\ ~sdError
    /\ pc[Sd] \in InLine \cup {"next"} => cmdFromSd
    /\ pc[Sd] = "next" => ~sdError
    /\ pc[Sd] \in InCall => script[Sd] # <<>>
    /\ pc[Sd] \in {"idle", "start", "plr"} => lines = <<>>

\* No handler is started under a load; do_pause has returned only when the
\* handler is gone or in a command of the file, and to _reset_file only when
\* it is gone.
CallPlace(g) ==
    /\ At(g, "scan") => ~workTimer
    /\ pc[g] \in {"close", "reset", "paused", "m25"} => ~MustWait
    /\ At(g, "reset") \/ (At(g, "wait") /\ after[g] = "reset") => ~cmdFromSd
    /\ At(g, "nofile") => currentFile = NoFile

FlowInv == PassingRuns /\ HandlerPlace /\ \A g \in Greenlets : CallPlace(g)

\* What a step of greenlet g to label must respect.
Admits(g, label) ==
    /\ label = "scan" => ~workTimer
    /\ label \in {"close", "reset", "paused", "m25"} =>
           At(g, "wait") /\ after[g] = label /\ ~MustWait
    /\ label = "wait" =>
           \/ At(g, "wait") /\ after'[g] = after[g]
           \/ /\ workTimer => mustPauseWork'
              /\ after'[g] = "reset" => ~cmdFromSd
    /\ label \in {"wait", "close", "reset", "paused", "m25"} =>
           script'[g] = script[g]
    /\ label = "nofile" => currentFile = NoFile /\ currentFile' = NoFile
    /\ g = Sd =>
           /\ pc[Sd] \in InLine
           /\ label \in InLine
           /\ label \in InCall => script'[Sd] # <<>>

\* Greenlet g moves to label; the handler's own variables are not touched.
Moves(g, label) ==
    /\ running \in {g, NoOne}
    /\ running' \in {g, NoOne}
    /\ pc' = [pc EXCEPT ![g] = label]
    /\ label \in Passing => running' = g
    /\ \A h \in Greenlets \ {g} :
           script'[h] = script[h] /\ after'[h] = after[h]
    /\ UNCHANGED <<lines, readPos, lineEnd, sdError, workTimer, cmdFromSd>>
    /\ mustPauseWork => mustPauseWork'
    /\ Admits(g, label)

\* The handler's script ends: the line is done, it has failed and the error
\* script follows, or the handler is on its way out.
HandlerLeaves ==
    /\ running' = Sd
    /\ pc[Sd] \in InScript \cup InCall
    /\ \/ pc' = [pc EXCEPT ![Sd] = "next"] /\ ~sdError /\ ~sdError'
       \/ pc' = [pc EXCEPT ![Sd] = "exit"]
       \/ pc' = [pc EXCEPT ![Sd] = "enter"] /\ sdError'
    /\ running \in {Sd, NoOne}
    /\ \A h \in Greenlets \ {Sd} : script'[h] = script[h]
    /\ UNCHANGED <<after, lines, readPos, lineEnd, workTimer, cmdFromSd>>
    /\ mustPauseWork => mustPauseWork'

\* A command starts the handler.
Resumes(g) ==
    /\ running \in {g, NoOne}
    /\ pc[g] \in InScript
    /\ script[g] # <<>>
    /\ ~workTimer
    /\ DoResume(g)

Stays ==
    /\ UNCHANGED <<schedVars, loopVars, workTimer, cmdFromSd, fileVars>>
    /\ mustPauseWork => mustPauseWork'

MovesOn(g) ==
    \/ \E label \in PcValues : Moves(g, label)
    \/ g = Sd /\ HandlerLeaves
    \/ Resumes(g)

\* The end of a command, and the end of a script, are such steps.
LEMMA DoneMoves ==
    ASSUME NEW g \in Greenlets, IInv, FlowInv, Holds(g), CommandDone(g),
           running \in {g, NoOne}, UNCHANGED jobVars
    PROVE  MovesOn(g)
<1>1. "run" \in PcValues
    BY DEF PcValues
<1>2. Admits(g, "run")
    BY DEF Admits, Holds, InLine, InScript, InCall
<1>3. Moves(g, "run")
    BY <1>2 DEF CommandDone, Moves, loopVars, workVars, jobVars, IInv, ScheduleInv,
                SchedTypeOK
<1> QED BY <1>1, <1>3 DEF MovesOn

LEMMA LeaveMoves ==
    ASSUME NEW g \in Greenlets, NEW how, IInv, FlowInv, Holds(g),
           LeaveScript(g, how), running \in {g, NoOne},
           UNCHANGED <<workTimer, cmdFromSd>>, mustPauseWork => mustPauseWork'
    PROVE  MovesOn(g)
<1>1. "idle" \in PcValues
    BY DEF PcValues
<1>2. ASSUME g # Sd PROVE Moves(g, "idle")
  <2>1. Admits(g, "idle")
      BY <1>2 DEF Admits
  <2> QED BY <1>2, <2>1
      DEF LeaveScript, Moves, Passing, IInv, ScheduleInv, SchedTypeOK
<1>3. ASSUME g = Sd PROVE HandlerLeaves
  <2>1. pc[Sd] \in InScript \cup InCall
      BY <1>3 DEF Holds
  <2>2. \/ pc' = [pc EXCEPT ![Sd] = "next"] /\ ~sdError /\ ~sdError'
        \/ pc' = [pc EXCEPT ![Sd] = "exit"]
        \/ pc' = [pc EXCEPT ![Sd] = "enter"] /\ sdError'
    <3>1. CASE how = "error" /\ ~sdError
        BY <1>3, <3>1 DEF LeaveScript
    <3>2. CASE ~(how = "error" /\ ~sdError)
        BY <1>3, <3>2 DEF LeaveScript
    <3> QED BY <3>1, <3>2
  <2> QED BY <1>3, <2>1, <2>2
      DEF LeaveScript, HandlerLeaves, IInv, ScheduleInv, SchedTypeOK
<1> QED BY <1>1, <1>2, <1>3 DEF MovesOn

LEMMA ErrorMoves ==
    ASSUME NEW g \in Greenlets, IInv, FlowInv, Holds(g),
           CommandError(g) \/ CommandCrash(g), running \in {g, NoOne},
           UNCHANGED <<workTimer, cmdFromSd>>, mustPauseWork => mustPauseWork'
    PROVE  MovesOn(g)
BY LeaveMoves DEF CommandError, CommandCrash

\* So is going on at another place.
LEMMA GotoMoves ==
    ASSUME NEW g \in Greenlets, NEW label \in PcValues,
           IInv, Admits(g, label), running \in {g, NoOne},
           \/ running' = g
           \/ running' = running /\ running = g
           \/ running' = NoOne /\ label \notin Passing,
           pc' = [pc EXCEPT ![g] = label],
           \A h \in Greenlets \ {g} :
               script'[h] = script[h] /\ after'[h] = after[h],
           UNCHANGED <<lines, readPos, lineEnd, sdError, workTimer, cmdFromSd>>,
           mustPauseWork => mustPauseWork'
    PROVE  MovesOn(g)
BY DEF Moves, MovesOn

\* Every step of a command is one of these.
LEMMA CommandMoves ==
    ASSUME NEW g \in Greenlets, IInv, JobInv, FlowInv, CommandStep(g)
    PROVE  MovesOn(g)
<1>r. ASSUME NEW cmd, Command(g, cmd)
      PROVE  /\ running = g /\ pc[g] = "run" /\ Holds(g) /\ script[g] # <<>>
             /\ pc[g] \in InLine
    BY <1>r, AtCommand DEF Command, InLine, InScript
<1>i. /\ InScript \cup InCall \subseteq InLine
      /\ InLine \subseteq PcValues
    BY DEF InLine, InScript, InCall, PcValues
<1>d. ASSUME UNCHANGED dataVars PROVE UNCHANGED jobVars /\ UNCHANGED mustPauseWork
    BY <1>d DEF dataVars, jobVars
<1>1. CASE CommandRefused(g)
    BY <1>1, <1>d, ErrorMoves DEF CommandRefused, At, Holds, InScript, jobVars
<1>2. CASE Macro(g)
  <2>1. /\ running = g /\ pc[g] = "run" /\ pc' = [pc EXCEPT ![g] = "run"]
        /\ "run" \in PcValues
      BY <1>2, <1>r, <1>i DEF Macro, IInv, ScheduleInv, SchedTypeOK, InScript
  <2>2. Admits(g, "run")
      BY <2>1 DEF Admits, InLine, InScript, InCall
  <2>3. PICK s : script' = [script EXCEPT ![g] = s]
      BY <1>2 DEF Macro
  <2>4. /\ \A h \in Greenlets \ {g} : script'[h] = script[h] /\ after'[h] = after[h]
        /\ UNCHANGED <<running, lines, readPos, lineEnd, sdError, workTimer,
                       cmdFromSd, mustPauseWork>>
      BY <1>2, <1>d, <2>3
      DEF Macro, loopVars, workVars, jobVars, IInv, ScheduleInv, SchedTypeOK
  <2> QED BY <2>1, <2>2, <2>4, GotoMoves
<1>3. CASE Move(g) \/ MoveEnd(g)
  <2>1. /\ running \in {g, NoOne} /\ pc[g] \in {"run", "busy"} /\ Holds(g)
        /\ UNCHANGED jobVars
      BY <1>3, <1>r, <1>d DEF Move, MoveEnd, At, Holds, InScript
  <2>2. CASE Suspend(g, "busy") /\ UNCHANGED loopVars
    <3>1. Admits(g, "busy") /\ "busy" \in PcValues
        BY <2>1 DEF Admits, InLine, InScript, InCall, PcValues
    <3> QED BY <2>1, <2>2, <3>1, GotoMoves
        DEF Suspend, loopVars, workVars, jobVars, Passing
  <2> QED BY <1>3, <2>1, <2>2, DoneMoves, ErrorMoves DEF Move, MoveEnd, jobVars
<1>4. CASE SdcardResetFile(g)
  <2>1. /\ running = g /\ pc[g] = "run" /\ Holds(g) /\ script[g] # <<>>
      BY <1>4, <1>r DEF SdcardResetFile
  <2>2. CASE ~cmdFromSd /\ DoPause(g, "reset")
    <3>1. Admits(g, "wait") /\ "wait" \in PcValues
        BY <2>1, <2>2
        DEF Admits, DoPause, AskToPause, InLine, InScript, InCall, PcValues
    <3> QED BY <2>1, <2>2, <3>1, GotoMoves
        DEF DoPause, AskToPause, loopVars, workVars, IInv, ScheduleInv, SchedTypeOK
  <2> QED BY <1>4, <2>1, <2>2, DoneMoves, ErrorMoves DEF SdcardResetFile, jobVars
<1>5. CASE ResetClose(g) \/ M25Return(g)
    BY <1>5, <1>d, InCommand, DoneMoves DEF ResetClose, M25Return, At, InScript
<1>6. CASE CloseNone(g)
  <2>1. /\ running = g /\ pc[g] \in {"close", "reset"}
        /\ UNCHANGED <<workTimer, cmdFromSd>> /\ (mustPauseWork => mustPauseWork')
      BY <1>6 DEF CloseNone, At, AskToPause
  <2>2. CASE script[g] = <<>>
    <3>1. g # Sd
        BY <2>1, <2>2, InCommand DEF FlowInv, HandlerPlace, InScript, InCall
    <3>2. Admits(g, "idle") /\ "idle" \in PcValues
        BY <3>1 DEF Admits, PcValues
    <3> QED BY <1>6, <2>1, <2>2, <3>2, GotoMoves
        DEF CloseNone, Suspend, loopVars, workVars, Passing
  <2>3. CASE script[g] # <<>>
      BY <1>6, <2>1, <2>3, ErrorMoves DEF CloseNone, Holds, InScript, InCall
  <2> QED BY <2>2, <2>3
<1>7. ASSUME NEW cmd \in LoadCommands,
             \/ LoadRefused(g, cmd) \/ LoadFailed(g, cmd)
             \/ LoadNothing(g, cmd) \/ LoadFile(g, cmd)
      PROVE  MovesOn(g)
  <2>1. /\ running = g /\ pc[g] = "run" /\ Holds(g) /\ script[g] # <<>>
      BY <1>7, <1>r DEF LoadRefused, LoadFailed, LoadNothing, LoadFile
  <2>2. CASE LoadFile(g, cmd)
    <3>1. PICK label \in {"extract", "scan"} : Suspend(g, label)
        BY <2>2 DEF LoadFile
    <3>2. Admits(g, label) /\ label \in PcValues \ Passing
        BY <2>1, <2>2
        DEF LoadFile, Admits, InLine, InScript, InCall, PcValues, Passing
    <3> QED BY <2>1, <2>2, <3>1, <3>2, GotoMoves
        DEF LoadFile, Suspend, loopVars, workVars, jobVars
  <2>3. CASE LoadRefused(g, cmd) \/ LoadFailed(g, cmd) \/ LoadNothing(g, cmd)
      BY <2>1, <2>3, <1>d, ErrorMoves
      DEF LoadRefused, LoadFailed, LoadNothing, jobVars
  <2> QED BY <1>7, <2>2, <2>3
<1>8. CASE Extracted(g)
  <2>1. running = NoOne /\ pc[g] = "extract" /\ Holds(g) /\ UNCHANGED jobVars
      BY <1>8, InCommand DEF Extracted, At, InScript
  <2>2. CASE pc' = [pc EXCEPT ![g] = "scan"]
             /\ UNCHANGED <<running, script, aborted, after, loopVars>>
    <3>1. ~workTimer
        BY <2>1 DEF JobInv, ExtractsAlone, At
    <3>2. g # Sd
        BY <2>1, <3>1 DEF IInv, ScheduleInv, LockInv, HandlerHasTimer
    <3>3. Admits(g, "scan") /\ "scan" \in PcValues \ Passing
        BY <3>1, <3>2 DEF Admits, PcValues, Passing
    <3> QED BY <2>1, <2>2, <3>3, GotoMoves DEF loopVars, workVars, jobVars
  <2> QED BY <1>8, <2>1, <2>2, ErrorMoves DEF Extracted, jobVars
<1>9. CASE Loaded(g)
  <2>1. running = NoOne /\ pc[g] = "scan" /\ Holds(g) /\ script[g] # <<>>
      BY <1>9, InCommand DEF Loaded, At, InScript
  <2> QED BY <1>9, <2>1, DoneMoves, ErrorMoves
      DEF Loaded, MovesOn, Resumes, InScript, jobVars
<1>10. CASE M24(g) \/ SendResumeCommand(g)
  <2>1. running = g /\ pc[g] \in InScript /\ Holds(g) /\ script[g] # <<>>
      BY <1>10, <1>r, InCommand DEF M24, SendResumeCommand, At, InScript
  <2>2. CASE (CommandDone(g) \/ CommandError(g)) /\ UNCHANGED jobVars
      BY <2>1, <2>2, DoneMoves, ErrorMoves DEF jobVars
  <2>3. CASE DoResume(g) /\ ~workTimer
      BY <2>1, <2>3 DEF MovesOn, Resumes
  <2> QED BY <1>10, <2>2, <2>3 DEF M24, SendResumeCommand
<1>11. CASE M9925(g)
  <2>1. running = g /\ pc[g] = "run" /\ script[g] # <<>> /\ DoPause(g, "m25")
      BY <1>11, <1>r DEF M9925
  <2>2. Admits(g, "wait") /\ "wait" \in PcValues
      BY <2>1
      DEF Admits, DoPause, AskToPause, InLine, InScript, InCall, PcValues, IInv,
          ScheduleInv, SchedTypeOK
  <2> QED BY <2>1, <2>2, GotoMoves
      DEF DoPause, AskToPause, loopVars, workVars, IInv, ScheduleInv, SchedTypeOK
<1>12. CASE M26(g) \/ ClearPause(g)
    BY <1>12, <1>r, DoneMoves, ErrorMoves DEF M26, ClearPause, jobVars
<1>13. CASE SdcardLoopEnd(g)
  <2>1. /\ running = g /\ pc[g] = "run" /\ Holds(g) /\ script[g] # <<>>
        /\ UNCHANGED jobVars
      BY <1>13, <1>r, <1>d DEF SdcardLoopEnd
  <2>2. CASE CommandDone(g) \/ CommandError(g)
      BY <2>1, <2>2, DoneMoves, ErrorMoves DEF jobVars
  <2>3. CASE /\ script' = [script EXCEPT ![g] = Tail(script[g])]
             /\ UNCHANGED <<running, pc, aborted, after, mutexVars, lines,
                            readPos, lineEnd, sdError>>
    <3>1. pc' = [pc EXCEPT ![g] = "run"]
        BY <2>1, <2>3 DEF IInv, ScheduleInv, SchedTypeOK
    <3>2. Admits(g, "run") /\ "run" \in PcValues
        BY <2>1 DEF Admits, InLine, InScript, InCall, PcValues
    <3> QED BY <2>1, <2>3, <3>1, <3>2, GotoMoves
        DEF jobVars, IInv, ScheduleInv, SchedTypeOK
  <2> QED BY <1>13, <2>2, <2>3 DEF SdcardLoopEnd
<1>14. CASE BasePause(g) \/ BaseResume(g) \/ RestoreEnd(g) \/ BaseCancelPrint(g)
  <2>1. /\ running \in {g, NoOne} /\ Holds(g) /\ script[g] # <<>>
        /\ UNCHANGED jobVars /\ pc[g] \in {"run", "restore"}
      BY <1>14, <1>r, <1>d, InCommand
      DEF BasePause, BaseResume, RestoreEnd, BaseCancelPrint, At, InScript
  <2>2. \/ CommandDone(g) \/ CommandError(g)
        \/ \E label \in {"sendpause", "restored", "restore", "cancel"} :
               /\ pc' = [pc EXCEPT ![g] = label]
               /\ \/ running' = g
                  \/ running' = running /\ running = g
                  \/ running' = NoOne /\ label = "restore"
               /\ UNCHANGED <<script, after, loopVars>>
      BY <1>14, <1>r
      DEF BasePause, BaseResume, RestoreEnd, BaseCancelPrint, Goto, Suspend
  <2>3. ASSUME NEW label \in {"sendpause", "restored", "restore", "cancel"},
               pc' = [pc EXCEPT ![g] = label],
               \/ running' = g
               \/ running' = running /\ running = g
               \/ running' = NoOne /\ label = "restore",
               UNCHANGED <<script, after, loopVars>>
        PROVE  MovesOn(g)
    <3>1. Admits(g, label) /\ label \in PcValues
        BY <2>1, <2>3 DEF Admits, InLine, InScript, InCall, PcValues
    <3> QED BY <2>1, <2>3, <3>1, GotoMoves
        DEF loopVars, workVars, jobVars, Passing
  <2> QED BY <2>1, <2>2, <2>3, DoneMoves, ErrorMoves DEF jobVars
<1>15. CASE BasePauseEnd(g)
    BY <1>15, DoneMoves DEF BasePauseEnd, At, Holds, InCall
<1> QED
    BY <1>1, <1>2, <1>3, <1>4, <1>5, <1>6, <1>7, <1>8, <1>9, <1>10, <1>11, <1>12,
       <1>13, <1>14, <1>15
    DEF CommandStep

\* So is every other step of a greenlet that runs scripts or waits in
\* do_pause.
LEMMA GreenletMoves ==
    ASSUME NEW g \in Greenlets, IInv, JobInv, FlowInv, GreenletStep(g)
    PROVE  MovesOn(g)
<1>i. InLine \subseteq PcValues
    BY DEF InLine, InScript, InCall, PcValues
<1>d. ASSUME UNCHANGED dataVars PROVE UNCHANGED jobVars
    BY <1>d DEF dataVars, jobVars
<1>1. CASE CommandStep(g)
    BY <1>1, CommandMoves
<1>2. CASE RunScript(g) \/ MutexGranted(g)
  <2>1. /\ running \in {g, NoOne} /\ pc[g] \in {"enter", "queued"}
        /\ UNCHANGED <<script, after, jobVars, workVars>>
        /\ \/ pc' = [pc EXCEPT ![g] = "run"] /\ running' = g
           \/ pc' = [pc EXCEPT ![g] = "queued"] /\ running' = NoOne
      BY <1>2, <1>d DEF RunScript, MutexGranted, At
  <2>2. ASSUME NEW label \in {"run", "queued"}, pc' = [pc EXCEPT ![g] = label],
               running' = (IF label = "run" THEN g ELSE NoOne)
        PROVE  MovesOn(g)
    <3>1. Admits(g, label) /\ label \in PcValues
        BY <2>1, <2>2 DEF Admits, InLine, InScript, InCall, PcValues
    <3> QED BY <2>1, <2>2, <3>1, GotoMoves DEF workVars, jobVars, Passing
  <2> QED BY <2>1, <2>2
<1>3. CASE ScriptEnd(g)
    BY <1>3, <1>d, LeaveMoves DEF ScriptEnd, At, Holds, InScript, jobVars
<1>4. CASE DoPausePoll(g)
  <2>1. /\ running = g /\ pc[g] = "wait" /\ UNCHANGED <<script, after>>
        /\ UNCHANGED <<jobVars, workVars>>
        /\ \/ pc' = [pc EXCEPT ![g] = "wait"] /\ running' = NoOne
           \/ pc' = [pc EXCEPT ![g] = after[g]] /\ running' = g /\ ~MustWait
      BY <1>4, <1>d DEF DoPausePoll, At, Suspend, Goto, loopVars
  <2>2. after[g] \in {"paused", "close", "reset", "m25"}
      BY DEF IInv, ScheduleInv, SchedTypeOK
  <2>3. g = Sd => script'[Sd] # <<>>
      BY <2>1 DEF FlowInv, HandlerPlace, InCall
  <2>4. CASE pc' = [pc EXCEPT ![g] = "wait"] /\ running' = NoOne
    <3>1. Admits(g, "wait") /\ "wait" \in PcValues
        BY <2>1, <2>3 DEF Admits, InLine, InCall, PcValues, At
    <3> QED BY <2>1, <2>4, <3>1, GotoMoves DEF workVars, jobVars, Passing
  <2>5. CASE pc' = [pc EXCEPT ![g] = after[g]] /\ running' = g /\ ~MustWait
    <3>1. PICK label \in {"paused", "close", "reset", "m25"} : label = after[g]
        BY <2>2
    <3>2. label \in InLine /\ label \in PcValues
        BY DEF InLine, InScript, InCall, PcValues
    <3>3. Admits(g, label)
        BY <2>1, <2>3, <2>5, <3>1, <3>2 DEF Admits, InLine, InCall, At
    <3> QED BY <2>1, <2>5, <3>1, <3>2, <3>3, GotoMoves DEF workVars, jobVars
  <2> QED BY <2>1, <2>4, <2>5
<1>5. CASE DoPauseWake(g)
  <2>1. /\ running = NoOne /\ running' = g /\ pc[g] = "wait"
        /\ pc' = [pc EXCEPT ![g] = "wait"]
        /\ UNCHANGED <<script, after, jobVars, workVars>>
      BY <1>5, <1>d
      DEF DoPauseWake, At, loopVars, IInv, ScheduleInv, SchedTypeOK
  <2>2. Admits(g, "wait") /\ "wait" \in PcValues
      BY <2>1 DEF Admits, At, InLine, InCall, PcValues, FlowInv, HandlerPlace
  <2> QED BY <2>1, <2>2, GotoMoves DEF workVars, jobVars
<1>6. CASE SendPauseCommand(g) \/ PauseCommandSent(g)
  <2>0. ASSUME SendPauseCommand(g)
        PROVE  \/ Goto(g, "sent") /\ UNCHANGED <<loopVars, jobVars>>
               \/ DoPause(g, "paused") /\ workTimer
      BY <2>0 DEF SendPauseCommand
  <2>1. /\ running = g /\ pc[g] \in {"sendpause", "paused"} /\ running' = running
        /\ UNCHANGED <<script, loopVars, workTimer, cmdFromSd>>
        /\ mustPauseWork => mustPauseWork'
        /\ \/ pc' = [pc EXCEPT ![g] = "sent"] /\ UNCHANGED after
           \/ /\ pc' = [pc EXCEPT ![g] = "wait"]
              /\ after' = [after EXCEPT ![g] = "paused"]
              /\ workTimer => mustPauseWork'
    <3>1. running = g /\ pc[g] \in {"sendpause", "paused"}
        BY <1>6 DEF SendPauseCommand, PauseCommandSent, At
    <3>2. CASE Goto(g, "sent") /\ UNCHANGED <<loopVars, jobVars>>
        BY <3>1, <3>2 DEF Goto, jobVars
    <3>3. CASE DoPause(g, "paused")
        BY <3>1, <3>3 DEF DoPause, AskToPause
    <3> QED BY <1>6, <2>0, <3>2, <3>3 DEF PauseCommandSent
  <2>2. g = Sd => script'[Sd] # <<>>
      BY <2>1 DEF FlowInv, HandlerPlace, InCall
  <2>3. CASE pc' = [pc EXCEPT ![g] = "sent"] /\ UNCHANGED after
    <3>1. Admits(g, "sent") /\ "sent" \in PcValues
        BY <2>1, <2>2 DEF Admits, InLine, InCall, PcValues
    <3> QED BY <2>1, <2>3, <3>1, GotoMoves DEF loopVars, workVars
  <2>4. CASE /\ pc' = [pc EXCEPT ![g] = "wait"]
             /\ after' = [after EXCEPT ![g] = "paused"]
             /\ workTimer => mustPauseWork'
    <3>1. after'[g] = "paused" /\ \A h \in Greenlets \ {g} : after'[h] = after[h]
        BY <2>4 DEF IInv, ScheduleInv, SchedTypeOK
    <3>2. Admits(g, "wait") /\ "wait" \in PcValues
        BY <2>1, <2>2, <2>4, <3>1 DEF Admits, InLine, InCall, PcValues
    <3> QED BY <2>1, <2>4, <3>1, <3>2, GotoMoves DEF loopVars, workVars
  <2> QED BY <2>1, <2>3, <2>4
<1>7. CASE DoCancel(g)
  <2>1. /\ running = g /\ pc[g] = "cancel" /\ running' = running
        /\ UNCHANGED <<script, loopVars, workTimer, cmdFromSd>>
      BY <1>7 DEF DoCancel, At
  <2>2. g = Sd => script'[Sd] # <<>>
      BY <2>1 DEF FlowInv, HandlerPlace, InCall
  <2>3. CASE currentFile = NoFile
    <3>1. /\ pc' = [pc EXCEPT ![g] = "nofile"] /\ currentFile' = NoFile
          /\ UNCHANGED <<after, mustPauseWork>>
        BY <1>7, <2>3 DEF DoCancel, printVars, fileVars
    <3>2. Admits(g, "nofile") /\ "nofile" \in PcValues
        BY <2>1, <2>2, <2>3, <3>1 DEF Admits, InLine, InCall, PcValues
    <3> QED BY <2>1, <3>1, <3>2, GotoMoves DEF loopVars, workVars
  <2>4. CASE currentFile # NoFile
    <3>1. /\ pc' = [pc EXCEPT ![g] = "wait"] /\ after'[g] = "close"
          /\ \A h \in Greenlets \ {g} : after'[h] = after[h]
          /\ mustPauseWork' = (mustPauseWork \/ workTimer)
        BY <1>7, <2>4 DEF DoCancel, AskToPause, IInv, ScheduleInv, SchedTypeOK
    <3>2. Admits(g, "wait") /\ "wait" \in PcValues
        BY <2>1, <2>2, <3>1 DEF Admits, InLine, InCall, PcValues
    <3> QED BY <2>1, <3>1, <3>2, GotoMoves DEF loopVars, workVars
  <2> QED BY <2>3, <2>4
<1>8. CASE CancelNoFile(g) \/ CancelClose(g)
  <2>1. /\ running = g /\ pc[g] \in {"nofile", "close"} /\ UNCHANGED jobVars
        /\ CancelReturn(g)
      BY <1>8 DEF CancelNoFile, CancelClose, At
  <2>2. CASE script[g] = <<>>
    <3>1. g # Sd
        BY <2>1, <2>2 DEF FlowInv, HandlerPlace, InCall
    <3>2. /\ pc' = [pc EXCEPT ![g] = "enter"] /\ UNCHANGED <<running, after, loopVars>>
          /\ \A h \in Greenlets \ {g} : script'[h] = script[h]
        BY <2>1, <2>2 DEF CancelReturn, IInv, ScheduleInv, SchedTypeOK
    <3>3. Admits(g, "enter") /\ "enter" \in PcValues
        BY <3>1 DEF Admits, PcValues
    <3> QED BY <2>1, <3>2, <3>3, GotoMoves DEF loopVars, workVars, jobVars
  <2>3. CASE script[g] # <<>>
      BY <2>1, <2>3, DoneMoves DEF CancelReturn, Holds, InCall
  <2> QED BY <2>2, <2>3
<1> QED BY <1>1, <1>2, <1>3, <1>4, <1>5, <1>6, <1>7, <1>8 DEF GreenletStep, CommandStep

\* Requests and events are steps of one client.
LEMMA RequestMoves ==
    ASSUME NEW c \in Clients, IInv, FlowInv, RequestStep(c) \/ RunoutStep(c)
    PROVE  c \in Greenlets /\ c # Sd /\ MovesOn(c)
<1>1. c \in Greenlets /\ c # Sd
    BY GreenletsAssumption
<1>2. /\ running \in {c, NoOne}
      /\ UNCHANGED <<after, loopVars, jobVars>>
      /\ \A h \in Greenlets \ {c} : script'[h] = script[h]
      /\ \E label \in {"enter", "cancel", "sendpause", "delay"} :
             /\ pc' = [pc EXCEPT ![c] = label]
             /\ running' = c \/ (running' = NoOne /\ label = "delay")
    BY <1>1
    DEF RequestStep, RunoutStep, ScriptRequest, CancelRequest, RunoutEvent,
        NewRequest, RunoutDelay, RunoutScript, Suspend, dataVars, IInv, ScheduleInv,
        SchedTypeOK
<1>3. PICK label \in {"enter", "cancel", "sendpause", "delay"} :
          /\ pc' = [pc EXCEPT ![c] = label]
          /\ running' = c \/ (running' = NoOne /\ label = "delay")
    BY <1>2
<1>4. Admits(c, label) /\ label \in PcValues
    BY <1>1 DEF Admits, PcValues
<1> QED BY <1>1, <1>2, <1>3, <1>4, GotoMoves DEF loopVars, workVars, jobVars, Passing

\* A step is one of a greenlet or of the work handler, or moves nobody.
LEMMA StepKinds ==
    ASSUME IInv, JobInv, FlowInv, [Next]_vars
    PROVE  (\E g \in Greenlets : MovesOn(g)) \/ WorkStep \/ Stays
<1>1. CASE Shutdown
    BY <1>1 DEF Shutdown, AskToPause, Stays, printVars
<1>2. CASE Quiet \/ UNCHANGED vars
    BY <1>2 DEF Quiet, vars, dataVars, jobVars, printVars, Stays
<1> QED BY <1>1, <1>2, GreenletMoves, RequestMoves DEF Next

\* Each kind of step keeps FlowInv.
LEMMA MovesFlow ==
    ASSUME NEW g \in Greenlets, NEW label \in PcValues, IInv, FlowInv,
           Moves(g, label)
    PROVE  FlowInv'
<1>1. /\ pc'[g] = label
      /\ \A h \in Greenlets \ {g} :
             /\ pc'[h] = pc[h] /\ script'[h] = script[h] /\ after'[h] = after[h]
             /\ pc[h] \notin Passing
    BY GreenletsAssumption
    DEF Moves, FlowInv, PassingRuns, IInv, ScheduleInv, SchedTypeOK
<1>2. PassingRuns'
    BY <1>1 DEF Moves, PassingRuns
<1>3. HandlerPlace'
  <2>1. CASE g = Sd
    <3>1. pc[Sd] \in InLine /\ pc'[Sd] \in InLine
              /\ (pc'[Sd] \in InCall => script'[Sd] # <<>>)
        BY <1>1, <2>1 DEF Moves, Admits
    <3>2. /\ \A l \in InLine : l \notin Between \cup {"next"}
          /\ \A l \in InLine : l \notin {"idle", "start", "plr"}
        BY DEF InLine, InScript, InCall, Between
    <3> QED BY <3>1, <3>2 DEF Moves, FlowInv, HandlerPlace
  <2>2. CASE g # Sd
      BY <1>1, <2>2, GreenletsAssumption DEF Moves, FlowInv, HandlerPlace
  <2> QED BY <2>1, <2>2
<1>4. CallPlace(g)'
  <2>1. workTimer' = workTimer /\ cmdFromSd' = cmdFromSd /\ CallPlace(g) /\ Admits(g, label)
      BY DEF Moves, FlowInv
  <2>2. At(g, "scan")' => ~workTimer'
      BY <1>1, <2>1 DEF Admits, At
  <2>3. pc'[g] \in {"close", "reset", "paused", "m25"} => ~MustWait'
      BY <1>1, <2>1 DEF Admits, MustWait
  <2>4. At(g, "reset")' \/ (At(g, "wait")' /\ after'[g] = "reset") => ~cmdFromSd'
      BY <1>1, <2>1 DEF Admits, At, CallPlace
  <2>5. At(g, "nofile")' => currentFile' = NoFile
      BY <1>1, <2>1 DEF Admits, At
  <2> QED BY <2>2, <2>3, <2>4, <2>5 DEF CallPlace
<1>5. ASSUME NEW h \in Greenlets \ {g} PROVE CallPlace(h)'
    BY <1>1 DEF Moves, FlowInv, CallPlace, At, MustWait, Passing
<1> QED BY <1>2, <1>3, <1>4, <1>5 DEF FlowInv

LEMMA LeavesFlow ==
    ASSUME IInv, FlowInv, HandlerLeaves
    PROVE  FlowInv'
<1>1. PICK label \in {"next", "exit", "enter"} :
          /\ pc' = [pc EXCEPT ![Sd] = label]
          /\ label = "next" => ~sdError'
    BY DEF HandlerLeaves
<1>2. /\ pc'[Sd] = label /\ Sd \in Greenlets /\ Sd # NoOne
      /\ \A h \in Greenlets \ {Sd} :
             pc'[h] = pc[h] /\ after'[h] = after[h] /\ pc[h] \notin Passing
    BY <1>1, GreenletsAssumption
    DEF HandlerLeaves, FlowInv, PassingRuns, IInv, ScheduleInv, SchedTypeOK
<1>3. PassingRuns'
    BY <1>2 DEF HandlerLeaves, PassingRuns
<1>4. HandlerPlace'
  <2>1. cmdFromSd'
      BY DEF HandlerLeaves, FlowInv, HandlerPlace, InLine
  <2> QED BY <1>1, <1>2, <2>1 DEF HandlerPlace, Between, InLine, InScript, InCall
<1>5. ASSUME NEW h \in Greenlets PROVE CallPlace(h)'
  <2>1. CASE h = Sd
      BY <1>2, <2>1 DEF CallPlace, At
  <2>2. CASE h # Sd
      BY <1>2, <2>2 DEF HandlerLeaves, FlowInv, CallPlace, At, MustWait, Passing
  <2> QED BY <2>1, <2>2
<1> QED BY <1>3, <1>4, <1>5 DEF FlowInv

LEMMA ResumesFlow ==
    ASSUME NEW g \in Greenlets, IInv, FlowInv, Resumes(g)
    PROVE  FlowInv'
<1>1. pc[Sd] = "idle" /\ g # Sd /\ Sd \in Greenlets
    BY GreenletsAssumption
    DEF Resumes, IInv, ScheduleInv, LockInv, HandlerHasTimer, Holds, InScript, InCall
<1>2. /\ pc'[g] = "run" /\ pc'[Sd] = "start" /\ running' = g
      /\ script'[Sd] = script[Sd] /\ after' = after
      /\ \A h \in Greenlets \ {g, Sd} : pc'[h] = pc[h] /\ pc[h] \notin Passing
      /\ UNCHANGED <<cmdFromSd, loopVars>>
    BY <1>1, GreenletsAssumption
    DEF Resumes, DoResume, FlowInv, PassingRuns, IInv, ScheduleInv, SchedTypeOK
<1>3. \A h \in Greenlets \ {g} : ~Holds(h)
    BY DEF Resumes, Holds, IInv, ScheduleInv, LockInv, LockConsistent
<1>4. PassingRuns'
    BY <1>1, <1>2 DEF PassingRuns, Passing
<1>5. HandlerPlace'
    BY <1>1, <1>2
    DEF FlowInv, HandlerPlace, Between, InLine, InScript, InCall, loopVars, workVars
<1>6. ASSUME NEW h \in Greenlets PROVE CallPlace(h)'
  <2>1. CASE h \in {g, Sd}
      BY <1>2, <2>1 DEF CallPlace, At
  <2>2. CASE h \notin {g, Sd}
    <3>1. pc[h] # "scan"
        BY <1>3, <2>2 DEF Holds, InScript
    <3> QED BY <1>2, <2>2, <3>1 DEF FlowInv, CallPlace, At, Passing
  <2> QED BY <2>1, <2>2
<1> QED BY <1>4, <1>5, <1>6 DEF FlowInv

\* The handler's own places and flags after a step of it.
LEMMA WorkPlaces ==
    ASSUME IInv, FlowInv, WorkStep
    PROVE  /\ running \in {Sd, NoOne} /\ running' \in {Sd, NoOne}
           /\ pc[Sd] \in {"start", "plr", "loop", "next", "exit"}
           /\ \E label \in Between \cup {"enter", "exit"} :
                  /\ pc' = [pc EXCEPT ![Sd] = label]
                  /\ label \in Passing => running' = Sd
           /\ after' = after
           /\ \A h \in Greenlets \ {Sd} : script'[h] = script[h]
           /\ HandlerPlace'
           /\ cmdFromSd' => cmdFromSd \/ ~isLocked
           /\ UNCHANGED mustPauseWork
<1>s. Sd \in Greenlets /\ pc \in [Greenlets -> PcValues] /\ script \in [Greenlets -> Seq(Commands)]
    BY GreenletsAssumption DEF IInv, ScheduleInv, SchedTypeOK
<1>h. HandlerPlace
    BY DEF FlowInv
<1>1. CASE WorkStart
    BY <1>1, <1>s, <1>h
    DEF WorkStart, WorkAbandon, Suspend, At, jobVars, loopVars, mutexVars, workVars, HandlerPlace,
        Between, InLine, InScript, InCall, Passing
<1>2. CASE PowerOffResumeEnd
    BY <1>2, <1>s, <1>h
    DEF PowerOffResumeEnd, WorkAbandon, WorkLocalsEnd, Suspend, At, jobVars, workVars,
        HandlerPlace, Between, InLine, InScript, InCall, Passing
<1>3. CASE WorkRead
    BY <1>3, <1>s, <1>h
    DEF WorkRead, AtWorkLoop, Suspend, Goto, At, jobVars, workVars, HandlerPlace, Between,
        InLine, InScript, InCall, Passing
<1>4. CASE WorkYield \/ WorkWake
    BY <1>4, <1>s, <1>h
    DEF WorkYield, WorkWake, AtWorkLoop, Suspend, At, dataVars, jobVars, loopVars, workVars,
        HandlerPlace, Between, InLine, InScript, InCall, Passing
<1>5. CASE WorkDispatch
    BY <1>5, <1>s, <1>h
    DEF WorkDispatch, AtWorkLoop, At, HandlerPlace, Between, InLine, InScript, InCall,
        Passing
<1>6. CASE WorkNext
    BY <1>6, <1>s, <1>h
    DEF WorkNext, WorkLocalsEnd, Suspend, Goto, At, HandlerPlace, Between, InLine,
        InScript, InCall, Passing
<1>7. CASE WorkExit
    BY <1>7, <1>s, <1>h
    DEF WorkExit, WorkLocalsEnd, Suspend, At, HandlerPlace, Between, InLine, InScript,
        InCall, Passing
<1> QED BY <1>1, <1>2, <1>3, <1>4, <1>5, <1>6, <1>7 DEF WorkStep

LEMMA WorkFlow ==
    ASSUME IInv, FlowInv, WorkStep
    PROVE  FlowInv'
<1>1. PICK label \in Between \cup {"enter", "exit"} :
          /\ pc' = [pc EXCEPT ![Sd] = label]
          /\ label \in Passing => running' = Sd
    BY WorkPlaces
<1>2. /\ pc'[Sd] = label /\ Sd \in Greenlets
      /\ \A h \in Greenlets \ {Sd} :
             pc'[h] = pc[h] /\ after'[h] = after[h] /\ pc[h] \notin Passing
    BY <1>1, WorkPlaces, GreenletsAssumption
    DEF FlowInv, PassingRuns, IInv, ScheduleInv, SchedTypeOK
<1>3. PassingRuns'
    BY <1>1, <1>2 DEF PassingRuns
<1>4. workTimer
    BY WorkPlaces DEF IInv, ScheduleInv, LockInv, HandlerHasTimer
<1>5. CallPlace(Sd)'
    BY <1>2 DEF CallPlace, At, Between
<1>6. ASSUME NEW h \in Greenlets \ {Sd} PROVE CallPlace(h)'
  <2>1. At(h, "wait") /\ after[h] = "reset" => ~cmdFromSd'
    <3>1. SUFFICES ASSUME At(h, "wait"), after[h] = "reset" PROVE ~cmdFromSd'
        OBVIOUS
    <3>2. Holds(h)
        BY <3>1 DEF At, IInv, ScheduleInv, LockInv, ScriptAtHand, AtHand, Holds, InCall
    <3>3. isLocked
        BY <3>2 DEF IInv, ScheduleInv, LockInv, LockConsistent
    <3>4. ~cmdFromSd
        BY <3>1 DEF FlowInv, CallPlace
    <3> QED BY <3>3, <3>4, WorkPlaces
  <2>2. pc[h] # "scan"
      BY <1>4 DEF FlowInv, CallPlace, At
  <2> QED BY <1>2, <2>1, <2>2 DEF CallPlace, At, Passing
<1> QED BY <1>3, <1>5, <1>6, WorkPlaces DEF FlowInv

LEMMA StaysFlow ==
    ASSUME FlowInv, Stays
    PROVE  FlowInv'
BY DEF Stays, schedVars, loopVars, workVars, fileVars, FlowInv, PassingRuns,
       HandlerPlace, CallPlace, At, MustWait

\* Every step does.
LEMMA NextFlow == IInv /\ JobInv /\ FlowInv /\ [Next]_vars => FlowInv'
BY StepKinds, MovesFlow, LeavesFlow, ResumesFlow, WorkFlow, StaysFlow DEF MovesOn

\* FlowInv holds when the klippy process starts.
LEMMA InitFlow == Init => FlowInv
<1> SUFFICES ASSUME Init PROVE FlowInv
    OBVIOUS
<1>1. \A g \in Greenlets : pc[g] = "idle"
    BY DEF Init
<1>2. Sd \in Greenlets /\ pc[Sd] = "idle" /\ ~cmdFromSd /\ ~sdError /\ lines = <<>>
    BY <1>1, GreenletsAssumption DEF Init
<1>3. HandlerPlace
    BY <1>2 DEF HandlerPlace, Between, InLine, InScript, InCall
<1>4. PassingRuns
    BY <1>1 DEF PassingRuns, Passing
<1>5. ASSUME NEW g \in Greenlets PROVE CallPlace(g)
    BY <1>1 DEF CallPlace, At
<1> QED BY <1>3, <1>4, <1>5 DEF FlowInv

\* FlowInv is an invariant.
LEMMA FlowInvariance == Spec => []FlowInv
BY InitFlow, NextFlow, Invariance, JobInvariance, PTL DEF Spec

-----------------------------------------------------------------------------
(* The lines of the file come in their order.                              *)

\* The handler has read up to readPos and has in hand, in order, the lines
\* from position p on.
Ahead(p) ==
    /\ readPos = p + Len(lines)
    /\ \A i \in 1..Len(lines) :
           lines[i] = [file |-> currentFile, pos |-> p + i - 1]

LinesInv ==
    currentFile # NoFile =>
        /\ pc[Sd] \in {"plr", "loop"} => Ahead(filePosition)
        /\ pc[Sd] \in InLine \cup {"next"} /\ ~sdError => Ahead(lineEnd)

\* What other greenlets, and the commands of the file itself, do to the job
\* while its handler exists: the file can be closed, by do_cancel when
\* do_pause has returned, and a job whose file is closed can be reset, but not
\* by a command of the file.
LEMMA JobTouched ==
    ASSUME NEW g \in Greenlets, IInv, JobInv, FlowInv, workTimer, GreenletStep(g)
    PROVE  \/ UNCHANGED <<state, started, fileVars>>
           \/ /\ currentFile' = NoFile
              /\ \/ At(g, "close") /\ state' \in {state, "cancelled"}
                 \/ currentFile = NoFile /\ state' = state
                 \/ currentFile = NoFile /\ ~cmdFromSd /\ running = g
<1>1. CASE CommandStep(g)
  <2>1. CASE SdcardResetFile(g)
      BY <2>1 DEF SdcardResetFile, Command, fileVars, statsVars
  <2>2. CASE ResetClose(g)
      BY <2>2 DEF ResetClose, At, FlowInv, CallPlace, MustWait
  <2>3. ASSUME NEW cmd \in LoadCommands,
               \/ LoadRefused(g, cmd) \/ LoadFailed(g, cmd)
               \/ LoadNothing(g, cmd) \/ LoadFile(g, cmd)
        PROVE  UNCHANGED <<state, started, fileVars>>
      BY <2>3 DEF LoadRefused, LoadFailed, LoadNothing, LoadFile, dataVars, printVars,
                  statsVars
  <2>4. CASE Extracted(g) \/ Loaded(g)
      BY <2>4 DEF Extracted, Loaded, JobInv, ExtractsAlone, FlowInv, CallPlace, At
  <2>5. CASE M26(g)
      BY <2>5 DEF M26, fileVars, statsVars
  <2>6. CASE \/ CommandRefused(g) \/ Macro(g) \/ Move(g) \/ MoveEnd(g) \/ CloseNone(g)
             \/ M24(g) \/ M9925(g) \/ M25Return(g) \/ SdcardLoopEnd(g)
             \/ BasePause(g) \/ BasePauseEnd(g) \/ BaseResume(g) \/ RestoreEnd(g)
             \/ SendResumeCommand(g) \/ ClearPause(g) \/ BaseCancelPrint(g)
      BY <2>6
      DEF CommandRefused, Macro, Move, MoveEnd, CloseNone, M24, M9925, M25Return,
          SdcardLoopEnd, BasePause, BasePauseEnd, BaseResume, RestoreEnd,
          SendResumeCommand, ClearPause, BaseCancelPrint, dataVars, printVars,
          statsVars
  <2> QED BY <1>1, <2>1, <2>2, <2>3, <2>4, <2>5, <2>6 DEF CommandStep
<1>2. CASE CancelClose(g)
    BY <1>2 DEF CancelClose, NoteFinish
<1>3. CASE CancelNoFile(g)
    BY <1>3 DEF CancelNoFile, FlowInv, CallPlace, statsVars
<1>4. CASE \/ RunScript(g) \/ MutexGranted(g) \/ ScriptEnd(g) \/ DoPausePoll(g)
           \/ DoPauseWake(g) \/ SendPauseCommand(g) \/ PauseCommandSent(g)
           \/ DoCancel(g)
    BY <1>4
    DEF RunScript, MutexGranted, ScriptEnd, DoPausePoll, DoPauseWake,
        SendPauseCommand, PauseCommandSent, DoCancel, dataVars, printVars, statsVars
<1> QED BY <1>1, <1>2, <1>3, <1>4 DEF GreenletStep

\* A request leaves it alone.
LEMMA JobNotTouched ==
    ASSUME NEW c \in Clients, RequestStep(c) \/ RunoutStep(c)
    PROVE  UNCHANGED <<state, started, fileVars>>
BY DEF RequestStep, RunoutStep, ScriptRequest, CancelRequest, RunoutEvent, NewRequest,
       RunoutDelay, RunoutScript, dataVars, printVars, statsVars

\* The steps again, with what they do to the job's file.
LEMMA FileKinds ==
    ASSUME IInv, JobInv, FlowInv, [Next]_vars
    PROVE  \/ \E g \in Greenlets :
                  /\ MovesOn(g)
                  /\ workTimer => UNCHANGED fileVars \/ currentFile' = NoFile
           \/ WorkStep
           \/ Stays
<1>1. ASSUME NEW g \in Greenlets, GreenletStep(g)
      PROVE  MovesOn(g) /\ (workTimer => UNCHANGED fileVars \/ currentFile' = NoFile)
    BY <1>1, GreenletMoves, JobTouched
<1>2. ASSUME NEW c \in Clients, RequestStep(c) \/ RunoutStep(c)
      PROVE  c \in Greenlets /\ MovesOn(c) /\ UNCHANGED fileVars
    BY <1>2, RequestMoves, JobNotTouched
<1>3. CASE Shutdown
    BY <1>3 DEF Shutdown, AskToPause, Stays, printVars
<1>4. CASE Quiet \/ UNCHANGED vars
    BY <1>4 DEF Quiet, vars, dataVars, jobVars, printVars, Stays
<1> QED BY <1>1, <1>2, <1>3, <1>4 DEF Next

\* A step of a greenlet or a request keeps the lines in order: it does not
\* touch them, and the file it can only close.
LEMMA MovesLines ==
    ASSUME NEW g \in Greenlets, IInv, FlowInv, LinesInv, MovesOn(g),
           workTimer => UNCHANGED fileVars \/ currentFile' = NoFile
    PROVE  LinesInv'
<1>1. SUFFICES ASSUME currentFile' # NoFile,
                      \/ pc'[Sd] \in {"plr", "loop"}
                      \/ pc'[Sd] \in InLine \cup {"next"} /\ ~sdError'
               PROVE  /\ pc'[Sd] \in {"plr", "loop"} => Ahead(filePosition)'
                      /\ pc'[Sd] \in InLine \cup {"next"} /\ ~sdError' =>
                             Ahead(lineEnd)'
    BY DEF LinesInv
<1>s. /\ Sd \in Greenlets /\ pc \in [Greenlets -> PcValues]
      /\ \A l \in InLine \cup {"next"} : l \notin {"plr", "loop", "idle"}
    BY GreenletsAssumption DEF IInv, ScheduleInv, SchedTypeOK, InLine, InScript, InCall
<1>2. CASE Resumes(g)
  <2>1. pc'[Sd] = "start"
      BY <1>2, <1>s DEF Resumes, DoResume
  <2> QED BY <1>1, <2>1 DEF InLine, InScript, InCall
<1>3. CASE ~Resumes(g)
  <2>1. /\ UNCHANGED <<lines, readPos, lineEnd>>
        /\ pc'[Sd] \in {"plr", "loop"} => pc[Sd] = pc'[Sd]
        /\ pc'[Sd] \in InLine \cup {"next"} /\ ~sdError' =>
               pc[Sd] \in InLine \cup {"next"} /\ ~sdError
    <3>1. CASE g = Sd /\ HandlerLeaves
      <4>1. PICK label \in {"next", "exit", "enter"} :
                /\ pc' = [pc EXCEPT ![Sd] = label]
                /\ label = "next" => ~sdError
                /\ label = "enter" => sdError'
          BY <3>1 DEF HandlerLeaves
      <4>2. pc[Sd] \in InLine /\ pc'[Sd] = label
          BY <3>1, <4>1, <1>s DEF HandlerLeaves, InLine
      <4> QED BY <3>1, <4>1, <4>2, <1>s DEF HandlerLeaves, InLine, InScript, InCall
    <3>2. ASSUME NEW label \in PcValues, Moves(g, label)
          PROVE  /\ UNCHANGED <<lines, readPos, lineEnd, sdError>>
                 /\ \/ pc'[Sd] = pc[Sd]
                    \/ pc[Sd] \in InLine /\ pc'[Sd] \in InLine
      <4>1. CASE g = Sd
          BY <3>2, <4>1, <1>s DEF Moves, Admits
      <4>2. CASE g # Sd
          BY <3>2, <4>2, <1>s DEF Moves
      <4> QED BY <4>1, <4>2
    <3> QED BY <1>3, <3>1, <3>2, <1>s DEF MovesOn
  <2>2. workTimer
    <3>1. pc[Sd] # "idle"
        BY <1>1, <2>1, <1>s
    <3> QED BY <3>1 DEF IInv, ScheduleInv, LockInv, HandlerHasTimer
  <2>3. UNCHANGED <<currentFile, filePosition>>
      BY <1>1, <2>2 DEF fileVars
  <2> QED BY <1>1, <2>1, <2>3 DEF LinesInv, Ahead
<1> QED BY <1>2, <1>3

\* One read takes what is left of the file, or Chunk lines of it.
LEMMA ReadOrder ==
    ASSUME IInv, currentFile # NoFile, readPos < Len(Lines[currentFile])
    PROVE  /\ NextLines \in Seq([file : Files \cup {NoFile}, pos : Int])
           /\ Len(NextLines) = LinesRead /\ LinesRead \in Nat
           /\ \A i \in 1..LinesRead :
                  NextLines[i] = [file |-> currentFile, pos |-> readPos + i - 1]
<1>1. /\ readPos \in Nat /\ currentFile \in Files
      /\ Len(Lines[currentFile]) \in Nat /\ Chunk \in Nat
    BY InputsAssumption, FilesAssumption DEF IInv, ScheduleInv, LoopTypeOK, DataTypeOK
<1>2. LinesRead \in Nat
    BY <1>1 DEF LinesRead
<1>3. PICK n \in Nat : n = LinesRead
    BY <1>2
<1>4. NextLines = [i \in 1..n |-> [file |-> currentFile, pos |-> readPos + i - 1]]
    BY <1>3 DEF NextLines
<1>5. NextLines \in Seq([file : Files \cup {NoFile}, pos : Int])
    BY <1>1, <1>3, <1>4
<1> QED BY <1>3, <1>4, <1>5

\* The handler's own steps: a read, the dispatch of a line, a seek.
LEMMA WorkLines ==
    ASSUME IInv, FlowInv, LinesInv, WorkStep
    PROVE  LinesInv'
<1>s. /\ Sd \in Greenlets /\ pc \in [Greenlets -> PcValues]
      /\ readPos \in Nat /\ filePosition \in Nat /\ lineEnd \in Nat /\ nextFilePosition \in Nat
      /\ lines \in Seq(LineRecords) /\ Len(lines) \in Nat
    BY GreenletsAssumption
    DEF IInv, ScheduleInv, SchedTypeOK, LoopTypeOK, DataTypeOK
<1>1. CASE WorkStart
  <2>1. CASE currentFile = NoFile
      BY <1>1, <2>1 DEF WorkStart, fileVars, LinesInv
  <2>2. CASE currentFile # NoFile
    <3>1. readPos' = filePosition /\ lines' = <<>> /\ UNCHANGED fileVars
        BY <1>1, <2>2 DEF WorkStart
    <3>2. pc'[Sd] \in {"plr", "loop"}
        BY <1>1, <2>2, <1>s DEF WorkStart, Suspend
    <3>3. Ahead(filePosition)'
        BY <3>1, <1>s DEF Ahead, fileVars
    <3> QED BY <3>2, <3>3 DEF LinesInv, InLine, InScript, InCall
  <2> QED BY <2>1, <2>2
<1>2. CASE PowerOffResumeEnd
  <2>1. pc[Sd] = "plr" /\ UNCHANGED fileVars
      BY <1>2 DEF PowerOffResumeEnd, At
  <2>2. CASE pc' = [pc EXCEPT ![Sd] = "loop"] /\ UNCHANGED workVars
      BY <2>1, <2>2, <1>s
      DEF LinesInv, Ahead, fileVars, workVars, InLine, InScript, InCall
  <2>3. CASE pc' = [pc EXCEPT ![Sd] = "idle"]
      BY <2>3, <1>s DEF LinesInv, InLine, InScript, InCall
  <2> QED BY <1>2, <2>2, <2>3 DEF PowerOffResumeEnd, WorkAbandon, Suspend
<1>3. CASE WorkRead
  <2>1. pc[Sd] = "loop" /\ lines = <<>>
      BY <1>3 DEF WorkRead, AtWorkLoop, At
  <2>2. CASE currentFile = NoFile \/ readPos >= Len(Lines[currentFile])
      BY <1>3, <2>2 DEF WorkRead, LinesInv
  <2>3. CASE currentFile # NoFile /\ ~(readPos >= Len(Lines[currentFile]))
    <3>1. /\ lines' = NextLines /\ readPos' = readPos + LinesRead
          /\ UNCHANGED <<currentFile, filePosition>> /\ pc'[Sd] = "loop"
        BY <1>3, <2>3, <1>s DEF WorkRead, Suspend
    <3>2. /\ Len(NextLines) = LinesRead /\ LinesRead \in Nat
          /\ \A i \in 1..LinesRead :
                 NextLines[i] = [file |-> currentFile, pos |-> readPos + i - 1]
      <4>1. Len(Lines[currentFile]) \in Nat
          BY <2>3, InputsAssumption DEF IInv, DataTypeOK
      <4> QED BY <2>3, <4>1, <1>s, ReadOrder
    <3>3. readPos = filePosition
        BY <2>1, <2>3, <1>s DEF LinesInv, Ahead
    <3>4. Ahead(filePosition)'
        BY <3>1, <3>2, <3>3, <1>s DEF Ahead
    <3> QED BY <3>1, <3>4 DEF LinesInv, InLine, InScript, InCall
  <2> QED BY <2>2, <2>3
<1>4. CASE WorkYield \/ WorkWake
  <2>1. /\ pc[Sd] = "loop" /\ pc'[Sd] = "loop"
        /\ UNCHANGED <<lines, readPos, currentFile, filePosition>>
      BY <1>4, <1>s
      DEF WorkYield, WorkWake, AtWorkLoop, At, Suspend, loopVars, workVars, dataVars,
          printVars, fileVars
  <2> QED BY <2>1 DEF LinesInv, Ahead, InLine, InScript, InCall
<1>5. CASE WorkDispatch
  <2>1. /\ pc[Sd] = "loop" /\ lines # <<>> /\ lines' = Tail(lines)
        /\ lineEnd' = filePosition + 1 /\ UNCHANGED <<currentFile, filePosition, readPos>>
        /\ pc'[Sd] = "enter"
      BY <1>5, <1>s DEF WorkDispatch, AtWorkLoop, At, fileVars
  <2>2. SUFFICES ASSUME currentFile # NoFile PROVE Ahead(lineEnd)'
      BY <2>1 DEF LinesInv
  <2>3. Ahead(filePosition)
      BY <2>1, <2>2 DEF LinesInv
  <2>4. PICK p \in Nat : p = filePosition
      BY <1>s
  <2>5. /\ lines' \in Seq(LineRecords) /\ Len(lines') = Len(lines) - 1
        /\ Len(lines) \in Nat /\ Len(lines) > 0
        /\ \A i \in 1..Len(lines') : lines'[i] = lines[i + 1]
      BY <2>1, <1>s
  <2>6. readPos' = (p + 1) + Len(lines')
      BY <2>1, <2>3, <2>4, <2>5, <1>s DEF Ahead
  <2>7. ASSUME NEW i \in 1..Len(lines')
        PROVE  lines'[i] = [file |-> currentFile, pos |-> (p + 1) + i - 1]
    <3>1. i + 1 \in 1..Len(lines) /\ i \in Int
        BY <2>5
    <3>2. lines[i + 1] = [file |-> currentFile, pos |-> p + (i + 1) - 1]
        BY <2>3, <2>4, <3>1 DEF Ahead
    <3>3. p + (i + 1) - 1 = (p + 1) + i - 1
        BY <3>1, <2>4
    <3> QED BY <2>5, <3>2, <3>3
  <2> QED BY <2>1, <2>4, <2>6, <2>7 DEF Ahead
<1>6. CASE WorkNext
  <2>1. pc[Sd] = "next" /\ filePosition' = nextFilePosition /\ currentFile' = currentFile
      BY <1>6 DEF WorkNext, At
  <2>2. SUFFICES ASSUME currentFile # NoFile
                 PROVE  pc'[Sd] = "loop" /\ Ahead(filePosition)'
      BY <2>1 DEF LinesInv, InLine, InScript, InCall
  <2>3. pc'[Sd] = "loop"
      BY <1>6, <2>2, <1>s DEF WorkNext, Goto
  <2>4. CASE nextFilePosition = lineEnd
    <3>1. UNCHANGED <<lines, readPos, currentFile>> /\ filePosition' = lineEnd
        BY <1>6, <2>1, <2>4 DEF WorkNext
    <3>2. Ahead(lineEnd)
        BY <2>1, <2>2 DEF LinesInv, FlowInv, HandlerPlace
    <3> QED BY <2>3, <3>1, <3>2 DEF Ahead
  <2>5. CASE nextFilePosition # lineEnd
    <3>1. lines' = <<>> /\ readPos' = filePosition'
        BY <1>6, <2>1, <2>2, <2>5 DEF WorkNext
    <3> QED BY <2>1, <2>3, <3>1, <1>s DEF Ahead
  <2> QED BY <2>4, <2>5
<1>7. CASE WorkExit
  <2>1. pc'[Sd] = "idle"
      BY <1>7, <1>s DEF WorkExit, Suspend
  <2> QED BY <2>1 DEF LinesInv, InLine, InScript, InCall
<1> QED BY <1>1, <1>2, <1>3, <1>4, <1>5, <1>6, <1>7 DEF WorkStep

\* Every step keeps LinesInv.
LEMMA NextLinesInv == IInv /\ JobInv /\ FlowInv /\ LinesInv /\ [Next]_vars => LinesInv'
<1>1. ASSUME LinesInv, Stays PROVE LinesInv'
    BY <1>1 DEF Stays, schedVars, loopVars, workVars, fileVars, LinesInv, Ahead
<1> QED BY <1>1, FileKinds, MovesLines, WorkLines

\* In every reachable state the lines in hand are those that follow.
LEMMA LinesInvariance == Spec => []LinesInv
<1>1. Init => LinesInv
    BY DEF Init, LinesInv
<1> QED BY <1>1, NextLinesInv, Invariance, JobInvariance, FlowInvariance, PTL DEF Spec

\* A greenlet other than the handler's leaves its script alone, and the
\* handler has one in every command it carries out: only the dispatch of a
\* line gives it a script, or an error in a line.
LEMMA OnlyDispatch ==
    ASSUME IInv, JobInv, FlowInv, [Next]_vars, WorkDispatches
    PROVE  WorkDispatch
<1>s. /\ Sd \in Greenlets /\ Sd # NoOne /\ script \in [Greenlets -> Seq(Commands)]
      /\ script[Sd] = <<>> /\ script'[Sd] # <<>> /\ ~sdError'
    BY GreenletsAssumption DEF IInv, ScheduleInv, SchedTypeOK, WorkDispatches
<1>c. pc[Sd] \notin InCall /\ pc[Sd] \notin InScript \ {"run"}
    BY <1>s, InCommand DEF FlowInv, HandlerPlace
<1>1. ASSUME NEW g \in Greenlets, g # Sd, MovesOn(g) PROVE FALSE
  <2>1. script'[Sd] = script[Sd]
      BY <1>1, <1>s DEF MovesOn, Moves, Resumes, DoResume
  <2> QED BY <2>1, <1>s
<1>2. ASSUME GreenletStep(Sd) PROVE FALSE
  <2>1. CASE CommandStep(Sd)
    <3>1. \A cmd : ~Command(Sd, cmd)
        BY <1>s DEF Command
    <3> QED BY <2>1, <3>1, <1>s, <1>c
        DEF CommandStep, CommandRefused, Macro, Move, MoveEnd, SdcardResetFile,
            ResetClose, CloseNone, LoadRefused, LoadFailed, LoadNothing, LoadFile,
            Extracted, Loaded, M24, M9925, M25Return, M26, SdcardLoopEnd, BasePause,
            BasePauseEnd, BaseResume, RestoreEnd, SendResumeCommand, ClearPause,
            BaseCancelPrint, At, InScript, InCall
  <2>2. CASE RunScript(Sd) \/ MutexGranted(Sd)
      BY <2>2, <1>s DEF RunScript, MutexGranted
  <2>3. CASE ScriptEnd(Sd)
    <3>1. script' = [script EXCEPT ![Sd] = <<>>]
        BY <2>3 DEF ScriptEnd, LeaveScript
    <3> QED BY <3>1, <1>s
  <2>4. CASE \/ DoPausePoll(Sd) \/ DoPauseWake(Sd) \/ SendPauseCommand(Sd)
             \/ PauseCommandSent(Sd) \/ DoCancel(Sd) \/ CancelNoFile(Sd)
             \/ CancelClose(Sd)
      BY <2>4, <1>c
      DEF DoPausePoll, DoPauseWake, SendPauseCommand, PauseCommandSent, DoCancel,
          CancelNoFile, CancelClose, At, InCall
  <2> QED BY <1>2, <2>1, <2>2, <2>3, <2>4 DEF GreenletStep, CommandStep
<1>3. CASE WorkStep
  <2>1. CASE WorkStart \/ PowerOffResumeEnd \/ WorkRead \/ WorkNext \/ WorkExit
      BY <2>1, <1>s
      DEF WorkStart, PowerOffResumeEnd, WorkRead, WorkNext, WorkExit, WorkAbandon,
          Suspend, Goto
  <2>2. CASE WorkYield \/ WorkWake
      BY <2>2, <1>s DEF WorkYield, WorkWake, Suspend
  <2> QED BY <1>3, <2>1, <2>2 DEF WorkStep
<1>4. ASSUME Shutdown \/ Quiet \/ UNCHANGED vars PROVE FALSE
    BY <1>4, <1>s DEF Shutdown, Quiet, vars, schedVars
<1>5. ASSUME NEW g \in Greenlets, g # Sd, GreenletStep(g) PROVE FALSE
    BY <1>1, <1>5, GreenletMoves
<1>6. ASSUME NEW c \in Clients, RequestStep(c) \/ RunoutStep(c) PROVE FALSE
    BY <1>1, <1>6, RequestMoves
<1> QED BY <1>2, <1>3, <1>4, <1>5, <1>6 DEF Next

\* Whatever pauses, seeks and loops came before, the line that is started is
\* the one at file_position in the file that is loaded: none is skipped,
\* repeated or reordered, and none is taken from another file.
THEOREM LinesInOrder == Spec => LineIsNext
<1>1. ASSUME IInv, JobInv, FlowInv, LinesInv, [Next]_vars, WorkDispatches,
             currentFile # NoFile
      PROVE  Head(lines) = [file |-> currentFile, pos |-> filePosition]
  <2>1. pc[Sd] = "loop" /\ lines # <<>>
      BY <1>1, OnlyDispatch DEF WorkDispatch, AtWorkLoop, At
  <2>2. Ahead(filePosition)
      BY <1>1, <2>1 DEF LinesInv
  <2>3. lines \in Seq(LineRecords) /\ filePosition \in Nat
      BY <1>1 DEF IInv, ScheduleInv, LoopTypeOK, DataTypeOK
  <2>4. 1 \in 1..Len(lines) /\ Head(lines) = lines[1]
      BY <2>1, <2>3
  <2>5. lines[1] = [file |-> currentFile, pos |-> filePosition + 1 - 1]
      BY <2>2, <2>4 DEF Ahead
  <2>6. filePosition + 1 - 1 = filePosition
      BY <2>3
  <2> QED BY <2>4, <2>5, <2>6
<1>2. IInv /\ JobInv /\ FlowInv /\ LinesInv /\ [Next]_vars =>
          [WorkDispatches /\ currentFile # NoFile =>
              Head(lines) = [file |-> currentFile, pos |-> filePosition]]_vars
    BY <1>1
<1> QED BY <1>2, Invariance, JobInvariance, FlowInvariance, LinesInvariance, PTL
    DEF Spec, LineIsNext

-----------------------------------------------------------------------------
(* A command that waits for the handler keeps it asked to stop.            *)

AfterAsking == {"wait", "paused", "close", "reset", "m25"}

\* A command in do_pause, or just back from it, has asked the handler to stop,
\* and no new handler has been started since: that takes the gcode mutex.
AskedInv ==
    \A g \in Greenlets :
        Holds(g) /\ pc[g] \in AfterAsking => (workTimer => mustPauseWork)

\* A request or a command that cancels has asked it as well.  A request waits
\* without the mutex, so this holds only while nobody starts the job again.
CancelAsked ==
    \A g \in Greenlets :
        At(g, "close") \/ (At(g, "wait") /\ after[g] = "close") =>
            (workTimer => mustPauseWork)

\* Every step keeps AskedInv.
LEMMA NextAsked == IInv /\ JobInv /\ FlowInv /\ AskedInv /\ [Next]_vars => AskedInv'
<1> SUFFICES ASSUME IInv, JobInv, FlowInv, AskedInv, [Next]_vars,
                    NEW h \in Greenlets, Holds(h)', pc'[h] \in AfterAsking, workTimer'
             PROVE  mustPauseWork'
    BY DEF AskedInv
<1>s. Sd \in Greenlets /\ pc \in [Greenlets -> PcValues]
    BY GreenletsAssumption DEF IInv, ScheduleInv, SchedTypeOK
<1>b. \A l \in AfterAsking : l \in InCall \/ l \in InScript
    BY DEF AfterAsking, InCall, InScript
<1>c. pc'[h] \notin Between \cup {"enter", "next", "exit", "run"}
    BY DEF AfterAsking, Between
<1>0. script'[h] # <<>>
  <2>1. CASE pc'[h] \in InScript
    <3>1. pc'[h] # "run" /\ AtHand(h)'
        BY <1>c, NextIInv DEF IInv, ScheduleInv, LockInv, ScriptAtHand
    <3> QED BY <2>1, <3>1 DEF AtHand
  <2>2. CASE pc'[h] \notin InScript
      BY <2>2 DEF Holds
  <2> QED BY <2>1, <2>2
<1>h. ASSUME NEW g \in Greenlets, pc[g] \in AfterAsking, script[g] # <<>>
      PROVE  Holds(g)
    BY <1>b, <1>h DEF Holds
<1>1. ASSUME pc'[h] = pc[h], script'[h] = script[h], workTimer,
             mustPauseWork => mustPauseWork'
      PROVE  mustPauseWork'
    BY <1>1, <1>0, <1>h DEF AskedInv
<1>2. ASSUME NEW g \in Greenlets, NEW label \in PcValues, Moves(g, label)
      PROVE  mustPauseWork'
  <2>1. CASE g # h
      BY <1>1, <1>2, <2>1, <1>s DEF Moves
  <2>2. CASE g = h
    <3>1. /\ label = pc'[g] /\ Admits(g, label) /\ workTimer
          /\ (mustPauseWork => mustPauseWork')
        BY <1>2, <2>2, <1>s DEF Moves
    <3>2. CASE At(g, "wait")
      <4>1. script[g] # <<>>
          BY <1>0, <2>2, <3>1 DEF Admits, AfterAsking
      <4>2. Holds(g) /\ pc[g] \in AfterAsking
          BY <3>2, <4>1 DEF At, AfterAsking, Holds, InCall
      <4> QED BY <3>1, <4>2 DEF AskedInv
    <3>3. CASE ~At(g, "wait")
        BY <3>1, <3>3, <2>2 DEF Admits, AfterAsking
    <3> QED BY <3>2, <3>3
  <2> QED BY <2>1, <2>2
<1>3. CASE HandlerLeaves
  <2>1. h # Sd
      BY <1>3, <1>s, <1>c DEF HandlerLeaves
  <2>2. pc'[h] = pc[h]
      BY <1>3, <2>1, <1>s DEF HandlerLeaves
  <2> QED BY <1>1, <1>3, <2>1, <2>2 DEF HandlerLeaves
<1>4. ASSUME NEW g \in Greenlets, Resumes(g) PROVE mustPauseWork'
  <2>1. h \notin {g, Sd}
      BY <1>4, <1>s, <1>c, GreenletsAssumption
      DEF Resumes, DoResume, Between
  <2>2. pc'[h] = pc[h] /\ script'[h] = script[h]
      BY <1>4, <2>1, <1>s
      DEF Resumes, DoResume, IInv, ScheduleInv, SchedTypeOK
  <2>3. Holds(h)
      BY <1>0, <2>2, <1>h
  <2> QED BY <1>4, <2>1, <2>3
      DEF Resumes, Holds, IInv, ScheduleInv, LockInv, LockConsistent
<1>5. CASE WorkStep
  <2>1. PICK label \in Between \cup {"enter", "exit"} : pc' = [pc EXCEPT ![Sd] = label]
      BY <1>5, WorkPlaces
  <2>2. h # Sd
      BY <2>1, <1>s, <1>c
  <2>3. pc'[h] = pc[h] /\ script'[h] = script[h] /\ workTimer
            /\ mustPauseWork' = mustPauseWork
      BY <1>5, <2>1, <2>2, <1>s, WorkPlaces
      DEF IInv, ScheduleInv, LockInv, HandlerHasTimer
  <2> QED BY <1>1, <2>3
<1>6. CASE Stays
    BY <1>6, <1>1 DEF Stays, schedVars
<1> QED BY <1>2, <1>3, <1>4, <1>5, <1>6, StepKinds DEF MovesOn

LEMMA InitAsked == Init => AskedInv
BY DEF Init, AskedInv, AfterAsking

LEMMA AskedInvariance == Spec => []AskedInv
BY InitAsked, NextAsked, Invariance, JobInvariance, FlowInvariance, PTL DEF Spec

\* No job is started by a step: the handler is not, or nobody waits to cancel.
StartsAlone ==
    ~workTimer /\ workTimer' =>
        \A g \in Greenlets : ~(At(g, "wait") /\ after[g] = "close")

\* A step that starts no job under a waiting cancel keeps CancelAsked.
LEMMA NextCancelAsked ==
    IInv /\ JobInv /\ FlowInv /\ CancelAsked /\ [Next]_vars /\ StartsAlone =>
        CancelAsked'
<1> SUFFICES ASSUME IInv, JobInv, FlowInv, CancelAsked, [Next]_vars, StartsAlone,
                    NEW h \in Greenlets, workTimer',
                    At(h, "close")' \/ (At(h, "wait")' /\ after'[h] = "close")
             PROVE  mustPauseWork'
    BY DEF CancelAsked
<1>s. /\ Sd \in Greenlets /\ pc \in [Greenlets -> PcValues]
      /\ \A l \in {"close", "wait"} :
             l \notin Between \cup {"enter", "next", "exit", "run"}
      /\ pc'[h] \in {"close", "wait"}
    BY GreenletsAssumption DEF IInv, ScheduleInv, SchedTypeOK, Between, At
<1>1. ASSUME pc'[h] = pc[h], after'[h] = after[h], workTimer,
             mustPauseWork => mustPauseWork'
      PROVE  mustPauseWork'
    BY <1>1 DEF CancelAsked, At
<1>2. ASSUME NEW g \in Greenlets, NEW label \in PcValues, Moves(g, label)
      PROVE  mustPauseWork'
  <2>1. CASE g # h
      BY <1>1, <1>2, <2>1, <1>s DEF Moves
  <2>2. CASE g = h
    <3>1. /\ label = pc'[g] /\ Admits(g, label) /\ workTimer
          /\ (mustPauseWork => mustPauseWork')
        BY <1>2, <2>2, <1>s DEF Moves
    <3> QED BY <3>1, <2>2 DEF Admits, At, CancelAsked
  <2> QED BY <2>1, <2>2
<1>3. CASE HandlerLeaves
  <2>1. h # Sd
      BY <1>3, <1>s DEF HandlerLeaves
  <2>2. pc'[h] = pc[h]
      BY <1>3, <2>1, <1>s DEF HandlerLeaves
  <2> QED BY <1>1, <1>3, <2>1, <2>2 DEF HandlerLeaves
<1>4. ASSUME NEW g \in Greenlets, Resumes(g) PROVE mustPauseWork'
  <2>1. h \notin {g, Sd}
      BY <1>4, <1>s, GreenletsAssumption
      DEF Resumes, DoResume, Between
  <2>2. pc'[h] = pc[h] /\ after'[h] = after[h] /\ pc[h] \notin Passing
      BY <1>4, <2>1, <1>s, GreenletsAssumption
      DEF Resumes, DoResume, FlowInv, PassingRuns
  <2>3. pc[h] = "wait" /\ after[h] = "close"
      BY <2>2, <1>s DEF At, Passing
  <2> QED BY <1>4, <2>3 DEF Resumes, StartsAlone, At
<1>5. CASE WorkStep
  <2>1. PICK label \in Between \cup {"enter", "exit"} : pc' = [pc EXCEPT ![Sd] = label]
      BY <1>5, WorkPlaces
  <2>2. h # Sd
      BY <2>1, <1>s
  <2>3. pc'[h] = pc[h] /\ after'[h] = after[h] /\ workTimer
            /\ mustPauseWork' = mustPauseWork
      BY <1>5, <2>1, <2>2, <1>s, WorkPlaces
      DEF IInv, ScheduleInv, LockInv, HandlerHasTimer
  <2> QED BY <1>1, <2>3
<1>6. CASE Stays
    BY <1>6, <1>1 DEF Stays, schedVars
<1> QED BY <1>2, <1>3, <1>4, <1>5, <1>6, StepKinds DEF MovesOn

-----------------------------------------------------------------------------
(* What the handler works on.                                              *)

\* The handler is past its start and not yet on its way out.
Working == pc[Sd] \in {"plr", "loop", "next"} \cup InLine

\* While it works, the job is printing or cancelled.  If its file has been
\* closed, then by a cancel, which has asked it to stop: it does not go back
\* to the reactor before it has.
WorkInv ==
    Working =>
        /\ state \in {"printing", "cancelled"}
        /\ currentFile = NoFile =>
               /\ mustPauseWork
               /\ pc[Sd] # "plr"
               /\ pc[Sd] = "loop" => running = Sd

\* The steps of greenlets and requests keep it.
LEMMA MovesWork ==
    ASSUME NEW g \in Greenlets, IInv, FlowInv, CancelAsked, WorkInv, MovesOn(g),
           workTimer =>
               \/ UNCHANGED <<state, started, fileVars>>
               \/ /\ currentFile' = NoFile
                  /\ \/ At(g, "close") /\ state' \in {state, "cancelled"}
                     \/ currentFile = NoFile /\ state' = state
                     \/ currentFile = NoFile /\ ~cmdFromSd /\ running = g
    PROVE  WorkInv'
<1> SUFFICES ASSUME Working'
             PROVE  /\ state' \in {"printing", "cancelled"}
                    /\ currentFile' = NoFile =>
                           /\ mustPauseWork'
                           /\ pc'[Sd] # "plr"
                           /\ pc'[Sd] = "loop" => running' = Sd
    BY DEF WorkInv
<1>s. /\ Sd \in Greenlets /\ Sd # NoOne /\ pc \in [Greenlets -> PcValues]
      /\ \A l \in InLine : l \notin {"plr", "loop", "next", "idle", "start", "exit"}
    BY GreenletsAssumption DEF IInv, ScheduleInv, SchedTypeOK, InLine, InScript, InCall
<1>1. ~Resumes(g)
  <2>1. SUFFICES ASSUME Resumes(g) PROVE FALSE
      OBVIOUS
  <2>2. pc'[Sd] = "start"
      BY <2>1, <1>s DEF Resumes, DoResume
  <2> QED BY <2>2, <1>s DEF Working
<1>2. /\ mustPauseWork => mustPauseWork'
      /\ running \in {g, NoOne}
      /\ \/ pc[Sd] \in {"plr", "loop", "next"} /\ g # Sd /\ pc'[Sd] = pc[Sd]
         \/ pc[Sd] \in InLine /\ pc'[Sd] \in InLine \cup {"next"}
  <2>1. CASE g = Sd /\ HandlerLeaves
    <3>1. pc[Sd] \in InLine
        BY <2>1 DEF HandlerLeaves, InLine
    <3>2. pc'[Sd] \in {"next", "exit", "enter"}
        BY <2>1, <1>s DEF HandlerLeaves
    <3>3. "enter" \in InLine /\ pc'[Sd] # "exit"
        BY <1>s DEF Working, InLine
    <3> QED BY <2>1, <3>1, <3>2, <3>3 DEF HandlerLeaves
  <2>2. ASSUME NEW label \in PcValues, Moves(g, label), g = Sd
        PROVE  /\ mustPauseWork => mustPauseWork'
               /\ running \in {g, NoOne}
               /\ pc[Sd] \in InLine /\ pc'[Sd] \in InLine
      BY <2>2, <1>s DEF Moves, Admits
  <2>3. ASSUME NEW label \in PcValues, Moves(g, label), g # Sd
        PROVE  /\ mustPauseWork => mustPauseWork'
               /\ running \in {g, NoOne}
               /\ pc'[Sd] = pc[Sd]
      BY <2>3, <1>s DEF Moves
  <2> QED BY <1>1, <2>1, <2>2, <2>3 DEF MovesOn, Working
<1>3. Working /\ workTimer
    BY <1>2, <1>s DEF Working, IInv, ScheduleInv, LockInv, HandlerHasTimer
<1>4. CASE UNCHANGED <<state, started, fileVars>>
    BY <1>2, <1>3, <1>4, <1>s, GreenletsAssumption DEF WorkInv, fileVars
<1>5. CASE currentFile' = NoFile /\ At(g, "close") /\ state' \in {state, "cancelled"}
  <2>1. mustPauseWork
      BY <1>3, <1>5 DEF CancelAsked
  <2>2. cmdFromSd
      BY <1>3, <1>5 DEF FlowInv, CallPlace, MustWait, At
  <2>3. pc[Sd] \notin {"plr", "loop"}
      BY <2>2 DEF FlowInv, HandlerPlace, Between
  <2> QED BY <1>2, <1>3, <1>5, <2>1, <2>3, <1>s DEF WorkInv
<1>6. CASE currentFile' = NoFile /\ currentFile = NoFile /\ state' = state
    BY <1>2, <1>3, <1>6, <1>s, GreenletsAssumption DEF WorkInv
<1>7. CASE currentFile = NoFile /\ ~cmdFromSd /\ running = g
  <2>1. pc[Sd] \notin InLine \cup {"next"}
      BY <1>7 DEF FlowInv, HandlerPlace
  <2>2. pc[Sd] = "loop" /\ running = Sd
      BY <1>3, <1>7, <2>1 DEF Working, WorkInv
  <2> QED BY <1>2, <1>7, <2>1, <2>2, <1>s
<1> QED BY <1>3, <1>4, <1>5, <1>6, <1>7

\* So do the handler's own.
LEMMA WorkWork ==
    ASSUME IInv, FlowInv, WorkInv, WorkStep
    PROVE  WorkInv'
<1> SUFFICES ASSUME Working'
             PROVE  /\ state' \in {"printing", "cancelled"}
                    /\ currentFile' = NoFile =>
                           /\ mustPauseWork'
                           /\ pc'[Sd] # "plr"
                           /\ pc'[Sd] = "loop" => running' = Sd
    BY DEF WorkInv
<1>s. /\ Sd \in Greenlets /\ Sd # NoOne /\ pc \in [Greenlets -> PcValues]
      /\ \A l \in InLine : l \notin {"plr", "loop", "next", "idle", "start", "exit"}
    BY GreenletsAssumption DEF IInv, ScheduleInv, SchedTypeOK, InLine, InScript, InCall
<1>0. pc'[Sd] \notin {"idle", "exit"}
    BY <1>s DEF Working
<1>1. CASE WorkStart
    BY <1>1, <1>0, <1>s DEF WorkStart, WorkAbandon, Suspend, NoteStart, fileVars
<1>2. CASE PowerOffResumeEnd
  <2>1. pc[Sd] = "plr" /\ Working
      BY <1>2 DEF PowerOffResumeEnd, At, Working
  <2>2. UNCHANGED <<state, currentFile>>
      BY <1>2, <1>0, <1>s DEF PowerOffResumeEnd, WorkAbandon, Suspend, statsVars, fileVars
  <2> QED BY <2>1, <2>2 DEF WorkInv
<1>3. CASE WorkRead
  <2>1. pc[Sd] = "loop" /\ Working /\ UNCHANGED state
      BY <1>3 DEF WorkRead, AtWorkLoop, At, Working, statsVars
  <2>2. currentFile # NoFile /\ currentFile' = currentFile
      BY <1>3, <1>0, <1>s DEF WorkRead, Goto
  <2> QED BY <2>1, <2>2 DEF WorkInv
<1>4. CASE WorkYield \/ WorkWake \/ WorkDispatch
  <2>1. pc[Sd] = "loop" /\ Working /\ UNCHANGED <<state, currentFile>>
      BY <1>4
      DEF WorkYield, WorkWake, WorkDispatch, AtWorkLoop, At, Working, dataVars,
          printVars, fileVars, statsVars
  <2>2. currentFile # NoFile
      BY <1>4, <2>1, <1>s
      DEF WorkYield, WorkWake, WorkDispatch, AtWorkLoop, WorkInv
  <2> QED BY <2>1, <2>2 DEF WorkInv
<1>5. CASE WorkNext
  <2>1. /\ pc[Sd] = "next" /\ Working /\ running = Sd
        /\ UNCHANGED <<state, currentFile, mustPauseWork>>
      BY <1>5 DEF WorkNext, At, Working, statsVars
  <2>2. pc'[Sd] = "loop" /\ running' = running
      BY <1>5, <1>0, <1>s DEF WorkNext, Goto, Suspend
  <2> QED BY <2>1, <2>2 DEF WorkInv
<1>6. CASE WorkExit
    BY <1>6, <1>0, <1>s DEF WorkExit, Suspend
<1> QED BY <1>1, <1>2, <1>3, <1>4, <1>5, <1>6 DEF WorkStep

LEMMA NextWork ==
    IInv /\ JobInv /\ FlowInv /\ CancelAsked /\ WorkInv /\ [Next]_vars => WorkInv'
<1> SUFFICES ASSUME IInv, JobInv, FlowInv, CancelAsked, WorkInv, [Next]_vars
             PROVE  WorkInv'
    OBVIOUS
<1>1. ASSUME NEW g \in Greenlets, GreenletStep(g) PROVE WorkInv'
  <2>1. MovesOn(g)
      BY <1>1, GreenletMoves
  <2> QED BY <1>1, <2>1, JobTouched, MovesWork
<1>2. ASSUME NEW c \in Clients, RequestStep(c) \/ RunoutStep(c) PROVE WorkInv'
  <2>1. c \in Greenlets /\ MovesOn(c) /\ UNCHANGED <<state, started, fileVars>>
      BY <1>2, RequestMoves, JobNotTouched
  <2> QED BY <2>1, MovesWork
<1>3. ASSUME UNCHANGED <<state, currentFile, pc, running>>,
             mustPauseWork => mustPauseWork'
      PROVE  WorkInv'
    BY <1>3 DEF WorkInv, Working
<1>4. CASE Shutdown
    BY <1>3, <1>4
    DEF Shutdown, AskToPause, schedVars, printVars, fileVars, statsVars
<1>5. CASE Quiet \/ UNCHANGED vars
    BY <1>3, <1>5
    DEF Quiet, vars, schedVars, dataVars, jobVars, printVars, fileVars, statsVars
<1> QED BY <1>1, <1>2, <1>4, <1>5, WorkWork DEF Next

\* No job is started while a cancel waits in do_pause.
NoStartInCancel == [][StartsAlone]_vars

LEMMA WorkInvariance ==
    Spec /\ NoStartInCancel => [](IInv /\ JobInv /\ FlowInv /\ CancelAsked /\ WorkInv)
<1>1. Init => CancelAsked /\ WorkInv
  <2> SUFFICES ASSUME Init PROVE CancelAsked /\ WorkInv
      OBVIOUS
  <2>1. \A g \in Greenlets : pc[g] = "idle"
      BY DEF Init
  <2>2. CancelAsked
      BY <2>1 DEF CancelAsked, At
  <2>3. ~Working
      BY <2>1, GreenletsAssumption DEF Working, InLine, InScript, InCall
  <2> QED BY <2>2, <2>3 DEF WorkInv
<1>2. IInv /\ JobInv /\ FlowInv /\ CancelAsked /\ WorkInv
          /\ [Next]_vars /\ [StartsAlone]_vars => CancelAsked' /\ WorkInv'
    BY NextCancelAsked, NextWork DEF vars, dataVars, jobVars, StartsAlone
<1> QED BY <1>1, <1>2, Invariance, JobInvariance, FlowInvariance, PTL
    DEF Spec, NoStartInCancel

\* While the handler works on a file its job is printing or cancelled,
\* provided that no job is started while a cancel waits in do_pause: no reset
\* and no load slips under a handler that is still running.
THEOREM HandlerWorksForJob == Spec /\ NoStartInCancel => []WorkerIsPrinting
<1>1. WorkInv => WorkerIsPrinting
    BY DEF WorkInv, Working, WorkerIsPrinting, InLine, InScript
<1> QED BY <1>1, WorkInvariance, PTL

\* Under the same condition no line is started once the job is reported
\* cancelled.
THEOREM NoLineOfCancelled == Spec /\ NoStartInCancel => NoLineAfterCancel
<1>1. ASSUME IInv, JobInv, FlowInv, CancelAsked, WorkInv, [Next]_vars, WorkDispatches
      PROVE  state # "cancelled"
  <2>1. pc[Sd] = "loop" /\ ~mustPauseWork
      BY <1>1, OnlyDispatch DEF WorkDispatch, AtWorkLoop, At
  <2>2. currentFile # NoFile
      BY <1>1, <2>1 DEF WorkInv, Working
  <2> QED BY <1>1, <2>2 DEF JobInv, CancelledIsClosed
<1>2. IInv /\ JobInv /\ FlowInv /\ CancelAsked /\ WorkInv /\ [Next]_vars =>
          [WorkDispatches => state # "cancelled"]_vars
    BY <1>1
<1> QED BY <1>2, WorkInvariance, PTL DEF Spec, NoLineAfterCancel

-----------------------------------------------------------------------------
(* Calls that a command makes, and the conditions under which only         *)
(* commands make them.                                                     *)

\* No request to cancel comes past the gcode mutex: users send scripts.
ScriptsOnly == \A c \in Clients : WebCancel \notin Requests[c]

\* No runout event comes.
NoRunouts == \A c \in Clients : SensorRunout \notin Requests[c]

\* A greenlet's step into a call, or further in it.
EntersCall(g) ==
    \/ pc'[g] = "sendpause" /\ BasePause(g) /\ script[g] # <<>> /\ ~isPaused
    \/ pc'[g] = "cancel" /\ BaseCancelPrint(g) /\ script[g] # <<>>
    \/ /\ pc'[g] = "wait"
       /\ after'[g] \in {"reset", "m25"}
       /\ after'[g] = "reset" => currentFile' # NoFile
    \/ pc'[g] = "wait" /\ pc[g] = "wait" /\ after'[g] = after[g]
    \/ pc'[g] = after[g] /\ pc[g] = "wait" /\ after'[g] = after[g]
    \/ pc'[g] = "sent" /\ pc[g] = "sendpause" /\ (pauseSent \/ ~workTimer)
    \/ pc'[g] = "wait" /\ pc[g] = "sendpause" /\ after'[g] = "paused"
    \/ pc'[g] = "sent" /\ pc[g] = "paused"
    \/ /\ pc'[g] = "wait" /\ pc[g] = "cancel" /\ after'[g] = "close"
       /\ currentFile' # NoFile
    \/ pc'[g] = "nofile" /\ pc[g] = "cancel"

\* A greenlet is in a call after its step only by one of these.
LEMMA CallEntries ==
    ASSUME NEW g \in Greenlets, IInv, GreenletStep(g), pc'[g] \in InCall
    PROVE  EntersCall(g) /\ script'[g] = script[g]
<1>s. pc \in [Greenlets -> PcValues] /\ after \in [Greenlets -> {"paused", "close", "reset", "m25"}]
    BY DEF IInv, ScheduleInv, SchedTypeOK
<1>n. /\ ~CommandDone(g) /\ ~CommandError(g) /\ ~CommandCrash(g) /\ ~DoResume(g)
      /\ \A label : Goto(g, label) \/ Suspend(g, label) => label \in InCall
  <2>1. ~CommandDone(g)
      BY <1>s DEF CommandDone, InCall
  <2>2. ASSUME NEW how, LeaveScript(g, how) PROVE FALSE
      BY <2>2, <1>s DEF LeaveScript, InCall
  <2>3. ~DoResume(g)
    <3>1. SUFFICES ASSUME DoResume(g) PROVE pc'[g] \in {"run", "start"}
        BY DEF InCall
    <3> QED BY <3>1, <1>s DEF DoResume
  <2>4. ASSUME NEW label, Goto(g, label) \/ Suspend(g, label) PROVE label \in InCall
      BY <2>4, <1>s DEF Goto, Suspend
  <2> QED BY <2>1, <2>2, <2>3, <2>4 DEF CommandError, CommandCrash
<1>r. \A cmd : Command(g, cmd) => pc[g] = "run" /\ script[g] # <<>>
    BY DEF Command, At
<1>1. CASE CommandStep(g)
  <2>1. CASE CommandRefused(g) \/ Move(g) \/ MoveEnd(g)
      BY <2>1, <1>n DEF CommandRefused, Move, MoveEnd, InCall
  <2>2. CASE Macro(g)
      BY <2>2, <1>r DEF Macro, InCall
  <2>3. CASE SdcardResetFile(g)
    <3>1. currentFile # NoFile /\ DoPause(g, "reset") /\ UNCHANGED fileVars
        BY <2>3, <1>n DEF SdcardResetFile
    <3> QED BY <3>1, <1>s DEF DoPause, EntersCall, fileVars
  <2>4. CASE ResetClose(g) \/ Loaded(g) \/ M24(g) \/ M25Return(g) \/ M26(g)
             \/ BasePauseEnd(g) \/ RestoreEnd(g) \/ SendResumeCommand(g)
             \/ ClearPause(g)
    <3>1. \/ CommandDone(g) \/ CommandError(g) \/ DoResume(g)
          \/ pc' = [pc EXCEPT ![g] = "restored"]
        BY <2>4
        DEF ResetClose, Loaded, M24, M25Return, M26, BasePauseEnd, RestoreEnd,
            SendResumeCommand, ClearPause
    <3> QED BY <3>1, <1>n, <1>s DEF InCall
  <2>5. CASE CloseNone(g)
      BY <2>5, <1>n DEF CloseNone, InCall
  <2>6. ASSUME NEW cmd \in LoadCommands,
               \/ LoadRefused(g, cmd) \/ LoadFailed(g, cmd)
               \/ LoadNothing(g, cmd) \/ LoadFile(g, cmd)
        PROVE  FALSE
      BY <2>6, <1>n DEF LoadRefused, LoadFailed, LoadNothing, LoadFile, InCall
  <2>7. CASE Extracted(g)
      BY <2>7, <1>n, <1>s DEF Extracted, InCall
  <2>8. CASE M9925(g)
      BY <2>8, <1>s DEF M9925, DoPause, EntersCall
  <2>9. CASE SdcardLoopEnd(g)
      BY <2>9, <1>n, <1>r DEF SdcardLoopEnd, InCall
  <2>10. CASE BasePause(g)
    <3>1. ~isPaused /\ Goto(g, "sendpause")
        BY <2>10, <1>n DEF BasePause
    <3> QED BY <2>10, <3>1, <1>r, <1>s DEF BasePause, Goto, EntersCall
  <2>11. CASE BaseResume(g)
      BY <2>11, <1>n DEF BaseResume, InCall
  <2>12. CASE BaseCancelPrint(g)
    <3>1. Goto(g, "cancel")
        BY <2>12, <1>n DEF BaseCancelPrint
    <3> QED BY <2>12, <3>1, <1>r, <1>s DEF BaseCancelPrint, Goto, EntersCall
  <2> QED BY <1>1, <2>1, <2>2, <2>3, <2>4, <2>5, <2>6, <2>7, <2>8, <2>9, <2>10, <2>11,
             <2>12 DEF CommandStep
<1>2. CASE RunScript(g) \/ MutexGranted(g)
    BY <1>2, <1>s DEF RunScript, MutexGranted, InCall
<1>3. CASE ScriptEnd(g)
    BY <1>3, <1>s DEF ScriptEnd, LeaveScript, InCall
<1>4. CASE DoPausePoll(g) \/ DoPauseWake(g)
    BY <1>4, <1>s DEF DoPausePoll, DoPauseWake, Goto, Suspend, At, EntersCall
<1>5. CASE SendPauseCommand(g)
  <2>1. /\ pc[g] = "sendpause"
        /\ \/ Goto(g, "sent") /\ (pauseSent \/ ~workTimer)
           \/ DoPause(g, "paused")
      BY <1>5 DEF SendPauseCommand, At
  <2> QED BY <2>1, <1>s DEF Goto, DoPause, EntersCall
<1>6. CASE PauseCommandSent(g)
    BY <1>6, <1>s DEF PauseCommandSent, Goto, At, EntersCall
<1>7. CASE DoCancel(g)
    BY <1>7, <1>s DEF DoCancel, At, EntersCall, printVars, fileVars
<1>8. CASE CancelNoFile(g) \/ CancelClose(g)
  <2>1. CancelReturn(g)
      BY <1>8 DEF CancelNoFile, CancelClose
  <2>2. pc' = [pc EXCEPT ![g] = "enter"]
      BY <2>1, <1>n DEF CancelReturn
  <2> QED BY <2>2, <1>s DEF InCall
<1> QED BY <1>1, <1>2, <1>3, <1>4, <1>5, <1>6, <1>7, <1>8 DEF GreenletStep, CommandStep

\* After any step, a greenlet in a call either stood there before, came there
\* by a step of its own, or is a client whose request or event acts first.
LEMMA InCallAfter ==
    ASSUME NEW h \in Greenlets, IInv, JobInv, FlowInv, [Next]_vars, pc'[h] \in InCall
    PROVE  \/ pc'[h] = pc[h] /\ script'[h] = script[h] /\ after'[h] = after[h]
           \/ GreenletStep(h) /\ EntersCall(h) /\ script'[h] = script[h]
           \/ h \in Clients /\ CancelRequest(h) /\ pc'[h] = "cancel"
           \/ h \in Clients /\ RunoutEvent(h) /\ pc'[h] = "sendpause"
<1>s. /\ Sd \in Greenlets /\ pc \in [Greenlets -> PcValues]
      /\ pc'[h] \notin Between \cup {"enter", "exit", "next", "run", "delay"}
    BY GreenletsAssumption DEF IInv, ScheduleInv, SchedTypeOK, InCall, Between
<1>1. ASSUME NEW g \in Greenlets \ {h}, MovesOn(g)
      PROVE  pc'[h] = pc[h] /\ script'[h] = script[h] /\ after'[h] = after[h]
  <2>1. CASE \E label \in PcValues : Moves(g, label)
      BY <1>1, <2>1, <1>s DEF Moves
  <2>2. CASE g = Sd /\ HandlerLeaves
      BY <1>1, <2>2, <1>s DEF HandlerLeaves
  <2>3. CASE Resumes(g)
    <3>1. h # Sd
        BY <2>3, <1>s DEF Resumes, DoResume, Between
    <3> QED BY <1>1, <2>3, <3>1, <1>s
        DEF Resumes, DoResume, IInv, ScheduleInv, SchedTypeOK
  <2> QED BY <1>1, <2>1, <2>2, <2>3 DEF MovesOn
<1>2. ASSUME NEW g \in Greenlets, GreenletStep(g)
      PROVE  \/ pc'[h] = pc[h] /\ script'[h] = script[h] /\ after'[h] = after[h]
             \/ GreenletStep(h) /\ EntersCall(h) /\ script'[h] = script[h]
    BY <1>1, <1>2, GreenletMoves, CallEntries
<1>3. ASSUME NEW c \in Clients, RequestStep(c) \/ RunoutStep(c)
      PROVE  \/ pc'[h] = pc[h] /\ script'[h] = script[h] /\ after'[h] = after[h]
             \/ h \in Clients /\ CancelRequest(h) /\ pc'[h] = "cancel"
             \/ h \in Clients /\ RunoutEvent(h) /\ pc'[h] = "sendpause"
  <2>1. CASE c # h
      BY <1>1, <1>3, <2>1, RequestMoves
  <2>2. CASE c = h
    <3>1. CASE ScriptRequest(c) \/ RunoutStep(c)
      <4>1. pc' = [pc EXCEPT ![c] = "enter"] \/ pc' = [pc EXCEPT ![c] = "delay"]
          BY <3>1 DEF ScriptRequest, RunoutStep, RunoutDelay, RunoutScript, Suspend
      <4> QED BY <2>2, <4>1, <1>s
    <3>2. CASE CancelRequest(c)
        BY <2>2, <3>2, <1>s DEF CancelRequest
    <3>3. CASE RunoutEvent(c)
        BY <2>2, <3>3, <1>s DEF RunoutEvent
    <3> QED BY <1>3, <3>1, <3>2, <3>3 DEF RequestStep
  <2> QED BY <2>1, <2>2
<1>4. CASE WorkStep
  <2>1. PICK label \in Between \cup {"enter", "exit"} : pc' = [pc EXCEPT ![Sd] = label]
      BY <1>4, WorkPlaces
  <2>2. h # Sd
      BY <2>1, <1>s
  <2> QED BY <1>4, <2>1, <2>2, <1>s, WorkPlaces
<1>5. CASE Shutdown \/ Quiet \/ UNCHANGED vars
    BY <1>5 DEF Shutdown, Quiet, vars, schedVars
<1> QED BY <1>2, <1>3, <1>4, <1>5 DEF Next

-----------------------------------------------------------------------------
(* When users only send scripts, no job is started under a waiting cancel. *)

\* do_cancel is under way only for a command.
CancelsByScript ==
    \A g \in Greenlets :
        pc[g] \in {"cancel", "close", "nofile"} \/ (At(g, "wait") /\ after[g] = "close") =>
            script[g] # <<>>

LEMMA NextCancelsByScript ==
    ScriptsOnly /\ IInv /\ JobInv /\ FlowInv /\ CancelsByScript /\ [Next]_vars =>
        CancelsByScript'
<1> SUFFICES ASSUME ScriptsOnly, IInv, JobInv, FlowInv, CancelsByScript, [Next]_vars,
                    NEW h \in Greenlets,
                    \/ pc'[h] \in {"cancel", "close", "nofile"}
                    \/ pc'[h] = "wait" /\ after'[h] = "close"
             PROVE  script'[h] # <<>>
    BY DEF CancelsByScript, At
<1>1. pc'[h] \in InCall
    BY DEF InCall
<1>2. CASE pc'[h] = pc[h] /\ script'[h] = script[h] /\ after'[h] = after[h]
    BY <1>2 DEF CancelsByScript, At
<1>3. CASE GreenletStep(h) /\ EntersCall(h) /\ script'[h] = script[h]
  <2>1. after[h] \in {"paused", "close", "reset", "m25"}
      BY DEF IInv, ScheduleInv, SchedTypeOK
  <2> QED BY <1>3, <2>1 DEF EntersCall, CancelsByScript, At
<1>4. ~(h \in Clients /\ CancelRequest(h))
    BY DEF ScriptsOnly, CancelRequest, NewRequest
<1>5. \/ pc'[h] = pc[h] /\ script'[h] = script[h] /\ after'[h] = after[h]
      \/ GreenletStep(h) /\ EntersCall(h) /\ script'[h] = script[h]
      \/ pc'[h] = "sendpause"
    BY <1>1, <1>4, InCallAfter
<1> QED BY <1>2, <1>3, <1>5

\* A job is started by a command, and the command that waits is another one:
\* it has the gcode mutex as well.
LEMMA ScriptsStartAlone ==
    IInv /\ JobInv /\ FlowInv /\ CancelsByScript /\ [Next]_vars => [StartsAlone]_vars
<1> SUFFICES ASSUME IInv, JobInv, FlowInv, CancelsByScript, [Next]_vars,
                    ~workTimer, workTimer',
                    NEW g \in Greenlets, At(g, "wait"), after[g] = "close"
             PROVE  FALSE
    BY DEF StartsAlone
<1>1. Holds(g)
    BY DEF CancelsByScript, Holds, InCall, At
<1>2. ASSUME NEW h \in Greenlets, Resumes(h) PROVE FALSE
  <2>1. Holds(h) /\ h # g
      BY <1>2 DEF Resumes, Holds, At, InScript
  <2> QED BY <1>1, <2>1 DEF IInv, ScheduleInv, LockInv, LockConsistent
<1>3. ASSUME NEW h \in Greenlets, NEW label \in PcValues, Moves(h, label) PROVE FALSE
    BY <1>3 DEF Moves
<1>4. ~HandlerLeaves /\ ~Stays
    BY DEF HandlerLeaves, Stays
<1>5. ~WorkStep
    BY WorkPlaces DEF IInv, ScheduleInv, LockInv, HandlerHasTimer
<1> QED BY <1>2, <1>3, <1>4, <1>5, StepKinds DEF MovesOn

LEMMA ScriptsOnlyStartAlone == ScriptsOnly => (Spec => NoStartInCancel)
<1> SUFFICES ASSUME ScriptsOnly PROVE Spec => NoStartInCancel
    OBVIOUS
<1>1. Init => CancelsByScript
    BY DEF Init, CancelsByScript, At
<1>2. IInv /\ JobInv /\ FlowInv /\ CancelsByScript /\ [Next]_vars =>
          CancelsByScript' /\ [StartsAlone]_vars
    BY NextCancelsByScript, ScriptsStartAlone
<1> QED BY <1>1, <1>2, Invariance, JobInvariance, FlowInvariance, PTL
    DEF Spec, NoStartInCancel

\* With users who only send scripts (gcode/script, pause_resume/pause and
\* pause_resume/resume), and with any runout events, the handler works for a
\* printing or cancelled job, and no line follows the cancel.
THEOREM ScriptsKeepJob ==
    ScriptsOnly => (Spec => []WorkerIsPrinting /\ NoLineAfterCancel)
BY ScriptsOnlyStartAlone, HandlerWorksForJob, NoLineOfCancelled, PTL

-----------------------------------------------------------------------------
(* pause_command_sent and the handler.                                     *)

\* Places inside send_pause_command and from there to the end of cmd_PAUSE.
InPause(g) ==
    pc[g] \in {"sendpause", "sent", "paused"} \/ (At(g, "wait") /\ after[g] = "paused")

\* Without runout events a PAUSE is under way only for a command, so that no
\* two are; pause_command_sent is set only by the one that is, or by one that
\* has completed; and when the handler has been dealt with, it stays so until
\* cmd_PAUSE ends.
PauseInv ==
    /\ \A g \in Greenlets : InPause(g) => script[g] # <<>>
    /\ \A g \in Greenlets : At(g, "sendpause") => ~isPaused
    /\ \A g \in Greenlets : At(g, "sent") => (workTimer => mustPauseWork)
    /\ pauseSent => isPaused \/ \E g \in Greenlets : At(g, "sent")

\* A greenlet that is under way is not moved by another one's step.
LEMMA OthersStay ==
    ASSUME NEW g \in Greenlets, NEW h \in Greenlets \ {g}, IInv, MovesOn(g),
           pc[h] # "idle"
    PROVE  pc'[h] = pc[h] /\ script'[h] = script[h]
<1>s. Sd \in Greenlets /\ pc \in [Greenlets -> PcValues]
    BY GreenletsAssumption DEF IInv, ScheduleInv, SchedTypeOK
<1>1. CASE \E label \in PcValues : Moves(g, label)
    BY <1>1, <1>s DEF Moves
<1>2. CASE g = Sd /\ HandlerLeaves
    BY <1>2, <1>s DEF HandlerLeaves
<1>3. CASE Resumes(g)
  <2>1. h # Sd
      BY <1>3 DEF Resumes, IInv, ScheduleInv, LockInv, HandlerHasTimer
  <2> QED BY <1>3, <2>1, <1>s
      DEF Resumes, DoResume, IInv, ScheduleInv, SchedTypeOK
<1> QED BY <1>1, <1>2, <1>3 DEF MovesOn

\* What a greenlet's step does to the two flags: nothing, clear both, set
\* pause_command_sent on the way to the end of cmd_PAUSE, or end it.
LEMMA PauseTouched ==
    ASSUME NEW g \in Greenlets, IInv, GreenletStep(g)
    PROVE  \/ UNCHANGED <<isPaused, pauseSent>>
           \/ ~isPaused' /\ ~pauseSent'
           \/ UNCHANGED isPaused /\ At(g, "sent")'
           \/ BasePauseEnd(g)
<1>s. pc \in [Greenlets -> PcValues]
    BY DEF IInv, ScheduleInv, SchedTypeOK
<1>1. CASE SendPauseCommand(g) \/ PauseCommandSent(g)
    BY <1>1, <1>s
    DEF SendPauseCommand, PauseCommandSent, Goto, DoPause, At, pauseVars
<1>2. CASE CommandStep(g)
  <2>1. CASE ClearPause(g) \/ BaseCancelPrint(g) \/ SendResumeCommand(g)
      BY <2>1 DEF ClearPause, BaseCancelPrint, SendResumeCommand, PauseCleared, pauseVars
  <2>2. ASSUME NEW cmd \in LoadCommands,
               \/ LoadRefused(g, cmd) \/ LoadFailed(g, cmd)
               \/ LoadNothing(g, cmd) \/ LoadFile(g, cmd)
        PROVE  UNCHANGED <<isPaused, pauseSent>>
      BY <2>2 DEF LoadRefused, LoadFailed, LoadNothing, LoadFile, dataVars, pauseVars
  <2>3. CASE \/ CommandRefused(g) \/ Macro(g) \/ Move(g) \/ MoveEnd(g) \/ CloseNone(g)
             \/ SdcardResetFile(g) \/ ResetClose(g) \/ Extracted(g) \/ Loaded(g)
             \/ M24(g) \/ M9925(g) \/ M25Return(g) \/ M26(g) \/ SdcardLoopEnd(g)
             \/ BasePause(g) \/ BaseResume(g) \/ RestoreEnd(g)
      BY <2>3
      DEF CommandRefused, Macro, Move, MoveEnd, CloseNone, SdcardResetFile, ResetClose,
          Extracted, Loaded, M24, M9925, M25Return, M26, SdcardLoopEnd, BasePause,
          BaseResume, RestoreEnd, dataVars, pauseVars
  <2> QED BY <1>2, <2>1, <2>2, <2>3 DEF CommandStep
<1>3. CASE CancelNoFile(g) \/ CancelClose(g)
  <2>1. CancelReturn(g)
      BY <1>3 DEF CancelNoFile, CancelClose
  <2> QED BY <2>1 DEF CancelReturn, PauseCleared, pauseVars
<1>4. CASE \/ RunScript(g) \/ MutexGranted(g) \/ ScriptEnd(g) \/ DoPausePoll(g)
           \/ DoPauseWake(g) \/ DoCancel(g)
    BY <1>4
    DEF RunScript, MutexGranted, ScriptEnd, DoPausePoll, DoPauseWake, DoCancel,
        dataVars, pauseVars
<1> QED BY <1>1, <1>2, <1>3, <1>4 DEF GreenletStep

\* Only the end of cmd_PAUSE, and of a runout event, leaves "sent".
LEMMA SentEnds ==
    ASSUME NEW g \in Greenlets, GreenletStep(g), At(g, "sent")
    PROVE  BasePauseEnd(g)
<1>r. \A cmd : ~Command(g, cmd)
    BY DEF Command, At
<1>1. CASE CommandStep(g)
    BY <1>1, <1>r
    DEF CommandStep, CommandRefused, Macro, Move, MoveEnd, CloseNone, SdcardResetFile,
        ResetClose, Extracted, Loaded, M24, M9925, M25Return, M26, SdcardLoopEnd,
        BasePause, BaseResume, RestoreEnd, SendResumeCommand, ClearPause,
        BaseCancelPrint, LoadRefused, LoadFailed, LoadNothing, LoadFile, At
<1> QED BY <1>1
    DEF GreenletStep, RunScript, MutexGranted, ScriptEnd, DoPausePoll, DoPauseWake,
        SendPauseCommand, PauseCommandSent, DoCancel, CancelNoFile, CancelClose, At

\* The same for every step of the program.
LEMMA PauseSteps ==
    ASSUME IInv, JobInv, FlowInv, [Next]_vars
    PROVE  \/ /\ UNCHANGED <<isPaused, pauseSent>>
              /\ \A h \in Greenlets :
                     At(h, "sent") /\ script[h] # <<>> => At(h, "sent")'
           \/ ~isPaused' /\ ~pauseSent'
           \/ UNCHANGED isPaused /\ \E g \in Greenlets : At(g, "sent")'
           \/ \E g \in Greenlets : BasePauseEnd(g)
<1>1. ASSUME NEW g \in Greenlets, GreenletStep(g), ~BasePauseEnd(g),
             NEW h \in Greenlets, At(h, "sent")
      PROVE  At(h, "sent")'
    BY <1>1, SentEnds, GreenletMoves, OthersStay DEF At
<1>2. ASSUME NEW c \in Clients, RequestStep(c) \/ RunoutStep(c)
      PROVE  /\ UNCHANGED <<isPaused, pauseSent>>
             /\ \A h \in Greenlets :
                    At(h, "sent") /\ script[h] # <<>> => At(h, "sent")'
  <2>1. UNCHANGED <<isPaused, pauseSent>>
      BY <1>2
      DEF RequestStep, RunoutStep, ScriptRequest, CancelRequest, RunoutEvent,
          NewRequest, RunoutDelay, RunoutScript, dataVars, pauseVars
  <2>2. At(c, "sent") => script[c] = <<>>
      BY <1>2
      DEF RequestStep, RunoutStep, ScriptRequest, CancelRequest, RunoutEvent,
          NewRequest, RunoutDelay, RunoutScript, At
  <2> QED BY <1>2, <2>1, <2>2, RequestMoves, OthersStay DEF At
<1>3. CASE WorkStep
  <2>1. UNCHANGED <<isPaused, pauseSent>>
      BY <1>3
      DEF WorkStep, WorkStart, PowerOffResumeEnd, WorkRead, WorkYield, WorkWake,
          WorkDispatch, WorkNext, WorkExit, dataVars, pauseVars
  <2>2. /\ pc[Sd] # "sent" /\ pc \in [Greenlets -> PcValues]
        /\ \E label \in Between \cup {"enter", "exit"} : pc' = [pc EXCEPT ![Sd] = label]
      BY <1>3, WorkPlaces DEF IInv, ScheduleInv, SchedTypeOK
  <2> QED BY <2>1, <2>2 DEF At
<1>4. CASE Shutdown \/ Quiet \/ UNCHANGED vars
    BY <1>4 DEF Shutdown, Quiet, vars, dataVars, pauseVars, schedVars, At
<1> QED BY <1>1, <1>2, <1>3, <1>4, PauseTouched DEF Next

\* While a command is in a call, a handler that has been asked to stop, or
\* that does not exist, is not started again.
LEMMA AskedStays ==
    ASSUME IInv, JobInv, FlowInv, [Next]_vars,
           NEW h \in Greenlets, pc[h] \in InCall, script[h] # <<>>,
           workTimer => mustPauseWork
    PROVE  workTimer' => mustPauseWork'
<1>1. ASSUME NEW g \in Greenlets, Resumes(g) PROVE FALSE
  <2>1. Holds(g) /\ Holds(h) /\ g # h
      BY <1>1 DEF Resumes, Holds, InScript, InCall
  <2> QED BY <2>1 DEF IInv, ScheduleInv, LockInv, LockConsistent
<1>2. ASSUME NEW g \in Greenlets, MovesOn(g)
      PROVE  workTimer' = workTimer /\ (mustPauseWork => mustPauseWork')
    BY <1>1, <1>2 DEF MovesOn, Moves, HandlerLeaves
<1>3. CASE WorkStep
    BY <1>3, WorkPlaces DEF IInv, ScheduleInv, LockInv, HandlerHasTimer
<1>4. CASE Stays
    BY <1>4 DEF Stays
<1> QED BY <1>2, <1>3, <1>4, StepKinds

\* Two commands are not in calls at once.
LEMMA OneInCall ==
    ASSUME IInv, NEW g \in Greenlets, NEW h \in Greenlets,
           pc[g] \in InCall, script[g] # <<>>, pc[h] \in InCall, script[h] # <<>>
    PROVE  g = h
BY DEF Holds, IInv, ScheduleInv, LockInv, LockConsistent

LEMMA NextPauseInv ==
    NoRunouts /\ IInv /\ JobInv /\ FlowInv /\ AskedInv /\ PauseInv /\ [Next]_vars =>
        PauseInv'
<1> SUFFICES ASSUME NoRunouts, IInv, JobInv, FlowInv, AskedInv, PauseInv, [Next]_vars
             PROVE  PauseInv'
    OBVIOUS
<1>s. after \in [Greenlets -> {"paused", "close", "reset", "m25"}]
    BY DEF IInv, ScheduleInv, SchedTypeOK
<1>c. \A g \in Greenlets : InPause(g) => pc[g] \in InCall
    BY DEF InPause, InCall, At
<1>a. ASSUME NEW h \in Greenlets, InPause(h)'
      PROVE  \/ pc'[h] = pc[h] /\ script'[h] = script[h] /\ after'[h] = after[h]
             \/ GreenletStep(h) /\ EntersCall(h) /\ script'[h] = script[h]
  <2>1. pc'[h] \in InCall /\ pc'[h] # "cancel"
      BY <1>a DEF InPause, InCall, At
  <2>2. ~(h \in Clients /\ RunoutEvent(h))
      BY DEF NoRunouts, RunoutEvent, NewRequest
  <2> QED BY <2>1, <2>2, InCallAfter
<1>1. ASSUME NEW h \in Greenlets, InPause(h)' PROVE script'[h] # <<>>
  <2>1. CASE pc'[h] = pc[h] /\ script'[h] = script[h] /\ after'[h] = after[h]
      BY <1>1, <2>1 DEF PauseInv, InPause, At
  <2>2. CASE EntersCall(h) /\ script'[h] = script[h]
      BY <1>1, <2>2, <1>s DEF EntersCall, PauseInv, InPause, At
  <2> QED BY <1>1, <1>a, <2>1, <2>2
<1>2. ASSUME NEW h \in Greenlets, At(h, "sendpause")' PROVE ~isPaused'
  <2>1. CASE pc'[h] = pc[h]
    <3>1. ~isPaused /\ pc[h] = "sendpause" /\ script[h] # <<>>
        BY <1>2, <2>1 DEF PauseInv, InPause, At
    <3>2. ASSUME NEW g \in Greenlets, BasePauseEnd(g) PROVE FALSE
      <4>1. pc[g] = "sent" /\ script[g] # <<>>
          BY <3>2 DEF BasePauseEnd, At
      <4>2. g = h
          BY <3>1, <4>1, OneInCall DEF InCall
      <4> QED BY <3>1, <4>1, <4>2
    <3> QED BY <3>1, <3>2, PauseSteps
  <2>2. CASE EntersCall(h)
    <3>1. BasePause(h) /\ ~isPaused
        BY <1>2, <2>2, <1>s DEF EntersCall, At
    <3> QED BY <3>1 DEF BasePause, dataVars, pauseVars
  <2>3. InPause(h)'
      BY <1>2 DEF InPause, At
  <2> QED BY <1>a, <2>1, <2>2, <2>3
<1>3. ASSUME NEW h \in Greenlets, At(h, "sent")' PROVE workTimer' => mustPauseWork'
  <2>1. CASE pc'[h] = pc[h]
    <3>1. pc[h] \in InCall /\ script[h] # <<>> /\ (workTimer => mustPauseWork)
        BY <1>3, <2>1 DEF PauseInv, InPause, InCall, At
    <3> QED BY <3>1, AskedStays
  <2>2. CASE EntersCall(h)
    <3>1. \/ pc[h] = "sendpause" /\ (pauseSent \/ ~workTimer)
          \/ pc[h] = "paused"
        BY <1>3, <2>2, <1>s DEF EntersCall, At
    <3>2. pc[h] \in InCall /\ script[h] # <<>>
        BY <3>1 DEF PauseInv, InPause, InCall
    <3>3. CASE pc[h] = "sendpause" /\ pauseSent
      <4>1. PICK g \in Greenlets : pc[g] = "sent"
          BY <3>3 DEF PauseInv, At
      <4>2. g = h
          BY <3>2, <4>1, OneInCall DEF PauseInv, InPause, InCall
      <4> QED BY <3>3, <4>1, <4>2
    <3>4. CASE ~workTimer
        BY <3>2, <3>4, AskedStays
    <3>5. CASE pc[h] = "paused"
      <4>1. workTimer => mustPauseWork
          BY <3>2, <3>5 DEF AskedInv, AfterAsking, Holds
      <4> QED BY <3>2, <4>1, AskedStays
    <3> QED BY <3>1, <3>3, <3>4, <3>5
  <2>3. InPause(h)'
      BY <1>3 DEF InPause, At
  <2> QED BY <1>a, <2>1, <2>2, <2>3
<1>4. ASSUME pauseSent' PROVE isPaused' \/ \E g \in Greenlets : At(g, "sent")'
  <2>1. ASSUME NEW g \in Greenlets, BasePauseEnd(g) PROVE isPaused'
      BY <2>1 DEF BasePauseEnd
  <2>2. CASE /\ UNCHANGED <<isPaused, pauseSent>>
             /\ \A h \in Greenlets :
                    At(h, "sent") /\ script[h] # <<>> => At(h, "sent")'
      BY <1>4, <2>2 DEF PauseInv, InPause, At
  <2> QED BY <1>4, <2>1, <2>2, PauseSteps
<1> QED BY <1>1, <1>2, <1>3, <1>4 DEF PauseInv

\* Without runout events, whatever users ask for, a PAUSE that completes has
\* dealt with the handler: pause_command_sent never makes it skip do_pause
\* for a job that runs.
THEOREM PauseHolds == NoRunouts => (Spec => PauseTakesHold)
<1> SUFFICES ASSUME NoRunouts PROVE Spec => PauseTakesHold
    OBVIOUS
<1>1. Init => PauseInv
    BY DEF Init, PauseInv, InPause, At
<1>2. IInv /\ JobInv /\ FlowInv /\ AskedInv /\ PauseInv /\ [Next]_vars => PauseInv'
    BY NextPauseInv
<1>3. IInv /\ JobInv /\ FlowInv /\ PauseInv /\ [Next]_vars =>
          [~isPaused /\ isPaused' => (workTimer' => mustPauseWork')]_vars
  <2> SUFFICES ASSUME IInv, JobInv, FlowInv, PauseInv, [Next]_vars, ~isPaused, isPaused'
               PROVE  workTimer' => mustPauseWork'
      OBVIOUS
  <2>1. PICK g \in Greenlets : BasePauseEnd(g)
      BY PauseSteps
  <2>2. At(g, "sent") /\ UNCHANGED jobVars
      BY <2>1 DEF BasePauseEnd
  <2> QED BY <2>2 DEF PauseInv, jobVars
<1> QED BY <1>1, <1>2, <1>3, Invariance, JobInvariance, FlowInvariance, AskedInvariance, PTL
    DEF Spec, PauseTakesHold

-----------------------------------------------------------------------------
(* The file that do_cancel and _reset_file close.                          *)

\* Places from the call of do_pause to current_file.close().
Closing(g) ==
    \/ pc[g] \in {"close", "reset"}
    \/ At(g, "wait") /\ after[g] \in {"close", "reset"}

CloseInv == \A g \in Greenlets : Closing(g) => currentFile # NoFile

\* A greenlet whose step opens or closes the file is then not on its way to
\* close it.
LEMMA FileTouched ==
    ASSUME NEW g \in Greenlets, IInv, GreenletStep(g), currentFile' # currentFile
    PROVE  pc[g] \in {"close"} \cup InScript /\ ~Closing(g)'
<1>s. pc \in [Greenlets -> PcValues]
    BY DEF IInv, ScheduleInv, SchedTypeOK
<1> DEFINE Away == pc'[g] \notin {"close", "reset", "wait"}
<1>r. \A cmd : Command(g, cmd) => pc[g] = "run"
    BY DEF Command, At
<1>d. CommandDone(g) => Away
    BY <1>s DEF CommandDone
<1>e. CommandError(g) \/ CommandCrash(g) => Away
    BY <1>s DEF CommandError, CommandCrash, LeaveScript
<1>1. CASE CommandStep(g)
  <2>1. CASE SdcardResetFile(g)
      BY <2>1, <1>r, <1>d DEF SdcardResetFile, fileVars, InScript, Closing, At
  <2>2. CASE ResetClose(g)
      BY <2>2, <1>d DEF ResetClose, At, InScript, Closing
  <2>3. ASSUME NEW cmd \in LoadCommands,
               \/ LoadRefused(g, cmd) \/ LoadFailed(g, cmd)
               \/ LoadNothing(g, cmd) \/ LoadFile(g, cmd)
        PROVE  pc[g] = "run" /\ Away
    <3>1. Command(g, cmd)
        BY <2>3 DEF LoadRefused, LoadFailed, LoadNothing, LoadFile
    <3>2. Away
      <4>1. CASE LoadFile(g, cmd)
          BY <4>1, <1>s DEF LoadFile, Suspend
      <4> QED BY <2>3, <4>1, <1>e DEF LoadRefused, LoadFailed, LoadNothing
    <3> QED BY <3>1, <3>2, <1>r
  <2>4. CASE Extracted(g)
    <3>1. pc[g] = "extract" /\ pc' = [pc EXCEPT ![g] = "scan"]
        BY <2>4 DEF Extracted, At, fileVars
    <3> QED BY <3>1, <1>s DEF InScript, Closing, At
  <2>5. CASE M26(g) \/ Loaded(g)
      BY <2>5 DEF M26, Loaded
  <2>6. CASE \/ CommandRefused(g) \/ Macro(g) \/ Move(g) \/ MoveEnd(g) \/ CloseNone(g)
             \/ M24(g) \/ M9925(g) \/ M25Return(g) \/ SdcardLoopEnd(g)
             \/ BasePause(g) \/ BasePauseEnd(g) \/ BaseResume(g) \/ RestoreEnd(g)
             \/ SendResumeCommand(g) \/ ClearPause(g) \/ BaseCancelPrint(g)
      BY <2>6
      DEF CommandRefused, Macro, Move, MoveEnd, CloseNone, M24, M9925, M25Return,
          SdcardLoopEnd, BasePause, BasePauseEnd, BaseResume, RestoreEnd,
          SendResumeCommand, ClearPause, BaseCancelPrint, dataVars, printVars, fileVars
  <2> QED BY <1>1, <2>1, <2>2, <2>3, <2>4, <2>5, <2>6 DEF CommandStep, Closing, At, InScript
<1>2. CASE CancelNoFile(g)
    BY <1>2 DEF CancelNoFile
<1>3. CASE CancelClose(g)
  <2>1. pc[g] = "close" /\ CancelReturn(g)
      BY <1>3 DEF CancelClose, At
  <2>2. Away
      BY <2>1, <1>d, <1>s DEF CancelReturn
  <2> QED BY <2>1, <2>2 DEF Closing, At
<1>4. CASE \/ RunScript(g) \/ MutexGranted(g) \/ ScriptEnd(g) \/ DoPausePoll(g)
           \/ DoPauseWake(g) \/ SendPauseCommand(g) \/ PauseCommandSent(g)
           \/ DoCancel(g)
    BY <1>4
    DEF RunScript, MutexGranted, ScriptEnd, DoPausePoll, DoPauseWake,
        SendPauseCommand, PauseCommandSent, DoCancel, dataVars, printVars, fileVars
<1> QED BY <1>1, <1>2, <1>3, <1>4 DEF GreenletStep

\* A command on its way to close the file has the gcode mutex.
LEMMA ClosingHolds ==
    ASSUME IInv, CancelsByScript, NEW g \in Greenlets,
           Closing(g) \/ pc[g] \in {"close"} \cup InScript
    PROVE  Holds(g)
<1>1. CASE pc[g] \in InScript
    BY <1>1 DEF Holds
<1>2. CASE pc[g] = "close" \/ (At(g, "wait") /\ after[g] = "close")
    BY <1>2 DEF CancelsByScript, Holds, InCall, At
<1>3. CASE At(g, "wait") /\ after[g] = "reset"
    BY <1>3 DEF IInv, ScheduleInv, LockInv, ScriptAtHand, AtHand, Holds, InCall, At
<1> QED BY <1>1, <1>2, <1>3 DEF Closing, InScript

\* The file is not closed under it: that takes another command, or the handler
\* at the end of the file, which has been asked to stop before it reads on.
LEMMA FileStays ==
    ASSUME IInv, JobInv, FlowInv, AskedInv, CancelsByScript, [Next]_vars,
           currentFile # NoFile, NEW h \in Greenlets, Closing(h), Closing(h)'
    PROVE  currentFile' # NoFile
<1>h. Holds(h) /\ pc[h] \in AfterAsking
    BY ClosingHolds DEF Closing, AfterAsking, At
<1>1. ASSUME NEW g \in Greenlets, GreenletStep(g) PROVE currentFile' # NoFile
  <2>1. SUFFICES ASSUME currentFile' # currentFile PROVE FALSE
      OBVIOUS
  <2>2. Holds(g) /\ ~Closing(g)'
      BY <1>1, <2>1, FileTouched, ClosingHolds
  <2> QED BY <1>h, <2>2 DEF IInv, ScheduleInv, LockInv, LockConsistent
<1>2. ASSUME NEW c \in Clients, RequestStep(c) \/ RunoutStep(c)
      PROVE  currentFile' # NoFile
    BY <1>2, JobNotTouched DEF fileVars
<1>3. CASE WorkStep
  <2>1. ~WorkRead
    <3>1. SUFFICES ASSUME WorkRead PROVE FALSE
        OBVIOUS
    <3>2. pc[Sd] = "loop" /\ ~mustPauseWork
        BY <3>1 DEF WorkRead, AtWorkLoop, At
    <3>3. workTimer
        BY <3>2 DEF IInv, ScheduleInv, LockInv, HandlerHasTimer
    <3> QED BY <1>h, <3>2, <3>3 DEF AskedInv
  <2>2. UNCHANGED currentFile
      BY <1>3, <2>1
      DEF WorkStep, WorkStart, PowerOffResumeEnd, WorkYield, WorkWake, WorkDispatch,
          WorkNext, WorkExit, dataVars, printVars, fileVars
  <2> QED BY <2>2
<1>4. CASE Shutdown \/ Quiet \/ UNCHANGED vars
    BY <1>4 DEF Shutdown, Quiet, vars, dataVars, printVars, fileVars
<1> QED BY <1>1, <1>2, <1>3, <1>4 DEF Next

\* do_pause returns to the place it was called for.
LEMMA ReachesClose ==
    ASSUME IInv, JobInv, FlowInv, [Next]_vars,
           NEW h \in Greenlets, pc'[h] \in {"close", "reset"}
    PROVE  Closing(h)
<1>s. Sd \in Greenlets /\ pc \in [Greenlets -> PcValues]
    BY GreenletsAssumption DEF IInv, ScheduleInv, SchedTypeOK
<1>1. ASSUME NEW g \in Greenlets, MovesOn(g) PROVE Closing(h)
  <2>1. ASSUME NEW label \in PcValues, Moves(g, label) PROVE Closing(h)
      BY <2>1, <1>s DEF Moves, Admits, Closing
  <2>2. CASE g = Sd /\ HandlerLeaves
      BY <2>2, <1>s DEF HandlerLeaves, Closing
  <2>3. CASE Resumes(g)
      BY <2>3, <1>s DEF Resumes, DoResume, Closing
  <2> QED BY <1>1, <2>1, <2>2, <2>3 DEF MovesOn
<1>2. CASE WorkStep
    BY <1>2, <1>s, WorkPlaces DEF Between, Closing
<1>3. CASE Stays
    BY <1>3 DEF Stays, schedVars, Closing
<1> QED BY <1>1, <1>2, <1>3, StepKinds

LEMMA NextCloseInv ==
    IInv /\ JobInv /\ FlowInv /\ AskedInv /\ CancelsByScript /\ CloseInv /\ [Next]_vars =>
        CloseInv'
<1> SUFFICES ASSUME IInv, JobInv, FlowInv, AskedInv, CancelsByScript, CloseInv,
                    [Next]_vars, NEW h \in Greenlets, Closing(h)'
             PROVE  currentFile' # NoFile
    BY DEF CloseInv
<1>1. CASE Closing(h)
    BY <1>1, FileStays DEF CloseInv
<1>2. CASE pc'[h] \in {"close", "reset"}
    BY <1>1, <1>2, ReachesClose
<1>3. CASE pc'[h] = "wait" /\ after'[h] \in {"close", "reset"}
  <2>1. CASE pc'[h] = pc[h] /\ after'[h] = after[h]
      BY <1>1, <1>3, <2>1 DEF Closing, At
  <2>2. CASE EntersCall(h)
    <3>1. \/ currentFile' # NoFile
          \/ pc[h] = "wait" /\ after'[h] = after[h]
        BY <1>3, <2>2 DEF EntersCall
    <3> QED BY <1>1, <1>3, <3>1 DEF Closing, At
  <2> QED BY <1>3, <2>1, <2>2, InCallAfter DEF InCall
<1> QED BY <1>2, <1>3 DEF Closing, At

\* A request ends in an exception nobody expects only at None.close(), or
\* when a print to be continued has no file.
LEMMA ErrorTouched ==
    ASSUME [Next]_vars, internalError' # internalError
    PROVE  \E g \in Greenlets :
               CloseNone(g) \/ \E cmd \in LoadCommands : LoadNothing(g, cmd)
<1>1. ASSUME NEW g \in Greenlets, GreenletStep(g), ~CloseNone(g),
             \A cmd \in LoadCommands : ~LoadNothing(g, cmd)
      PROVE  UNCHANGED internalError
  <2>1. CASE CommandStep(g)
    <3>1. ASSUME NEW cmd \in LoadCommands,
                 LoadRefused(g, cmd) \/ LoadFailed(g, cmd) \/ LoadFile(g, cmd)
          PROVE  UNCHANGED internalError
        BY <3>1 DEF LoadRefused, LoadFailed, LoadFile, dataVars, sysVars
    <3>2. CASE \/ CommandRefused(g) \/ Macro(g) \/ Move(g) \/ MoveEnd(g)
               \/ SdcardResetFile(g) \/ ResetClose(g) \/ Extracted(g) \/ Loaded(g)
               \/ M24(g) \/ M9925(g) \/ M25Return(g) \/ M26(g) \/ SdcardLoopEnd(g)
               \/ BasePause(g) \/ BasePauseEnd(g) \/ BaseResume(g) \/ RestoreEnd(g)
               \/ SendResumeCommand(g) \/ ClearPause(g) \/ BaseCancelPrint(g)
        BY <3>2
        DEF CommandRefused, Macro, Move, MoveEnd, SdcardResetFile, ResetClose,
            Extracted, Loaded, M24, M9925, M25Return, M26, SdcardLoopEnd, BasePause,
            BasePauseEnd, BaseResume, RestoreEnd, SendResumeCommand, ClearPause,
            BaseCancelPrint, dataVars, sysVars
    <3> QED BY <1>1, <2>1, <3>1, <3>2 DEF CommandStep
  <2>2. CASE ~CommandStep(g)
      BY <1>1, <2>2
      DEF GreenletStep, RunScript, MutexGranted, ScriptEnd, DoPausePoll, DoPauseWake,
          SendPauseCommand, PauseCommandSent, DoCancel, CancelNoFile, CancelClose,
          dataVars, sysVars
  <2> QED BY <2>1, <2>2
<1>2. ASSUME NEW c \in Clients, RequestStep(c) \/ RunoutStep(c)
      PROVE  UNCHANGED internalError
    BY <1>2
    DEF RequestStep, RunoutStep, ScriptRequest, CancelRequest, RunoutEvent, NewRequest,
        RunoutDelay, RunoutScript, dataVars, sysVars
<1>3. WorkStep => UNCHANGED internalError
    BY DEF WorkStep, WorkStart, PowerOffResumeEnd, WorkRead, WorkYield, WorkWake,
           WorkDispatch, WorkNext, WorkExit, dataVars, sysVars
<1>4. Shutdown \/ Quiet \/ UNCHANGED vars => UNCHANGED internalError
    BY DEF Shutdown, Quiet, vars, dataVars, sysVars
<1> QED BY <1>1, <1>2, <1>3, <1>4 DEF Next

\* A print that is to be continued finds its file in the cache.
FileIsThere == [][\A g \in Greenlets, cmd \in LoadCommands : ~LoadNothing(g, cmd)]_vars

\* With users who only send scripts, current_file.close() never meets None:
\* the only exception nobody expects is the one for the missing file.
THEOREM NeverClosesNone ==
    ScriptsOnly => (Spec /\ FileIsThere => []NoInternalError)
<1> SUFFICES ASSUME ScriptsOnly PROVE Spec /\ FileIsThere => []NoInternalError
    OBVIOUS
<1>1. Init => CancelsByScript /\ CloseInv /\ NoInternalError
    BY DEF Init, CancelsByScript, CloseInv, Closing, NoInternalError, At
<1>2. IInv /\ JobInv /\ FlowInv /\ AskedInv /\ CancelsByScript /\ CloseInv /\ [Next]_vars =>
          CancelsByScript' /\ CloseInv'
    BY NextCancelsByScript, NextCloseInv
<1>3. /\ CloseInv /\ NoInternalError /\ [Next]_vars
      /\ [\A g \in Greenlets, cmd \in LoadCommands : ~LoadNothing(g, cmd)]_vars
      => NoInternalError'
  <2> SUFFICES ASSUME CloseInv, NoInternalError, [Next]_vars,
                      [\A g \in Greenlets, cmd \in LoadCommands : ~LoadNothing(g, cmd)]_vars,
                      internalError'
               PROVE  FALSE
      BY DEF NoInternalError
  <2>1. internalError' # internalError
      BY DEF NoInternalError
  <2>2. \A g \in Greenlets : ~CloseNone(g)
      BY DEF CloseNone, CloseInv, Closing, At
  <2>3. \A g \in Greenlets, cmd \in LoadCommands : ~LoadNothing(g, cmd)
      BY <2>1 DEF vars, dataVars, sysVars
  <2> QED BY <2>1, <2>2, <2>3, ErrorTouched
<1> QED BY <1>1, <1>2, <1>3, Invariance, JobInvariance, FlowInvariance, AskedInvariance, PTL
    DEF Spec, FileIsThere
=============================================================================
