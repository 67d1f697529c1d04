------------------------------ MODULE PrintJob ------------------------------
(***************************************************************************)
(* The life of a print job in the klippy host process: the virtual sdcard  *)
(* and its work handler (extras/virtual_sdcard.py), pause, resume and      *)
(* cancel (extras/pause_resume.py), the job state other programs see       *)
(* (extras/print_stats.py), the runout sensor's event handler              *)
(* (extras/filament_switch_sensor.py) and the script loop of gcode.py,     *)
(* with the scripts that klipper-macros-qd/gcode_macro.cfg gives PAUSE,    *)
(* RESUME and CANCEL_PRINT.                                                *)
(*                                                                         *)
(* Everything runs in greenlets of one thread.  A greenlet runs until it   *)
(* pauses in the reactor; `running' names the greenlet that is running,    *)
(* and another one can only start or wake when it is NoOne.  So the steps  *)
(* below are small, and what the code does between two pauses is atomic.   *)
(***************************************************************************)
EXTENDS ReactorMutex, PrintStats, Integers

CONSTANTS
    Clients,      \* greenlets of webhook requests and of sensor events
    Sd,           \* the greenlet the work handler runs in
    NoOne,        \* no greenlet is running: the reactor is polling
    Files,        \* printable files
    Archives,     \* the files that are .3mf archives
    Lines,        \* Lines[f]: the commands of file f
    Chunk,        \* how many lines one read returns
    NoFile,       \* None
    MaxPosition,  \* bound: the largest position M26 and a power-loss record give
    Requests,     \* Requests[c]: what client c may ask for
    MaxRequests   \* bound: MaxRequests[c] is how often client c asks

ASSUME GreenletsAssumption ==
    /\ Greenlets = Clients \cup {Sd}
    /\ Sd \notin Clients
    /\ NoOne \notin Greenlets

ASSUME FilesAssumption ==
    /\ NoFile \notin Files
    /\ Archives \subseteq Files
    /\ Chunk \in Nat \ {0}
    /\ MaxPosition \in Nat

\* Commands of a script.  MOVE stands for every command this module knows
\* nothing of: it may pause in the reactor and it may fail.
Commands ==
    {"MOVE", "PAUSE", "RESUME", "CANCEL_PRINT", "BASE_PAUSE", "BASE_RESUME",
     "BASE_CANCEL_PRINT", "CLEAR_PAUSE", "SDCARD_PRINT_FILE",
     "SDCARD_RESET_FILE", "SDCARD_POWER_OFF_CONTINUES_PINT_FILE", "M23",
     "M24", "M9925", "M26", "SDCARD_LOOP_END"}

\* A request is a script to run, or one of these two, which act first and
\* run a script later.
WebCancel == <<"web cancel">>
SensorRunout == <<"runout">>

ASSUME InputsAssumption ==
    /\ Lines \in [Files -> Seq(Commands)]
    /\ \A c \in Clients : Requests[c] \subseteq
          Seq(Commands) \cup {WebCancel, SensorRunout}
    /\ MaxRequests \in [Clients -> Nat]

PcValues ==
    {"idle", "enter", "queued", "run", "busy", "restore", "wait", "paused",
     "close", "nofile", "reset", "m25", "cancel", "sendpause", "sent",
     "restored", "delay", "extract",
     "scan", "start", "plr", "loop", "next", "exit"}

VARIABLES
    running,          \* the greenlet the reactor has switched to
    pc,               \* where each greenlet is
    script,           \* the rest of the script each greenlet is running
    aborted,          \* abort_epoch has changed since the script's start
    after,            \* where a greenlet in do_pause goes on
    workTimer,        \* virtual_sdcard: work_timer is not None
    mustPauseWork,    \*   must_pause_work
    cmdFromSd,        \*   cmd_from_sd
    currentFile,      \*   current_file
    filePosition,     \*   file_position, in lines
    nextFilePosition, \*   next_file_position
    powerOffResume,   \*   _printer_off_power_resume is not None
    lines,            \* work_handler: the lines it has read
    readPos,          \*   the offset of the open file
    lineEnd,          \*   its local next_file_position
    sdError,          \*   error_message is not None
    isPaused,         \* pause_resume: is_paused
    sdPaused,         \*   sd_paused
    pauseSent,        \*   pause_command_sent
    shutdown,         \* the printer is in shutdown
    internalError,    \* history: a request ended in an unexpected exception
    plrJob,           \* history: the loaded file was loaded to be continued
    requests          \* how many requests each client has made

schedVars == <<running, pc, script, aborted, after>>
jobVars == <<workTimer, mustPauseWork, cmdFromSd>>
fileVars == <<currentFile, filePosition>>
workVars == <<nextFilePosition, lines, readPos, lineEnd, sdError>>
plrVars == <<powerOffResume, plrJob>>
pauseVars == <<isPaused, sdPaused, pauseSent>>
sysVars == <<shutdown, internalError, requests>>

\* What is printed and how far, what only the mutex and the work handler
\* change, what only commands and requests change.
printVars == <<fileVars, plrVars, statsVars>>
loopVars == <<mutexVars, workVars>>
dataVars == <<jobVars, printVars, pauseVars, sysVars>>

vars == <<schedVars, loopVars, dataVars>>

\* A line that has been read: the file it is from and its number.
LineRecords ==
    {line \in [file : Files, pos : Nat] : line.pos < Len(Lines[line.file])}

SchedTypeOK ==
    /\ running \in Greenlets \cup {NoOne}
    /\ pc \in [Greenlets -> PcValues]
    /\ script \in [Greenlets -> Seq(Commands)]
    /\ aborted \in [Greenlets -> BOOLEAN]
    /\ after \in [Greenlets -> {"paused", "close", "reset", "m25"}]

LoopTypeOK ==
    /\ MutexTypeOK
    /\ lines \in Seq(LineRecords)
    /\ {nextFilePosition, readPos, lineEnd} \subseteq Nat
    /\ sdError \in BOOLEAN

DataTypeOK ==
    /\ StatsTypeOK
    /\ {workTimer, mustPauseWork, cmdFromSd, powerOffResume, plrJob, isPaused,
        sdPaused, pauseSent, shutdown, internalError} \subseteq BOOLEAN
    /\ currentFile \in Files \cup {NoFile}
    /\ filePosition \in Nat
    /\ requests \in [Clients -> Nat]

TypeOK == SchedTypeOK /\ LoopTypeOK /\ DataTypeOK

Init ==
    /\ MutexInit
    /\ StatsInit
    /\ running = NoOne
    /\ pc = [g \in Greenlets |-> "idle"]
    /\ script = [g \in Greenlets |-> <<>>]
    /\ aborted = [g \in Greenlets |-> FALSE]
    /\ after = [g \in Greenlets |-> "m25"]
    /\ workTimer = FALSE /\ mustPauseWork = FALSE /\ cmdFromSd = FALSE
    /\ currentFile = NoFile /\ filePosition = 0 /\ nextFilePosition = 0
    /\ lines = <<>> /\ readPos = 0 /\ lineEnd = 0 /\ sdError = FALSE
    /\ powerOffResume = FALSE /\ plrJob = FALSE
    /\ isPaused = FALSE /\ sdPaused = FALSE /\ pauseSent = FALSE
    /\ shutdown = FALSE /\ internalError = FALSE
    /\ requests = [c \in Clients |-> 0]

-----------------------------------------------------------------------------
(* Scheduling.                                                             *)

At(g, label) == pc[g] = label

\* The running greenlet goes on at another place.
Goto(g, label) ==
    /\ pc' = [pc EXCEPT ![g] = label]
    /\ UNCHANGED <<running, script, aborted, after>>

\* It pauses in the reactor and will go on there.
Suspend(g, label) ==
    /\ running' = NoOne
    /\ pc' = [pc EXCEPT ![g] = label]
    /\ UNCHANGED <<script, aborted, after>>

-----------------------------------------------------------------------------
(* gcode.py: run_script, and the loop of _process_commands.                *)

\* The mutex is released, and what follows depends on who ran the script:
\* a request is over; the work handler goes on, turns to on_error_gcode
\* (printer.cfg: CANCEL_PRINT) or, after that or after an unexpected
\* exception, leaves its loop.
LeaveScript(g, how) ==
    /\ Exit
    /\ UNCHANGED <<aborted, after>>
    /\ IF g # Sd
       THEN /\ pc' = [pc EXCEPT ![g] = "idle"]
            /\ script' = [script EXCEPT ![g] = <<>>]
            /\ running' = NoOne
            /\ UNCHANGED sdError
       ELSE /\ running' = g
            /\ IF how = "error" /\ ~sdError
               THEN /\ sdError' = TRUE
                    /\ script' = [script EXCEPT ![g] = <<"CANCEL_PRINT">>]
                    /\ pc' = [pc EXCEPT ![g] = "enter"]
               ELSE /\ UNCHANGED sdError
                    /\ script' = [script EXCEPT ![g] = <<>>]
                    /\ pc' = [pc EXCEPT ![g] =
                          IF how = "ok" /\ ~sdError THEN "next" ELSE "exit"]
    /\ UNCHANGED <<nextFilePosition, lines, readPos, lineEnd>>

\* The command at the head of the script has been carried out.
CommandDone(g) ==
    /\ script' = [script EXCEPT ![g] = Tail(script[g])]
    /\ pc' = [pc EXCEPT ![g] = "run"]
    /\ running' = g
    /\ UNCHANGED <<aborted, after, loopVars>>

\* It raised gcode.error, or another exception.
CommandError(g) == LeaveScript(g, "error")
CommandCrash(g) == LeaveScript(g, "crash")

\* run_script: take the gcode mutex.  _process_commands notes the epoch.
RunScript(g) ==
    /\ running = g
    /\ At(g, "enter")
    /\ \/ /\ EnterFree
          /\ pc' = [pc EXCEPT ![g] = "run"]
          /\ aborted' = [aborted EXCEPT ![g] = FALSE]
          /\ running' = g
       \/ /\ EnterQueue(g)
          /\ pc' = [pc EXCEPT ![g] = "queued"]
          /\ running' = NoOne
          /\ UNCHANGED aborted
    /\ UNCHANGED <<script, after, workVars, dataVars>>

MutexGranted(g) ==
    /\ running = NoOne
    /\ At(g, "queued")
    /\ EnterWake(g)
    /\ running' = g
    /\ pc' = [pc EXCEPT ![g] = "run"]
    /\ aborted' = [aborted EXCEPT ![g] = FALSE]
    /\ UNCHANGED <<script, after, workVars, dataVars>>

\* The loop ends with the script, or early when abort_epoch has changed.
ScriptEnd(g) ==
    /\ running = g
    /\ At(g, "run")
    /\ script[g] = <<>> \/ aborted[g]
    /\ LeaveScript(g, "ok")
    /\ UNCHANGED dataVars

\* The next command of g's script is cmd.
Command(g, cmd) ==
    /\ running = g
    /\ At(g, "run")
    /\ ~aborted[g]
    /\ script[g] # <<>>
    /\ Head(script[g]) = cmd
    /\ ~shutdown

\* After a shutdown every one of these commands is refused (cmd_default).
CommandRefused(g) ==
    /\ running = g
    /\ At(g, "run")
    /\ ~aborted[g]
    /\ script[g] # <<>>
    /\ shutdown
    /\ CommandError(g)
    /\ UNCHANGED dataVars

\* The macros of gcode_macro.cfg.  The template is rendered when the macro
\* starts, so is_paused is the value of that moment.
Body(cmd, paused) ==
    CASE cmd = "PAUSE" ->
            IF paused THEN <<>> ELSE <<"BASE_PAUSE", "MOVE">>
      [] cmd = "RESUME" ->
            IF paused THEN <<"MOVE", "BASE_RESUME">> ELSE <<>>
      [] cmd = "CANCEL_PRINT" -> <<"MOVE", "BASE_CANCEL_PRINT", "MOVE">>

Macro(g) ==
    /\ \E cmd \in {"PAUSE", "RESUME", "CANCEL_PRINT"} :
          /\ Command(g, cmd)
          /\ script' = [script EXCEPT ![g] =
                           Body(cmd, isPaused) \o Tail(script[g])]
    /\ UNCHANGED <<running, pc, aborted, after, loopVars, dataVars>>

\* Any other command: it ends at once, fails at once, or pauses first.
Move(g) ==
    /\ Command(g, "MOVE")
    /\ \/ CommandDone(g)
       \/ CommandError(g)
       \/ Suspend(g, "busy") /\ UNCHANGED loopVars
    /\ UNCHANGED dataVars

MoveEnd(g) ==
    /\ running = NoOne
    /\ At(g, "busy")
    /\ \/ CommandDone(g)
       \/ CommandError(g)
    /\ UNCHANGED dataVars

-----------------------------------------------------------------------------
(* virtual_sdcard: do_pause, do_resume, do_cancel and _reset_file.         *)

\* Mutant of AskToPause: only a handler between two lines is asked.
AskToPause_Idle == mustPauseWork' = (mustPauseWork \/ (workTimer /\ ~cmdFromSd))

\* With a job active, do_pause and handle_shutdown set must_pause_work.
AskToPause == mustPauseWork' = (mustPauseWork \/ workTimer)

\* do_pause, called by g, which goes on at label: with a job active it asks
\* the work handler to stop and polls every millisecond until the handler
\* has stopped or is carrying out a command of the file.
DoPause(g, label) ==
    /\ AskToPause
    /\ pc' = [pc EXCEPT ![g] = "wait"]
    /\ after' = [after EXCEPT ![g] = label]
    /\ UNCHANGED <<running, script, aborted, loopVars, workTimer, cmdFromSd>>

\* Mutant of MustWait: do_pause does not wait.
MustWait_Never == FALSE

MustWait == workTimer /\ ~cmdFromSd

DoPausePoll(g) ==
    /\ running = g
    /\ At(g, "wait")
    /\ IF MustWait THEN Suspend(g, "wait") ELSE Goto(g, after[g])
    /\ UNCHANGED <<loopVars, dataVars>>

\* A poll that finds the handler still at work changes nothing; this is the
\* poll that does not.
DoPauseWake(g) ==
    /\ running = NoOne
    /\ At(g, "wait")
    /\ ~MustWait
    /\ running' = g
    /\ UNCHANGED <<pc, script, aborted, after, loopVars, dataVars>>

\* do_resume when it does not raise "SD busy": the timer that starts the
\* work handler is registered.  The caller's own place is its command's end.
DoResume(g) ==
    /\ mustPauseWork' = FALSE
    /\ workTimer' = TRUE
    /\ UNCHANGED cmdFromSd
    /\ script' = [script EXCEPT ![g] = Tail(script[g])]
    /\ pc' = [pc EXCEPT ![g] = "run", ![Sd] = "start"]
    /\ running' = g
    /\ UNCHANGED <<aborted, after, loopVars>>

\* Mutant of PauseCleared: pause_command_sent is not reset.
PauseCleared_NotSent == isPaused' = FALSE /\ UNCHANGED <<sdPaused, pauseSent>>

\* What cmd_CLEAR_PAUSE does; sd_paused stays.
PauseCleared ==
    /\ isPaused' = FALSE
    /\ pauseSent' = FALSE
    /\ UNCHANGED sdPaused

\* The end of do_cancel: a request goes on to run the CANCEL_PRINT script,
\* the CANCEL_PRINT command clears the pause.
CancelReturn(g) ==
    IF script[g] = <<>>
    THEN /\ script' = [script EXCEPT ![g] = <<"CANCEL_PRINT">>]
         /\ pc' = [pc EXCEPT ![g] = "enter"]
         /\ UNCHANGED <<running, aborted, after, loopVars, pauseVars>>
    ELSE CommandDone(g) /\ PauseCleared

\* do_cancel up to the call of do_pause: abort_waits ends the heater waits
\* and every script loop that is under way.
DoCancel(g) ==
    /\ running = g
    /\ At(g, "cancel")
    /\ aborted' = [h \in Greenlets |-> TRUE]
    /\ IF currentFile = NoFile
       THEN /\ pc' = [pc EXCEPT ![g] = "nofile"]
            /\ UNCHANGED <<after, mustPauseWork>>
       ELSE /\ pc' = [pc EXCEPT ![g] = "wait"]
            /\ after' = [after EXCEPT ![g] = "close"]
            /\ AskToPause
    /\ UNCHANGED <<running, script, loopVars, workTimer, cmdFromSd, printVars,
                   pauseVars, sysVars>>

\* The rest of do_cancel when no file was loaded.
CancelNoFile(g) ==
    /\ running = g
    /\ At(g, "nofile")
    /\ filePosition' = 0
    /\ CancelReturn(g)
    /\ UNCHANGED <<currentFile, jobVars, plrVars, statsVars, sysVars>>

\* None.close(): an exception nobody expects shuts the printer down.
CloseNone(g) ==
    /\ running = g
    /\ At(g, "close") \/ At(g, "reset")
    /\ currentFile = NoFile
    /\ shutdown' = TRUE
    /\ internalError' = TRUE
    /\ AskToPause
    /\ IF script[g] = <<>>
       THEN Suspend(g, "idle") /\ UNCHANGED loopVars
       ELSE CommandCrash(g)
    /\ UNCHANGED <<workTimer, cmdFromSd, printVars, pauseVars, requests>>

\* The rest of do_cancel.
CancelClose(g) ==
    /\ running = g
    /\ At(g, "close")
    /\ currentFile # NoFile
    /\ currentFile' = NoFile
    /\ filePosition' = 0
    /\ NoteFinish("cancelled")
    /\ CancelReturn(g)
    /\ UNCHANGED <<jobVars, plrVars, sysVars>>

\* cmd_SDCARD_RESET_FILE and _reset_file up to the call of do_pause.
SdcardResetFile(g) ==
    /\ Command(g, "SDCARD_RESET_FILE")
    /\ \/ /\ cmdFromSd
          /\ CommandError(g)
          /\ UNCHANGED <<jobVars, fileVars, statsVars>>
       \/ /\ ~cmdFromSd
          /\ currentFile # NoFile
          /\ DoPause(g, "reset")
          /\ UNCHANGED <<fileVars, statsVars>>
       \/ /\ ~cmdFromSd
          /\ currentFile = NoFile
          /\ filePosition' = 0
          /\ StatsReset
          /\ CommandDone(g)
          /\ UNCHANGED <<currentFile, jobVars>>
    /\ UNCHANGED <<plrVars, pauseVars, sysVars>>

ResetClose(g) ==
    /\ running = g
    /\ At(g, "reset")
    /\ currentFile # NoFile
    /\ currentFile' = NoFile
    /\ filePosition' = 0
    /\ StatsReset
    /\ CommandDone(g)
    /\ UNCHANGED <<jobVars, plrVars, pauseVars, sysVars>>

-----------------------------------------------------------------------------
(* Loading a file: SDCARD_PRINT_FILE, M23 and the command that continues a *)
(* print after a power loss.  All three refuse while a job is active,      *)
(* reset the card (nothing to wait for then) and call _load_file.          *)

LoadCommands ==
    {"SDCARD_PRINT_FILE", "M23", "SDCARD_POWER_OFF_CONTINUES_PINT_FILE"}

\* The command that continues a print first decodes the record it is given
\* and then leaves the closure that restores the printer to the handler.
Continues(cmd) == cmd = "SDCARD_POWER_OFF_CONTINUES_PINT_FILE"

LoadRefused(g, cmd) ==
    /\ Command(g, cmd)
    /\ workTimer
    /\ CommandError(g)
    /\ UNCHANGED dataVars

\* The record cannot be decoded or the file cannot be opened.
LoadFailed(g, cmd) ==
    /\ Command(g, cmd)
    /\ ~workTimer
    /\ currentFile' = NoFile
    /\ filePosition' = 0
    /\ StatsReset
    /\ powerOffResume' \in {powerOffResume, powerOffResume \/ Continues(cmd)}
    /\ CommandError(g)
    /\ UNCHANGED <<jobVars, plrJob, pauseVars, sysVars>>

\* A print to be continued whose file is not in the cache: glob()[0] raises
\* an exception nobody expects.
LoadNothing(g, cmd) ==
    /\ Command(g, cmd)
    /\ Continues(cmd)
    /\ ~workTimer
    /\ currentFile' = NoFile
    /\ filePosition' = 0
    /\ StatsReset
    /\ powerOffResume' = TRUE
    /\ shutdown' = TRUE
    /\ internalError' = TRUE
    /\ CommandCrash(g)
    /\ UNCHANGED <<jobVars, plrJob, pauseVars, requests>>

\* An archive is extracted first, pausing between its blocks; a plain file
\* is opened at once.
LoadFile(g, cmd) ==
    /\ Command(g, cmd)
    /\ ~workTimer
    /\ filePosition' = 0
    /\ powerOffResume' = (powerOffResume \/ Continues(cmd))
    /\ \/ /\ Archives # {}
          /\ currentFile' = NoFile
          /\ NoteExtracting
          /\ Suspend(g, "extract")
          /\ UNCHANGED plrJob
       \/ /\ currentFile' \in Files \ Archives
          /\ StatsReset
          /\ plrJob' = Continues(cmd)
          /\ Suspend(g, "scan")
    /\ UNCHANGED <<loopVars, jobVars, pauseVars, sysVars>>

\* The extraction ends: the shadow file is opened, or everything is undone.
Extracted(g) ==
    /\ running = NoOne
    /\ At(g, "extract")
    /\ \/ /\ currentFile' \in Archives
          /\ filePosition' = 0
          /\ plrJob' = Continues(Head(script[g]))
          /\ pc' = [pc EXCEPT ![g] = "scan"]
          /\ UNCHANGED <<running, script, aborted, after, loopVars, statsVars>>
       \/ /\ StatsReset
          /\ CommandError(g)
          /\ UNCHANGED <<fileVars, plrJob>>
    /\ UNCHANGED <<powerOffResume, jobVars, pauseVars, sysVars>>

\* The scan for slicer settings has paused twice with the file open; then
\* set_current_file, and the job starts unless the command was M23.
Loaded(g) ==
    /\ running = NoOne
    /\ At(g, "scan")
    /\ StatsReset
    /\ \/ /\ Head(script[g]) = "M23"
          /\ CommandDone(g)
          /\ UNCHANGED <<jobVars, filePosition>>
       \/ /\ Head(script[g]) # "M23"
          /\ workTimer
          /\ CommandError(g)
          /\ UNCHANGED <<jobVars, filePosition>>
       \/ /\ Head(script[g]) # "M23"
          /\ ~workTimer
          /\ DoResume(g)
          /\ IF Head(script[g]) = "SDCARD_PRINT_FILE"
             THEN UNCHANGED filePosition
             ELSE filePosition' \in 0..MaxPosition
    /\ UNCHANGED <<currentFile, plrVars, pauseVars, sysVars>>

M24(g) ==
    /\ Command(g, "M24")
    /\ IF workTimer THEN CommandError(g) /\ UNCHANGED jobVars ELSE DoResume(g)
    /\ UNCHANGED <<printVars, pauseVars, sysVars>>

\* M25 under the name the macro of that name leaves it.
M9925(g) ==
    /\ Command(g, "M9925")
    /\ DoPause(g, "m25")
    /\ UNCHANGED <<printVars, pauseVars, sysVars>>

M25Return(g) ==
    /\ running = g
    /\ At(g, "m25")
    /\ CommandDone(g)
    /\ UNCHANGED dataVars

\* Mutant of SeekPositions: the parameter has no lower bound.
SeekPositions_Negative == -1..MaxPosition

SeekPositions == 0..MaxPosition

M26(g) ==
    /\ Command(g, "M26")
    /\ IF workTimer
       THEN CommandError(g) /\ UNCHANGED filePosition
       ELSE CommandDone(g) /\ filePosition' \in SeekPositions
    /\ UNCHANGED <<currentFile, jobVars, plrVars, statsVars, pauseVars,
                   sysVars>>

\* sdcard_loop.py: the loop is over, or goes back to a position
\* SDCARD_LOOP_BEGIN has noted, on the way here or in an earlier file: the
\* stack of loops outlives the file.
SdcardLoopEnd(g) ==
    /\ Command(g, "SDCARD_LOOP_END")
    /\ \/ /\ ~cmdFromSd
          /\ CommandError(g)
       \/ /\ cmdFromSd
          /\ CommandDone(g)
       \/ /\ cmdFromSd
          /\ nextFilePosition' \in 0..filePosition \cup SeekPositions
          /\ script' = [script EXCEPT ![g] = Tail(script[g])]
          /\ UNCHANGED <<running, pc, aborted, after, mutexVars, lines,
                         readPos, lineEnd, sdError>>
    /\ UNCHANGED dataVars
-----------------------------------------------------------------------------
(* pause_resume.                                                           *)

\* send_pause_command, called by cmd_PAUSE or by a runout event.
SendPauseCommand(g) ==
    /\ running = g
    /\ At(g, "sendpause")
    /\ IF pauseSent
       THEN Goto(g, "sent") /\ UNCHANGED <<loopVars, jobVars, pauseVars>>
       ELSE /\ sdPaused' = workTimer
            /\ IF workTimer
               THEN DoPause(g, "paused") /\ UNCHANGED <<isPaused, pauseSent>>
               ELSE /\ Goto(g, "sent")
                    /\ pauseSent' = TRUE
                    /\ UNCHANGED <<loopVars, jobVars, isPaused>>
    /\ UNCHANGED <<printVars, sysVars>>

\* do_pause has returned to send_pause_command.
PauseCommandSent(g) ==
    /\ running = g
    /\ At(g, "paused")
    /\ Goto(g, "sent")
    /\ pauseSent' = TRUE
    /\ UNCHANGED <<loopVars, jobVars, printVars, isPaused, sdPaused, sysVars>>

BasePause(g) ==
    /\ Command(g, "BASE_PAUSE")
    /\ IF isPaused THEN CommandDone(g)
       ELSE Goto(g, "sendpause") /\ UNCHANGED loopVars
    /\ UNCHANGED dataVars

\* The end of cmd_PAUSE.
BasePauseEnd(g) ==
    /\ running = g
    /\ At(g, "sent")
    /\ script[g] # <<>>
    /\ isPaused' = TRUE
    /\ CommandDone(g)
    /\ UNCHANGED <<jobVars, printVars, sdPaused, pauseSent, sysVars>>

\* cmd_RESUME moves the toolhead back, which may pause or fail.
BaseResume(g) ==
    /\ Command(g, "BASE_RESUME")
    /\ \/ /\ ~isPaused
          /\ CommandDone(g)
       \/ /\ isPaused
          /\ Goto(g, "restored") \/ Suspend(g, "restore")
          /\ UNCHANGED loopVars
       \/ /\ isPaused
          /\ CommandError(g)
    /\ UNCHANGED dataVars

RestoreEnd(g) ==
    /\ running = NoOne
    /\ At(g, "restore")
    /\ \/ /\ running' = g
          /\ pc' = [pc EXCEPT ![g] = "restored"]
          /\ UNCHANGED <<script, aborted, after, loopVars>>
       \/ CommandError(g)
    /\ UNCHANGED dataVars

\* send_resume_command and the end of cmd_RESUME.
SendResumeCommand(g) ==
    /\ running = g
    /\ At(g, "restored")
    /\ IF sdPaused /\ workTimer
       THEN CommandError(g) /\ UNCHANGED <<jobVars, pauseVars>>
       ELSE /\ IF sdPaused THEN DoResume(g)
               ELSE CommandDone(g) /\ UNCHANGED jobVars
            /\ sdPaused' = FALSE
            /\ pauseSent' = FALSE
            /\ isPaused' = FALSE
    /\ UNCHANGED <<printVars, sysVars>>

ClearPause(g) ==
    /\ Command(g, "CLEAR_PAUSE")
    /\ CommandDone(g)
    /\ PauseCleared
    /\ UNCHANGED <<jobVars, printVars, sysVars>>

BaseCancelPrint(g) ==
    /\ Command(g, "BASE_CANCEL_PRINT")
    /\ IF workTimer \/ sdPaused
       THEN Goto(g, "cancel") /\ UNCHANGED <<loopVars, pauseVars>>
       ELSE CommandDone(g) /\ PauseCleared
    /\ UNCHANGED <<jobVars, printVars, sysVars>>

-----------------------------------------------------------------------------
(* Requests and events.                                                    *)

NewRequest(c, request) ==
    /\ running = NoOne
    /\ At(c, "idle")
    /\ request \in Requests[c]
    /\ requests[c] < MaxRequests[c]
    /\ requests' = [requests EXCEPT ![c] = @ + 1]
    /\ running' = c
    /\ UNCHANGED <<aborted, after, loopVars, jobVars, printVars, pauseVars,
                   shutdown, internalError>>

\* gcode/script, pause_resume/pause and pause_resume/resume.
ScriptRequest(c) ==
    \E request \in Requests[c] \ {WebCancel, SensorRunout} :
        /\ NewRequest(c, request)
        /\ script' = [script EXCEPT ![c] = request]
        /\ pc' = [pc EXCEPT ![c] = "enter"]

\* pause_resume/cancel cancels at once, without the gcode mutex, and then
\* runs the CANCEL_PRINT script.
CancelRequest(c) ==
    /\ NewRequest(c, WebCancel)
    /\ IF workTimer \/ sdPaused
       THEN /\ pc' = [pc EXCEPT ![c] = "cancel"]
            /\ UNCHANGED script
       ELSE /\ pc' = [pc EXCEPT ![c] = "enter"]
            /\ script' = [script EXCEPT ![c] = <<"CANCEL_PRINT">>]

\* The runout event handler sends the pause at once, without the mutex,
\* waits a moment, and then runs PAUSE and the user's runout commands.
RunoutEvent(c) ==
    /\ NewRequest(c, SensorRunout)
    /\ pc' = [pc EXCEPT ![c] = "sendpause"]
    /\ UNCHANGED script

RunoutDelay(c) ==
    /\ running = c
    /\ At(c, "sent")
    /\ script[c] = <<>>
    /\ Suspend(c, "delay")
    /\ UNCHANGED <<loopVars, dataVars>>

RunoutScript(c) ==
    /\ running = NoOne
    /\ At(c, "delay")
    /\ running' = c
    /\ script' = [script EXCEPT ![c] = <<"PAUSE", "MOVE">>]
    /\ pc' = [pc EXCEPT ![c] = "enter"]
    /\ UNCHANGED <<aborted, after, loopVars, dataVars>>

\* An emergency stop or an mcu error: invoke_shutdown, handle_shutdown.
Shutdown ==
    /\ running = NoOne
    /\ ~shutdown
    /\ shutdown' = TRUE
    /\ AskToPause
    /\ UNCHANGED <<schedVars, loopVars, workTimer, cmdFromSd, printVars,
                   pauseVars, internalError, requests>>

-----------------------------------------------------------------------------
(* work_handler.                                                           *)

\* The handler's local variables end with it.
WorkLocalsEnd ==
    /\ lines' = <<>>
    /\ readPos' = 0
    /\ lineEnd' = 0

\* The handler gives up before its loop.
WorkAbandon ==
    /\ workTimer' = FALSE
    /\ Suspend(Sd, "idle")
    /\ UNCHANGED <<mustPauseWork, cmdFromSd>>

\* Mutant of RestoresPrinter: every first start of a job restores it.
RestoresPrinter_Always == ~started

\* A power-loss record is waiting to be applied before the first line.
RestoresPrinter == powerOffResume

\* The timer fires: seek in the open file, note_start.
WorkStart ==
    /\ running = NoOne
    /\ At(Sd, "start")
    /\ IF currentFile = NoFile
       THEN /\ WorkAbandon
            /\ UNCHANGED <<statsVars, workVars>>
       ELSE /\ NoteStart
            /\ readPos' = filePosition
            /\ lines' = <<>>
            /\ IF RestoresPrinter THEN Suspend(Sd, "plr")
               ELSE /\ running' = Sd
                    /\ pc' = [pc EXCEPT ![Sd] = "loop"]
                    /\ UNCHANGED <<script, aborted, after>>
            /\ UNCHANGED <<jobVars, nextFilePosition, lineEnd, sdError>>
    /\ UNCHANGED <<mutexVars, fileVars, plrVars, pauseVars, sysVars>>

\* The closure that restores the printer after a power loss runs its G-code
\* without the gcode mutex, and is dropped whatever comes of it.
PowerOffResumeEnd ==
    /\ running = NoOne
    /\ At(Sd, "plr")
    /\ powerOffResume' = FALSE
    /\ \/ /\ running' = Sd
          /\ pc' = [pc EXCEPT ![Sd] = "loop"]
          /\ UNCHANGED <<script, aborted, after, jobVars, workVars, statsVars>>
       \/ /\ WorkAbandon
          /\ WorkLocalsEnd
          /\ NoteFinish("error")
          /\ UNCHANGED <<nextFilePosition, sdError>>
    /\ UNCHANGED <<mutexVars, fileVars, plrJob, pauseVars, sysVars>>

\* How many lines one read returns.
LinesRead ==
    IF readPos + Chunk < Len(Lines[currentFile]) THEN Chunk
    ELSE Len(Lines[currentFile]) - readPos

\* Mutant of NextLines: lines.reverse() is missing, lines.pop() takes the
\* last one first.
NextLines_NotReversed ==
    [i \in 1..LinesRead |->
        [file |-> currentFile, pos |-> readPos + LinesRead - i]]

\* The lines, in the order they are run.
NextLines ==
    [i \in 1..LinesRead |-> [file |-> currentFile, pos |-> readPos + i - 1]]

AtWorkLoop == running = Sd /\ At(Sd, "loop") /\ ~mustPauseWork

\* A closed file cannot be read: the handler leaves its loop.  At the end
\* of the file the handler closes it and leaves.
WorkRead ==
    /\ AtWorkLoop
    /\ lines = <<>>
    /\ IF currentFile = NoFile \/ readPos >= Len(Lines[currentFile])
       THEN /\ currentFile' = NoFile
            /\ Goto(Sd, "exit")
            /\ UNCHANGED workVars
       ELSE /\ lines' = NextLines
            /\ readPos' = readPos + LinesRead
            /\ Suspend(Sd, "loop")
            /\ UNCHANGED <<currentFile, nextFilePosition, lineEnd, sdError>>
    /\ UNCHANGED <<filePosition, mutexVars, jobVars, plrVars, statsVars,
                   pauseVars, sysVars>>

\* Another script holds the mutex: look again in a tenth of a second.
WorkYield ==
    /\ AtWorkLoop
    /\ lines # <<>>
    /\ isLocked
    /\ Suspend(Sd, "loop")
    /\ UNCHANGED <<loopVars, dataVars>>

WorkWake ==
    /\ running = NoOne
    /\ At(Sd, "loop")
    /\ mustPauseWork \/ lines = <<>> \/ ~isLocked
    /\ running' = Sd
    /\ UNCHANGED <<pc, script, aborted, after, loopVars, dataVars>>

\* Run the next line as a script.
WorkDispatch ==
    /\ AtWorkLoop
    /\ lines # <<>>
    /\ ~isLocked
    /\ cmdFromSd' = TRUE
    /\ lines' = Tail(lines)
    /\ nextFilePosition' = filePosition + 1
    /\ lineEnd' = filePosition + 1
    /\ script' = [script EXCEPT ![Sd] =
                     <<Lines[Head(lines).file][Head(lines).pos + 1]>>]
    /\ pc' = [pc EXCEPT ![Sd] = "enter"]
    /\ UNCHANGED <<running, aborted, after, mutexVars, workTimer,
                   mustPauseWork, fileVars, readPos, sdError, plrVars,
                   statsVars, pauseVars, sysVars>>

\* The line is done.  If it moved the file position, seek there; a file
\* that was closed meanwhile cannot be seeked, and the handler gives up.
WorkNext ==
    /\ running = Sd
    /\ At(Sd, "next")
    /\ cmdFromSd' = FALSE
    /\ filePosition' = nextFilePosition
    /\ IF nextFilePosition = lineEnd
       THEN /\ Goto(Sd, "loop")
            /\ UNCHANGED <<workTimer, lines, readPos, lineEnd>>
       ELSE IF currentFile = NoFile
       THEN /\ Suspend(Sd, "idle")
            /\ WorkLocalsEnd
            /\ workTimer' = FALSE
       ELSE /\ Goto(Sd, "loop")
            /\ lines' = <<>>
            /\ readPos' = nextFilePosition
            /\ UNCHANGED <<workTimer, lineEnd>>
    /\ UNCHANGED <<mutexVars, mustPauseWork, currentFile, nextFilePosition,
                   sdError, plrVars, statsVars, pauseVars, sysVars>>

\* The handler leaves its loop and notes how the job stands.
WorkExit ==
    /\ running = Sd
    /\ At(Sd, "exit") \/ (At(Sd, "loop") /\ mustPauseWork)
    /\ workTimer' = FALSE
    /\ cmdFromSd' = FALSE
    /\ sdError' = FALSE
    /\ IF sdError THEN NoteFinish("error")
       ELSE IF currentFile # NoFile THEN NotePause
       ELSE NoteFinish("complete")
    /\ Suspend(Sd, "idle")
    /\ WorkLocalsEnd
    /\ UNCHANGED <<mutexVars, mustPauseWork, fileVars, nextFilePosition,
                   plrVars, pauseVars, sysVars>>

-----------------------------------------------------------------------------
(* The specification.                                                      *)

CommandStep(g) ==
    \/ CommandRefused(g) \/ Macro(g) \/ Move(g) \/ MoveEnd(g)
    \/ SdcardResetFile(g) \/ ResetClose(g) \/ CloseNone(g)
    \/ (\E cmd \in LoadCommands :
            \/ LoadRefused(g, cmd) \/ LoadFailed(g, cmd)
            \/ LoadNothing(g, cmd) \/ LoadFile(g, cmd))
    \/ Extracted(g) \/ Loaded(g)
    \/ M24(g) \/ M9925(g) \/ M25Return(g) \/ M26(g) \/ SdcardLoopEnd(g)
    \/ BasePause(g) \/ BasePauseEnd(g)
    \/ BaseResume(g) \/ RestoreEnd(g) \/ SendResumeCommand(g)
    \/ ClearPause(g) \/ BaseCancelPrint(g)

GreenletStep(g) ==
    \/ RunScript(g) \/ MutexGranted(g) \/ ScriptEnd(g)
    \/ CommandStep(g)
    \/ DoPausePoll(g) \/ DoPauseWake(g)
    \/ SendPauseCommand(g) \/ PauseCommandSent(g)
    \/ DoCancel(g) \/ CancelNoFile(g) \/ CancelClose(g)

WorkStep ==
    \/ WorkStart \/ PowerOffResumeEnd \/ WorkRead \/ WorkYield \/ WorkWake
    \/ WorkDispatch \/ WorkNext \/ WorkExit

RequestStep(c) == ScriptRequest(c) \/ CancelRequest(c) \/ RunoutEvent(c)

RunoutStep(c) == RunoutDelay(c) \/ RunoutScript(c)

\* The bound on requests is reached and nothing is under way.
Quiet ==
    /\ requests = MaxRequests
    /\ running = NoOne
    /\ \A g \in Greenlets : At(g, "idle")
    /\ UNCHANGED vars

Next ==
    \/ \E g \in Greenlets : GreenletStep(g)
    \/ \E c \in Clients : RequestStep(c) \/ RunoutStep(c)
    \/ WorkStep
    \/ Shutdown
    \/ Quiet

Spec == Init /\ [][Next]_vars

\* The reactor runs every greenlet that is due, commands come to an end and
\* pauses are finite.  Nothing makes a client ask or the printer fail.
Fairness ==
    /\ \A g \in Greenlets : WF_vars(GreenletStep(g))
    /\ \A c \in Clients : WF_vars(RunoutStep(c))
    /\ WF_vars(WorkStep)

FairSpec == Spec /\ Fairness

-----------------------------------------------------------------------------
(* Properties.                                                             *)

\* Places where a greenlet carries out a script and so holds the mutex.
InScript ==
    {"run", "busy", "restore", "restored", "reset", "m25", "extract", "scan"}

\* Places inside do_pause, do_cancel or send_pause_command, where a greenlet
\* holds the mutex only if a command of a script has brought it there.
InCall == {"wait", "paused", "close", "nofile", "cancel", "sendpause", "sent"}

Holds(g) == pc[g] \in InScript \/ (pc[g] \in InCall /\ script[g] # <<>>)

\* The gcode mutex does its work although it is handed over while its last
\* owner still runs, and requests act before they take it: at most one
\* greenlet is carrying out a script, none is during a handover, and the
\* mutex is locked in exactly these two situations (reactor.py ReactorMutex,
\* gcode.py run_script).
LockConsistent ==
    /\ \A g, h \in Greenlets : Holds(g) /\ Holds(h) => g = h
    /\ nextPending => \A g \in Greenlets : ~Holds(g)
    /\ isLocked <=> (nextPending \/ \E g \in Greenlets : Holds(g))

\* The work handler starts a line of the file (not the error script).
WorkDispatches == script[Sd] = <<>> /\ script'[Sd] # <<>> /\ ~sdError'

\* A cancelled job stays cancelled until the next file is loaded: neither
\* the handler that notices late (note_pause, note_complete, note_error) nor
\* M24 or a resume may put another state over it.
CancelIsFinal ==
    [][state = "cancelled" =>
        state' \in {"cancelled", "standby", "extracting"}]_vars

\* No line of a job is started once the job is reported cancelled, whatever
\* the handler had already read (do_cancel, work_handler).  It holds as long as
\* no job is started while a request to cancel waits in do_pause: that request
\* acts without the gcode mutex.
NoLineAfterCancel == [][WorkDispatches => state # "cancelled"]_vars

\* When a PAUSE completes, the work handler has stopped or has been told to:
\* pause_command_sent never makes PAUSE skip do_pause for a running job.  A
\* runout before the job leaves it set, and then it does.
PauseTakesHold ==
    [][~isPaused /\ isPaused' => (workTimer' => mustPauseWork')]_vars

\* Across reads, pauses, resumes, seeks and loops the line that is started
\* is the one at file_position, in the file that is loaded: none is skipped,
\* repeated, reordered or taken from another file.
LineIsNext ==
    [][WorkDispatches /\ currentFile # NoFile =>
        Head(lines) = [file |-> currentFile, pos |-> filePosition]]_vars

\* No request ends in an exception nobody expects (None.close() in do_cancel
\* or _reset_file), which would put the printer in shutdown.  Requests to
\* cancel, which act without the gcode mutex, can break it.
NoInternalError == ~internalError

\* "printing" is never left behind by a handler that is gone: every way out
\* of work_handler notes how the job stands.
PrintingHasWorker == state = "printing" => workTimer

\* While the handler works on a file its job is printing or cancelled; in
\* particular no reset or load slips under a handler that is still running.
\* Again no job may be started while a request to cancel waits.
WorkerIsPrinting ==
    pc[Sd] \in {"loop", "enter", "queued", "run", "next", "plr"} =>
        state \in {"printing", "cancelled"}

\* The moves that put the printer back where a power loss stopped it are
\* made only for a job loaded to be continued (work_handler, the comment on
\* the power-loss scenario).
ResumeOnlyAfterPowerLoss ==
    [][At(Sd, "plr") /\ pc'[Sd] # "plr" => plrJob]_vars

\* Requests are bounded here, so this says that each is answered: no wait in
\* do_pause and no place in the mutex's queue is for ever.
RequestsComplete == []<>(\A c \in Clients : At(c, "idle"))

\* The work handler of a cancelled job comes to its end.
CancelStopsWork == state = "cancelled" ~> ~workTimer
=============================================================================
