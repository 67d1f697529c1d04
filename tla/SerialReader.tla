---------------------------- MODULE SerialReader ----------------------------
(***************************************************************************)
(* klippy/serialhdl.py on top of SerialQueue: connecting to a              *)
(* microcontroller.  A greenlet reads the controller's data dictionary     *)
(* with one query after the other (_get_identify_data), each of them sent  *)
(* again by SerialRetryCommand when its answer is missing; _bg_thread      *)
(* pulls what arrives; the greenlet that connects waits for at most five   *)
(* seconds and then disconnects.                                           *)
(*                                                                         *)
(* The controller may expect any block number at first (McuStart), so the  *)
(* first queries may be refused or lost.  One session is modelled; the     *)
(* next attempt of connect_uart begins as this one did.                    *)
(***************************************************************************)
EXTENDS SerialQueue

CONSTANTS
    Identify,  \* default_cmd_queue
    Chunks,    \* how many answers hold data; the next one is empty
    Retries    \* retries of SerialRetryCommand

ASSUME ReaderAssumption ==
    /\ Queues = {Identify}
    /\ Commands = Queries /\ Commands = Notified
    /\ Chunks \in Nat /\ Retries \in Nat

VARIABLES
    identify,    \* where _get_identify_data is
    offsetOf,    \* offsetOf[c]: the offset that query c asks for
    identified,  \* len(identify_data), in chunks
    lastParams,  \* SerialRetryCommand: last_params, an offset
    registered,  \* its handler is in handlers
    retries,     \* what is left of its retries
    pending,     \* pending_notifications
    completion,  \* the completion raw_send_wait_ack waits for
    session      \* the greenlet that connects: serialqueue is None or not

identifyVars == <<identify, offsetOf, identified, retries>>
handlerVars == <<lastParams, registered>>
readerVars == <<identifyVars, handlerVars, pending, completion, session>>
allVars == <<vars, readerVars>>

NoParams == -1

ReaderTypeOK ==
    /\ TypeOK
    /\ identify \in {"send", "wait", "pause", "done", "error", "crashed"}
    /\ offsetOf \in [Commands -> Nat]
    /\ identified \in Nat
    /\ lastParams \in Nat \cup {NoParams}
    /\ registered \in BOOLEAN
    /\ retries \in 0 .. Retries
    /\ pending \subseteq Commands
    /\ completion \in {"open", "acked", "closed"}
    /\ session \in {"waiting", "joining", "connected", "disconnected"}

ReaderInit ==
    /\ Init
    /\ identify = "send"
    /\ offsetOf = [c \in Commands |-> 0]
    /\ identified = 0
    /\ lastParams = NoParams /\ registered = TRUE /\ retries = Retries
    /\ pending = {} /\ completion = "open"
    /\ session = "waiting"

\* The reactor's thread is not blocked in pthread_join.
ReactorRuns == session # "joining"

\* raw_send_wait_ack; after a disconnect serialqueue is None and the call of
\* serialqueue_send ends in a TypeError.
RawSendWaitAck ==
    /\ identify = "send"
    /\ ReactorRuns
    /\ sender[Identify] = "idle"
    /\ \/ /\ session = "disconnected"
          /\ identify' = "crashed"
          /\ UNCHANGED <<vars, offsetOf, pending>>
       \/ /\ session # "disconnected"
          /\ SendBatch(Identify)
          /\ unsent' = [unsent EXCEPT ![Identify] = Tail(@)]
          /\ LET cmd == Head(unsent[Identify])
             IN /\ offsetOf' = [offsetOf EXCEPT ![cmd] = identified]
                /\ pending' = pending \cup {cmd}
          /\ identify' = "wait"
    /\ completion' = "open"
    /\ UNCHANGED <<identified, retries, handlerVars, session>>

\* The next request is a new SerialRetryCommand, which registers its handler.
NextRequest ==
    /\ identify' = "send"
    /\ lastParams' = NoParams /\ registered' = TRUE /\ retries' = Retries

\* get_response has the answer: _get_identify_data takes it if it is for the
\* offset it asked for, and is done when it is empty.
UseParams ==
    \/ /\ lastParams # identified
       /\ NextRequest
       /\ UNCHANGED identified
    \/ /\ lastParams = identified
       /\ identified < Chunks
       /\ identified' = identified + 1
       /\ NextRequest
    \/ /\ lastParams = identified
       /\ identified = Chunks
       /\ identify' = "done"
       /\ registered' = FALSE
       /\ UNCHANGED <<identified, lastParams, retries>>

\* Mutant of CanRetry: the last retry is not made.
CanRetry_NotLast == retries > 1

CanRetry == retries > 0

\* The notification has come: there is an answer, or time to try again.
Notice ==
    /\ identify = "wait"
    /\ ReactorRuns
    /\ sender[Identify] = "idle"
    /\ \/ /\ completion = "closed"
          /\ identify' = "error"
          /\ UNCHANGED <<handlerVars, identified, retries>>
       \/ /\ completion = "acked"
          /\ lastParams # NoParams
          /\ UseParams
       \/ /\ completion = "acked"
          /\ lastParams = NoParams
          /\ CanRetry
          /\ identify' = "pause"
          /\ retries' = retries - 1
          /\ UNCHANGED <<handlerVars, identified>>
       \/ /\ completion = "acked"
          /\ lastParams = NoParams
          /\ ~CanRetry
          /\ identify' = "error"
          /\ registered' = FALSE
          /\ UNCHANGED <<lastParams, identified, retries>>
    /\ UNCHANGED <<vars, offsetOf, pending, completion, session>>

\* The retry delay is over.
RetryDelayEnds ==
    /\ identify = "pause"
    /\ ReactorRuns
    /\ identify' = "send"
    /\ UNCHANGED <<vars, offsetOf, identified, retries, handlerVars, pending,
                   completion, session>>

\* _bg_thread completes a notification or calls the answer's handler.
PullResponse ==
    /\ PullMessage
    /\ LET response == Head(receiveQueue) IN
       \/ /\ ~response.data
          /\ pending' = pending \ {response.about}
          /\ completion' = "acked"
          /\ UNCHANGED lastParams
       \/ /\ response.data
          /\ lastParams' = IF registered /\ response.about # NoCommand
                           THEN offsetOf[response.about] ELSE lastParams
          /\ UNCHANGED <<pending, completion>>
    /\ UNCHANGED <<identifyVars, registered, session>>

\* _start_session has the dictionary.
SessionStarts ==
    /\ session = "waiting"
    /\ identify = "done"
    /\ session' = "connected"
    /\ UNCHANGED <<vars, identifyVars, handlerVars, pending, completion>>

\* Mutant of KeepPending: pending_notifications is cleared before the join.
KeepPending_Cleared == pending' = {}

KeepPending == UNCHANGED pending

\* There is no dictionary, or five seconds are over: disconnect asks the
\* background thread to end and waits for both threads.
BeginDisconnect ==
    /\ session = "waiting"
    /\ \/ identify = "error"
       \/ MayExit /\ identify \in {"wait", "pause"}
    /\ sender[Identify] = "idle"
    /\ session' = "joining"
    /\ Unlocked
    /\ mustExit' = TRUE
    /\ kicked' = TRUE
    /\ KeepPending
    /\ UNCHANGED <<seqVars, ackVars, nakVars, pendVars, recvVars, timerVars,
                   bgVars, sendVars, built, mcuVars, wireVars, countVars,
                   identifyVars, handlerVars, completion>>

\* Mutant of TellPending: complete(None) is missing.
TellPending_Silent == pending' = {} /\ UNCHANGED completion

\* Who still waits is told None.
TellPending ==
    /\ completion' = IF pending # {} THEN "closed" ELSE completion
    /\ pending' = {}

\* Both threads have ended.
EndDisconnect ==
    /\ session = "joining"
    /\ bg = "ended" /\ puller = "ended"
    /\ session' = "disconnected"
    /\ TellPending
    /\ UNCHANGED <<vars, identifyVars, handlerVars>>

GreenletStep ==
    RawSendWaitAck \/ Notice \/ RetryDelayEnds \/ SessionStarts \/ EndDisconnect

QueueStep ==
    \/ KickBgThread(Identify)
    \/ BackgroundStep \/ PullNothing
    \/ McuStep \/ McuReport \/ LoseBlock \/ LoseMessage \/ Tick

\* The identify greenlet has ended, and the session is decided.
Settled ==
    /\ identify \in {"done", "error", "crashed"}
    /\ session \in {"connected", "disconnected"}
    /\ UNCHANGED allVars

ReaderNext ==
    \/ GreenletStep
    \/ BeginDisconnect
    \/ PullResponse
    \/ QueueStep /\ UNCHANGED readerVars
    \/ Settled

ReaderSpec == ReaderInit /\ [][ReaderNext]_allVars

\* As in SerialQueue; the reactor runs its greenlets, and five seconds pass.
ReaderFairness ==
    /\ WF_allVars(GreenletStep)
    /\ WF_allVars(BeginDisconnect)
    /\ WF_allVars(PullResponse \/ (PullNothing /\ UNCHANGED readerVars))
    /\ WF_allVars(KickBgThread(Identify) /\ UNCHANGED readerVars)
    /\ WF_allVars(BackgroundStep /\ UNCHANGED readerVars)
    /\ WF_allVars(McuStep /\ UNCHANGED readerVars)

FairReaderSpec == ReaderSpec /\ ReaderFairness

----------------------------------------------------------------------------
(* Properties.                                                             *)

\* Each notification that is pulled is still in pending_notifications: the
\* pop outside of _bg_thread's try would end the thread otherwise.
NotificationIsPending ==
    puller = "runs" /\ receiveQueue # <<>> /\ ~Head(receiveQueue).data =>
        Head(receiveQueue).about \in pending

\* A controller that can be reached is identified whatever block it expects
\* and whatever it sends of its own: lost answers and queries that count as
\* acknowledged but never arrived do not use up the retries.
IdentifySucceeds == identify = "error" => mustExit

\* No query waits for an acknowledgement for ever, a disconnect included.
NobodyWaitsForever == identify = "wait" ~> identify # "wait"

\* Whoever uses a closed connection gets an error, "Serial connection
\* closed", and no other exception.
ClosedIsReported == identify # "crashed"
============================================================================
