---------------------------- MODULE SerialQueue ----------------------------
(***************************************************************************)
(* The host's end of the link to a microcontroller,                        *)
(* klippy/chelper/serialqueue.c: commands are packed into blocks, blocks   *)
(* are numbered, sent, acknowledged and sent again, and what arrives is    *)
(* queued for the thread that pulls it.                                    *)
(*                                                                         *)
(* Threads: senders (serialqueue_send_batch), the background thread (its   *)
(* timers and its input, run by pollreactor.c) and the puller              *)
(* (serialqueue_pull).  sq->lock makes each of their steps atomic.  The    *)
(* background thread's command_event is several steps here, during which   *)
(* it holds the lock and nothing else moves (bg).                          *)
(*                                                                         *)
(* The two directions of the wire and the microcontroller (its firmware is *)
(* not in the repository) are external: a wire keeps the order of messages *)
(* and may lose or garble them; the controller takes the block it expects, *)
(* answers, acknowledges, and repeats its last acknowledgement for any     *)
(* other block.                                                            *)
(***************************************************************************)
EXTENDS Integers, FiniteSets, SequencesExt, FiniteSetsExt

CONSTANTS
    Commands,     \* commands for the microcontroller
    Queues,       \* the command_queues
    Program,      \* Program[q]: the commands handed to queue q, in order
    MinClock,     \* MinClock[c]: min_clock of command c
    ReqClock,     \* ReqClock[c]: req_clock of command c
    Notified,     \* the commands sent with a notify_id
    Queries,      \* the commands the microcontroller answers
    NoCommand,    \* what an acknowledgement or a report is about
    SeqNumbers,   \* MESSAGE_SEQ_MASK + 1
    MaxPending,   \* MAX_PENDING_BLOCKS
    BlockMax,     \* MESSAGE_PAYLOAD_MAX, in commands
    Window,       \* receive_window, in commands; 0 when it is not known
    ReqDelta,     \* MIN_REQTIME_DELTA, in clock ticks
    ClockKnown,   \* ce.est_freq is not zero
    WordSize,     \* the numbers of a uint64_t
    Uart,         \* serial_fd_type is SQT_UART
    McuStart,     \* the block numbers the microcontroller may expect at first
    MayExit,      \* serialqueue_exit may be called
    MaxClock,     \* bound: the last clock tick
    MaxLosses,    \* bound: messages lost or garbled on the wire
    MaxEarly,     \* bound: timeouts while an answer is still under way
    MaxReports    \* bound: messages the controller sends of its own

ASSUME CommandsAssumption ==
    /\ NoCommand \notin Commands
    /\ Program \in [Queues -> Seq(Commands)]
    /\ MinClock \in [Commands -> 0 .. MaxClock]
    /\ ReqClock \in [Commands -> 0 .. MaxClock]
    /\ Notified \subseteq Commands
    /\ Queries \subseteq Commands
    /\ {ClockKnown, Uart, MayExit} \subseteq BOOLEAN

\* A command is handed to one queue.
ASSUME QueuesAssumption ==
    \A p, q \in Queues : p # q => ToSet(Program[p]) \cap ToSet(Program[q]) = {}

\* The window is smaller than the range of the numbers, and two full blocks fit
\* into the receive window.
ASSUME LinkAssumption ==
    /\ SeqNumbers \in Nat
    /\ MaxPending \in Nat \ {0}
    /\ MaxPending < SeqNumbers
    /\ BlockMax \in Nat \ {0}
    /\ Window = 0 \/ (Window \in Nat /\ Window >= 2 * BlockMax)
    /\ {ReqDelta, MaxClock, MaxLosses, MaxEarly, MaxReports} \subseteq Nat
    /\ WordSize \in Nat \ {0}
    /\ McuStart \subseteq 1 .. SeqNumbers

VARIABLES
    sendSeq, receiveSeq,  \* next block to send, next one to be acknowledged
    sentQueue,            \* blocks that are not acknowledged
    lastAckSeq,           \* the largest number an acknowledgement had
    ignoreNakSeq,         \* naks up to this number do nothing
    retransmitSeq,        \* send_seq at the last retransmission
    lastAckBytes,         \* length of the last block acknowledged
    lastReceiveSent,      \* the block of last_receive_sent_time, 0 for 0.
    pendingQueues,        \* the command_queues that are not empty
    upcoming, ready,      \* their commands, before and after min_clock
    needKickClock,        \* a command due before this needs a kick
    notifyQueue,          \* sent commands whose sender wants to know
    receiveQueue,         \* what the puller has not taken
    receiveWaiting,       \* the puller waits for the condition variable
    mustExit,             \* pollreactor: must_exit
    retransmitTimer,      \* SQPT_RETRANSMIT: never, later or now
    commandTimer,         \* SQPT_COMMAND: the clock it is due at
    kicked,               \* the pipe has something to read
    bg,                   \* where the background thread is
    block, outBuf,        \*   the block it builds, the blocks to write
    unsent, sender,       \* what each sender still has to send, its place
    puller, pulled,       \* where the puller is, what it has taken
    toMcu, toHost,        \* the wire
    mcuSeq, mcuBlock,     \* the block the controller expects; is handling
    clock,                \* the controller's clock
    losses, early, reports, \* counters of the bounds
    executed,             \* history: the blocks the controller has taken
    built,                \* history: the blocks that were built
    resent,               \* history: the numbers of blocks sent again
    unanswered,           \* history: queries whose answer was lost
    retransmits           \* history: sendSeq at the last two retransmissions

seqVars == <<sendSeq, receiveSeq, sentQueue>>
ackVars == <<lastAckSeq, lastAckBytes, lastReceiveSent>>
nakVars == <<ignoreNakSeq, retransmitSeq, resent, retransmits>>
pendVars == <<pendingQueues, upcoming, ready, needKickClock>>
recvVars == <<notifyQueue, receiveQueue, receiveWaiting, puller, pulled>>
timerVars == <<retransmitTimer, commandTimer>>
bgVars == <<bg, block, outBuf>>
wakeVars == <<mustExit, kicked>>
sendVars == <<unsent, sender>>
mcuVars == <<mcuSeq, mcuBlock, executed, reports>>
wireVars == <<toMcu, toHost, losses, unanswered>>
countVars == <<clock, early>>

queueVars == <<seqVars, ackVars, nakVars, pendVars, recvVars, timerVars,
               bgVars, wakeVars, sendVars, built>>
vars == <<queueVars, mcuVars, wireVars, countVars>>

Blocks == [seq : Nat, cmds : Seq(Commands)]
NoBlock == [seq |-> 0, cmds |-> <<>>]

Messages == [data : BOOLEAN, seq : Nat, about : Commands \cup {NoCommand}]
Ack(seq) == [data |-> FALSE, seq |-> seq, about |-> NoCommand]
Answer(seq, cmd) == [data |-> TRUE, seq |-> seq, about |-> cmd]

\* What the puller takes: the notification for a command, or the answer to
\* one; sent is the block whose time sent_time is, 0 for none.
Arrivals == [data : BOOLEAN, about : Commands \cup {NoCommand}, sent : Nat]

\* PR_NEVER and MAX_CLOCK
Never == MaxClock + 1

NumbersTypeOK ==
    /\ {sendSeq, receiveSeq, mcuSeq} \subseteq Nat \ {0}
    /\ {lastAckSeq, ignoreNakSeq, retransmitSeq, lastAckBytes,
        lastReceiveSent} \subseteq Nat
LinkTypeOK ==
    /\ {sentQueue, outBuf, toMcu} \subseteq Seq(Blocks)
    /\ toHost \in Seq(Messages)
    /\ mcuBlock \in Blocks
SenderTypeOK ==
    /\ pendingQueues \in Seq(Queues)
    /\ {upcoming, ready, unsent} \subseteq [Queues -> Seq(Commands)]
    /\ block \in Seq(Commands)
    /\ {needKickClock, commandTimer} \subseteq 0 .. Never
    /\ retransmitTimer \in {"never", "later", "now"}
    /\ sender \in [Queues -> {"idle", "kick"}]
    /\ bg \in {"poll", "check", "build", "ended"}
PullerTypeOK ==
    /\ notifyQueue \in Seq([cmd : Commands, seq : Nat])
    /\ {receiveQueue, pulled} \subseteq Seq(Arrivals)
    /\ {receiveWaiting, mustExit, kicked} \subseteq BOOLEAN
    /\ puller \in {"runs", "ended"}
HistoryTypeOK ==
    /\ {executed, built} \subseteq Seq(Blocks)
    /\ {clock, losses, early, reports} \subseteq Nat
    /\ resent \subseteq Nat
    /\ unanswered \subseteq Commands
    /\ retransmits \in Nat \X Nat

TypeOK ==
    /\ NumbersTypeOK
    /\ LinkTypeOK
    /\ SenderTypeOK
    /\ PullerTypeOK
    /\ HistoryTypeOK

Init ==
    /\ sendSeq = 1 /\ receiveSeq = 1 /\ sentQueue = <<>>
    /\ lastAckSeq = 0 /\ ignoreNakSeq = 0 /\ retransmitSeq = 0
    /\ lastAckBytes = 0 /\ lastReceiveSent = 0
    /\ pendingQueues = <<>>
    /\ upcoming = [q \in Queues |-> <<>>]
    /\ ready = [q \in Queues |-> <<>>]
    /\ needKickClock = Never
    /\ notifyQueue = <<>> /\ receiveQueue = <<>> /\ receiveWaiting = FALSE
    /\ mustExit = FALSE /\ kicked = FALSE
    /\ retransmitTimer = "never" /\ commandTimer = Never
    /\ bg = "poll" /\ block = <<>> /\ outBuf = <<>>
    /\ unsent = Program /\ sender = [q \in Queues |-> "idle"]
    /\ puller = "runs" /\ pulled = <<>>
    /\ toMcu = <<>> /\ toHost = <<>>
    /\ mcuSeq \in McuStart /\ mcuBlock = NoBlock
    /\ clock = 0 /\ losses = 0 /\ early = 0 /\ reports = 0
    /\ executed = <<>> /\ built = <<>> /\ resent = {} /\ unanswered = {}
    /\ retransmits = <<0, 0>>

\* sq->lock is free.
Unlocked == bg \in {"poll", "ended"}

\* The timers and inputs of the background thread run one after the other.
Polling == bg = "poll"

----------------------------------------------------------------------------
(* Senders: serialqueue_send_batch.                                        *)

Empty(q) == upcoming[q] = <<>> /\ ready[q] = <<>>

\* A queue that was empty joins pending_queues; the background thread needs
\* a kick when the batch begins before the clock it sleeps for.
SendBatch(q) ==
    /\ Unlocked
    /\ sender[q] = "idle"
    /\ \E n \in 1 .. Len(unsent[q]) :
        LET batch == SubSeq(unsent[q], 1, n)
            mustWake == MinClock[Head(batch)] < needKickClock
        IN /\ unsent' = [unsent EXCEPT ![q] = SubSeq(@, n + 1, Len(@))]
           /\ pendingQueues' = IF Empty(q) THEN Append(pendingQueues, q)
                               ELSE pendingQueues
           /\ upcoming' = [upcoming EXCEPT ![q] = @ \o batch]
           /\ needKickClock' = IF mustWake THEN 0 ELSE needKickClock
           /\ sender' = [sender EXCEPT ![q] = IF mustWake THEN "kick"
                                              ELSE "idle"]
    /\ UNCHANGED <<seqVars, ackVars, nakVars, ready, recvVars, timerVars,
                   bgVars, wakeVars, built, mcuVars, wireVars, countVars>>

\* kick_bg_thread, after the lock is released
KickBgThread(q) ==
    /\ Unlocked
    /\ sender[q] = "kick"
    /\ sender' = [sender EXCEPT ![q] = "idle"]
    /\ kicked' = TRUE
    /\ UNCHANGED <<seqVars, ackVars, nakVars, pendVars, recvVars, timerVars,
                   bgVars, mustExit, unsent, built, mcuVars, wireVars,
                   countVars>>

----------------------------------------------------------------------------
(* The background thread: sending.                                         *)

\* kick_event
KickEvent ==
    /\ Polling
    /\ kicked
    /\ kicked' = FALSE
    /\ commandTimer' = 0
    /\ UNCHANGED <<seqVars, ackVars, nakVars, pendVars, recvVars,
                   retransmitTimer, bgVars, mustExit, sendVars, built,
                   mcuVars, wireVars, countVars>>

\* need_ack_bytes
NeedAckBytes == FoldLeft(LAMBDA n, b : n + Len(b.cmds), 0, sentQueue)

\* Mutant of BlocksPending: one block too many.
BlocksPending_OneMore == sendSeq - receiveSeq > MaxPending

\* Too many blocks are not acknowledged.
BlocksPending == sendSeq - receiveSeq >= MaxPending

\* Mutant of WindowFull: last_ack_bytes is not counted.
WindowFull_AckedOnly ==
    sendSeq > receiveSeq /\ Window # 0 /\ NeedAckBytes + BlockMax > Window

\* A block that only an answer has acknowledged so far is still in the
\* controller's buffer.
WindowFull ==
    /\ sendSeq > receiveSeq
    /\ Window # 0
    /\ NeedAckBytes + BlockMax
         + (IF lastAckSeq < receiveSeq THEN lastAckBytes ELSE 0) > Window

MustWaitForAck == BlocksPending \/ WindowFull

AckClock == IF ClockKnown THEN clock ELSE 0

\* The first upcoming command of q may be sent by now.
HeadDue(q) == upcoming[q] # <<>> /\ MinClock[Head(upcoming[q])] <= AckClock

NothingDue == \A q \in Queues : ~HeadDue(q)

ReadyClocks == {ReqClock[Head(ready[q])] : q \in {p \in Queues : ready[p] # <<>>}}
StalledClocks ==
    {MinClock[Head(upcoming[q])] : q \in {p \in Queues : upcoming[p] # <<>>}}

ReadyBytes == FoldSet(LAMBDA q, n : n + Len(ready[q]), 0, Queues)

\* check_send_command returns PR_NOW.
SendNow ==
    \/ ReadyBytes >= BlockMax
    \/ ~ClockKnown /\ ReadyClocks # {}
    \/ \E c \in ReadyClocks : c <= AckClock + ReqDelta

\* w is the clock at which something must be sent, or Never.
WantClock(w) ==
    LET wanted == IF ClockKnown
                  THEN StalledClocks \cup {c - ReqDelta : c \in ReadyClocks}
                  ELSE {}
    IN /\ w \in 0 .. Never
       /\ w \in wanted \cup {Never}
       /\ \A c \in wanted : w <= c

\* command_event: its timer is due.
CommandEvent ==
    /\ Polling
    /\ commandTimer <= clock
    /\ bg' = "check"
    /\ UNCHANGED <<seqVars, ackVars, nakVars, pendVars, recvVars, timerVars,
                   block, outBuf, wakeVars, sendVars, built, mcuVars,
                   wireVars, countVars>>

\* check_send_command moves what is due from upcoming_queue to ready_queue.
MoveDue(q) ==
    /\ bg = "check"
    /\ ~MustWaitForAck
    /\ HeadDue(q)
    /\ upcoming' = [upcoming EXCEPT ![q] = Tail(@)]
    /\ ready' = [ready EXCEPT ![q] = Append(@, Head(upcoming[q]))]
    /\ UNCHANGED <<seqVars, ackVars, nakVars, pendingQueues, needKickClock,
                   recvVars, timerVars, bgVars, wakeVars, sendVars, built,
                   mcuVars, wireVars, countVars>>

\* command_event goes on with another block.
StartBlock ==
    /\ bg = "check"
    /\ ~MustWaitForAck
    /\ NothingDue
    /\ SendNow
    /\ bg' = "build"
    /\ UNCHANGED <<seqVars, ackVars, nakVars, pendVars, recvVars, timerVars,
                   block, outBuf, wakeVars, sendVars, built, mcuVars,
                   wireVars, countVars>>

\* command_event writes its blocks and sleeps.
WriteBlocks ==
    /\ bg = "check"
    /\ \/ /\ MustWaitForAck
          /\ commandTimer' = Never
          /\ UNCHANGED needKickClock
       \/ /\ ~MustWaitForAck
          /\ NothingDue
          /\ ~SendNow
          /\ \E w \in 0 .. Never :
                /\ WantClock(w)
                /\ commandTimer' = w
                /\ needKickClock' = w
    /\ toMcu' = toMcu \o outBuf
    /\ outBuf' = <<>>
    /\ bg' = "poll"
    /\ UNCHANGED <<seqVars, ackVars, nakVars, pendingQueues, upcoming, ready,
                   recvVars, retransmitTimer, block, wakeVars, sendVars,
                   built, mcuVars, toHost, losses, unanswered, countVars>>

\* The i-th pending queue has the most urgent command; the first one wins.
MostUrgent(i) ==
    LET urgency(j) == ReqClock[Head(ready[pendingQueues[j]])]
    IN /\ ready[pendingQueues[i]] # <<>>
       /\ \A j \in 1 .. Len(pendingQueues) :
             ready[pendingQueues[j]] # <<>> =>
                 /\ urgency(i) <= urgency(j)
                 /\ j < i => urgency(i) < urgency(j)

\* build_and_send_command appends a command to the block.
AddCommand(i) ==
    /\ bg = "build"
    /\ Len(block) < BlockMax
    /\ MostUrgent(i)
    /\ LET q == pendingQueues[i]
           cmd == Head(ready[q])
       IN /\ ready' = [ready EXCEPT ![q] = Tail(@)]
          /\ block' = Append(block, cmd)
          /\ pendingQueues' = IF Len(ready[q]) = 1 /\ upcoming[q] = <<>>
                              THEN RemoveAt(pendingQueues, i)
                              ELSE pendingQueues
          /\ notifyQueue' = IF cmd \in Notified
                            THEN Append(notifyQueue,
                                        [cmd |-> cmd, seq |-> sendSeq])
                            ELSE notifyQueue
    /\ UNCHANGED <<seqVars, ackVars, nakVars, upcoming, needKickClock,
                   receiveQueue, receiveWaiting, puller, pulled, timerVars,
                   bg, outBuf, wakeVars, sendVars, built, mcuVars, wireVars,
                   countVars>>

\* It numbers and stores the block.
StoreBlock ==
    /\ bg = "build"
    /\ Len(block) = BlockMax \/ ReadyClocks = {}
    /\ LET out == [seq |-> sendSeq, cmds |-> block]
       IN /\ sentQueue' = Append(sentQueue, out)
          /\ outBuf' = Append(outBuf, out)
          /\ built' = Append(built, out)
    /\ retransmitTimer' = IF sentQueue = <<>> THEN "later" ELSE retransmitTimer
    /\ sendSeq' = sendSeq + 1
    /\ block' = <<>>
    /\ bg' = "check"
    /\ UNCHANGED <<receiveSeq, ackVars, nakVars, pendVars, recvVars,
                   commandTimer, wakeVars, sendVars, mcuVars, wireVars,
                   countVars>>

----------------------------------------------------------------------------
(* The background thread: retransmission.                                  *)

\* Nothing is under way that could still be an answer.
LinkSilent == toMcu = <<>> /\ toHost = <<>> /\ mcuBlock = NoBlock

\* tcflush throws away what the port has not sent yet.
FlushOutput(wire) ==
    IF Uart THEN {SubSeq(wire, 1, n) : n \in 0 .. Len(wire)} ELSE {wire}

\* The naks of a block's first copy and of its second one count, no more.
IgnoreAfterNak ==
    IF receiveSeq < retransmitSeq THEN retransmitSeq ELSE receiveSeq

\* retransmit_event: its timer was set to PR_NOW by a nak, or its time has
\* come.  A time that comes while answers are under way counts as early.
RetransmitEvent ==
    /\ Polling
    /\ \/ /\ retransmitTimer = "now"
          /\ ignoreNakSeq' = IgnoreAfterNak
          /\ UNCHANGED early
       \/ /\ retransmitTimer = "later"
          /\ LinkSilent \/ early < MaxEarly
          /\ early' = IF LinkSilent THEN early ELSE early + 1
          /\ ignoreNakSeq' = sendSeq
    /\ \E wire \in FlushOutput(toMcu) : toMcu' = wire \o sentQueue
    /\ retransmitSeq' = sendSeq
    /\ retransmitTimer' = "later"
    /\ resent' = resent \cup {b.seq : b \in ToSet(sentQueue)}
    /\ retransmits' = <<retransmits[2], sendSeq>>
    /\ UNCHANGED <<seqVars, ackVars, pendVars, recvVars, commandTimer, bgVars,
                   wakeVars, sendVars, built, mcuVars, toHost, losses,
                   unanswered, clock>>

----------------------------------------------------------------------------
(* The background thread: input_event and handle_message.                  *)

\* Mutant of Rebuild: the difference is taken the wrong way round.
Rebuild_Backwards(seq) == receiveSeq - ((receiveSeq - seq) % SeqNumbers)

\* The 64-bit number that the few bits of a message stand for.
Rebuild(seq) == receiveSeq + ((seq - receiveSeq) % SeqNumbers)

\* An acknowledgement for a block that was not sent, except at first, when
\* the controller says which block it expects.
Invalid(rseq) == rseq # receiveSeq /\ rseq > sendSeq /\ receiveSeq # 1

\* update_receive_seq.  A number past all sent blocks is the controller's.
UpdateReceiveSeq(rseq) ==
    IF rseq = receiveSeq THEN UNCHANGED <<seqVars, lastAckBytes, lastReceiveSent>>
    ELSE LET acked == rseq - receiveSeq IN
         /\ receiveSeq' = rseq
         /\ IF acked \in 1 .. Len(sentQueue)
            THEN /\ sentQueue' = SubSeq(sentQueue, acked + 1, Len(sentQueue))
                 /\ lastAckBytes' = Len(sentQueue[acked].cmds)
                 /\ lastReceiveSent' = sentQueue[acked].seq
                 /\ UNCHANGED sendSeq
            ELSE /\ sentQueue' = <<>>
                 /\ sendSeq' = rseq
                 /\ lastReceiveSent' = 0
                 /\ UNCHANGED lastAckBytes

\* Mutant of WakeSeq: answers count as acknowledgements.
WakeSeq_Answered(m, rseq) == (rseq - 1) % WordSize

\* The largest number whose senders may be told.  An answer to a block comes
\* before its acknowledgement, so it does not count for its own block.
WakeSeq(m, rseq) == (rseq - 1 - (IF m.data THEN 1 ELSE 0)) % WordSize

\* The first n entries of notify_queue are told, no more and no fewer.
Told(n, wakeSeq) ==
    /\ \A i \in 1 .. n : notifyQueue[i].seq <= wakeSeq
    /\ n < Len(notifyQueue) => notifyQueue[n + 1].seq > wakeSeq

Notification(entry) ==
    [data |-> FALSE, about |-> entry.cmd, sent |-> lastReceiveSent']

\* Mutant of SentBlock: retransmissions are not looked at.
SentBlock_Always(rseq) == lastReceiveSent'

\* sent_time is only given for blocks that were sent once.
SentBlock(rseq) == IF rseq > retransmitSeq THEN lastReceiveSent' ELSE 0

\* Mutant of IsNak: ignore_nak_seq is not looked at.
IsNak_NoLimit(m, rseq) == ~m.data /\ lastAckSeq >= rseq /\ sentQueue' # <<>>

\* A second acknowledgement for the same number is a nak.
IsNak(m, rseq) ==
    /\ ~m.data
    /\ lastAckSeq >= rseq
    /\ rseq > ignoreNakSeq
    /\ sentQueue' # <<>>

\* Mutants of UpdateTimers: the first answer stops retransmission; an
\* acknowledgement does not wake command_event.
UpdateTimers_Stops(m, rseq) ==
    /\ commandTimer' = IF rseq # receiveSeq THEN 0 ELSE commandTimer
    /\ retransmitTimer' =
          IF IsNak(m, rseq) THEN "now"
          ELSE IF rseq = receiveSeq THEN retransmitTimer ELSE "never"
UpdateTimers_NoKick(m, rseq) ==
    /\ UNCHANGED commandTimer
    /\ retransmitTimer' =
          IF IsNak(m, rseq) THEN "now"
          ELSE IF rseq = receiveSeq THEN retransmitTimer
          ELSE IF sentQueue' = <<>> THEN "never" ELSE "later"

\* The timers after a message, update_receive_seq first.
UpdateTimers(m, rseq) ==
    /\ commandTimer' = IF rseq # receiveSeq THEN 0 ELSE commandTimer
    /\ retransmitTimer' =
          IF IsNak(m, rseq) THEN "now"
          ELSE IF rseq = receiveSeq THEN retransmitTimer
          ELSE IF sentQueue' = <<>> THEN "never" ELSE "later"

\* Mutant of CheckWakeReceive: the condition variable is not signalled.
CheckWakeReceive_Lost == UNCHANGED receiveWaiting

\* check_wake_receive
CheckWakeReceive == receiveWaiting' = FALSE

HandleMessage ==
    /\ Polling
    /\ toHost # <<>>
    /\ toHost' = Tail(toHost)
    /\ LET m == Head(toHost)
           rseq == Rebuild(m.seq)
           arrived == IF m.data
                      THEN <<[data |-> TRUE, about |-> m.about,
                              sent |-> SentBlock(rseq)]>>
                      ELSE <<>>
       IN \/ /\ Invalid(rseq)
             /\ UNCHANGED <<seqVars, ackVars, recvVars, timerVars>>
          \/ /\ ~Invalid(rseq)
             /\ UpdateReceiveSeq(rseq)
             /\ UpdateTimers(m, rseq)
             /\ lastAckSeq' = IF ~m.data /\ lastAckSeq < rseq THEN rseq
                              ELSE lastAckSeq
             /\ \E n \in 0 .. Len(notifyQueue) :
                   /\ Told(n, WakeSeq(m, rseq))
                   /\ notifyQueue' = SubSeq(notifyQueue, n + 1, Len(notifyQueue))
                   /\ receiveQueue' =
                         receiveQueue
                           \o [i \in 1 .. n |-> Notification(notifyQueue[i])]
                           \o arrived
                   /\ IF n > 0 \/ m.data THEN CheckWakeReceive
                      ELSE UNCHANGED receiveWaiting
             /\ UNCHANGED <<puller, pulled>>
    /\ UNCHANGED <<nakVars, pendVars, bgVars, wakeVars, sendVars, built,
                   mcuVars, toMcu, losses, unanswered, countVars>>

\* pollreactor_run ends, and with it the background thread.
BackgroundEnds ==
    /\ Polling
    /\ mustExit
    /\ bg' = "ended"
    /\ CheckWakeReceive
    /\ UNCHANGED <<seqVars, ackVars, nakVars, pendVars, notifyQueue,
                   receiveQueue, puller, pulled, timerVars, block, outBuf,
                   wakeVars, sendVars, built, mcuVars, wireVars, countVars>>

\* serialqueue_exit, or the port fails (input_event, do_write).
RequestExit ==
    /\ MayExit
    /\ ~mustExit
    /\ Unlocked
    /\ mustExit' = TRUE
    /\ kicked' = TRUE
    /\ UNCHANGED <<seqVars, ackVars, nakVars, pendVars, recvVars, timerVars,
                   bgVars, sendVars, built, mcuVars, wireVars, countVars>>

----------------------------------------------------------------------------
(* The puller: serialqueue_pull.  It runs again once receive_waiting has   *)
(* been cleared, which signals the condition variable.                     *)

PullerRuns == Unlocked /\ puller # "ended" /\ ~receiveWaiting

PullMessage ==
    /\ PullerRuns
    /\ receiveQueue # <<>>
    /\ pulled' = Append(pulled, Head(receiveQueue))
    /\ receiveQueue' = Tail(receiveQueue)
    /\ UNCHANGED <<seqVars, ackVars, nakVars, pendVars, notifyQueue,
                   receiveWaiting, puller, timerVars, bgVars, wakeVars, sendVars,
                   built, mcuVars, wireVars, countVars>>

PullNothing ==
    /\ PullerRuns
    /\ receiveQueue = <<>>
    /\ \/ /\ mustExit
          /\ puller' = "ended"
          /\ UNCHANGED receiveWaiting
       \/ /\ ~mustExit
          /\ receiveWaiting' = TRUE
          /\ UNCHANGED puller
    /\ UNCHANGED <<seqVars, ackVars, nakVars, pendVars, notifyQueue,
                   receiveQueue, pulled, timerVars, bgVars, wakeVars,
                   sendVars, built, mcuVars, wireVars, countVars>>

----------------------------------------------------------------------------
(* The microcontroller and the wire (external).                            *)

SameNumber(m, n) == m % SeqNumbers = n % SeqNumbers

\* Queries of a block are answered while it is handled, one after the other.
QueriesIn(cmds) == {i \in DOMAIN cmds : cmds[i] \in Queries}
AnswersTo(cmds, seq) ==
    LET Nth(n) == CHOOSE i \in QueriesIn(cmds) :
                      Cardinality({j \in QueriesIn(cmds) : j <= i}) = n
    IN [n \in 1 .. Cardinality(QueriesIn(cmds)) |-> Answer(seq, cmds[Nth(n)])]

\* The block it expects.
McuTake ==
    /\ Unlocked
    /\ mcuBlock = NoBlock
    /\ toMcu # <<>>
    /\ SameNumber(Head(toMcu).seq, mcuSeq)
    /\ toMcu' = Tail(toMcu)
    /\ mcuBlock' = Head(toMcu)
    /\ executed' = Append(executed, Head(toMcu))
    /\ mcuSeq' = mcuSeq + 1
    /\ toHost' = toHost \o AnswersTo(Head(toMcu).cmds, mcuSeq + 1)
    /\ UNCHANGED <<queueVars, reports, losses, unanswered, countVars>>

\* Its commands have been carried out.
McuAcknowledge ==
    /\ Unlocked
    /\ mcuBlock # NoBlock
    /\ mcuBlock' = NoBlock
    /\ toHost' = Append(toHost, Ack(mcuSeq))
    /\ UNCHANGED <<queueVars, mcuSeq, executed, reports, toMcu, losses,
                   unanswered, countVars>>

\* Another block: it repeats which one it expects.
McuNak ==
    /\ Unlocked
    /\ mcuBlock = NoBlock
    /\ toMcu # <<>>
    /\ ~SameNumber(Head(toMcu).seq, mcuSeq)
    /\ toMcu' = Tail(toMcu)
    /\ toHost' = Append(toHost, Ack(mcuSeq))
    /\ UNCHANGED <<queueVars, mcuVars, losses, unanswered, countVars>>

\* A message of its own, such as its statistics (only in SerialReader).
McuReport ==
    /\ Unlocked
    /\ reports < MaxReports
    /\ reports' = reports + 1
    /\ toHost' = Append(toHost, Answer(mcuSeq, NoCommand))
    /\ UNCHANGED <<queueVars, mcuSeq, mcuBlock, executed, toMcu, losses,
                   unanswered, countVars>>

\* A block is lost, or is garbled and the controller says so.
LoseBlock ==
    /\ Unlocked
    /\ losses < MaxLosses
    /\ mcuBlock = NoBlock
    /\ toMcu # <<>>
    /\ losses' = losses + 1
    /\ toMcu' = Tail(toMcu)
    /\ \/ UNCHANGED toHost
       \/ toHost' = Append(toHost, Ack(mcuSeq))
    /\ UNCHANGED <<queueVars, mcuVars, unanswered, countVars>>

\* A message to the host is lost, or is garbled and msgblock_check skips it.
LoseMessage ==
    /\ Polling
    /\ losses < MaxLosses
    /\ toHost # <<>>
    /\ losses' = losses + 1
    /\ toHost' = Tail(toHost)
    /\ unanswered' = IF Head(toHost).about = NoCommand THEN unanswered
                     ELSE unanswered \cup {Head(toHost).about}
    /\ UNCHANGED <<queueVars, mcuVars, toMcu, countVars>>

Tick ==
    /\ Unlocked
    /\ clock < MaxClock
    /\ clock' = clock + 1
    /\ UNCHANGED <<queueVars, mcuVars, wireVars, early>>

\* Nothing is left to do, which is the only state the link may rest in.
Quiet ==
    /\ clock = MaxClock
    /\ \A q \in Queues : unsent[q] = <<>> /\ sender[q] = "idle"
    /\ toMcu = <<>> /\ mcuBlock = NoBlock
    /\ \/ bg = "ended"
       \/ LinkSilent /\ sentQueue = <<>> /\ commandTimer = Never /\ ~kicked
    /\ puller = "ended" \/ receiveWaiting
    /\ UNCHANGED vars

\* command_event, between its start and its end
CommandStep ==
    \/ \E q \in Queues : MoveDue(q)
    \/ StartBlock \/ WriteBlocks \/ StoreBlock
    \/ \E i \in 1 .. Len(pendingQueues) : AddCommand(i)

BackgroundStep ==
    \/ CommandStep
    \/ CommandEvent \/ KickEvent \/ RetransmitEvent \/ HandleMessage
    \/ BackgroundEnds

PullerStep == PullMessage \/ PullNothing

McuStep == McuTake \/ McuAcknowledge \/ McuNak

Next ==
    \/ \E q \in Queues : SendBatch(q) \/ KickBgThread(q)
    \/ BackgroundStep
    \/ PullerStep
    \/ RequestExit
    \/ McuStep
    \/ LoseBlock \/ LoseMessage
    \/ Tick
    \/ Quiet

Spec == Init /\ [][Next]_vars

\* The threads and the controller go on, and time passes.  A message is
\* handled unless it is lost.  Nothing is assumed of senders and exits.
Fairness ==
    /\ \A q \in Queues : WF_vars(KickBgThread(q))
    /\ WF_vars(BackgroundStep)
    /\ WF_vars(PullerStep)
    /\ WF_vars(McuStep)
    /\ WF_vars(Tick)

FairSpec == Spec /\ Fairness

----------------------------------------------------------------------------
(* Properties.                                                             *)

\* The blocks executed are those that were built, each once and in order.
ExactlyOnce == IsPrefix(executed, built)

\* receive_seq never runs ahead of the controller, nor the controller ahead
\* of send_seq: what update_receive_seq takes off sent_queue as acknowledged
\* has been executed, though only four bits of its number came back.
AckedWasExecuted ==
    receiveSeq # 1 => receiveSeq <= mcuSeq /\ mcuSeq <= sendSeq

\* The blocks of q have one number after the other.
Numbered(q, first) == \A i \in 1 .. Len(q) : q[i].seq = first + i - 1

\* sent_queue holds exactly the numbers that wait for an acknowledgement, and
\* never more blocks than the buffer of retransmit_event has room for; as long
\* as there is one, a retransmission is scheduled.
SentIsOutstanding ==
    /\ Len(sentQueue) = sendSeq - receiveSeq
    /\ Len(sentQueue) <= MaxPending
    /\ Numbered(sentQueue, receiveSeq)
    /\ sentQueue # <<>> <=> retransmitTimer # "never"

ExecutedCommands == UNION {ToSet(b.cmds) : b \in ToSet(executed)}

\* Whoever waits for a command's acknowledgement is told only when the
\* controller has the command, and the answer to a query reaches the puller
\* before that, unless it was lost: SerialRetryCommand looks for it once.
AnswerBeforeNotification ==
    /\ \A a \in ToSet(receiveQueue) : ~a.data => a.about \in ExecutedCommands
    /\ LET got == pulled \o receiveQueue IN
       \A i \in 1 .. Len(got) :
           /\ ~got[i].data
           /\ got[i].about \in Queries \ unanswered
           => \E j \in 1 .. i - 1 : got[j].data /\ got[j].about = got[i].about

\* The sent_time of an answer is the time its own block was sent, and that
\* block was sent once, or the clock estimate would be wrong.
SentTimeIsExact ==
    \A a \in ToSet(receiveQueue) :
        a.data /\ a.about # NoCommand /\ a.sent # 0 =>
            /\ a.sent \notin resent
            /\ \E b \in ToSet(executed) :
                  b.seq = a.sent /\ a.about \in ToSet(b.cmds)

\* As long as nothing was sent twice, the controller's buffer never holds
\* more than receive_window.
BufferFits ==
    Window # 0 /\ resent = {} =>
        FoldLeft(LAMBDA n, b : n + Len(b.cmds), Len(mcuBlock.cmds), toMcu)
            <= Window

\* After a retransmission at most two more are caused by naks until a block
\* sent after it has been acknowledged ("don't allow third").
NoThirdNak ==
    [][RetransmitEvent /\ retransmitTimer = "now" =>
          receiveSeq > retransmits[1]]_vars

\* s, then c or cmds as far as they are commands of q; all of those in blocks.
Taken(q, s, c) == IF c \in ToSet(Program[q]) THEN Append(s, c) ELSE s
Taking(q, s, cmds) == FoldLeft(LAMBDA t, c : Taken(q, t, c), s, cmds)
CommandsOf(q, blocks) ==
    FoldLeft(LAMBDA s, b : Taking(q, s, b.cmds), <<>>, blocks)

\* What the controller has carried out of each queue.
Delivered == [q \in Queues |-> CommandsOf(q, executed)]

Channel == INSTANCE CommandChannel WITH
    accepted <- [q \in Queues |-> Len(Program[q]) - Len(unsent[q])],
    delivered <- Delivered,
    closed <- mustExit

\* The queue implements a reliable channel: no command is lost, repeated or
\* overtaken by a later one of its queue, and as long as there is no exit all
\* are carried out: the background thread misses no wake-up and the window
\* opens again.
ImplementsChannel == Channel!Spec

\* The puller gets everything that arrives: it never waits for a signal that
\* has been given.
EverythingPulled == []<>(receiveQueue = <<>> \/ mustExit)

\* After serialqueue_exit both threads end, wherever they were and whether or
\* not an answer comes: disconnect joins them.
ExitEnds == mustExit ~> bg = "ended" /\ puller = "ended"
============================================================================
