------------------------- MODULE SerialReader_proofs -------------------------
(***************************************************************************)
(* Theorems about SerialReader: its types, that _bg_thread never pulls a   *)
(* notification that is not in pending_notifications, and that the retries *)
(* of SerialRetryCommand are enough.  For the last one every retry is paid *)
(* for by a loss, by a report of the controller's own or by the first      *)
(* contact (ChargeInv).                                                    *)
(***************************************************************************)
EXTENDS SerialReader, SerialQueue_proofs

\* q holds no notification; q holds one, which is about c.
NoNotice(q) == \A i \in 1 .. Len(q) : q[i].data
OneNotice(q, c) ==
    \E k \in 1 .. Len(q) :
        ~q[k].data /\ q[k].about = c /\ \A i \in 1 .. Len(q) : i # k => q[i].data

\* The query c is on its way: to be sent, to be acknowledged, or its
\* notification to be pulled.  There is no other one.
OnItsWay(c) ==
    \/ upcoming[Identify] = <<c>> /\ ready[Identify] = <<>> /\ notifyQueue = <<>> /\ NoNotice(receiveQueue)
    \/ upcoming[Identify] = <<>> /\ ready[Identify] = <<c>> /\ notifyQueue = <<>> /\ NoNotice(receiveQueue)
    \/ upcoming[Identify] = <<>> /\ ready[Identify] = <<>>
         /\ Len(notifyQueue) = 1 /\ notifyQueue[1].cmd = c /\ NoNotice(receiveQueue)
    \/ upcoming[Identify] = <<>> /\ ready[Identify] = <<>> /\ notifyQueue = <<>> /\ OneNotice(receiveQueue, c)
NothingOnItsWay ==
    upcoming[Identify] = <<>> /\ ready[Identify] = <<>> /\ notifyQueue = <<>> /\ NoNotice(receiveQueue)

\* As long as there is a puller, the query that is waited for is pending and on
\* its way, and when none is waited for there is none.
Waits == identify = "wait" /\ completion = "open"
AwaitedInv ==
    puller = "runs" => IF Waits THEN \E c \in pending : OnItsWay(c) ELSE NothingOnItsWay

\* The types of the Python side.
ReaderTypes ==
    /\ identify \in {"send", "wait", "pause", "done", "error", "crashed"}
    /\ offsetOf \in [Commands -> Nat]
    /\ identified \in Nat
    /\ lastParams \in Nat \cup {NoParams}
    /\ registered \in BOOLEAN
    /\ retries \in 0 .. Retries
    /\ pending \subseteq Commands
    /\ completion \in {"open", "acked", "closed"}
    /\ session \in {"waiting", "joining", "connected", "disconnected"}

\* The inductive invariant: what SerialQueue_proofs knows of the link, the
\* types, and the one query.
ReaderInv == IInv /\ ReaderTypes /\ AwaitedInv

-----------------------------------------------------------------------------
(* The steps of SerialReader are steps of the link.                        *)

LEMMA IdentifyIsQueue == Identify \in Queues /\ Queues = {Identify}
  BY ReaderAssumption

LEMMA ReaderIsLink ==
    ASSUME [ReaderNext]_allVars
    PROVE  [LinkNext]_vars
  <1>1. CASE RawSendWaitAck
    BY <1>1, IdentifyIsQueue DEF RawSendWaitAck, LinkNext, Next
  <1>2. CASE Notice \/ RetryDelayEnds \/ SessionStarts \/ EndDisconnect
    <2>1. UNCHANGED vars
      BY <1>2 DEF Notice, RetryDelayEnds, SessionStarts, EndDisconnect
    <2>. QED
      BY <2>1
  <1>3. CASE BeginDisconnect
    <2>1. Closes
      BY <1>3 DEF BeginDisconnect, Closes
    <2>. QED
      BY <2>1 DEF LinkNext
  <1>4. CASE PullResponse
    BY <1>4 DEF PullResponse, LinkNext, Next, PullerStep
  <1>5. CASE QueueStep
    BY <1>5, IdentifyIsQueue DEF QueueStep, LinkNext, Next, PullerStep
  <1>6. CASE UNCHANGED allVars
    <2>1. UNCHANGED vars
      BY <1>6 DEF allVars
    <2>. QED
      BY <2>1
  <1>. QED
    BY <1>1, <1>2, <1>3, <1>4, <1>5, <1>6 DEF ReaderNext, GreenletStep, Settled

-----------------------------------------------------------------------------
(* Types.                                                                  *)

LEMMA ReaderTypesStep ==
    ASSUME ReaderInv, [ReaderNext]_allVars
    PROVE  ReaderTypes'
  <1>. USE DEF readerVars, identifyVars, handlerVars
  <1>0. ReaderTypes
    BY DEF ReaderInv
  <1>1. CASE RawSendWaitAck
    <2>1. CASE UNCHANGED <<offsetOf, pending>> /\ identify' = "crashed"
      BY <1>0, <1>1, <2>1 DEF RawSendWaitAck, ReaderTypes
    <2>2. CASE ~(UNCHANGED <<offsetOf, pending>> /\ identify' = "crashed")
      <3>. DEFINE cmd == Head(unsent[Identify])
      <3>1. /\ SendBatch(Identify) /\ identify' = "wait"
            /\ offsetOf' = [offsetOf EXCEPT ![cmd] = identified] /\ pending' = pending \cup {cmd}
        BY <1>1, <2>2 DEF RawSendWaitAck
      <3>2. unsent[Identify] \in Seq(Commands) /\ unsent[Identify] # <<>>
        <4>1. unsent[Identify] \in Seq(Commands)
          BY IdentifyIsQueue DEF ReaderInv, IInv, TypeOK, SenderTypeOK
        <4>2. \E n \in 1 .. Len(unsent[Identify]) : TRUE
          BY <3>1 DEF SendBatch
        <4>. QED
          BY <4>1, <4>2
      <3>3. cmd \in Commands
        BY <3>2, HeadTailProperties
      <3>. HIDE DEF cmd
      <3>4. offsetOf' \in [Commands -> Nat] /\ pending' \subseteq Commands
        BY <1>0, <3>1, <3>3 DEF ReaderTypes
      <3>. QED
        BY <1>0, <1>1, <3>1, <3>4 DEF RawSendWaitAck, ReaderTypes
    <2>. QED
      BY <2>1, <2>2
  <1>2. CASE Notice
    <2>1. /\ identify' \in {"send", "pause", "done", "error"}
          /\ lastParams' \in {lastParams, NoParams} /\ registered' \in {registered, TRUE, FALSE}
          /\ identified' \in {identified, identified + 1}
          /\ UNCHANGED <<offsetOf, pending, completion, session>>
      BY <1>2 DEF Notice, UseParams, NextRequest
    <2>2. retries' \in {retries, Retries} \/ (retries > 0 /\ retries' = retries - 1)
      BY <1>2 DEF Notice, UseParams, NextRequest, CanRetry
    <2>3. retries' \in 0 .. Retries
      BY <1>0, <2>2, ReaderAssumption DEF ReaderTypes
    <2>4. identified' \in Nat
      BY <1>0, <2>1 DEF ReaderTypes
    <2>. QED
      BY <1>0, <2>1, <2>3, <2>4 DEF ReaderTypes
  <1>3. CASE RetryDelayEnds
    BY <1>0, <1>3 DEF RetryDelayEnds, ReaderTypes
  <1>4. CASE SessionStarts
    BY <1>0, <1>4 DEF SessionStarts, ReaderTypes
  <1>5. CASE EndDisconnect
    BY <1>0, <1>5 DEF EndDisconnect, TellPending, ReaderTypes
  <1>6. CASE BeginDisconnect
    BY <1>0, <1>6 DEF BeginDisconnect, KeepPending, ReaderTypes
  <1>7. CASE PullResponse
    <2>. DEFINE response == Head(receiveQueue)
    <2>1. /\ UNCHANGED <<identifyVars, registered, session>>
          /\ \/ pending' = pending \ {response.about} /\ completion' = "acked" /\ UNCHANGED lastParams
             \/ /\ lastParams' = IF registered /\ response.about # NoCommand
                                 THEN offsetOf[response.about] ELSE lastParams
                /\ UNCHANGED <<pending, completion>>
      BY <1>7 DEF PullResponse
    <2>2. response.about \in Commands \cup {NoCommand}
      <3>1. receiveQueue \in Seq(Arrivals) /\ receiveQueue # <<>>
        BY <1>7 DEF PullResponse, PullMessage, ReaderInv, IInv, TypeOK, PullerTypeOK
      <3>2. response \in Arrivals
        BY <3>1, HeadTailProperties
      <3>. QED
        BY <3>2 DEF Arrivals
    <2>. HIDE DEF response
    <2>3. response.about # NoCommand => offsetOf[response.about] \in Nat
      BY <1>0, <2>2 DEF ReaderTypes
    <2>. QED
      BY <1>0, <2>1, <2>3 DEF ReaderTypes
  <1>8. CASE UNCHANGED readerVars
    BY <1>0, <1>8 DEF ReaderTypes
  <1>. QED
    BY <1>1, <1>2, <1>3, <1>4, <1>5, <1>6, <1>7, <1>8 DEF ReaderNext, GreenletStep, Settled, allVars

-----------------------------------------------------------------------------
(* Notifications in receive_queue.                                         *)

\* The elements of a sequence and of another after it; a sequence of one.
LEMMA ConcatElements ==
    ASSUME NEW S, NEW q \in Seq(S), NEW t \in Seq(S)
    PROVE  /\ Len(q \o t) = Len(q) + Len(t) /\ Len(q) \in Nat /\ Len(t) \in Nat
           /\ \A i \in 1 .. Len(q \o t) : (q \o t)[i] = IF i <= Len(q) THEN q[i] ELSE t[i - Len(q)]
  BY ConcatProperties

LEMMA OneElement ==
    ASSUME NEW S, NEW q \in Seq(S), Len(q) = 1
    PROVE  q = <<q[1]>>
  <1>1. q[1] \in S
    BY ElementOfSeq
  <1>. DEFINE e == q[1]
              t == <<e>>
  <1>2. t \in Seq(S) /\ Len(t) = 1 /\ t[1] = e
    <2>. HIDE DEF e
    <2>. QED
      BY <1>1 DEF e
  <1>. HIDE DEF t
  <1>3. \A i \in 1 .. Len(q) : q[i] = t[i]
    BY <1>2
  <1>. QED
    BY <1>2, <1>3, SeqEqual DEF t

\* Answers that arrive are no notifications.
LEMMA AnswersArrive ==
    ASSUME NEW q \in Seq(Arrivals), NEW t \in Seq(Arrivals), NoNotice(t), NEW c
    PROVE  /\ NoNotice(q) => NoNotice(q \o t)
           /\ OneNotice(q, c) => OneNotice(q \o t, c)
  <1>. DEFINE u == q \o t
  <1>1. /\ Len(u) = Len(q) + Len(t) /\ Len(q) \in Nat /\ Len(t) \in Nat
        /\ \A i \in 1 .. Len(u) : u[i] = IF i <= Len(q) THEN q[i] ELSE t[i - Len(q)]
    BY ConcatProperties
  <1>. HIDE DEF u
  <1>2. ASSUME NEW i \in 1 .. Len(u) PROVE (i \in 1 .. Len(q) /\ u[i] = q[i]) \/ u[i].data
    <2>1. CASE i <= Len(q)
      BY <1>1, <2>1
    <2>2. CASE ~(i <= Len(q))
      <3>1. i - Len(q) \in 1 .. Len(t) /\ u[i] = t[i - Len(q)]
        BY <1>1, <2>2
      <3>. QED
        BY <3>1 DEF NoNotice
    <2>. QED
      BY <2>1, <2>2
  <1>3. \A i \in 1 .. Len(q) : i \in 1 .. Len(u) /\ u[i] = q[i]
    BY <1>1
  <1>4. NoNotice(q) => NoNotice(u)
    BY <1>2 DEF NoNotice
  <1>5. ASSUME OneNotice(q, c) PROVE OneNotice(u, c)
    <2>1. PICK k \in 1 .. Len(q) :
            ~q[k].data /\ q[k].about = c /\ \A i \in 1 .. Len(q) : i # k => q[i].data
      BY <1>5 DEF OneNotice
    <2>2. k \in 1 .. Len(u) /\ ~u[k].data /\ u[k].about = c
      BY <1>3, <2>1
    <2>3. \A i \in 1 .. Len(u) : i # k => u[i].data
      BY <1>2, <2>1
    <2>. QED
      BY <2>2, <2>3 DEF OneNotice
  <1>. QED
    BY <1>4, <1>5 DEF u

\* The notification arrives behind answers.
LEMMA NoticeArrives ==
    ASSUME NEW q \in Seq(Arrivals), NEW t \in Seq(Arrivals), NoNotice(q),
           Len(t) = 1, ~t[1].data
    PROVE  OneNotice(q \o t, t[1].about)
  <1>. DEFINE u == q \o t
  <1>0. /\ Len(u) = Len(q) + Len(t) /\ Len(q) \in Nat /\ Len(t) \in Nat
        /\ \A i \in 1 .. Len(u) : u[i] = IF i <= Len(q) THEN q[i] ELSE t[i - Len(q)]
    BY ConcatElements
  <1>. HIDE DEF u
  <1>. DEFINE k == Len(q) + 1
  <1>1. /\ Len(u) = k /\ Len(q) \in Nat
        /\ \A i \in 1 .. Len(u) : u[i] = IF i <= Len(q) THEN q[i] ELSE t[i - Len(q)]
    BY <1>0
  <1>2. k \in 1 .. Len(u) /\ u[k] = t[1]
    <2>1. k \in 1 .. Len(u) /\ ~(k <= Len(q)) /\ k - Len(q) = 1
      BY <1>1
    <2>. QED
      BY <1>1, <2>1
  <1>3. \A i \in 1 .. Len(u) : i # k => i \in 1 .. Len(q) /\ u[i] = q[i]
    BY <1>1
  <1>. QED
    BY <1>2, <1>3 DEF OneNotice, NoNotice, u

\* The puller takes the notification, or what is before it.
LEMMA NoticePulled ==
    ASSUME NEW q \in Seq(Arrivals), q # <<>>, NEW c
    PROVE  /\ NoNotice(q) => Head(q).data /\ NoNotice(Tail(q))
           /\ OneNotice(q, c) /\ Head(q).data => OneNotice(Tail(q), c)
           /\ OneNotice(q, c) /\ ~Head(q).data => Head(q).about = c /\ NoNotice(Tail(q))
  <1>. DEFINE t == Tail(q)
  <1>1. /\ Len(q) \in Nat \ {0} /\ Len(t) = Len(q) - 1 /\ Head(q) = q[1]
        /\ \A i \in 1 .. Len(t) : t[i] = q[i + 1] /\ i + 1 \in 1 .. Len(q) /\ i + 1 # 1
    OBVIOUS
  <1>. HIDE DEF t
  <1>2. 1 \in 1 .. Len(q)
    BY <1>1
  <1>3. NoNotice(q) => Head(q).data /\ NoNotice(t)
    BY <1>1, <1>2 DEF NoNotice
  <1>4. ASSUME OneNotice(q, c)
        PROVE  /\ Head(q).data => OneNotice(t, c)
               /\ ~Head(q).data => Head(q).about = c /\ NoNotice(t)
    <2>1. PICK k \in 1 .. Len(q) :
            ~q[k].data /\ q[k].about = c /\ \A i \in 1 .. Len(q) : i # k => q[i].data
      BY <1>4 DEF OneNotice
    <2>2. CASE k = 1
      BY <1>1, <2>1, <2>2 DEF NoNotice
    <2>3. CASE k # 1
      <3>1. k - 1 \in 1 .. Len(t) /\ t[k - 1] = q[k]
        <4>1. k - 1 \in 1 .. Len(t) /\ (k - 1) + 1 = k
          BY <1>1, <2>3
        <4>. QED
          BY <1>1, <4>1
      <3>2. \A i \in 1 .. Len(t) : i # k - 1 => t[i].data
        <4>1. \A i \in 1 .. Len(t) : i # k - 1 => i + 1 \in 1 .. Len(q) /\ i + 1 # k
          BY <1>1
        <4>. QED
          BY <1>1, <2>1, <4>1
      <3>3. Head(q).data
        BY <1>1, <1>2, <2>1, <2>3
      <3>. QED
        BY <2>1, <3>1, <3>2, <3>3 DEF OneNotice
    <2>. QED
      BY <2>2, <2>3
  <1>. QED
    BY <1>3, <1>4 DEF t

-----------------------------------------------------------------------------
(* The query on its way.                                                   *)

\* What a step of the link does to it.
Steady == UNCHANGED <<upcoming, ready, notifyQueue, receiveQueue>>
Kept ==
    /\ NothingOnItsWay => NothingOnItsWay'
    /\ \A c \in Commands : OnItsWay(c) => OnItsWay(c)'

LEMMA SteadyKeeps == Steady => Kept
  BY DEF Steady, Kept, NothingOnItsWay, OnItsWay

\* It becomes due.
LEMMA MoveDueKeeps ==
    ASSUME TypeOK, MoveDue(Identify)
    PROVE  Kept
  <1>1. /\ upcoming[Identify] # <<>>
        /\ upcoming' = [upcoming EXCEPT ![Identify] = Tail(@)]
        /\ ready' = [ready EXCEPT ![Identify] = Append(@, Head(upcoming[Identify]))]
        /\ UNCHANGED <<notifyQueue, receiveQueue>>
    BY DEF MoveDue, HeadDue, recvVars
  <1>2. /\ upcoming'[Identify] = Tail(upcoming[Identify])
        /\ ready'[Identify] = Append(ready[Identify], Head(upcoming[Identify]))
    BY <1>1, IdentifyIsQueue DEF TypeOK, SenderTypeOK
  <1>3. ASSUME NEW c \in Commands, OnItsWay(c) PROVE OnItsWay(c)'
    <2>1. /\ upcoming[Identify] = <<c>> /\ ready[Identify] = <<>>
          /\ notifyQueue = <<>> /\ NoNotice(receiveQueue)
      BY <1>1, <1>3 DEF OnItsWay
    <2>2. Tail(<<c>>) = <<>> /\ Append(<<>>, Head(<<c>>)) = <<c>>
      OBVIOUS
    <2>. QED
      BY <1>1, <1>2, <2>1, <2>2 DEF OnItsWay
  <1>. QED
    BY <1>1, <1>3 DEF Kept, NothingOnItsWay

\* It is put into a block, and its sender into notify_queue.
LEMMA AddCommandKeeps ==
    ASSUME TypeOK, NEW i \in 1 .. Len(pendingQueues), AddCommand(i)
    PROVE  Kept
  <1>. DEFINE cmd == Head(ready[Identify])
              entry == [cmd |-> cmd, seq |-> sendSeq]
  <1>1. pendingQueues[i] = Identify
    BY IdentifyIsQueue DEF TypeOK, SenderTypeOK
  <1>2. ready[Identify] # <<>> /\ ready[Identify] \in Seq(Commands)
    BY <1>1, IdentifyIsQueue DEF AddCommand, MostUrgent, TypeOK, SenderTypeOK
  <1>3. cmd \in Notified
    BY <1>2, ReaderAssumption, HeadTailProperties
  <1>4. /\ ready' = [ready EXCEPT ![Identify] = Tail(@)]
        /\ notifyQueue' = Append(notifyQueue, entry)
        /\ UNCHANGED <<upcoming, receiveQueue>>
    BY <1>1, <1>3 DEF AddCommand
  <1>5. ready'[Identify] = Tail(ready[Identify])
    BY <1>4, IdentifyIsQueue DEF TypeOK, SenderTypeOK
  <1>6. ASSUME NEW c \in Commands, OnItsWay(c) PROVE OnItsWay(c)'
    <2>1. /\ upcoming[Identify] = <<>> /\ ready[Identify] = <<c>>
          /\ notifyQueue = <<>> /\ NoNotice(receiveQueue)
      BY <1>2, <1>6 DEF OnItsWay
    <2>2. Tail(<<c>>) = <<>> /\ cmd = c
      BY <2>1
    <2>3. entry.cmd = c
      BY <2>2
    <2>. HIDE DEF entry, cmd
    <2>4. Append(<<>>, entry) = <<entry>>
      OBVIOUS
    <2>5. Len(notifyQueue') = 1 /\ notifyQueue'[1].cmd = c
      BY <1>4, <2>1, <2>3, <2>4
    <2>. QED
      BY <1>4, <1>5, <2>1, <2>2, <2>5 DEF OnItsWay
  <1>. QED
    BY <1>2, <1>6 DEF Kept, NothingOnItsWay

\* Its notification, and answers, arrive.
LEMMA HandleMessageKeeps ==
    ASSUME IInv, PullerTypeOK', NumbersTypeOK', HandleMessage
    PROVE  Kept
  <1>. DEFINE m == Head(toHost)
              r == m.seq
  <1>1. m \in Messages /\ Rebuild(r) = r /\ ~Invalid(r)
    BY NumberIsRebuilt DEF HandleMessage
  <1>2. lastReceiveSent' \in Nat
    BY DEF NumbersTypeOK
  <1>. DEFINE new == [data |-> TRUE, about |-> m.about, sent |-> SentBlock(r)]
  <1>3. new \in Arrivals /\ new.data
    BY <1>1, <1>2 DEF Arrivals, SentBlock, Messages
  <1>. DEFINE arrived == IF m.data THEN <<new>> ELSE <<>>
  <1>4. arrived \in Seq(Arrivals) /\ NoNotice(arrived)
    <2>. HIDE DEF new, m
    <2>. QED
      BY <1>3 DEF NoNotice
  <1>5. PICK n \in 0 .. Len(notifyQueue) :
          /\ notifyQueue' = SubSeq(notifyQueue, n + 1, Len(notifyQueue))
          /\ receiveQueue' = receiveQueue \o [i \in 1 .. n |-> Notification(notifyQueue[i])] \o arrived
          /\ UNCHANGED <<upcoming, ready>>
    BY <1>1 DEF HandleMessage, pendVars
  <1>. HIDE DEF arrived, new, m
  <1>. DEFINE told == [i \in 1 .. n |-> Notification(notifyQueue[i])]
              Entries == [cmd : Commands, seq : Nat]
  <1>6. notifyQueue \in Seq(Entries) /\ receiveQueue \in Seq(Arrivals)
    BY DEF IInv, TypeOK, PullerTypeOK
  <1>. HIDE DEF Entries
  <1>7. ASSUME n = 0 PROVE Kept
    <2>1. told = <<>>
      BY <1>7
    <2>2. receiveQueue' = receiveQueue \o arrived
      <3>1. receiveQueue \o <<>> = receiveQueue
        BY <1>6, ConcatEmptySeq
      <3>. QED
        BY <1>5, <2>1, <3>1
    <2>3. notifyQueue' = notifyQueue
      BY <1>5, <1>6, <1>7
    <2>4. /\ NoNotice(receiveQueue) => NoNotice(receiveQueue')
          /\ \A c : OneNotice(receiveQueue, c) => OneNotice(receiveQueue', c)
      BY <1>4, <1>6, <2>2, AnswersArrive
    <2>. QED
      BY <1>5, <2>3, <2>4 DEF Kept, NothingOnItsWay, OnItsWay
  <1>8. ASSUME n # 0 PROVE Kept
    <2>1. notifyQueue # <<>> /\ Len(notifyQueue) # 0
      BY <1>5, <1>6, <1>8
    <2>2. ASSUME NEW c \in Commands, OnItsWay(c) PROVE OnItsWay(c)'
      <3>1. /\ upcoming[Identify] = <<>> /\ ready[Identify] = <<>>
            /\ Len(notifyQueue) = 1 /\ notifyQueue[1].cmd = c /\ NoNotice(receiveQueue)
        BY <2>1, <2>2 DEF OnItsWay
      <3>2. n = 1
        BY <1>5, <1>8, <3>1
      <3>3. notifyQueue' = <<>>
        BY <1>5, <1>6, <3>1, <3>2
      <3>. DEFINE a == Notification(notifyQueue[1])
      <3>4. a \in Arrivals /\ ~a.data /\ a.about = c
        BY <1>2, <3>1 DEF Notification, Arrivals
      <3>5. told \in Seq(Arrivals) /\ Len(told) = 1 /\ told[1] = a
        BY <3>2, <3>4
      <3>. HIDE DEF told, a
      <3>6. receiveQueue \o told \in Seq(Arrivals) /\ OneNotice(receiveQueue \o told, c)
        BY <1>6, <3>1, <3>4, <3>5, NoticeArrives, ConcatProperties
      <3>7. OneNotice(receiveQueue', c)
        <4>1. receiveQueue' = receiveQueue \o told \o arrived
          BY <1>5 DEF told
        <4>. QED
          BY <1>4, <3>6, <4>1, AnswersArrive
      <3>. QED
        BY <1>5, <3>1, <3>3, <3>7 DEF OnItsWay
    <2>. QED
      BY <2>1, <2>2 DEF Kept, NothingOnItsWay
  <1>. QED
    BY <1>7, <1>8

\* No step but those of the reactor and of the puller loses the query, starts
\* another one, or brings the puller back.
LEMMA LinkKeeps ==
    ASSUME IInv, IInv', QueueStep
    PROVE  Kept /\ (puller' = "runs" => puller = "runs")
  <1>1. ASSUME Steady, UNCHANGED puller
        PROVE  Kept /\ (puller' = "runs" => puller = "runs")
    BY <1>1, SteadyKeeps
  <1>2. CASE KickBgThread(Identify)
    BY <1>1, <1>2 DEF KickBgThread, Steady, pendVars, recvVars
  <1>3. ASSUME NEW q \in Queues, MoveDue(q) PROVE Kept /\ UNCHANGED puller
    <2>1. q = Identify
      BY IdentifyIsQueue
    <2>. QED
      BY <1>3, <2>1, MoveDueKeeps DEF IInv, MoveDue, recvVars
  <1>4. CASE StartBlock \/ WriteBlocks \/ StoreBlock
    BY <1>1, <1>4 DEF StartBlock, WriteBlocks, StoreBlock, Steady, pendVars, recvVars
  <1>5. ASSUME NEW i \in 1 .. Len(pendingQueues), AddCommand(i) PROVE Kept /\ UNCHANGED puller
    BY <1>5, AddCommandKeeps DEF IInv, AddCommand
  <1>6. CASE CommandEvent \/ KickEvent \/ RetransmitEvent
    BY <1>1, <1>6 DEF CommandEvent, KickEvent, RetransmitEvent, Steady, pendVars, recvVars
  <1>7. CASE HandleMessage
    <2>1. Kept
      BY <1>7, HandleMessageKeeps DEF IInv, TypeOK
    <2>2. UNCHANGED puller
      BY <1>7 DEF HandleMessage, recvVars
    <2>. QED
      BY <2>1, <2>2
  <1>8. CASE BackgroundEnds
    BY <1>1, <1>8 DEF BackgroundEnds, Steady, pendVars
  <1>9. CASE PullNothing
    <2>1. Steady /\ (UNCHANGED puller \/ puller' = "ended")
      BY <1>9 DEF PullNothing, Steady, pendVars
    <2>. QED
      BY <2>1, SteadyKeeps
  <1>10. CASE McuStep \/ McuReport
    BY <1>1, <1>10 DEF McuStep, McuTake, McuAcknowledge, McuNak, McuReport, Steady, queueVars, pendVars, recvVars
  <1>11. CASE LoseBlock \/ LoseMessage \/ Tick
    BY <1>1, <1>11 DEF LoseBlock, LoseMessage, Tick, Steady, queueVars, pendVars, recvVars
  <1>. QED
    BY <1>2, <1>3, <1>4, <1>5, <1>6, <1>7, <1>8, <1>9, <1>10, <1>11 DEF QueueStep, BackgroundStep, CommandStep

\* raw_send_wait_ack sets the query on its way.
LEMMA SendBatchStarts ==
    ASSUME TypeOK, SendBatch(Identify), unsent' = [unsent EXCEPT ![Identify] = Tail(@)]
    PROVE  \E c \in Commands :
             c = Head(unsent[Identify]) /\ (NothingOnItsWay => OnItsWay(c)')
  <1>. DEFINE s == unsent[Identify]
  <1>1. unsent \in [Queues -> Seq(Commands)] /\ upcoming \in [Queues -> Seq(Commands)] /\ s \in Seq(Commands)
    BY IdentifyIsQueue DEF TypeOK, SenderTypeOK
  <1>2. PICK n \in 1 .. Len(s) :
          /\ unsent' = [unsent EXCEPT ![Identify] = SubSeq(@, n + 1, Len(@))]
          /\ upcoming' = [upcoming EXCEPT ![Identify] = @ \o SubSeq(s, 1, n)]
          /\ UNCHANGED <<ready, notifyQueue, receiveQueue>>
    BY DEF SendBatch, recvVars
  <1>3. SubSeq(s, n + 1, Len(s)) = Tail(s)
    <2>1. unsent'[Identify] = SubSeq(s, n + 1, Len(s))
      BY <1>1, <1>2, IdentifyIsQueue
    <2>2. unsent'[Identify] = Tail(s)
      BY <1>1, IdentifyIsQueue
    <2>. QED
      BY <2>1, <2>2
  <1>4. upcoming'[Identify] = upcoming[Identify] \o SubSeq(s, 1, n)
    BY <1>1, <1>2, IdentifyIsQueue
  <1>. HIDE DEF s
  <1>5. s # <<>> /\ n = 1
    <2>1. n \in 1 .. Len(s) /\ Len(s) \in Nat
      BY <1>1, <1>2
    <2>2. s # <<>>
      BY <1>1, <2>1
    <2>3. Len(SubSeq(s, n + 1, Len(s))) = Len(s) - n
      BY <1>1, <2>1
    <2>4. Len(Tail(s)) = Len(s) - 1
      BY <1>1, <2>2
    <2>. QED
      <3>1. Len(s) - n = Len(s) - 1
        BY <1>3, <2>3, <2>4
      <3>. QED
        BY <2>1, <2>2, <3>1
  <1>6. PICK c \in Commands : c = Head(s)
    BY <1>1, <1>5, HeadTailProperties
  <1>7. SubSeq(s, 1, n) = <<c>>
    <2>1. Len(s) \in Nat \ {0} /\ s[1] = c
      BY <1>1, <1>5, <1>6
    <2>. DEFINE t == SubSeq(s, 1, 1)
    <2>2. t \in Seq(Commands) /\ Len(t) = 1 /\ t[1] = s[1]
      BY <1>1, <2>1
    <2>. HIDE DEF t
    <2>3. t = <<c>>
      BY <2>1, <2>2, OneElement
    <2>. QED
      BY <1>5, <2>3 DEF t
  <1>8. <<>> \o <<c>> = <<c>>
    OBVIOUS
  <1>9. NothingOnItsWay => OnItsWay(c)'
    BY <1>2, <1>4, <1>7, <1>8 DEF NothingOnItsWay, OnItsWay
  <1>. QED
    BY <1>6, <1>9 DEF s

\* _bg_thread takes what is before the notification, or the notification.
LEMMA PullMessageTakes ==
    ASSUME TypeOK, PullMessage
    PROVE  /\ puller = "runs" /\ puller' = "runs"
           /\ Head(receiveQueue).data => Kept
           /\ ~Head(receiveQueue).data =>
                /\ ~NothingOnItsWay
                /\ \A c \in Commands : OnItsWay(c) => Head(receiveQueue).about = c /\ NothingOnItsWay'
  <1>1. /\ receiveQueue \in Seq(Arrivals) /\ receiveQueue # <<>> /\ receiveQueue' = Tail(receiveQueue)
        /\ UNCHANGED <<upcoming, ready, notifyQueue, puller>> /\ puller = "runs"
    BY DEF PullMessage, PullerRuns, TypeOK, PullerTypeOK, pendVars
  <1>2. /\ NoNotice(receiveQueue) => Head(receiveQueue).data /\ NoNotice(receiveQueue')
        /\ \A c : OneNotice(receiveQueue, c) =>
             IF Head(receiveQueue).data THEN OneNotice(receiveQueue', c)
             ELSE Head(receiveQueue).about = c /\ NoNotice(receiveQueue')
    BY <1>1, NoticePulled
  <1>. QED
    BY <1>1, <1>2 DEF Kept, NothingOnItsWay, OnItsWay

LEMMA AwaitedInvStep ==
    ASSUME ReaderInv, IInv', [ReaderNext]_allVars
    PROVE  AwaitedInv'
  <1>. USE DEF readerVars, identifyVars, handlerVars
  <1>0. IInv /\ TypeOK /\ ReaderTypes /\ AwaitedInv
    BY DEF ReaderInv, IInv
  <1>1. ASSUME Kept, puller' = "runs" => puller = "runs", UNCHANGED pending, Waits' <=> Waits
        PROVE  AwaitedInv'
    <2>1. pending \subseteq Commands
      BY <1>0 DEF ReaderTypes
    <2>. QED
      BY <1>0, <1>1, <2>1 DEF AwaitedInv, Kept
  <1>2. ASSUME UNCHANGED vars PROVE Kept /\ UNCHANGED puller
    BY <1>2, SteadyKeeps DEF Steady, vars, queueVars, pendVars, recvVars
  <1>3. CASE RawSendWaitAck
    <2>1. CASE identify' = "crashed" /\ UNCHANGED <<vars, pending>>
      BY <1>1, <1>2, <1>3, <2>1 DEF RawSendWaitAck, Waits
    <2>2. CASE ~(identify' = "crashed" /\ UNCHANGED <<vars, pending>>)
      <3>1. /\ SendBatch(Identify) /\ unsent' = [unsent EXCEPT ![Identify] = Tail(@)]
            /\ pending' = pending \cup {Head(unsent[Identify])}
            /\ identify' = "wait" /\ completion' = "open" /\ identify = "send"
        BY <1>3, <2>2 DEF RawSendWaitAck
      <3>2. UNCHANGED puller
        BY <3>1 DEF SendBatch, recvVars
      <3>3. puller = "runs" => NothingOnItsWay
        BY <1>0, <3>1 DEF AwaitedInv, Waits
      <3>. QED
        BY <1>0, <3>1, <3>2, <3>3, SendBatchStarts DEF AwaitedInv, Waits
    <2>. QED
      BY <2>1, <2>2
  <1>4. CASE Notice
    <2>1. UNCHANGED <<vars, pending, completion>> /\ completion # "open"
      BY <1>4 DEF Notice
    <2>. QED
      BY <1>1, <1>2, <2>1 DEF Waits
  <1>5. CASE RetryDelayEnds
    BY <1>1, <1>2, <1>5 DEF RetryDelayEnds, Waits
  <1>6. CASE SessionStarts
    BY <1>1, <1>2, <1>6 DEF SessionStarts, Waits
  <1>7. CASE EndDisconnect
    BY <1>2, <1>7 DEF EndDisconnect, AwaitedInv
  <1>8. CASE BeginDisconnect
    <2>1. Steady /\ UNCHANGED <<puller, pending, identify, completion>>
      BY <1>8 DEF BeginDisconnect, KeepPending, Steady, pendVars, recvVars
    <2>. QED
      BY <1>1, <2>1, SteadyKeeps DEF Waits
  <1>9. CASE PullResponse
    <2>1. PullMessage /\ UNCHANGED identify
      BY <1>9 DEF PullResponse
    <2>2. CASE Head(receiveQueue).data
      <3>1. UNCHANGED <<pending, completion>>
        BY <1>9, <2>2 DEF PullResponse
      <3>. QED
        BY <1>0, <1>1, <2>1, <2>2, <3>1, PullMessageTakes DEF Waits
    <2>3. CASE ~Head(receiveQueue).data
      <3>1. completion' = "acked"
        BY <1>9, <2>3 DEF PullResponse
      <3>2. \E c \in pending : OnItsWay(c)
        BY <1>0, <2>1, <2>3, PullMessageTakes DEF AwaitedInv
      <3>3. NothingOnItsWay'
        BY <1>0, <2>1, <2>3, <3>2, PullMessageTakes DEF ReaderTypes
      <3>. QED
        BY <3>1, <3>3 DEF AwaitedInv, Waits
    <2>. QED
      BY <2>2, <2>3
  <1>10. CASE QueueStep /\ UNCHANGED readerVars
    BY <1>0, <1>1, <1>10, LinkKeeps DEF Waits
  <1>11. CASE UNCHANGED allVars
    BY <1>1, <1>2, <1>11 DEF allVars, Waits
  <1>. QED
    BY <1>3, <1>4, <1>5, <1>6, <1>7, <1>8, <1>9, <1>10, <1>11 DEF ReaderNext, GreenletStep, Settled

-----------------------------------------------------------------------------
(* The theorems.                                                           *)

THEOREM ReaderInvariance == ReaderSpec => []ReaderInv
  <1>1. ReaderInit => ReaderInv
    <2>1. SUFFICES ASSUME ReaderInit
                   PROVE  ReaderInv
      OBVIOUS
    <2>2. IInv
      BY <2>1, InitInv DEF ReaderInit
    <2>3. ReaderTypes
      BY <2>1, ReaderAssumption DEF ReaderInit, ReaderTypes
    <2>4. NothingOnItsWay /\ ~Waits
      BY <2>1, IdentifyIsQueue DEF ReaderInit, Init, NothingOnItsWay, NoNotice, Waits
    <2>. QED
      BY <2>2, <2>3, <2>4 DEF ReaderInv, AwaitedInv
  <1>2. ReaderInv /\ [ReaderNext]_allVars => ReaderInv'
    <2>1. SUFFICES ASSUME ReaderInv, [ReaderNext]_allVars
                   PROVE  ReaderInv'
      OBVIOUS
    <2>2. IInv'
      BY <2>1, ReaderIsLink, NextInv DEF ReaderInv
    <2>. QED
      BY <2>1, <2>2, ReaderTypesStep, AwaitedInvStep DEF ReaderInv
  <1>. QED
    BY <1>1, <1>2, PTL DEF ReaderSpec

\* Every variable of the link and of the reader keeps its type.
THEOREM ReaderTypeCorrect == ReaderSpec => []ReaderTypeOK
  <1>1. ReaderInv => ReaderTypeOK
    BY DEF ReaderInv, IInv, ReaderTypes, ReaderTypeOK
  <1>. QED
    BY <1>1, ReaderInvariance, PTL

\* _bg_thread pulls no notification that is not in pending_notifications, be
\* it during a retry, a disconnect or the first contact, so its pop never ends
\* the thread.
THEOREM NoUnknownNotification == ReaderSpec => []NotificationIsPending
  <1>1. ReaderInv => NotificationIsPending
    <2>1. SUFFICES ASSUME ReaderInv, puller = "runs", receiveQueue # <<>>, ~Head(receiveQueue).data
                   PROVE  Head(receiveQueue).about \in pending
      BY DEF NotificationIsPending
    <2>2. receiveQueue \in Seq(Arrivals)
      BY <2>1 DEF ReaderInv, IInv, TypeOK, PullerTypeOK
    <2>3. /\ ~NoNotice(receiveQueue)
          /\ \A c : OneNotice(receiveQueue, c) => Head(receiveQueue).about = c
      BY <2>1, <2>2, NoticePulled
    <2>. QED
      BY <2>1, <2>3 DEF ReaderInv, AwaitedInv, NothingOnItsWay, OnItsWay
  <1>. QED
    BY <1>1, ReaderInvariance, PTL

\* Nobody waits for a query that is nowhere: while raw_send_wait_ack waits and
\* _bg_thread runs, the query it waits for is pending and on its way, so that
\* its notification or the end of the thread is still to come.
THEOREM AwaitedIsOnItsWay ==
    ReaderSpec => [](puller = "runs" /\ Waits => \E c \in pending : OnItsWay(c))
  <1>1. ReaderInv => (puller = "runs" /\ Waits => \E c \in pending : OnItsWay(c))
    BY DEF ReaderInv, AwaitedInv
  <1>. QED
    BY <1>1, ReaderInvariance, PTL

\* Numbers are told apart during the first contact as well, whatever block the
\* controller expects and whatever it sends of its own.
THEOREM AcknowledgedAtFirstContact == ReaderSpec => []AckedWasExecuted
  <1>1. ReaderInv => AckedWasExecuted
    BY LinkFacts DEF ReaderInv, IInv, AheadInv, AckedWasExecuted
  <1>. QED
    BY <1>1, ReaderInvariance, PTL

-----------------------------------------------------------------------------
(* That the retries are enough.                                            *)

IsAnswer(m) == m.data /\ m.about # NoCommand
IsReport(m) == m.data /\ m.about = NoCommand

\* How many reports are under way in q.
Reported(q) == Cardinality({i \in 1 .. Len(q) : IsReport(q[i])})

\* q has one of S, and before it only some of T.
Leads(q, S, T) == \E k \in 1 .. Len(q) : q[k] \in S /\ \A j \in 1 .. k - 1 : q[j] \in T

\* An answer will be pulled, before any notification.
AnswerFirst == Leads(receiveQueue, {a \in Arrivals : IsAnswer(a)}, {a \in Arrivals : a.data})

\* An answer will be handled, before any acknowledgement of all blocks.
Answers == {m \in Messages : IsAnswer(m)}
Earlier == {m \in Messages : m.data \/ m.seq < sendSeq}
AnswerComes == Leads(toHost, Answers, Earlier)

\* The answer to the query that is sent will not be too late: it has come, or
\* nobody has been told of the query, and its block, the last one, is yet to be
\* built, to be executed, or has an answer under way that nothing overtakes.
OnTime ==
    \/ notifyQueue = <<>>
    \/ block # <<>>
    \/ notifyQueue[1].seq = sendSeq - 1 /\ (mcuSeq < sendSeq \/ AnswerComes)
Fine ==
    \/ lastParams # NoParams
    \/ completion = "open" /\ (AnswerFirst \/ (NoNotice(receiveQueue) /\ OnTime))

\* The number the controller expected at first.
Start == mcuSeq - Len(executed)

\* Before the first contact with a controller that was not reset.
Strange == receiveSeq = 1 /\ Start # 1

\* The retries used up, the one included that is bound to come, are paid for by
\* losses and, if the controller expected block 1, by reports that have arrived
\* or got lost, and else by the first contact.
Due == IF identify = "wait" /\ ~Fine THEN 1 ELSE 0
Spare == reports - Reported(toHost)
ChargeInv ==
    IF Strange
    THEN /\ retries = Retries /\ identify \in {"send", "wait"}
         /\ completion = "open" /\ receiveQueue = <<>>
    ELSE Retries - retries + Due <= losses + (IF Start = 1 THEN Spare ELSE 1)

\* No block is empty, and the one that is built is, or will be, about the query
\* whose sender is waiting.
FilledInv ==
    /\ \A i \in 1 .. Len(built) : built[i].cmds # <<>>
    /\ bg # "build" => block = <<>>
    /\ bg = "build" /\ block = <<>> => ready[Identify] # <<>>
    /\ bg = "build" /\ block # <<>> => notifyQueue # <<>> /\ notifyQueue[1].seq = sendSeq

\* The controller's numbers begin at Start, and an answer is to a block.
NumbersFrom(q, n) == \A i \in 1 .. Len(q) : n <= q[i].seq /\ (IsAnswer(q[i]) => n < q[i].seq)
StartInv ==
    /\ Start \in Nat \ {0} /\ NumbersFrom(toHost, Start)
    /\ Start = 1 => mcuSeq <= sendSeq

\* The call is under way, its handler registered, and the threads run.
CallInv ==
    /\ identify \in {"send", "wait", "pause"} => registered
    /\ identify # "error"
    /\ losses <= MaxLosses /\ reports <= MaxReports
    /\ completion # "closed" /\ session \in {"waiting", "connected"}
    /\ puller = "runs" /\ bg # "ended"

RetryInv == KnownInv /\ (~mustExit => FilledInv /\ StartInv /\ CallInv /\ ChargeInv)

\* Reports in queues.
LEMMA ReportedIs ==
    ASSUME NEW q \in Seq(Messages)
    PROVE  /\ IsFiniteSet({i \in 1 .. Len(q) : IsReport(q[i])}) /\ Reported(q) \in Nat
  <1>1. IsFiniteSet(1 .. Len(q))
    BY FS_Interval
  <1>2. IsFiniteSet({i \in 1 .. Len(q) : IsReport(q[i])})
    BY <1>1, FS_Subset
  <1>. QED
    BY <1>2, FS_CardinalityType DEF Reported

LEMMA ReportedConcat ==
    ASSUME NEW q \in Seq(Messages), NEW t \in Seq(Messages), \A i \in 1 .. Len(t) : ~IsReport(t[i])
    PROVE  Reported(q \o t) = Reported(q)
  <1>. DEFINE u == q \o t
  <1>1. /\ Len(u) = Len(q) + Len(t) /\ Len(q) \in Nat /\ Len(t) \in Nat
        /\ \A i \in 1 .. Len(u) : u[i] = IF i <= Len(q) THEN q[i] ELSE t[i - Len(q)]
    BY ConcatElements
  <1>. HIDE DEF u
  <1>2. ASSUME NEW i \in 1 .. Len(u), IsReport(u[i]) PROVE i \in 1 .. Len(q) /\ u[i] = q[i]
    <2>1. CASE i <= Len(q)
      BY <1>1, <2>1
    <2>2. CASE ~(i <= Len(q))
      <3>1. i - Len(q) \in 1 .. Len(t) /\ u[i] = t[i - Len(q)]
        BY <1>1, <2>2
      <3>. QED
        BY <1>2, <3>1
    <2>. QED
      BY <2>1, <2>2
  <1>3. \A i \in 1 .. Len(q) : i \in 1 .. Len(u) /\ u[i] = q[i]
    BY <1>1
  <1>4. {i \in 1 .. Len(u) : IsReport(u[i])} = {i \in 1 .. Len(q) : IsReport(q[i])}
    BY <1>2, <1>3
  <1>. QED
    BY <1>4 DEF Reported, u

LEMMA ReportedAppend ==
    ASSUME NEW q \in Seq(Messages), NEW m \in Messages
    PROVE  Reported(Append(q, m)) = Reported(q) + (IF IsReport(m) THEN 1 ELSE 0)
  <1>. DEFINE u == Append(q, m)
              k == Len(q) + 1
              P == {i \in 1 .. Len(q) : IsReport(q[i])}
              R == {i \in 1 .. Len(u) : IsReport(u[i])}
  <1>0. Reported(Append(q, m)) = Cardinality(R)
    BY DEF Reported
  <1>1. Len(u) = k /\ Len(q) \in Nat /\ u[k] = m /\ \A i \in 1 .. Len(q) : u[i] = q[i]
    OBVIOUS
  <1>2. IsFiniteSet(P) /\ Reported(q) = Cardinality(P)
    BY ReportedIs DEF Reported
  <1>. HIDE DEF u
  <1>3. 1 .. Len(u) = 1 .. Len(q) \cup {k} /\ k \notin 1 .. Len(q)
    BY <1>1
  <1>. HIDE DEF k
  <1>4. k \notin P /\ R = IF IsReport(m) THEN P \cup {k} ELSE P
    BY <1>1, <1>3
  <1>. HIDE DEF P, R
  <1>5. Cardinality(P \cup {k}) = Cardinality(P) + 1
    BY <1>2, <1>4, FS_AddElement
  <1>6. Cardinality(P) \in Nat
    BY <1>2, FS_CardinalityType
  <1>. QED
    BY <1>0, <1>2, <1>4, <1>5, <1>6

LEMMA ReportedTail ==
    ASSUME NEW q \in Seq(Messages), q # <<>>
    PROVE  Reported(q) = Reported(Tail(q)) + (IF IsReport(Head(q)) THEN 1 ELSE 0)
  <1>. DEFINE t == Tail(q)
              P == {i \in 1 .. Len(q) : IsReport(q[i])}
              R == {i \in 1 .. Len(t) : IsReport(t[i])}
              S == {i \in 2 .. Len(q) : IsReport(q[i])}
              f == [i \in R |-> i + 1]
  <1>0. Reported(q) = Cardinality(P)
    BY DEF Reported
  <1>1. /\ Len(q) \in Nat \ {0} /\ Len(t) = Len(q) - 1 /\ Head(q) = q[1] /\ t \in Seq(Messages)
        /\ \A i \in 1 .. Len(t) : t[i] = q[i + 1]
    OBVIOUS
  <1>2. IsFiniteSet(R) /\ Reported(t) = Cardinality(R)
    BY <1>1, ReportedIs DEF Reported
  <1>. HIDE DEF t
  <1>3. ASSUME NEW i \in R PROVE i + 1 \in S
    BY <1>1
  <1>4. ASSUME NEW j \in S PROVE j - 1 \in R /\ (j - 1) + 1 = j
    <2>1. j - 1 \in 1 .. Len(t) /\ (j - 1) + 1 = j
      BY <1>1
    <2>2. t[j - 1] = q[j]
      BY <1>1, <2>1
    <2>. QED
      BY <2>1, <2>2
  <1>5. f \in Bijection(R, S)
    <2>1. \A i, j \in R : i + 1 = j + 1 => i = j
      BY <1>1
    <2>. HIDE DEF R, S
    <2>2. f \in [R -> S]
      BY <1>3
    <2>3. \A i, j \in R : f[i] = f[j] => i = j
      BY <2>1
    <2>4. \A j \in S : \E i \in R : f[i] = j
      BY <1>4
    <2>. HIDE DEF f
    <2>5. f \in Injection(R, S)
      BY <2>2, <2>3 DEF Injection, IsInjective
    <2>6. f \in Surjection(R, S)
      BY <2>2, <2>4 DEF Surjection
    <2>. QED
      BY <2>5, <2>6 DEF Bijection
  <1>6. 1 .. Len(q) = 2 .. Len(q) \cup {1} /\ 1 \notin 2 .. Len(q)
    BY <1>1
  <1>7. 1 \notin S /\ P = IF IsReport(Head(q)) THEN S \cup {1} ELSE S
    BY <1>1, <1>6
  <1>. HIDE DEF P, R, S, f
  <1>8. IsFiniteSet(S) /\ Cardinality(S) = Cardinality(R)
    <2>1. ExistsBijection(R, S)
      BY <1>5 DEF ExistsBijection
    <2>. QED
      BY <1>2, <2>1, FS_Bijection
  <1>9. Cardinality(S \cup {1}) = Cardinality(S) + 1 /\ Cardinality(S) \in Nat
    BY <1>7, <1>8, FS_AddElement, FS_CardinalityType
  <1>. QED
    BY <1>0, <1>2, <1>7, <1>8, <1>9 DEF t

\* Queues that one of S leads.
LEMMA LeadsConcat ==
    ASSUME NEW M, NEW S, NEW T, NEW q \in Seq(M), NEW t \in Seq(M)
    PROVE  /\ Leads(q, S, T) => Leads(q \o t, S, T)
           /\ (\A i \in 1 .. Len(q) : q[i] \in T) /\ t # <<>> /\ t[1] \in S => Leads(q \o t, S, T)
  <1>. DEFINE u == q \o t
  <1>1. /\ Len(u) = Len(q) + Len(t) /\ Len(q) \in Nat /\ Len(t) \in Nat
        /\ \A i \in 1 .. Len(u) : u[i] = IF i <= Len(q) THEN q[i] ELSE t[i - Len(q)]
    BY ConcatElements
  <1>0. t # <<>> => Len(t) # 0
    OBVIOUS
  <1>. HIDE DEF u
  <1>2. \A i \in 1 .. Len(q) : i \in 1 .. Len(u) /\ u[i] = q[i]
    BY <1>1
  <1>3. ASSUME Leads(q, S, T) PROVE Leads(u, S, T)
    <2>1. PICK k \in 1 .. Len(q) : q[k] \in S /\ \A j \in 1 .. k - 1 : q[j] \in T
      BY <1>3 DEF Leads
    <2>2. k \in 1 .. Len(u) /\ u[k] \in S
      BY <1>2, <2>1
    <2>3. \A j \in 1 .. k - 1 : j \in 1 .. Len(q)
      BY <1>1, <2>1
    <2>. QED
      BY <1>2, <2>1, <2>2, <2>3 DEF Leads
  <1>4. ASSUME \A i \in 1 .. Len(q) : q[i] \in T, t # <<>>, t[1] \in S
        PROVE  Leads(u, S, T)
    <2>1. PICK k \in 1 .. Len(u) : k = Len(q) + 1
      BY <1>0, <1>1, <1>4
    <2>2. ~(k <= Len(q)) /\ k - Len(q) = 1
      BY <1>1, <2>1
    <2>3. u[k] = t[1]
      BY <1>1, <2>1, <2>2
    <2>4. \A j \in 1 .. k - 1 : j \in 1 .. Len(q)
      BY <1>1, <2>1
    <2>. QED
      BY <1>2, <1>4, <2>3, <2>4 DEF Leads
  <1>. QED
    BY <1>3, <1>4 DEF u

LEMMA LeadsTail ==
    ASSUME NEW M, NEW S, NEW T, NEW q \in Seq(M), q # <<>>, Leads(q, S, T)
    PROVE  Head(q) \in S \/ (Head(q) \in T /\ Leads(Tail(q), S, T))
  <1>. DEFINE t == Tail(q)
  <1>1. /\ Len(q) \in Nat \ {0} /\ Len(t) = Len(q) - 1 /\ Head(q) = q[1]
        /\ \A i \in 1 .. Len(t) : t[i] = q[i + 1]
    OBVIOUS
  <1>. HIDE DEF t
  <1>2. PICK k \in 1 .. Len(q) : q[k] \in S /\ \A j \in 1 .. k - 1 : q[j] \in T
    BY DEF Leads
  <1>3. CASE k = 1
    BY <1>1, <1>2, <1>3
  <1>4. CASE k # 1
    <2>1. 1 \in 1 .. k - 1
      BY <1>1, <1>2, <1>4
    <2>2. PICK n \in 1 .. Len(t) : k = n + 1
      <3>1. k - 1 \in 1 .. Len(t) /\ k = (k - 1) + 1
        BY <1>1, <1>2, <1>4
      <3>. QED
        BY <3>1
    <2>3. t[n] \in S
      BY <1>1, <1>2, <2>2
    <2>4. ASSUME NEW j \in 1 .. n - 1 PROVE t[j] \in T
      <3>1. j \in 1 .. Len(t) /\ j + 1 \in 1 .. k - 1
        BY <1>1, <2>2
      <3>2. t[j] = q[j + 1]
        BY <1>1, <3>1
      <3>. QED
        BY <1>2, <3>1, <3>2
    <2>5. Leads(t, S, T)
      BY <2>3, <2>4 DEF Leads
    <2>. QED
      BY <1>1, <1>2, <2>1, <2>5 DEF t
  <1>. QED
    BY <1>3, <1>4

LEMMA LeadsWider ==
    ASSUME NEW S, NEW T, NEW U, NEW q, T \subseteq U, Leads(q, S, T)
    PROVE  Leads(q, S, U)
  BY DEF Leads

\* Answers to the commands of a block, of which each is a query.
LEMMA AnswersOfBlock ==
    ASSUME NEW cmds \in Seq(Commands), cmds # <<>>, NEW seq \in Nat
    PROVE  /\ AnswersTo(cmds, seq) \in Seq(Messages) /\ AnswersTo(cmds, seq) # <<>>
           /\ \A i \in 1 .. Len(AnswersTo(cmds, seq)) :
                IsAnswer(AnswersTo(cmds, seq)[i]) /\ AnswersTo(cmds, seq)[i].seq = seq
           /\ IsAnswer(AnswersTo(cmds, seq)[1])
  <1>. DEFINE A == QueriesIn(cmds)
              n == Cardinality(A)
              w == AnswersTo(cmds, seq)
              Nth(k) == CHOOSE i \in A : Cardinality({j \in A : j <= i}) = k
  <1>1. Len(cmds) \in Nat \ {0} /\ DOMAIN cmds = 1 .. Len(cmds)
    OBVIOUS
  <1>2. A = 1 .. Len(cmds)
    <2>1. \A i \in 1 .. Len(cmds) : cmds[i] \in Queries
      BY ReaderAssumption, ElementOfSeq
    <2>. QED
      BY <1>1, <2>1 DEF QueriesIn
  <1>3. n = Len(cmds)
    BY <1>1, <1>2, FS_Interval
  <1>4. w \in Seq(Messages) /\ \A i \in 1 .. Len(w) : w[i].seq = seq
    BY AnswersProperties
  <1>5. w = [k \in 1 .. n |-> Answer(seq, cmds[Nth(k)])]
    BY DEF AnswersTo
  <1>6. ASSUME NEW k \in 1 .. n PROVE cmds[Nth(k)] \in Commands
    <2>0. A \in SUBSET (1 .. Len(cmds)) /\ Len(cmds) \in Nat
      BY <1>1, <1>2
    <2>1. \E i \in A : Cardinality({j \in A : j <= i}) = k
      BY <2>0, NthPosition
    <2>2. Nth(k) \in A
      BY <2>1
    <2>. HIDE DEF Nth
    <2>. QED
      BY <1>2, <2>2, ElementOfSeq
  <1>. HIDE DEF A, Nth, n
  <1>7. ASSUME NEW k \in 1 .. n PROVE IsAnswer(w[k])
    <2>1. w[k] = Answer(seq, cmds[Nth(k)])
      BY <1>5
    <2>2. cmds[Nth(k)] # NoCommand
      BY <1>6, CommandsAssumption
    <2>. QED
      BY <2>1, <2>2 DEF IsAnswer, Answer
  <1>8. DOMAIN w = 1 .. n
    BY <1>5
  <1>. HIDE DEF w
  <1>9. Len(w) = n /\ w # <<>>
    <2>1. 1 .. Len(w) = 1 .. n /\ Len(w) \in Nat
      BY <1>4, <1>8
    <2>2. Len(w) = n
      BY <1>1, <1>3, <2>1
    <2>. QED
      BY <1>1, <1>3, <2>2
  <1>10. 1 \in 1 .. n
    BY <1>1, <1>3
  <1>. QED
    BY <1>4, <1>7, <1>9, <1>10 DEF w

\* Something is sent only when a queue has something ready.
LEMMA SendNeedsReady ==
    ASSUME SendNow
    PROVE  ready[Identify] # <<>>
  <1>1. SUFFICES ASSUME ready[Identify] = <<>>
                 PROVE  FALSE
    OBVIOUS
  <1>2. {p \in Queues : ready[p] # <<>>} = {}
    BY <1>1, IdentifyIsQueue
  <1>3. ReadyClocks = {}
    BY <1>2 DEF ReadyClocks
  <1>. DEFINE op(q, n) == n + Len(ready[q])
              I == {Identify}
              e(iter, s) == IF s = {} THEN 0 ELSE op(CHOOSE x \in s : TRUE, iter[s \ {CHOOSE x \in s : TRUE}])
              Iter == CHOOSE iter : iter = [s \in SUBSET I |-> e(iter, s)]
              g == [s \in SUBSET I |-> 0]
  <1>4. ReadyBytes = Iter[I]
    BY IdentifyIsQueue DEF ReadyBytes, FoldSet, MapThenFoldSet
  <1>5. Len(ready[Identify]) = 0
    BY <1>1
  <1>6. ASSUME NEW s \in SUBSET I, s # {}
        PROVE  (CHOOSE x \in s : TRUE) = Identify /\ s \ {CHOOSE x \in s : TRUE} = {}
    BY <1>6
  <1>7. g = [s \in SUBSET I |-> e(g, s)]
    <2>1. {} \in SUBSET I /\ g[{}] = 0
      OBVIOUS
    <2>2. ASSUME NEW s \in SUBSET I PROVE e(g, s) = 0
      BY <1>5, <1>6, <2>1
    <2>. QED
      BY <2>2
  <1>8. Iter = [s \in SUBSET I |-> e(Iter, s)]
    BY <1>7
  <1>. HIDE DEF Iter
  <1>9. {} \in SUBSET I /\ I \in SUBSET I /\ I # {}
    OBVIOUS
  <1>10. Iter[{}] = e(Iter, {}) /\ Iter[I] = e(Iter, I)
    BY <1>8, <1>9
  <1>11. (CHOOSE x \in I : TRUE) = Identify /\ I \ {CHOOSE x \in I : TRUE} = {}
    BY <1>6, <1>9
  <1>12. Iter[I] = Iter[I \ {CHOOSE x \in I : TRUE}] + Len(ready[CHOOSE x \in I : TRUE])
    BY <1>9, <1>10
  <1>13. Iter[{}] = 0
    BY <1>10
  <1>. HIDE DEF I
  <1>14. Iter[I] = Iter[{}] + Len(ready[Identify])
    BY <1>11, <1>12
  <1>15. Iter[I] = 0
    BY <1>5, <1>13, <1>14
  <1>. QED
    BY <1>3, <1>4, <1>15, LinkAssumption DEF SendNow

\* Messages under way that number from n.
LEMMA NumbersConcat ==
    ASSUME NEW q \in Seq(Messages), NEW t \in Seq(Messages), NEW n,
           NumbersFrom(q, n), NumbersFrom(t, n)
    PROVE  NumbersFrom(q \o t, n)
  <1>. DEFINE u == q \o t
  <1>1. /\ Len(u) = Len(q) + Len(t) /\ Len(q) \in Nat /\ Len(t) \in Nat
        /\ \A i \in 1 .. Len(u) : u[i] = IF i <= Len(q) THEN q[i] ELSE t[i - Len(q)]
    BY ConcatElements
  <1>. HIDE DEF u
  <1>2. ASSUME NEW i \in 1 .. Len(u)
        PROVE  n <= u[i].seq /\ (IsAnswer(u[i]) => n < u[i].seq)
    <2>1. CASE i <= Len(q)
      <3>1. i \in 1 .. Len(q) /\ u[i] = q[i]
        BY <1>1, <2>1
      <3>. QED
        BY <3>1 DEF NumbersFrom
    <2>2. CASE ~(i <= Len(q))
      <3>1. i - Len(q) \in 1 .. Len(t) /\ u[i] = t[i - Len(q)]
        BY <1>1, <2>2
      <3>. QED
        BY <3>1 DEF NumbersFrom
    <2>. QED
      BY <2>1, <2>2
  <1>. QED
    BY <1>2 DEF NumbersFrom, u

LEMMA NumbersTail ==
    ASSUME NEW q \in Seq(Messages), q # <<>>, NEW n, NumbersFrom(q, n)
    PROVE  /\ NumbersFrom(Tail(q), n)
           /\ n <= Head(q).seq /\ (IsAnswer(Head(q)) => n < Head(q).seq)
  <1>. DEFINE t == Tail(q)
  <1>1. /\ Len(q) \in Nat \ {0} /\ Len(t) = Len(q) - 1 /\ Head(q) = q[1] /\ 1 \in 1 .. Len(q)
        /\ \A i \in 1 .. Len(t) : t[i] = q[i + 1] /\ i + 1 \in 1 .. Len(q)
    OBVIOUS
  <1>. HIDE DEF t
  <1>. QED
    BY <1>1 DEF NumbersFrom, t

\* What the charge depends on of the link, and the steps that leave it.
linkView == <<sendSeq, receiveSeq, mcuSeq, executed, toHost, notifyQueue, receiveQueue, block, losses, reports>>
Aside ==
    \/ SendBatch(Identify) \/ KickBgThread(Identify) \/ (\E q \in Queues : MoveDue(q))
    \/ StartBlock \/ WriteBlocks \/ CommandEvent \/ KickEvent \/ RetransmitEvent
    \/ PullNothing \/ Tick

LEMMA AsideLeaves == Aside => UNCHANGED linkView
  <1>. USE DEF linkView, queueVars, seqVars, recvVars, bgVars, mcuVars, wireVars
  <1>1. SendBatch(Identify) \/ KickBgThread(Identify) => UNCHANGED linkView
    BY DEF SendBatch, KickBgThread
  <1>2. (\E q \in Queues : MoveDue(q)) => UNCHANGED linkView
    BY DEF MoveDue
  <1>3. StartBlock \/ CommandEvent => UNCHANGED linkView
    BY DEF StartBlock, CommandEvent
  <1>4. WriteBlocks => UNCHANGED linkView
    BY DEF WriteBlocks
  <1>5. KickEvent \/ RetransmitEvent => UNCHANGED linkView
    BY DEF KickEvent, RetransmitEvent
  <1>6. PullNothing \/ Tick => UNCHANGED linkView
    BY DEF PullNothing, Tick
  <1>. QED
    BY <1>1, <1>2, <1>3, <1>4, <1>5, <1>6 DEF Aside

\* What becomes of the threads: nobody takes an exit back, and without one all
\* go on.
LEMMA ExitStays ==
    ASSUME [ReaderNext]_allVars, ~mustExit'
    PROVE  ~mustExit
  <1>. USE DEF wakeVars, queueVars
  <1>1. CASE RawSendWaitAck
    <2>1. UNCHANGED vars \/ SendBatch(Identify)
      BY <1>1 DEF RawSendWaitAck
    <2>. QED
      BY <2>1 DEF SendBatch, vars
  <1>2. CASE Notice \/ RetryDelayEnds \/ SessionStarts \/ EndDisconnect
    BY <1>2 DEF Notice, RetryDelayEnds, SessionStarts, EndDisconnect, vars
  <1>3. CASE BeginDisconnect
    BY <1>3 DEF BeginDisconnect
  <1>4. CASE PullResponse
    BY <1>4 DEF PullResponse, PullMessage
  <1>5. CASE CommandStep
    BY <1>5 DEF CommandStep, MoveDue, StartBlock, WriteBlocks, StoreBlock, AddCommand
  <1>6. CASE CommandEvent \/ KickEvent \/ RetransmitEvent \/ HandleMessage \/ BackgroundEnds
    BY <1>6 DEF CommandEvent, KickEvent, RetransmitEvent, HandleMessage, BackgroundEnds
  <1>7. CASE KickBgThread(Identify) \/ PullNothing
    BY <1>7 DEF KickBgThread, PullNothing
  <1>8. CASE McuStep \/ McuReport \/ LoseBlock \/ LoseMessage \/ Tick
    BY <1>8 DEF McuStep, McuTake, McuAcknowledge, McuNak, McuReport, LoseBlock, LoseMessage, Tick
  <1>9. CASE UNCHANGED allVars
    BY <1>9 DEF allVars, vars
  <1>. QED
    BY <1>1, <1>2, <1>3, <1>4, <1>5, <1>6, <1>7, <1>8, <1>9 DEF ReaderNext, GreenletStep, QueueStep, BackgroundStep, Settled

\* The steps while the threads run.
Leaves == UNCHANGED vars
LEMMA StepsAlive ==
    ASSUME [ReaderNext]_allVars, CallInv, ~mustExit, ~mustExit'
    PROVE  \/ Leaves /\ (Notice \/ RetryDelayEnds \/ SessionStarts \/ UNCHANGED readerVars)
           \/ RawSendWaitAck /\ Aside
           \/ PullResponse
           \/ UNCHANGED readerVars
                /\ \/ Aside \/ StoreBlock \/ HandleMessage \/ McuTake \/ McuAcknowledge \/ McuNak
                   \/ McuReport \/ LoseBlock \/ LoseMessage
                   \/ \E i \in 1 .. Len(pendingQueues) : AddCommand(i)
  <1>1. CASE RawSendWaitAck
    BY <1>1 DEF RawSendWaitAck, Aside, CallInv
  <1>2. CASE Notice \/ RetryDelayEnds \/ SessionStarts
    BY <1>2 DEF Notice, RetryDelayEnds, SessionStarts, Leaves
  <1>3. CASE EndDisconnect
    BY <1>3 DEF EndDisconnect, CallInv
  <1>4. CASE BeginDisconnect
    BY <1>4 DEF BeginDisconnect
  <1>5. CASE PullResponse
    BY <1>5
  <1>6. CASE QueueStep /\ UNCHANGED readerVars
    <2>1. ~BackgroundEnds
      BY DEF BackgroundEnds
    <2>. QED
      BY <1>6, <2>1 DEF QueueStep, BackgroundStep, CommandStep, McuStep, Aside
  <1>7. CASE UNCHANGED allVars
    BY <1>7 DEF allVars, Leaves
  <1>. QED
    BY <1>1, <1>2, <1>3, <1>4, <1>5, <1>6, <1>7 DEF ReaderNext, GreenletStep, Settled

\* A query that is ready is alone.
LEMMA ReadyAlone ==
    ASSUME AwaitedInv, puller = "runs", ready[Identify] # <<>>
    PROVE  notifyQueue = <<>>
  BY DEF AwaitedInv, OnItsWay, NothingOnItsWay

\* No empty block is stored.
LEMMA StoredIsFilled ==
    ASSUME FilledInv, StoreBlock
    PROVE  block # <<>>
  <1>1. SUFFICES ASSUME block = <<>>
                 PROVE  FALSE
    OBVIOUS
  <1>2. ready[Identify] # <<>> /\ Len(block) = 0 /\ (Len(block) = BlockMax \/ ReadyClocks = {})
    BY <1>1 DEF FilledInv, StoreBlock
  <1>3. Identify \in {p \in Queues : ready[p] # <<>>}
    BY <1>2, IdentifyIsQueue
  <1>4. ReadyClocks # {}
    BY <1>3 DEF ReadyClocks
  <1>. QED
    BY <1>2, <1>4, LinkAssumption

LEMMA FilledInvStep ==
    ASSUME ReaderInv, CallInv, FilledInv, [ReaderNext]_allVars, ~mustExit, ~mustExit'
    PROVE  FilledInv'
  <1>0. /\ built \in Seq(Blocks) /\ block \in Seq(Commands) /\ sendSeq \in Nat
        /\ ready \in [Queues -> Seq(Commands)]
        /\ bg \in {"poll", "check", "build", "ended"} /\ AwaitedInv /\ puller = "runs"
    BY DEF ReaderInv, IInv, TypeOK, HistoryTypeOK, SenderTypeOK, NumbersTypeOK, CallInv
  <1>1. ASSUME UNCHANGED <<built, bg, block, ready, notifyQueue, sendSeq>> PROVE FilledInv'
    BY <1>1 DEF FilledInv
  <1>2. ASSUME UNCHANGED <<built, block>>, bg \in {"poll", "check"}, bg' # "build" PROVE FilledInv'
    BY <1>2 DEF FilledInv
  <1>3. CASE Leaves
    BY <1>1, <1>3 DEF Leaves, vars, queueVars, seqVars, pendVars, recvVars, bgVars
  <1>4. CASE RawSendWaitAck /\ Aside
    <2>1. UNCHANGED vars \/ SendBatch(Identify)
      BY <1>4 DEF RawSendWaitAck
    <2>. QED
      BY <1>1, <2>1 DEF SendBatch, vars, queueVars, seqVars, pendVars, recvVars, bgVars
  <1>5. CASE PullResponse
    BY <1>1, <1>5 DEF PullResponse, PullMessage, seqVars, pendVars, bgVars
  <1>6. CASE Aside
    <2>1. CASE SendBatch(Identify) \/ KickBgThread(Identify)
      BY <1>1, <2>1 DEF SendBatch, KickBgThread, seqVars, pendVars, recvVars, bgVars
    <2>2. CASE \E q \in Queues : MoveDue(q)
      BY <1>2, <2>2 DEF MoveDue, bgVars
    <2>3. CASE StartBlock
      <3>1. /\ bg = "check" /\ bg' = "build" /\ SendNow
            /\ UNCHANGED <<built, block, ready>>
        BY <2>3 DEF StartBlock, pendVars
      <3>2. ready[Identify] # <<>>
        BY <3>1, SendNeedsReady
      <3>. QED
        BY <3>1, <3>2 DEF FilledInv
    <2>4. CASE WriteBlocks \/ CommandEvent
      BY <1>2, <2>4 DEF WriteBlocks, CommandEvent, Polling
    <2>5. CASE KickEvent \/ RetransmitEvent \/ PullNothing \/ Tick
      BY <1>1, <2>5 DEF KickEvent, RetransmitEvent, PullNothing, Tick, queueVars, seqVars, pendVars, recvVars, bgVars
    <2>. QED
      BY <1>6, <2>1, <2>2, <2>3, <2>4, <2>5 DEF Aside
  <1>7. CASE StoreBlock
    <2>. DEFINE out == [seq |-> sendSeq, cmds |-> block]
    <2>1. /\ bg = "build" /\ (Len(block) = BlockMax \/ ReadyClocks = {})
          /\ built' = Append(built, out) /\ block' = <<>> /\ bg' = "check"
      BY <1>7 DEF StoreBlock
    <2>2. block # <<>>
      BY <1>7, StoredIsFilled
    <2>3. out \in Blocks /\ out.cmds # <<>>
      BY <1>0, <2>2 DEF Blocks
    <2>. HIDE DEF out
    <2>4. \A i \in 1 .. Len(built') : (i \in 1 .. Len(built) /\ built'[i] = built[i]) \/ built'[i] = out
      BY <1>0, <2>1, <2>3
    <2>. QED
      BY <2>1, <2>3, <2>4 DEF FilledInv
  <1>8. CASE HandleMessage
    BY <1>2, <1>8 DEF HandleMessage, Polling, bgVars
  <1>9. CASE McuTake \/ McuAcknowledge \/ McuNak \/ McuReport \/ LoseBlock \/ LoseMessage
    BY <1>1, <1>9 DEF McuTake, McuAcknowledge, McuNak, McuReport, LoseBlock, LoseMessage,
                      queueVars, seqVars, pendVars, recvVars, bgVars
  <1>10. ASSUME NEW i \in 1 .. Len(pendingQueues), AddCommand(i) PROVE FilledInv'
    <2>. DEFINE cmd == Head(ready[Identify])
                entry == [cmd |-> cmd, seq |-> sendSeq]
    <2>1. pendingQueues[i] = Identify
      BY IdentifyIsQueue DEF ReaderInv, IInv, TypeOK, SenderTypeOK
    <2>2. ready[Identify] # <<>>
      BY <1>10, <2>1 DEF AddCommand, MostUrgent
    <2>3. cmd \in Notified
      BY <1>0, <2>2, IdentifyIsQueue, ReaderAssumption, HeadTailProperties
    <2>4. /\ block' = Append(block, cmd) /\ UNCHANGED <<built, bg, sendSeq>> /\ bg = "build"
          /\ notifyQueue' = Append(notifyQueue, entry)
      BY <1>10, <2>1, <2>3 DEF AddCommand, seqVars
    <2>5. notifyQueue = <<>>
      BY <1>0, <2>2, ReadyAlone
    <2>6. block' # <<>>
      BY <1>0, <2>4
    <2>7. entry.seq = sendSeq
      OBVIOUS
    <2>. HIDE DEF entry
    <2>8. notifyQueue' # <<>> /\ notifyQueue'[1] = entry
      BY <2>4, <2>5
    <2>. QED
      BY <2>4, <2>6, <2>7, <2>8 DEF FilledInv
  <1>. QED
    BY <1>3, <1>4, <1>5, <1>6, <1>7, <1>8, <1>9, <1>10, StepsAlive

\* Blocks on their way have commands.
LEMMA BlocksFilled ==
    ASSUME IInv, KnownInv, FilledInv, toMcu # <<>>, Wire = toMcu
    PROVE  Head(toMcu) \in Blocks /\ Head(toMcu).cmds # <<>>
  <1>1. toMcu \in Seq(Blocks) /\ built \in Seq(Blocks)
    BY LinkFacts DEF IInv, TypeOK, HistoryTypeOK
  <1>2. Head(toMcu) \in Range(toMcu)
    BY <1>1, QueueRange
  <1>3. Head(toMcu) \in Range(built)
    BY <1>2 DEF KnownInv
  <1>4. Range(built) = {built[i] : i \in 1 .. Len(built)}
    BY <1>1, QueueRange
  <1>5. Head(toMcu) \in Blocks
    BY <1>1, HeadTailProperties
  <1>. QED
    BY <1>3, <1>4, <1>5 DEF FilledInv

\* What the controller sends when it takes a block, and what has become of the
\* numbers.
LEMMA TakeAnswers ==
    ASSUME IInv, KnownInv, FilledInv, McuTake
    PROVE  \E t \in Seq(Messages) :
             /\ toHost' = toHost \o t /\ t # <<>> /\ IsAnswer(t[1])
             /\ \A i \in 1 .. Len(t) : IsAnswer(t[i]) /\ t[i].seq = mcuSeq + 1
             /\ mcuSeq < sendSeq /\ mcuSeq' = mcuSeq + 1 /\ Start' = Start
  <1>1. Wire = toMcu /\ toMcu # <<>> /\ mcuSeq < sendSeq
    BY TakenIsExpected
  <1>. DEFINE cmds == Head(toMcu).cmds
              t == AnswersTo(cmds, mcuSeq + 1)
  <1>2. Head(toMcu) \in Blocks /\ cmds # <<>>
    BY <1>1, BlocksFilled
  <1>3. cmds \in Seq(Commands) /\ mcuSeq + 1 \in Nat
    BY <1>2, LinkFacts DEF Blocks
  <1>. HIDE DEF cmds
  <1>4. /\ t \in Seq(Messages) /\ t # <<>> /\ IsAnswer(t[1])
        /\ \A i \in 1 .. Len(t) : IsAnswer(t[i]) /\ t[i].seq = mcuSeq + 1
    BY <1>2, <1>3, AnswersOfBlock
  <1>5. toHost' = toHost \o t /\ mcuSeq' = mcuSeq + 1 /\ executed' = Append(executed, Head(toMcu))
    BY DEF McuTake, cmds
  <1>. HIDE DEF t
  <1>6. Len(executed') = Len(executed) + 1
    <2>1. executed \in Seq(Blocks)
      BY DEF IInv, TypeOK, HistoryTypeOK
    <2>. QED
      BY <1>5, <2>1
  <1>7. Start' = Start
    <2>1. executed \in Seq(Blocks)
      BY DEF IInv, TypeOK, HistoryTypeOK
    <2>. QED
      BY <1>5, <1>6, <2>1, LinkFacts DEF Start
  <1>. QED
    BY <1>1, <1>4, <1>5, <1>7

\* What else the controller sends: no answers, and what it reports is counted.
LEMMA OthersSend ==
    ASSUME IInv, McuAcknowledge \/ McuNak \/ McuReport \/ LoseBlock
    PROVE  /\ \E t \in Seq(Messages) :
                toHost' = toHost \o t /\ \A i \in 1 .. Len(t) : ~IsAnswer(t[i]) /\ t[i].seq = mcuSeq
           /\ Spare' = Spare /\ losses' \in {losses, losses + 1}
           /\ UNCHANGED <<sendSeq, receiveSeq, mcuSeq, executed, notifyQueue, receiveQueue, block>>
  <1>0. /\ toHost \in Seq(Messages) /\ mcuSeq \in Nat /\ reports \in Nat /\ Reported(toHost) \in Nat
    BY LinkFacts, ReportedIs DEF IInv, TypeOK, HistoryTypeOK
  <1>1. UNCHANGED <<sendSeq, receiveSeq, mcuSeq, executed, notifyQueue, receiveQueue, block>>
    BY DEF McuAcknowledge, McuNak, McuReport, LoseBlock, queueVars, seqVars, recvVars, bgVars, mcuVars
  <1>2. losses' \in {losses, losses + 1}
    BY DEF McuAcknowledge, McuNak, McuReport, LoseBlock
  <1>3. ASSUME NEW m \in Messages, m.seq = mcuSeq, ~IsAnswer(m), toHost' = Append(toHost, m)
        PROVE  \E t \in Seq(Messages) :
                 toHost' = toHost \o t /\ \A i \in 1 .. Len(t) : ~IsAnswer(t[i]) /\ t[i].seq = mcuSeq
    <2>. DEFINE t == <<m>>
    <2>1. t \in Seq(Messages) /\ Len(t) = 1 /\ t[1] = m
      OBVIOUS
    <2>2. toHost' = toHost \o t
      BY <1>0, <1>3, AppendIsConcat
    <2>. HIDE DEF t
    <2>3. \A i \in 1 .. Len(t) : ~IsAnswer(t[i]) /\ t[i].seq = mcuSeq
      BY <1>3, <2>1
    <2>. QED
      BY <2>1, <2>2, <2>3
  <1>4. CASE toHost' = Append(toHost, Ack(mcuSeq)) /\ reports' = reports
    <2>1. PICK m \in Messages : m = Ack(mcuSeq) /\ m.seq = mcuSeq /\ ~IsAnswer(m) /\ ~IsReport(m)
      <3>1. Ack(mcuSeq) \in Messages
        BY <1>0 DEF Ack, Messages
      <3>2. Ack(mcuSeq).seq = mcuSeq /\ ~IsAnswer(Ack(mcuSeq)) /\ ~IsReport(Ack(mcuSeq))
        BY DEF Ack, IsAnswer, IsReport
      <3>. QED
        BY <3>1, <3>2
    <2>2. Reported(toHost') = Reported(toHost)
      BY <1>0, <1>4, <2>1, ReportedAppend
    <2>. QED
      BY <1>1, <1>2, <1>3, <1>4, <2>1, <2>2 DEF Spare
  <1>5. CASE toHost' = Append(toHost, Answer(mcuSeq, NoCommand)) /\ reports' = reports + 1
    <2>1. PICK m \in Messages : m = Answer(mcuSeq, NoCommand) /\ m.seq = mcuSeq /\ ~IsAnswer(m) /\ IsReport(m)
      <3>1. Answer(mcuSeq, NoCommand) \in Messages
        BY <1>0 DEF Answer, Messages
      <3>2. /\ Answer(mcuSeq, NoCommand).seq = mcuSeq
            /\ ~IsAnswer(Answer(mcuSeq, NoCommand)) /\ IsReport(Answer(mcuSeq, NoCommand))
        BY DEF Answer, IsAnswer, IsReport
      <3>. QED
        BY <3>1, <3>2
    <2>2. Reported(toHost') = Reported(toHost) + 1
      BY <1>0, <1>5, <2>1, ReportedAppend
    <2>3. Spare' = Spare
      BY <1>0, <1>5, <2>2 DEF Spare
    <2>. QED
      BY <1>1, <1>2, <1>3, <1>5, <2>1, <2>3
  <1>6. CASE UNCHANGED <<toHost, reports>>
    <2>. DEFINE t == <<>>
    <2>1. t \in Seq(Messages) /\ Len(t) = 0 /\ toHost' = toHost \o t
      BY <1>0, <1>6, ConcatEmptySeq
    <2>. HIDE DEF t
    <2>2. \A i \in 1 .. Len(t) : ~IsAnswer(t[i]) /\ t[i].seq = mcuSeq
      BY <2>1
    <2>3. Spare' = Spare
      BY <1>6 DEF Spare
    <2>. QED
      BY <1>1, <1>2, <2>1, <2>2, <2>3
  <1>. QED
    BY <1>4, <1>5, <1>6 DEF McuAcknowledge, McuNak, McuReport, LoseBlock, mcuVars

LEMMA StartInvStep ==
    ASSUME ReaderInv, KnownInv, FilledInv, CallInv, StartInv, [ReaderNext]_allVars, ~mustExit, ~mustExit'
    PROVE  StartInv' /\ Start' = Start
  <1>0. /\ IInv /\ toHost \in Seq(Messages) /\ {mcuSeq, sendSeq} \subseteq Nat \ {0} /\ executed \in Seq(Blocks)
    BY LinkFacts DEF ReaderInv, IInv, TypeOK, HistoryTypeOK
  <1>1. ASSUME UNCHANGED <<mcuSeq, executed, toHost, sendSeq>> PROVE StartInv' /\ Start' = Start
    BY <1>1 DEF StartInv, Start
  <1>2. CASE Leaves \/ Aside
    BY <1>1, <1>2, AsideLeaves DEF Leaves, vars, queueVars, seqVars, mcuVars, wireVars, linkView
  <1>3. CASE PullResponse
    BY <1>1, <1>3 DEF PullResponse, PullMessage, seqVars, mcuVars, wireVars
  <1>4. CASE StoreBlock
    <2>1. UNCHANGED <<mcuSeq, executed, toHost>> /\ sendSeq' = sendSeq + 1
      BY <1>4 DEF StoreBlock, mcuVars, wireVars
    <2>2. Start' = Start
      BY <2>1 DEF Start
    <2>. QED
      BY <1>0, <2>1, <2>2 DEF StartInv
  <1>5. CASE HandleMessage
    <2>1. PICK r \in Nat \ {0} : r = Head(toHost).seq
      BY <1>0, <1>5, NumberIsRebuilt DEF HandleMessage
    <2>2. /\ toHost # <<>> /\ toHost' = Tail(toHost) /\ UNCHANGED <<mcuSeq, executed>>
          /\ sendSeq' = sendSeq \/ (r > sendSeq /\ sendSeq' = r)
      BY <1>0, <1>5, <2>1, HandleLeaves DEF mcuVars
    <2>3. NumbersFrom(toHost', Start)
      BY <1>0, <2>2, NumbersTail DEF StartInv
    <2>4. Start' = Start
      BY <2>2 DEF Start
    <2>. QED
      BY <1>0, <2>2, <2>3, <2>4 DEF StartInv
  <1>6. CASE McuTake
    <2>1. PICK t \in Seq(Messages) :
            /\ toHost' = toHost \o t
            /\ \A i \in 1 .. Len(t) : IsAnswer(t[i]) /\ t[i].seq = mcuSeq + 1
            /\ mcuSeq < sendSeq /\ mcuSeq' = mcuSeq + 1 /\ Start' = Start
      BY <1>0, <1>6, TakeAnswers
    <2>2. sendSeq' = sendSeq
      BY <1>6 DEF McuTake, queueVars, seqVars
    <2>3. Start <= mcuSeq /\ Start \in Nat
      BY <1>0 DEF StartInv, Start
    <2>4. NumbersFrom(t, Start)
      BY <1>0, <2>1, <2>3 DEF NumbersFrom
    <2>5. NumbersFrom(toHost', Start)
      BY <1>0, <2>1, <2>4, NumbersConcat DEF StartInv
    <2>6. Start = 1 => mcuSeq' <= sendSeq'
      BY <1>0, <2>1, <2>2
    <2>. QED
      BY <2>1, <2>5, <2>6 DEF StartInv
  <1>7. CASE McuAcknowledge \/ McuNak \/ McuReport \/ LoseBlock
    <2>1. PICK t \in Seq(Messages) :
            toHost' = toHost \o t /\ \A i \in 1 .. Len(t) : ~IsAnswer(t[i]) /\ t[i].seq = mcuSeq
      BY <1>0, <1>7, OthersSend
    <2>2. UNCHANGED <<mcuSeq, executed, sendSeq>>
      BY <1>0, <1>7, OthersSend
    <2>3. Start <= mcuSeq /\ Start \in Nat
      BY <1>0 DEF StartInv, Start
    <2>4. NumbersFrom(t, Start)
      BY <2>1, <2>3 DEF NumbersFrom
    <2>5. NumbersFrom(toHost', Start)
      BY <1>0, <2>1, <2>4, NumbersConcat DEF StartInv
    <2>6. Start' = Start
      BY <2>2 DEF Start
    <2>. QED
      BY <2>2, <2>5, <2>6 DEF StartInv
  <1>8. CASE LoseMessage
    <2>1. toHost # <<>> /\ toHost' = Tail(toHost) /\ UNCHANGED <<mcuSeq, executed, sendSeq>>
      BY <1>8 DEF LoseMessage, queueVars, seqVars, mcuVars
    <2>2. NumbersFrom(toHost', Start)
      BY <1>0, <2>1, NumbersTail DEF StartInv
    <2>3. Start' = Start
      BY <2>1 DEF Start
    <2>. QED
      BY <2>1, <2>2, <2>3 DEF StartInv
  <1>9. ASSUME NEW i \in 1 .. Len(pendingQueues), AddCommand(i) PROVE StartInv' /\ Start' = Start
    BY <1>1, <1>9 DEF AddCommand, seqVars, mcuVars, wireVars
  <1>. QED
    BY <1>2, <1>3, <1>4, <1>5, <1>6, <1>7, <1>8, <1>9, StepsAlive

LEMMA CallInvStep ==
    ASSUME CallInv, TypeOK, [ReaderNext]_allVars, ~mustExit, ~mustExit',
           identify' = "error" => identify = "error"
    PROVE  CallInv'
  <1>. USE DEF readerVars, identifyVars, handlerVars
  <1>1. losses' <= MaxLosses /\ reports' <= MaxReports /\ UNCHANGED puller /\ bg' # "ended"
    <2>0. CallInv /\ losses <= MaxLosses /\ reports <= MaxReports /\ bg # "ended"
      BY DEF CallInv
    <2>k. losses \in Nat /\ reports \in Nat /\ MaxLosses \in Nat /\ MaxReports \in Nat
      BY LinkAssumption DEF TypeOK, HistoryTypeOK
    <2>1. ASSUME UNCHANGED <<losses, reports, puller, bg>>
          PROVE  losses' <= MaxLosses /\ reports' <= MaxReports /\ UNCHANGED puller /\ bg' # "ended"
      BY <2>0, <2>1
    <2>2. CASE Leaves
      BY <2>1, <2>2 DEF Leaves, vars, queueVars, bgVars, recvVars, mcuVars, wireVars
    <2>3. CASE PullResponse
      BY <2>1, <2>3 DEF PullResponse, PullMessage, bgVars, mcuVars, wireVars
    <2>4. CASE Aside
      <3>1. losses' = losses /\ reports' = reports
        BY <2>4, AsideLeaves DEF linkView
      <3>2. UNCHANGED puller
        BY <2>4 DEF Aside, SendBatch, KickBgThread, MoveDue, StartBlock, WriteBlocks, CommandEvent, KickEvent,
                    RetransmitEvent, PullNothing, Tick, queueVars, recvVars
      <3>3. bg' # "ended"
        BY <2>0, <2>4 DEF Aside, SendBatch, KickBgThread, MoveDue, StartBlock, WriteBlocks, CommandEvent, KickEvent,
                    RetransmitEvent, PullNothing, Tick, queueVars, bgVars
      <3>. QED
        BY <2>0, <3>1, <3>2, <3>3
    <2>5. CASE StoreBlock \/ HandleMessage \/ \E i \in 1 .. Len(pendingQueues) : AddCommand(i)
      BY <2>0, <2>5 DEF StoreBlock, HandleMessage, AddCommand, recvVars, bgVars, mcuVars, wireVars
    <2>6. CASE McuTake \/ McuAcknowledge \/ McuNak
      BY <2>0, <2>6 DEF McuTake, McuAcknowledge, McuNak, queueVars, recvVars, bgVars, mcuVars
    <2>7. CASE McuReport
      <3>1. reports < MaxReports /\ reports' = reports + 1 /\ UNCHANGED <<losses, puller, bg>>
        BY <2>7 DEF McuReport, queueVars, recvVars, bgVars
      <3>2. reports' <= MaxReports
        BY <2>k, <3>1
      <3>. QED
        BY <2>0, <3>1, <3>2
    <2>8. CASE LoseBlock \/ LoseMessage
      <3>1. losses < MaxLosses /\ losses' = losses + 1 /\ UNCHANGED <<reports, puller, bg>>
        BY <2>8 DEF LoseBlock, LoseMessage, queueVars, recvVars, bgVars, mcuVars
      <3>2. losses' <= MaxLosses
        BY <2>k, <3>1
      <3>. QED
        BY <2>0, <3>1, <3>2
    <2>. QED
      BY <2>2, <2>3, <2>4, <2>5, <2>6, <2>7, <2>8, StepsAlive
  <1>2. /\ identify' \in {"send", "wait", "pause"} => registered'
        /\ completion' # "closed" /\ session' \in {"waiting", "connected"}
    <2>1. CASE Notice
      <3>0. UNCHANGED <<completion, session>> /\ identify = "wait" /\ registered /\ completion # "closed"
            /\ session \in {"waiting", "connected"} /\ identify' # "error"
        BY <2>1 DEF Notice, CallInv
      <3>1. \/ UseParams
            \/ identify' = "pause" /\ UNCHANGED handlerVars
        BY <2>1, <3>0 DEF Notice
      <3>2. CASE UseParams
        BY <3>0, <3>2 DEF UseParams, NextRequest
      <3>3. CASE identify' = "pause" /\ UNCHANGED handlerVars
        BY <3>0, <3>3
      <3>. QED
        BY <3>1, <3>2, <3>3
    <2>2. CASE RetryDelayEnds \/ SessionStarts \/ UNCHANGED readerVars
      BY <2>2 DEF RetryDelayEnds, SessionStarts, CallInv
    <2>3. CASE RawSendWaitAck
      BY <2>3 DEF RawSendWaitAck, CallInv
    <2>4. CASE PullResponse
      BY <2>4 DEF PullResponse, CallInv
    <2>. QED
      BY <2>1, <2>2, <2>3, <2>4, StepsAlive
  <1>. QED
    BY <1>1, <1>2 DEF CallInv

\* The numbers of the charge.
ChargeTypes ==
    /\ retries \in 0 .. Retries /\ Retries \in Nat /\ losses \in Nat /\ Spare \in Int /\ Due \in {0, 1}
    /\ IInv /\ LinkTypeOK /\ TypeOK
    /\ receiveSeq \in Nat \ {0} /\ mcuSeq \in Nat \ {0} /\ sendSeq \in Nat \ {0}
    /\ toHost \in Seq(Messages) /\ receiveQueue \in Seq(Arrivals)
    /\ notifyQueue \in Seq([cmd : Commands, seq : Nat])

LEMMA ChargeTyped == ReaderInv => ChargeTypes
  <1>. SUFFICES ASSUME ReaderInv PROVE ChargeTypes
    OBVIOUS
  <1>1. IInv /\ TypeOK /\ LinkTypeOK
    BY DEF ReaderInv, IInv, TypeOK
  <1>2. /\ retries \in 0 .. Retries /\ Retries \in Nat /\ losses \in Nat /\ reports \in Nat
        /\ toHost \in Seq(Messages) /\ receiveQueue \in Seq(Arrivals)
        /\ receiveSeq \in Nat \ {0} /\ mcuSeq \in Nat \ {0} /\ sendSeq \in Nat \ {0}
        /\ notifyQueue \in Seq([cmd : Commands, seq : Nat])
    BY <1>1, ReaderAssumption DEF ReaderInv, ReaderTypes, TypeOK, HistoryTypeOK, LinkTypeOK, PullerTypeOK, NumbersTypeOK
  <1>3. Reported(toHost) \in Nat
    BY <1>2, ReportedIs
  <1>4. Spare \in Int
    BY <1>2, <1>3 DEF Spare
  <1>5. Due \in {0, 1}
    BY DEF Due
  <1>. QED
    BY <1>1, <1>2, <1>4, <1>5 DEF ChargeTypes

LEMMA ChargeTypedBoth ==
    ASSUME ReaderInv, ReaderInv'
    PROVE  ChargeTypes /\ ChargeTypes'
  BY ChargeTyped, PTL

\* A query is no longer fine only for a loss or a report.
LEMMA Pays ==
    ASSUME ReaderInv, ReaderInv', ChargeInv, UNCHANGED <<identify, retries>>,
           Start' = Start, Strange' <=> Strange, Strange => UNCHANGED <<receiveQueue, completion>>,
           losses <= losses', Spare <= Spare',
           ~Strange /\ identify = "wait" /\ Fine => Fine' \/ losses < losses' \/ (Start = 1 /\ Spare < Spare')
    PROVE  ChargeInv'
  <1>1. CASE Strange
    BY <1>1 DEF ChargeInv
  <1>2. CASE ~Strange
    <2>1. /\ retries \in Int /\ Retries \in Int /\ losses \in Int /\ Spare \in Int /\ Due \in {0, 1}
          /\ losses' \in Int /\ Spare' \in Int /\ Due' \in {0, 1}
      BY ChargeTypedBoth DEF ChargeTypes
    <2>2. Due' = Due \/ Due' = 0 \/ losses < losses' \/ (Start = 1 /\ Spare < Spare')
      BY <1>2 DEF Due
    <2>3. Retries - retries + Due <= losses + (IF Start = 1 THEN Spare ELSE 1)
      BY <1>2 DEF ChargeInv
    <2>4. PICK d, e, l, m, x, y : d = Due /\ e = Due' /\ l = losses /\ m = losses' /\ x = Spare /\ y = Spare'
      OBVIOUS
    <2>5. Retries - retries + e <= m + (IF Start = 1 THEN y ELSE 1)
      <3>1. CASE Start = 1
        <4>1. Retries - retries + d <= l + x /\ l <= m /\ x <= y /\ (e = d \/ e = 0 \/ l < m \/ x < y)
          BY <2>2, <2>3, <2>4, <3>1
        <4>2. Retries \in Int /\ retries \in Int /\ l \in Int /\ x \in Int /\ d \in {0, 1}
              /\ m \in Int /\ y \in Int /\ e \in {0, 1}
          BY <2>1, <2>4
        <4>. HIDE <2>4
        <4>. QED
          BY <4>1, <4>2, <3>1
      <3>2. CASE Start # 1
        <4>1. Retries - retries + d <= l + 1 /\ l <= m /\ (e = d \/ e = 0 \/ l < m)
          BY <2>2, <2>3, <2>4, <3>2
        <4>2. Retries \in Int /\ retries \in Int /\ l \in Int /\ d \in {0, 1} /\ m \in Int /\ e \in {0, 1}
          BY <2>1, <2>4
        <4>. HIDE <2>4
        <4>. QED
          BY <4>1, <4>2, <3>2
      <3>. QED
        BY <3>1, <3>2
    <2>6. Retries' - retries' + Due' <= losses' + (IF Start' = 1 THEN Spare' ELSE 1)
      BY <2>4, <2>5
    <2>. QED
      BY <1>2, <2>6 DEF ChargeInv
  <1>. QED
    BY <1>1, <1>2

\* What keeps a query fine.
LEMMA StaysFine ==
    ASSUME UNCHANGED <<lastParams, completion>>, AnswerFirst => AnswerFirst',
           NoNotice(receiveQueue) /\ OnTime => AnswerFirst' \/ (NoNotice(receiveQueue)' /\ OnTime')
    PROVE  Fine => Fine'
  BY DEF Fine

\* An answer under way stays under way when more messages follow.
LEMMA StillComes ==
    ASSUME toHost \in Seq(Messages), NEW t \in Seq(Messages), toHost' = toHost \o t, sendSeq' = sendSeq
    PROVE  AnswerComes => AnswerComes'
  <1>1. Earlier' = Earlier
    BY DEF Earlier
  <1>2. Leads(toHost, Answers, Earlier) => Leads(toHost \o t, Answers, Earlier)
    BY LeadsConcat
  <1>. QED
    BY <1>1, <1>2 DEF AnswerComes

\* A message tells whoever waits for a block before its own, and an answer or a
\* report nobody of the block just before either.
LEMMA WakeIsBehind ==
    ASSUME NEW m \in Messages, m.seq # 0
    PROVE  /\ m.data /\ m.seq # 1 => WakeSeq(m, m.seq) <= m.seq - 2
           /\ ~m.data => WakeSeq(m, m.seq) <= m.seq - 1
  <1>1. m.seq \in Nat \ {0} /\ WordSize \in Nat \ {0}
    BY LinkAssumption DEF Messages
  <1>2. ASSUME m.data, m.seq # 1 PROVE WakeSeq(m, m.seq) <= m.seq - 2
    <2>1. WakeSeq(m, m.seq) = (m.seq - 2) % WordSize
      <3>1. m.seq - 1 - 1 = m.seq - 2
        BY <1>1
      <3>. QED
        BY <1>2, <3>1 DEF WakeSeq
    <2>2. m.seq - 2 \in Nat
      BY <1>1, <1>2
    <2>. QED
      BY <1>1, <2>1, <2>2, RemainderBound
  <1>3. ASSUME ~m.data PROVE WakeSeq(m, m.seq) <= m.seq - 1
    <2>1. WakeSeq(m, m.seq) = (m.seq - 1) % WordSize
      <3>1. m.seq - 1 - 0 = m.seq - 1
        BY <1>1
      <3>. QED
        BY <1>3, <3>1 DEF WakeSeq
    <2>2. m.seq - 1 \in Nat
      BY <1>1
    <2>. QED
      BY <1>1, <2>1, <2>2, RemainderBound
  <1>. QED
    BY <1>2, <1>3

\* What arrives with a message: it tells the first who waits, or it tells
\* nobody.
LEMMA HandleArrives ==
    ASSUME IInv, IInv', HandleMessage, NEW m, m = Head(toHost)
    PROVE  \E t \in Seq(Arrivals) :
             /\ receiveQueue' = receiveQueue \o t
             /\ \/ notifyQueue # <<>> /\ notifyQueue[1].seq <= WakeSeq(m, m.seq)
                \/ /\ notifyQueue' = notifyQueue /\ NoNotice(t)
                   /\ IsAnswer(m) => t # <<>> /\ IsAnswer(t[1])
  <1>. DEFINE r == m.seq
  <1>1. m \in Messages /\ Rebuild(r) = r /\ ~Invalid(r)
    BY NumberIsRebuilt DEF HandleMessage
  <1>2. lastReceiveSent' \in Nat
    BY DEF IInv, TypeOK, NumbersTypeOK
  <1>. DEFINE new == [data |-> TRUE, about |-> m.about, sent |-> SentBlock(r)]
  <1>3. new \in Arrivals /\ new.data /\ new.about = m.about
    BY <1>1, <1>2 DEF Arrivals, SentBlock, Messages
  <1>. DEFINE arrived == IF m.data THEN <<new>> ELSE <<>>
  <1>5. PICK n \in 0 .. Len(notifyQueue) :
          /\ Told(n, WakeSeq(m, r))
          /\ notifyQueue' = SubSeq(notifyQueue, n + 1, Len(notifyQueue))
          /\ receiveQueue' = receiveQueue \o [i \in 1 .. n |-> Notification(notifyQueue[i])] \o arrived
    BY <1>1 DEF HandleMessage
  <1>4. /\ arrived \in Seq(Arrivals) /\ NoNotice(arrived)
        /\ IsAnswer(m) => arrived # <<>> /\ IsAnswer(arrived[1])
    <2>. HIDE DEF new
    <2>1. arrived \in Seq(Arrivals) /\ NoNotice(arrived)
      BY <1>3 DEF NoNotice
    <2>2. ASSUME IsAnswer(m) PROVE arrived # <<>> /\ IsAnswer(arrived[1])
      <3>1. arrived = <<new>>
        BY <2>2 DEF IsAnswer
      <3>2. <<new>> # <<>> /\ <<new>>[1] = new
        OBVIOUS
      <3>. QED
        BY <1>3, <2>2, <3>1, <3>2 DEF IsAnswer
    <2>. QED
      BY <2>1, <2>2
  <1>. HIDE DEF arrived, new
  <1>. DEFINE told == [i \in 1 .. n |-> Notification(notifyQueue[i])]
              Entries == [cmd : Commands, seq : Nat]
  <1>6. notifyQueue \in Seq(Entries) /\ receiveQueue \in Seq(Arrivals)
    BY DEF IInv, TypeOK, PullerTypeOK
  <1>7. told \in Seq(Arrivals)
    <2>1. \A i \in 1 .. n : Notification(notifyQueue[i]) \in Arrivals
      <3>1. ASSUME NEW i \in 1 .. n PROVE notifyQueue[i] \in Entries
        <4>1. Len(notifyQueue) \in Nat
          BY <1>6
        <4>2. i \in 1 .. Len(notifyQueue)
          BY <1>5, <4>1
        <4>. HIDE DEF Entries
        <4>. QED
          BY <1>6, <4>2, ElementOfSeq
      <3>. QED
        BY <1>2, <3>1 DEF Notification, Arrivals
    <2>. QED
      BY <1>5, <1>6, <2>1
  <1>. HIDE DEF Entries
  <1>8. CASE n = 0
    <2>1. told = <<>>
      BY <1>8
    <2>2. receiveQueue' = receiveQueue \o arrived
      <3>1. receiveQueue \o <<>> = receiveQueue
        BY <1>6, ConcatEmptySeq
      <3>. QED
        BY <1>5, <2>1, <3>1
    <2>3. notifyQueue' = notifyQueue
      BY <1>5, <1>6, <1>8
    <2>. QED
      BY <1>4, <2>2, <2>3
  <1>9. CASE n # 0
    <2>1. notifyQueue # <<>> /\ 1 \in 1 .. n
      BY <1>5, <1>6, <1>9
    <2>2. notifyQueue[1].seq <= WakeSeq(m, r)
      BY <1>5, <2>1 DEF Told
    <2>. HIDE DEF told
    <2>3. told \o arrived \in Seq(Arrivals)
      BY <1>4, <1>7, ConcatProperties
    <2>4. receiveQueue' = receiveQueue \o (told \o arrived)
      <3>1. receiveQueue' = (receiveQueue \o told) \o arrived
        BY <1>5 DEF told
      <3>. QED
        BY <1>4, <1>6, <1>7, <3>1, ConcatAssociative
    <2>. QED
      BY <2>1, <2>2, <2>3, <2>4
  <1>. QED
    BY <1>8, <1>9

\* After the first contact the controller is not ahead.
LEMMA NotAhead ==
    ASSUME IInv, StartInv, ~Strange
    PROVE  mcuSeq <= sendSeq
  <1>1. CASE receiveSeq # 1
    BY <1>1, LinkFacts DEF IInv, AheadInv
  <1>2. CASE receiveSeq = 1
    BY <1>2 DEF StartInv, Strange
  <1>. QED
    BY <1>1, <1>2

\* A message leaves the query fine, unless it is a report that counts.
LEMMA HandleStaysFine ==
    ASSUME IInv, IInv', FilledInv, StartInv, ~Strange, Fine, HandleMessage, UNCHANGED readerVars,
           ~(IsReport(Head(toHost)) /\ Start = 1)
    PROVE  Fine'
  <1>1. PICK m \in Messages : m = Head(toHost) /\ m.seq \in Nat \ {0} /\ m.seq <= mcuSeq
    BY NumberIsRebuilt DEF HandleMessage
  <1>2. /\ toHost \in Seq(Messages) /\ toHost # <<>> /\ toHost' = Tail(toHost) /\ UNCHANGED mcuSeq
        /\ {mcuSeq, sendSeq} \subseteq Nat \ {0} /\ bg = "poll"
    BY <1>1, LinkFacts, HandleLeaves DEF mcuVars
  <1>3. mcuSeq <= sendSeq
    BY NotAhead
  <1>4. sendSeq' = sendSeq
    <2>1. sendSeq' = sendSeq \/ m.seq > sendSeq
      BY <1>1, HandleLeaves
    <2>. QED
      BY <1>1, <1>2, <1>3, <2>1
  <1>5. PICK t \in Seq(Arrivals) :
          /\ receiveQueue' = receiveQueue \o t
          /\ \/ notifyQueue # <<>> /\ notifyQueue[1].seq <= WakeSeq(m, m.seq)
             \/ /\ notifyQueue' = notifyQueue /\ NoNotice(t)
                /\ IsAnswer(m) => t # <<>> /\ IsAnswer(t[1])
    BY <1>1, HandleArrives
  <1>6. receiveQueue \in Seq(Arrivals) /\ notifyQueue \in Seq([cmd : Commands, seq : Nat])
    BY DEF IInv, TypeOK, PullerTypeOK
  <1>7. UNCHANGED <<lastParams, completion>>
    BY DEF readerVars, handlerVars
  <1>8. AnswerFirst => AnswerFirst'
    BY <1>5, <1>6, LeadsConcat DEF AnswerFirst
  <1>9. ASSUME NoNotice(receiveQueue), OnTime
        PROVE  AnswerFirst' \/ (NoNotice(receiveQueue)' /\ OnTime')
    <2>1. ~(notifyQueue # <<>> /\ notifyQueue[1].seq <= WakeSeq(m, m.seq))
      <3>1. SUFFICES ASSUME notifyQueue # <<>>
                     PROVE  ~(notifyQueue[1].seq <= WakeSeq(m, m.seq))
        OBVIOUS
      <3>2. block = <<>>
        BY <1>2 DEF FilledInv
      <3>3. notifyQueue[1].seq = sendSeq - 1 /\ (mcuSeq < sendSeq \/ AnswerComes)
        BY <1>9, <3>1, <3>2 DEF OnTime
      <3>4. m.data => m.seq # 1
        <4>1. Start <= m.seq /\ (IsAnswer(m) => Start < m.seq) /\ Start \in Nat \ {0}
          BY <1>1, <1>2, NumbersTail DEF StartInv
        <4>2. m.data => IsAnswer(m) \/ (IsReport(m) /\ Start # 1)
          BY <1>1 DEF IsAnswer, IsReport
        <4>. QED
          BY <1>1, <4>1, <4>2
      <3>5. ~m.data => m.seq < sendSeq
        <4>1. CASE mcuSeq < sendSeq
          BY <1>1, <1>2, <4>1
        <4>2. CASE AnswerComes
          <5>1. m \in Answers \/ m \in Earlier
            BY <1>1, <1>2, <4>2, LeadsTail DEF AnswerComes
          <5>. QED
            BY <5>1 DEF Answers, Earlier, IsAnswer
        <4>. QED
          BY <3>3, <4>1, <4>2
      <3>6. PICK w : w = WakeSeq(m, m.seq)
        OBVIOUS
      <3>7. (m.data => w <= m.seq - 2) /\ (~m.data => w <= m.seq - 1)
        BY <1>1, <3>4, <3>6, WakeIsBehind
      <3>8. w \in Int
        <4>1. m.seq - 1 - (IF m.data THEN 1 ELSE 0) \in Int /\ WordSize \in Nat \ {0}
          BY <1>1, LinkAssumption
        <4>. QED
          BY <3>6, <4>1 DEF WakeSeq
      <3>9. m.data \in BOOLEAN
        BY <1>1 DEF Messages
      <3>10. ~(sendSeq - 1 <= w)
        <4>0. PICK r \in Nat, s \in Nat : r = m.seq /\ s = sendSeq /\ r <= s
          BY <1>1, <1>2, <1>3
        <4>1. CASE m.data
          <5>1. w <= r - 2
            BY <3>7, <4>0, <4>1
          <5>2. ~(s - 1 <= w)
            BY <3>8, <4>0, <5>1
          <5>. QED
            BY <4>0, <5>2
        <4>2. CASE ~m.data
          <5>1. w <= r - 1 /\ r < s
            BY <3>5, <3>7, <4>0, <4>2
          <5>2. ~(s - 1 <= w)
            BY <3>8, <4>0, <5>1
          <5>. QED
            BY <4>0, <5>2
        <4>. QED
          BY <4>1, <4>2
      <3>. QED
        BY <3>3, <3>6, <3>10
    <2>2. notifyQueue' = notifyQueue /\ NoNotice(t) /\ (IsAnswer(m) => t # <<>> /\ IsAnswer(t[1]))
      BY <1>5, <2>1
    <2>3. CASE IsAnswer(m)
      <3>1. \A i \in 1 .. Len(receiveQueue) : receiveQueue[i] \in {a \in Arrivals : a.data}
        BY <1>6, <1>9, ElementOfSeq DEF NoNotice
      <3>2. t # <<>> /\ t[1] \in Arrivals /\ IsAnswer(t[1])
        BY <2>2, <2>3, ElementOfSeq
      <3>. QED
        BY <1>5, <1>6, <3>1, <3>2, LeadsConcat DEF AnswerFirst
    <2>4. CASE ~IsAnswer(m)
      <3>1. NoNotice(receiveQueue')
        BY <1>5, <1>6, <1>9, <2>2, AnswersArrive
      <3>2. AnswerComes => AnswerComes'
        <4>1. Earlier' = Earlier
          BY <1>4 DEF Earlier
        <4>2. m \notin Answers
          BY <2>4 DEF Answers
        <4>3. Leads(toHost, Answers, Earlier) => Leads(Tail(toHost), Answers, Earlier)
          BY <1>1, <1>2, <4>2, LeadsTail
        <4>. QED
          BY <1>2, <4>1, <4>3 DEF AnswerComes
      <3>3. block = <<>>
        BY <1>2 DEF FilledInv
      <3>4. OnTime'
        BY <1>2, <1>4, <1>9, <2>2, <3>2, <3>3 DEF OnTime
      <3>. QED
        BY <3>1, <3>4
    <2>. QED
      BY <2>3, <2>4
  <1>. QED
    BY <1>7, <1>8, <1>9, StaysFine

\* The first contact is paid for; later a message costs nothing.
LEMMA HandleCharges ==
    ASSUME ReaderInv, ReaderInv', FilledInv, StartInv, ChargeInv, Start' = Start,
           HandleMessage, UNCHANGED readerVars
    PROVE  ChargeInv'
  <1>0. IInv /\ IInv'
    BY DEF ReaderInv
  <1>1. PICK m \in Messages : m = Head(toHost) /\ m.seq \in Nat \ {0} /\ receiveSeq <= m.seq
    BY <1>0, NumberIsRebuilt DEF HandleMessage
  <1>2. /\ toHost \in Seq(Messages) /\ toHost # <<>> /\ toHost' = Tail(toHost) /\ receiveSeq' = m.seq
        /\ receiveSeq \in Nat \ {0} /\ UNCHANGED <<losses, reports>>
    BY <1>0, <1>1, LinkFacts, HandleLeaves DEF mcuVars
  <1>3. UNCHANGED <<identify, retries, completion>>
    BY DEF readerVars, identifyVars
  <1>6. losses \in Int
    BY ChargeTypedBoth DEF ChargeTypes
  <1>4. CASE Strange
    <2>1. Start \in Nat \ {0} /\ Start # 1 /\ Start <= m.seq
      BY <1>1, <1>2, <1>4, NumbersTail DEF StartInv, Strange
    <2>2. receiveSeq' # 1
      BY <1>1, <1>2, <2>1
    <2>3. ~Strange' /\ Start' # 1
      BY <2>1, <2>2 DEF Strange
    <2>4. retries = Retries
      BY <1>4 DEF ChargeInv
    <2>5. Retries \in Nat /\ losses \in Nat /\ Due' \in {0, 1}
      BY ChargeTypedBoth DEF ChargeTypes
    <2>6. PICK e : e = Due'
      OBVIOUS
    <2>7. Retries - retries + e <= losses + 1
      <3>1. Retries - retries = 0
        BY <2>4, <2>5
      <3>2. losses \in Nat /\ e \in {0, 1}
        BY <2>5, <2>6
      <3>. QED
        BY <3>1, <3>2
    <2>8. Retries' - retries' + Due' <= losses' + (IF Start' = 1 THEN Spare' ELSE 1)
      BY <1>2, <1>3, <2>3, <2>6, <2>7
    <2>. QED
      BY <2>3, <2>8 DEF ChargeInv
  <1>5. CASE ~Strange
    <2>1. ~Strange'
      BY <1>1, <1>2, <1>5 DEF Strange
    <2>2. Reported(toHost) = Reported(toHost') + (IF IsReport(m) THEN 1 ELSE 0)
      BY <1>1, <1>2, ReportedTail
    <2>3. Reported(toHost) \in Nat /\ Reported(toHost') \in Nat /\ reports \in Nat
      <3>1. toHost' \in Seq(Messages) /\ reports \in Nat
        BY <1>0, LinkFacts DEF IInv, TypeOK, HistoryTypeOK, LinkTypeOK
      <3>. QED
        BY <1>2, <3>1, ReportedIs
    <2>4. Spare <= Spare' /\ (IsReport(m) => Spare < Spare')
      <3>1. PICK x, y : x = Reported(toHost) /\ y = Reported(toHost')
        OBVIOUS
      <3>2. Spare = reports - x /\ Spare' = reports - y
        BY <1>2, <3>1 DEF Spare
      <3>3. x \in Nat /\ y \in Nat /\ x = y + (IF IsReport(m) THEN 1 ELSE 0)
        BY <2>2, <2>3, <3>1
      <3>. QED
        BY <2>3, <3>2, <3>3
    <2>5. Fine => Fine' \/ (Start = 1 /\ Spare < Spare')
      BY <1>0, <1>1, <1>5, <2>4, HandleStaysFine
    <2>6. losses <= losses'
      BY <1>2, <1>6
    <2>. QED
      BY <1>3, <1>5, <2>1, <2>4, <2>5, <2>6, Pays
  <1>. QED
    BY <1>4, <1>5

\* The controller answers a block, in time for the query in it.
LEMMA TakeCharges ==
    ASSUME ReaderInv, ReaderInv', KnownInv, FilledInv, StartInv, ChargeInv, McuTake, UNCHANGED readerVars
    PROVE  ChargeInv'
  <1>0. IInv /\ {mcuSeq, sendSeq} \subseteq Nat /\ toHost \in Seq(Messages) /\ InOrder(toHost, receiveSeq, mcuSeq)
        /\ losses \in Int /\ Spare \in Int
    BY LinkFacts, ChargeTypedBoth DEF ReaderInv, ChargeTypes
  <1>1. PICK t \in Seq(Messages) :
          /\ toHost' = toHost \o t /\ t # <<>> /\ IsAnswer(t[1])
          /\ \A i \in 1 .. Len(t) : IsAnswer(t[i])
          /\ mcuSeq < sendSeq /\ Start' = Start
    BY <1>0, TakeAnswers
  <1>2. /\ UNCHANGED <<sendSeq, receiveSeq, receiveQueue, notifyQueue, block, reports, losses>>
        /\ UNCHANGED <<identify, retries, completion, lastParams>>
    BY DEF McuTake, queueVars, seqVars, recvVars, bgVars, readerVars, identifyVars, handlerVars
  <1>3. Reported(toHost') = Reported(toHost)
    <2>1. \A i \in 1 .. Len(t) : ~IsReport(t[i])
      BY <1>1 DEF IsAnswer, IsReport
    <2>. QED
      BY <1>0, <1>1, <2>1, ReportedConcat
  <1>4. AnswerComes'
    <2>1. Earlier' = Earlier
      BY <1>2 DEF Earlier
    <2>2. ASSUME NEW i \in 1 .. Len(toHost) PROVE toHost[i] \in Earlier
      <3>1. toHost[i] \in Messages /\ toHost[i].seq <= mcuSeq
        BY <1>0, ElementOfSeq DEF InOrder
      <3>2. PICK n \in Nat, h \in Nat, k \in Nat : n = toHost[i].seq /\ h = sendSeq /\ k = mcuSeq
        BY <1>0, <3>1 DEF Messages
      <3>3. n <= k /\ k < h
        BY <1>1, <3>1, <3>2
      <3>4. n < h
        BY <3>3
      <3>. QED
        BY <3>1, <3>2, <3>4 DEF Earlier
    <2>3. t[1] \in Answers
      BY <1>1, ElementOfSeq DEF Answers
    <2>4. Leads(toHost \o t, Answers, Earlier)
      BY <1>0, <1>1, <2>2, <2>3, LeadsConcat
    <2>. QED
      BY <1>1, <2>1, <2>4 DEF AnswerComes
  <1>5. OnTime => OnTime'
    BY <1>2, <1>4 DEF OnTime
  <1>6. Fine => Fine'
    BY <1>2, <1>5, StaysFine DEF AnswerFirst
  <1>7. Spare' = Spare /\ (Strange' <=> Strange)
    BY <1>1, <1>2, <1>3 DEF Spare, Strange
  <1>8. losses <= losses' /\ Spare <= Spare'
    BY <1>0, <1>2, <1>7
  <1>. QED
    BY <1>1, <1>2, <1>6, <1>7, <1>8, Pays

\* What else it sends neither costs nor pays.
LEMMA OthersCharge ==
    ASSUME ReaderInv, ReaderInv', ChargeInv, Start' = Start,
           McuAcknowledge \/ McuNak \/ McuReport \/ LoseBlock, UNCHANGED readerVars
    PROVE  ChargeInv'
  <1>0. IInv /\ toHost \in Seq(Messages) /\ losses \in Int /\ Spare \in Int
    BY ChargeTypedBoth DEF ReaderInv, ChargeTypes
  <1>1. PICK t \in Seq(Messages) : toHost' = toHost \o t
    BY <1>0, OthersSend
  <1>2. /\ Spare' = Spare /\ losses' \in {losses, losses + 1}
        /\ UNCHANGED <<sendSeq, receiveSeq, mcuSeq, executed, notifyQueue, receiveQueue, block>>
        /\ UNCHANGED <<identify, retries, completion, lastParams>>
    BY <1>0, OthersSend DEF readerVars, identifyVars, handlerVars
  <1>3. AnswerComes => AnswerComes'
    BY <1>0, <1>1, <1>2, StillComes
  <1>4. OnTime => OnTime'
    BY <1>2, <1>3 DEF OnTime
  <1>5. Fine => Fine'
    BY <1>2, <1>4, StaysFine DEF AnswerFirst
  <1>6. Strange' <=> Strange
    BY <1>2 DEF Strange
  <1>7. losses <= losses' /\ Spare <= Spare'
    BY <1>0, <1>2
  <1>. QED
    BY <1>2, <1>5, <1>6, <1>7, Pays

\* A message that is lost is a loss that pays.
LEMMA LostCharges ==
    ASSUME ReaderInv, ReaderInv', ChargeInv, Start' = Start, LoseMessage, UNCHANGED readerVars
    PROVE  ChargeInv'
  <1>0. IInv /\ toHost \in Seq(Messages) /\ losses \in Int /\ reports \in Int
    BY ChargeTypedBoth DEF ReaderInv, ChargeTypes, TypeOK, HistoryTypeOK
  <1>1. /\ toHost # <<>> /\ toHost' = Tail(toHost) /\ losses' = losses + 1
        /\ UNCHANGED <<receiveSeq, receiveQueue, reports>>
        /\ UNCHANGED <<identify, retries, completion>>
    BY DEF LoseMessage, queueVars, seqVars, recvVars, mcuVars, readerVars, identifyVars
  <1>2. Strange' <=> Strange
    BY <1>1 DEF Strange
  <1>3. Spare <= Spare'
    <2>1. toHost' \in Seq(Messages)
      BY <1>0, <1>1
    <2>2. Reported(toHost) = Reported(toHost') + (IF IsReport(Head(toHost)) THEN 1 ELSE 0)
      BY <1>0, <1>1, ReportedTail
    <2>3. PICK x \in Nat, y \in Nat : x = Reported(toHost) /\ y = Reported(toHost')
      BY <1>0, <2>1, ReportedIs
    <2>4. y <= x
      BY <2>2, <2>3
    <2>5. Spare = reports - x /\ Spare' = reports - y
      BY <1>1, <2>3 DEF Spare
    <2>. QED
      BY <1>0, <2>3, <2>4, <2>5
  <1>4. losses < losses' /\ losses <= losses'
    BY <1>0, <1>1
  <1>. QED
    BY <1>1, <1>2, <1>3, <1>4, Pays

\* The block with the query is built.
LEMMA BlockCharges ==
    ASSUME ReaderInv, ReaderInv', FilledInv, StartInv, CallInv, ChargeInv, Start' = Start,
           StoreBlock \/ \E i \in 1 .. Len(pendingQueues) : AddCommand(i), UNCHANGED readerVars
    PROVE  ChargeInv'
  <1>0. /\ IInv /\ TypeOK /\ {mcuSeq, sendSeq} \subseteq Nat /\ losses \in Int /\ Spare \in Int
        /\ block \in Seq(Commands)
    <2>1. ChargeTypes
      BY ChargeTypedBoth
    <2>2. IInv /\ TypeOK /\ {mcuSeq, sendSeq} \subseteq Nat /\ losses \in Int /\ Spare \in Int
      BY <2>1 DEF ChargeTypes
    <2>3. block \in Seq(Commands)
      BY <2>2 DEF TypeOK, SenderTypeOK
    <2>. QED
      BY <2>2, <2>3
  <1>1. /\ UNCHANGED <<receiveSeq, mcuSeq, toHost, receiveQueue, reports, losses>>
        /\ UNCHANGED <<identify, retries, completion, lastParams>>
    BY DEF StoreBlock, AddCommand, seqVars, recvVars, mcuVars, wireVars, readerVars, identifyVars, handlerVars
  <1>2. Spare' = Spare /\ (Strange' <=> Strange)
    BY <1>1 DEF Spare, Strange
  <1>3. ASSUME ~Strange, OnTime PROVE OnTime'
    <2>1. CASE StoreBlock
      <3>1. bg = "build" /\ block # <<>>
        BY <2>1, StoredIsFilled DEF StoreBlock
      <3>2. notifyQueue[1].seq = sendSeq
        BY <3>1 DEF FilledInv
      <3>3. sendSeq' = sendSeq + 1 /\ UNCHANGED notifyQueue
        BY <2>1 DEF StoreBlock, recvVars
      <3>4. mcuSeq <= sendSeq
        BY <1>0, <1>3, NotAhead
      <3>5. notifyQueue'[1].seq = sendSeq' - 1 /\ mcuSeq' < sendSeq'
        BY <1>0, <1>1, <3>2, <3>3, <3>4
      <3>. QED
        BY <3>5 DEF OnTime
    <2>2. ASSUME NEW i \in 1 .. Len(pendingQueues), AddCommand(i) PROVE OnTime'
      <3>1. PICK e : block' = Append(block, e)
        BY <2>2 DEF AddCommand
      <3>2. block' # <<>>
        BY <1>0, <3>1
      <3>. QED
        BY <3>2 DEF OnTime
    <2>. QED
      BY <2>1, <2>2
  <1>4. ~Strange /\ Fine => Fine'
    BY <1>1, <1>3, StaysFine DEF AnswerFirst
  <1>5. losses <= losses' /\ Spare <= Spare'
    BY <1>0, <1>1, <1>2
  <1>. QED
    BY <1>1, <1>2, <1>4, <1>5, Pays

\* A step that leaves the link and the charge alone.
LEMMA ChargeStays ==
    ASSUME ChargeInv, UNCHANGED linkView, UNCHANGED <<identify, retries, completion, lastParams>>
    PROVE  ChargeInv'
  BY DEF ChargeInv, linkView, Strange, Start, Due, Spare, Fine, AnswerFirst, OnTime, AnswerComes, Earlier

\* A query is sent again, or another one is sent: it is fine at first.
LEMMA SentCharges ==
    ASSUME ReaderInv, ReaderInv', CallInv, ChargeInv, RawSendWaitAck, Aside
    PROVE  ChargeInv'
  <1>0. /\ identify = "send" /\ completion' = "open" /\ UNCHANGED <<retries, lastParams>>
        /\ identify' = "wait" /\ UNCHANGED linkView
    BY AsideLeaves DEF RawSendWaitAck, CallInv, handlerVars
  <1>1. NothingOnItsWay
    BY <1>0 DEF ReaderInv, AwaitedInv, Waits, CallInv
  <1>2. UNCHANGED <<sendSeq, receiveSeq, mcuSeq, executed, toHost, notifyQueue, receiveQueue, block, losses, reports>>
    BY <1>0 DEF linkView
  <1>3. Fine'
    BY <1>0, <1>1, <1>2 DEF NothingOnItsWay, NoNotice, Fine, OnTime
  <1>4. Due = 0 /\ Due' = 0
    BY <1>0, <1>3 DEF Due
  <1>5. /\ Strange' <=> Strange
        /\ Start' = Start /\ Spare' = Spare
    BY <1>2 DEF Strange, Start, Spare
  <1>6. CASE Strange
    BY <1>0, <1>2, <1>5, <1>6 DEF ChargeInv
  <1>7. CASE ~Strange
    BY <1>0, <1>2, <1>4, <1>5, <1>7 DEF ChargeInv
  <1>. QED
    BY <1>6, <1>7

\* _bg_thread pulls the answer first.
LEMMA PullCharges ==
    ASSUME ReaderInv, ReaderInv', CallInv, ChargeInv, PullResponse
    PROVE  ChargeInv'
  <1>. DEFINE response == Head(receiveQueue)
  <1>0. losses \in Int /\ Spare \in Int /\ receiveQueue \in Seq(Arrivals)
    BY ChargeTypedBoth DEF ChargeTypes
  <1>1. /\ receiveQueue # <<>> /\ receiveQueue' = Tail(receiveQueue)
        /\ UNCHANGED <<sendSeq, receiveSeq, mcuSeq, executed, toHost, notifyQueue, block, losses, reports>>
        /\ UNCHANGED <<identify, retries, registered>>
    BY DEF PullResponse, PullMessage, seqVars, bgVars, mcuVars, wireVars, identifyVars
  <1>2. ~Strange
    BY <1>1 DEF ChargeInv
  <1>3. (Strange' <=> Strange) /\ Start' = Start /\ Spare' = Spare
    BY <1>1 DEF Strange, Start, Spare
  <1>4. OnTime' <=> OnTime
    BY <1>1 DEF OnTime, AnswerComes, Earlier
  <1>5. response \in Arrivals
    BY <1>0, <1>1, HeadTailProperties
  <1>6. /\ NoNotice(receiveQueue) => response.data /\ NoNotice(receiveQueue')
        /\ AnswerFirst => IsAnswer(response) \/ (response.data /\ AnswerFirst')
    <2>1. NoNotice(receiveQueue) => response.data /\ NoNotice(receiveQueue')
      BY <1>0, <1>1, NoticePulled
    <2>2. AnswerFirst => IsAnswer(response) \/ (response.data /\ AnswerFirst')
      BY <1>0, <1>1, LeadsTail DEF AnswerFirst
    <2>. QED
      BY <2>1, <2>2
  <1>7. response.about # NoCommand => offsetOf[response.about] \in Nat
    BY <1>5 DEF ReaderInv, ReaderTypes, Arrivals
  <1>8. /\ response.data =>
             /\ UNCHANGED completion
             /\ lastParams' = IF registered /\ response.about # NoCommand THEN offsetOf[response.about] ELSE lastParams
        /\ ~response.data => UNCHANGED lastParams
    BY DEF PullResponse
  <1>. HIDE DEF response
  <1>9. ASSUME lastParams # NoParams PROVE lastParams' # NoParams
    BY <1>7, <1>8, <1>9 DEF NoParams
  <1>10. ASSUME identify = "wait", Fine PROVE Fine'
    <2>1. CASE lastParams # NoParams
      BY <1>9, <2>1 DEF Fine
    <2>2. CASE completion = "open" /\ AnswerFirst
      <3>1. CASE IsAnswer(response)
        <4>1. registered /\ response.data /\ response.about # NoCommand
          BY <1>10, <3>1 DEF CallInv, IsAnswer
        <4>2. lastParams' # NoParams
          BY <1>7, <1>8, <4>1 DEF NoParams
        <4>. QED
          BY <4>2 DEF Fine
      <3>2. CASE response.data /\ AnswerFirst'
        BY <1>8, <2>2, <3>2 DEF Fine
      <3>. QED
        BY <1>6, <2>2, <3>1, <3>2
    <2>3. CASE completion = "open" /\ NoNotice(receiveQueue) /\ OnTime
      BY <1>4, <1>6, <1>8, <2>3 DEF Fine
    <2>. QED
      BY <1>10, <2>1, <2>2, <2>3 DEF Fine
  <1>11. losses <= losses' /\ Spare <= Spare'
    BY <1>0, <1>1, <1>3
  <1>. QED
    BY <1>1, <1>2, <1>3, <1>10, <1>11, Pays

\* The last retry has not been used up without an answer, or its cause would
\* have been paid for once more than there are losses, reports and contacts.
Enough == MaxLosses < Retries /\ MaxLosses + MaxReports <= Retries

LEMMA LastRetry ==
    ASSUME Enough, ReaderInv, CallInv, ChargeInv, identify = "wait", completion = "acked", lastParams = NoParams
    PROVE  CanRetry
  <1>1. /\ retries \in 0 .. Retries /\ Retries \in Nat /\ losses \in Nat /\ reports \in Nat
        /\ MaxLosses \in Nat /\ MaxReports \in Nat /\ toHost \in Seq(Messages)
    BY ChargeTyped, LinkAssumption DEF ChargeTypes, TypeOK, HistoryTypeOK
  <1>2. PICK x \in Nat : x = Reported(toHost)
    BY <1>1, ReportedIs
  <1>3. Due = 1 /\ ~Strange
    BY DEF Due, Fine, ChargeInv
  <1>4. Retries - retries + 1 <= losses + (IF Start = 1 THEN Spare ELSE 1)
    BY <1>3 DEF ChargeInv
  <1>5. losses <= MaxLosses /\ reports <= MaxReports
    BY DEF CallInv
  <1>6. CASE Start = 1
    <2>1. Retries - retries + 1 <= losses + (reports - x)
      BY <1>2, <1>4, <1>6 DEF Spare
    <2>2. retries # 0
      BY <1>1, <1>5, <2>1 DEF Enough
    <2>. QED
      BY <1>1, <2>2 DEF CanRetry
  <1>7. CASE Start # 1
    <2>1. Retries - retries + 1 <= losses + 1
      BY <1>4, <1>7
    <2>2. retries # 0
      BY <1>1, <1>5, <2>1 DEF Enough
    <2>. QED
      BY <1>1, <2>2 DEF CanRetry
  <1>. QED
    BY <1>6, <1>7

\* get_response uses an answer, or pays for another try.
LEMMA NoticeCharges ==
    ASSUME Enough, ReaderInv, ReaderInv', CallInv, ChargeInv, Notice
    PROVE  ChargeInv' /\ identify' # "error"
  <1>0. /\ retries \in Int /\ Retries \in Int /\ losses \in Int /\ Spare \in Int /\ Due \in {0, 1}
        /\ retries <= Retries
    BY ChargeTypedBoth DEF ChargeTypes
  <1>1. identify = "wait" /\ completion = "acked" /\ UNCHANGED vars
    BY DEF Notice, CallInv
  <1>2. ~Strange
    BY <1>1 DEF ChargeInv
  <1>3. UNCHANGED <<sendSeq, receiveSeq, mcuSeq, executed, toHost, losses, reports>>
    BY <1>1 DEF vars, queueVars, seqVars, mcuVars, wireVars
  <1>4. ~Strange' /\ Start' = Start /\ Spare' = Spare /\ UNCHANGED losses
    BY <1>2, <1>3 DEF Strange, Start, Spare
  <1>5. PICK b \in Int : b = IF Start = 1 THEN Spare ELSE 1
    BY <1>0
  <1>6. Retries - retries + Due <= losses + b
    BY <1>2, <1>5 DEF ChargeInv
  <1>7. ASSUME identify' # "wait", Retries - retries' <= losses + b
        PROVE  ChargeInv'
    <2>1. Due' = 0
      BY <1>7 DEF Due
    <2>2. retries' \in Int
      BY ChargeTypedBoth DEF ChargeTypes
    <2>3. Retries - retries' + 0 <= losses + b
      <3>0. Retries \in Int /\ losses \in Int
        BY <1>0
      <3>1. PICK x \in Int, y \in Int : x = Retries - retries' /\ y = losses + b
        <4>1. Retries - retries' \in Int
          BY <3>0, <2>2
        <4>2. losses + b \in Int
          BY <3>0
        <4>. QED
          BY <4>1, <4>2
      <3>2. x + 0 <= y
        BY <1>7, <3>1
      <3>. QED
        BY <3>1, <3>2
    <2>4. Retries' - retries' + Due' <= losses' + (IF Start' = 1 THEN Spare' ELSE 1)
      BY <1>4, <1>5, <2>1, <2>3
    <2>. QED
      BY <1>4, <2>4 DEF ChargeInv
  <1>8. \/ UseParams
        \/ lastParams = NoParams /\ identify' = "pause" /\ retries' = retries - 1
    BY <1>1, LastRetry DEF Notice
  <1>9. CASE UseParams
    <2>1. identify' \in {"send", "done"} /\ retries' \in {retries, Retries}
      BY <1>9 DEF UseParams, NextRequest
    <2>2. PICK d \in {0, 1} : d = Due
      BY <1>0
    <2>3. Retries - retries + d <= losses + b
      BY <1>6, <2>2
    <2>4. Retries - retries' <= losses + b
      <3>1. PICK r \in Int, h \in Int, l \in Int : r = retries /\ h = Retries /\ l = losses /\ r <= h
        BY <1>0
      <3>2. h - r + d <= l + b
        BY <2>3, <3>1
      <3>3. h - r <= l + b /\ h - h <= l + b
        BY <3>1, <3>2
      <3>. QED
        BY <2>1, <3>1, <3>3
    <2>. QED
      BY <1>7, <2>1, <2>4
  <1>10. CASE lastParams = NoParams /\ identify' = "pause" /\ retries' = retries - 1
    <2>1. Due = 1
      BY <1>1, <1>10 DEF Due, Fine
    <2>2. Retries - retries + 1 <= losses + b
      BY <1>6, <2>1
    <2>3. Retries - retries' <= losses + b
      BY <1>0, <1>5, <1>10, <2>2
    <2>. QED
      BY <1>7, <1>10, <2>3
  <1>. QED
    BY <1>8, <1>9, <1>10

\* The rest of the reader.
LEMMA ReaderCharges ==
    ASSUME ChargeInv, Leaves, RetryDelayEnds \/ SessionStarts \/ UNCHANGED readerVars
    PROVE  ChargeInv' /\ (identify' = "error" => identify = "error")
  <1>1. UNCHANGED linkView
    BY DEF Leaves, vars, queueVars, seqVars, recvVars, bgVars, mcuVars, wireVars, linkView
  <1>2. CASE RetryDelayEnds
    <2>1. identify = "pause" /\ identify' = "send" /\ UNCHANGED <<retries, completion, lastParams>>
      BY <1>2 DEF RetryDelayEnds, handlerVars
    <2>2. ~Strange
      BY <2>1 DEF ChargeInv
    <2>3. (Strange' <=> Strange) /\ Start' = Start /\ Spare' = Spare /\ UNCHANGED losses
      BY <1>1 DEF linkView, Strange, Start, Spare
    <2>4. Due = 0 /\ Due' = 0
      BY <2>1 DEF Due
    <2>5. ChargeInv'
      BY <2>1, <2>2, <2>3, <2>4 DEF ChargeInv
    <2>. QED
      BY <2>1, <2>5
  <1>3. CASE SessionStarts \/ UNCHANGED readerVars
    <2>1. UNCHANGED <<identify, retries, completion, lastParams>>
      BY <1>3 DEF SessionStarts, readerVars, identifyVars, handlerVars
    <2>. QED
      BY <1>1, <2>1, ChargeStays
  <1>. QED
    BY <1>2, <1>3

LEMMA ChargeInvStep ==
    ASSUME Enough, ReaderInv, ReaderInv', KnownInv, FilledInv, StartInv, CallInv, ChargeInv,
           [ReaderNext]_allVars, ~mustExit, ~mustExit'
    PROVE  ChargeInv' /\ (identify' = "error" => identify = "error")
  <1>0. Start' = Start
    BY StartInvStep
  <1>1. CASE Leaves /\ (Notice \/ RetryDelayEnds \/ SessionStarts \/ UNCHANGED readerVars)
    <2>1. CASE Notice
      BY <2>1, NoticeCharges
    <2>2. CASE RetryDelayEnds \/ SessionStarts \/ UNCHANGED readerVars
      BY <1>1, <2>2, ReaderCharges
    <2>. QED
      BY <1>1, <2>1, <2>2
  <1>2. CASE RawSendWaitAck /\ Aside
    <2>1. identify' # "error"
      BY <1>2 DEF RawSendWaitAck
    <2>. QED
      BY <1>2, <2>1, SentCharges
  <1>3. CASE PullResponse
    <2>1. UNCHANGED identify
      BY <1>3 DEF PullResponse, identifyVars
    <2>. QED
      BY <1>3, <2>1, PullCharges
  <1>4. ASSUME UNCHANGED readerVars, ChargeInv'
        PROVE  ChargeInv' /\ (identify' = "error" => identify = "error")
    BY <1>4 DEF readerVars, identifyVars
  <1>5. CASE UNCHANGED readerVars /\ Aside
    <2>1. UNCHANGED <<identify, retries, completion, lastParams>>
      BY <1>5 DEF readerVars, identifyVars, handlerVars
    <2>. QED
      BY <1>4, <1>5, <2>1, AsideLeaves, ChargeStays
  <1>6. CASE UNCHANGED readerVars /\ (StoreBlock \/ \E i \in 1 .. Len(pendingQueues) : AddCommand(i))
    BY <1>0, <1>4, <1>6, BlockCharges
  <1>7. CASE UNCHANGED readerVars /\ HandleMessage
    BY <1>0, <1>4, <1>7, HandleCharges
  <1>8. CASE UNCHANGED readerVars /\ McuTake
    BY <1>4, <1>8, TakeCharges
  <1>9. CASE UNCHANGED readerVars /\ (McuAcknowledge \/ McuNak \/ McuReport \/ LoseBlock)
    BY <1>0, <1>4, <1>9, OthersCharge
  <1>10. CASE UNCHANGED readerVars /\ LoseMessage
    BY <1>0, <1>4, <1>10, LostCharges
  <1>. QED
    BY <1>1, <1>2, <1>3, <1>5, <1>6, <1>7, <1>8, <1>9, <1>10, StepsAlive

LEMMA RetryInvInit == ReaderInit => RetryInv
  <1>1. SUFFICES ASSUME ReaderInit
                 PROVE  RetryInv
    OBVIOUS
  <1>2. /\ mcuSeq \in McuStart /\ sendSeq = 1 /\ receiveSeq = 1 /\ executed = <<>> /\ toHost = <<>>
        /\ receiveQueue = <<>> /\ losses = 0 /\ reports = 0 /\ bg = "poll" /\ puller = "runs"
        /\ built = <<>> /\ block = <<>> /\ toMcu = <<>> /\ outBuf = <<>> /\ sentQueue = <<>>
    BY <1>1 DEF ReaderInit, Init
  <1>3. /\ identify = "send" /\ registered = TRUE /\ retries = Retries /\ completion = "open" /\ session = "waiting"
    BY <1>1 DEF ReaderInit
  <1>4. KnownInv
    BY <1>2 DEF KnownInv, Wire, Range
  <1>5. FilledInv
    BY <1>2 DEF FilledInv
  <1>6. Start = mcuSeq /\ mcuSeq \in Nat \ {0}
    <2>1. mcuSeq \in Nat \ {0}
      BY <1>2, LinkAssumption
    <2>2. Len(executed) = 0
      BY <1>2
    <2>. QED
      BY <2>1, <2>2 DEF Start
  <1>7. StartInv
    <2>1. NumbersFrom(toHost, Start)
      BY <1>2 DEF NumbersFrom
    <2>. QED
      BY <1>2, <1>6, <2>1 DEF StartInv
  <1>8. CallInv
    BY <1>2, <1>3, LinkAssumption DEF CallInv
  <1>9. ChargeInv
    <2>1. CASE Strange
      BY <1>2, <1>3, <2>1 DEF ChargeInv
    <2>2. CASE ~Strange
      <3>1. Start = 1
        BY <1>2, <2>2 DEF Strange
      <3>2. Reported(toHost) = 0
        <4>1. {i \in 1 .. Len(toHost) : IsReport(toHost[i])} = {}
          BY <1>2
        <4>. QED
          BY <4>1, FS_EmptySet DEF Reported
      <3>3. Spare = 0 /\ Due = 0
        BY <1>2, <1>3, <3>2 DEF Spare, Due
      <3>4. Retries - retries = 0
        BY <1>3, ReaderAssumption
      <3>. QED
        BY <1>2, <2>2, <3>1, <3>3, <3>4 DEF ChargeInv
    <2>. QED
      BY <2>1, <2>2
  <1>. QED
    BY <1>4, <1>5, <1>7, <1>8, <1>9 DEF RetryInv

LEMMA RetryInvStep ==
    ASSUME Enough, ReaderInv, ReaderInv', RetryInv, [ReaderNext]_allVars
    PROVE  RetryInv'
  <1>0. IInv
    BY DEF ReaderInv
  <1>1. KnownInv'
    BY <1>0, ReaderIsLink, KnownInvStep DEF RetryInv
  <1>2. SUFFICES ASSUME ~mustExit'
                 PROVE  FilledInv' /\ StartInv' /\ CallInv' /\ ChargeInv'
    BY <1>1 DEF RetryInv
  <1>3. ~mustExit
    BY <1>2, ExitStays
  <1>4. KnownInv /\ FilledInv /\ StartInv /\ CallInv /\ ChargeInv
    BY <1>3 DEF RetryInv
  <1>5. FilledInv'
    BY <1>2, <1>3, <1>4, FilledInvStep
  <1>6. StartInv'
    BY <1>2, <1>3, <1>4, StartInvStep
  <1>7. ChargeInv' /\ (identify' = "error" => identify = "error")
    BY <1>2, <1>3, <1>4, ChargeInvStep
  <1>8. CallInv'
    <2>1. TypeOK
      BY <1>0 DEF IInv
    <2>. QED
      BY <1>2, <1>3, <1>4, <1>7, <2>1, CallInvStep
  <1>. QED
    BY <1>5, <1>6, <1>7, <1>8

\* When there are fewer losses than retries, and no more losses and reports of
\* the controller's own together than retries, it is identified whatever block
\* it expects first, unless somebody disconnects: SerialRetryCommand never runs
\* out of retries.
THEOREM IdentifyComesThrough ==
    ASSUME MaxLosses < Retries, MaxLosses + MaxReports <= Retries
    PROVE  ReaderSpec => []IdentifySucceeds
  <1>1. Enough
    BY DEF Enough
  <1>2. RetryInv /\ ReaderInv /\ ReaderInv' /\ [ReaderNext]_allVars => RetryInv'
    BY <1>1, RetryInvStep
  <1>3. RetryInv => IdentifySucceeds
    BY DEF RetryInv, CallInv, IdentifySucceeds
  <1>. QED
    BY <1>2, <1>3, RetryInvInit, ReaderInvariance, PTL DEF ReaderSpec
=============================================================================
