------------------------- MODULE SerialAnswers_proofs -------------------------
(***************************************************************************)
(* Theorems about what SerialQueue does with the messages it receives:     *)
(* which naks cause a retransmission, which time goes with an answer, and  *)
(* that an answer is there before the command is reported as acknowledged. *)
(***************************************************************************)
EXTENDS SerialQueue_proofs

\* Naks that come now belong to blocks sent at the last retransmission but one
\* or later, and one that is obeyed is new.
NakInv ==
    /\ retransmits[1] <= ignoreNakSeq
    /\ retransmits[2] = retransmitSeq
    /\ retransmitSeq <= sendSeq
    /\ retransmitTimer = "now" => receiveSeq > ignoreNakSeq

\* One of the blocks has the number n and holds c.
Holds(blocks, n, c) == \E b \in Range(blocks) : b.seq = n /\ c \in Range(b.cmds)

\* The answers under way in q are to blocks that are done.
Truthful(q, done) ==
    \A m \in Range(q) : m.data /\ m.about # NoCommand => Holds(done, m.seq - 1, m.about)

\* The times in q are those of acknowledged blocks that were sent once.
ExactTimes(q, next, again, done) ==
    \A a \in Range(q) :
        a.data /\ a.about # NoCommand /\ a.sent # 0 =>
            a.sent < next /\ a.sent \notin again /\ Holds(done, a.sent, a.about)

\* What was sent again was sent before the last retransmission ended, and
\* last_receive_sent_time is that of the last block acknowledged, if any.
TimesInv ==
    /\ \A n \in resent : n < retransmitSeq
    /\ lastReceiveSent \in {0, receiveSeq - 1}
    /\ Truthful(toHost, executed)
    /\ ExactTimes(receiveQueue, receiveSeq, resent, executed)

\* The entries of q are about commands of the blocks, or of the block that is
\* being built and will have the number next.
Announced(q, blocks, next, now) ==
    \A e \in Range(q) :
        (e.seq = next /\ e.cmd \in Range(now)) \/ Holds(blocks, e.seq, e.cmd)

\* An answer is no first message, and comes before the acknowledgement of its
\* own block.
AnswersAhead(q) ==
    \A j \in 1 .. Len(q) :
        q[j].data =>
            q[j].seq > 1 /\ \A i \in 1 .. j - 1 : ~q[i].data => q[i].seq < q[j].seq

\* Each query of the blocks done has its answer under way in q, or among what
\* has arrived, unless it was lost.
Arrived(q, c) == \E a \in Range(q) : a.data /\ a.about = c
AllAnswered(done, q, arrived, lost) ==
    \A b \in Range(done) : \A c \in Range(b.cmds) \cap Queries :
        c \in lost \/ Answer(b.seq + 1, c) \in Range(q) \/ Arrived(arrived, c)

\* Notifications are about commands of the blocks done, and behind the answers.
NoticesTrue(q, done) ==
    \A a \in Range(q) : ~a.data => \E b \in Range(done) : a.about \in Range(b.cmds)
NoticesBehind(q, lost) ==
    \A i \in 1 .. Len(q) :
        ~q[i].data /\ q[i].about \in Queries \ lost =>
            \E j \in 1 .. i - 1 : q[j].data /\ q[j].about = q[i].about

\* All the puller has or will have of what has arrived.
Got == pulled \o receiveQueue

AnswersInv ==
    /\ Announced(notifyQueue, built, sendSeq, block)
    /\ AnswersAhead(toHost)
    /\ AllAnswered(executed, toHost, Got, unanswered)
    /\ NoticesTrue(receiveQueue, executed)
    /\ NoticesBehind(Got, unanswered)
-----------------------------------------------------------------------------
(* Which naks cause a retransmission.                                      *)

LEMMA NakInvStep ==
    ASSUME IInv, NakInv, [LinkNext]_vars
    PROVE  NakInv'
  <1>1. /\ retransmits[1] <= ignoreNakSeq /\ retransmits[2] = retransmitSeq
        /\ retransmitSeq <= sendSeq
        /\ retransmitTimer = "now" => receiveSeq > ignoreNakSeq
        /\ retransmits \in Nat \X Nat /\ ignoreNakSeq \in Nat /\ retransmitSeq \in Nat
    BY DEF NakInv, IInv, TypeOK, NumbersTypeOK, HistoryTypeOK
  <1>2. CASE UNCHANGED <<nakVars, sendSeq, receiveSeq, retransmitTimer>>
    BY <1>1, <1>2 DEF nakVars, NakInv
  <1>3. CASE StoreBlock
    <2>1. /\ sendSeq' = sendSeq + 1 /\ UNCHANGED <<receiveSeq, nakVars>>
          /\ retransmitTimer' \in {"later", retransmitTimer}
      BY <1>3 DEF StoreBlock
    <2>. QED
      BY <1>1, <2>1, LinkFacts DEF nakVars, NakInv
  <1>4. CASE RetransmitEvent
    <2>1. /\ retransmitSeq' = sendSeq /\ retransmitTimer' = "later"
          /\ retransmits' = <<retransmits[2], sendSeq>>
          /\ ignoreNakSeq' \in {IgnoreAfterNak, sendSeq} /\ UNCHANGED sendSeq
      BY <1>4 DEF RetransmitEvent, seqVars
    <2>2. retransmitSeq <= ignoreNakSeq'
      BY <1>1, <2>1, LinkFacts DEF IgnoreAfterNak
    <2>. QED
      BY <1>1, <2>1, <2>2, LinkFacts DEF NakInv
  <1>5. CASE HandleMessage
    <2>. DEFINE r == Head(toHost).seq
    <2>1. toHost # <<>>
      BY <1>5 DEF HandleMessage
    <2>2. r \in Nat \ {0} /\ receiveSeq <= r
      BY <2>1, NumberIsRebuilt
    <2>3. /\ receiveSeq' = r /\ UpdateTimers(Head(toHost), r) /\ UNCHANGED nakVars
          /\ sendSeq' = sendSeq \/ (sendSeq' = r /\ r > sendSeq)
      BY <1>5, HandleLeaves
    <2>4. retransmitTimer' = "now" => r > ignoreNakSeq
      <3>1. CASE IsNak(Head(toHost), r)
        BY <3>1 DEF IsNak
      <3>2. CASE ~IsNak(Head(toHost), r)
        <4>1. retransmitTimer' = IF r = receiveSeq THEN retransmitTimer
                                 ELSE IF sentQueue' = <<>> THEN "never" ELSE "later"
          BY <2>3, <3>2 DEF UpdateTimers
        <4>. QED
          BY <1>1, <4>1
      <3>. QED
        BY <3>1, <3>2
    <2>. HIDE DEF r
    <2>5. retransmitSeq <= sendSeq'
      BY <1>1, <2>2, <2>3, LinkFacts
    <2>. QED
      BY <1>1, <2>3, <2>4, <2>5 DEF nakVars, NakInv
  <1>6. CASE (\E q \in Queues : SendBatch(q) \/ KickBgThread(q) \/ MoveDue(q)) \/ StartBlock \/ WriteBlocks
    BY <1>2, <1>6 DEF SendBatch, KickBgThread, MoveDue, StartBlock, WriteBlocks, seqVars, timerVars
  <1>7. CASE (\E i \in 1 .. Len(pendingQueues) : AddCommand(i)) \/ CommandEvent \/ KickEvent
    BY <1>2, <1>7 DEF AddCommand, CommandEvent, KickEvent, seqVars, timerVars
  <1>8. CASE BackgroundEnds \/ PullMessage \/ PullNothing \/ RequestExit \/ Closes
    BY <1>2, <1>8 DEF BackgroundEnds, PullMessage, PullNothing, RequestExit, Closes, seqVars, timerVars
  <1>9. CASE McuStep \/ McuReport \/ LoseBlock \/ LoseMessage \/ Tick \/ UNCHANGED vars
    BY <1>2, <1>9 DEF McuStep, McuTake, McuAcknowledge, McuNak, McuReport, LoseBlock, LoseMessage, Tick,
                      vars, queueVars, seqVars, timerVars
  <1>. QED
    BY <1>3, <1>4, <1>5, <1>6, <1>7, <1>8, <1>9
    DEF LinkNext, Next, BackgroundStep, CommandStep, PullerStep, Quiet

\* After a retransmission at most two more are caused by naks until a block sent
\* after it has been acknowledged: ignore_nak_seq is never behind send_seq as it
\* was at the last retransmission but one.
THEOREM ThirdNakIgnored == Spec => NoThirdNak
  <1>1. Init => NakInv
    BY DEF Init, NakInv
  <1>2. IInv /\ NakInv /\ [Next]_vars => NakInv'
    BY NakInvStep DEF LinkNext
  <1>3. IInv /\ NakInv /\ [Next]_vars =>
            [RetransmitEvent /\ retransmitTimer = "now" => receiveSeq > retransmits[1]]_vars
    BY LinkFacts DEF NakInv, IInv, TypeOK, NumbersTypeOK, HistoryTypeOK
  <1>. QED
    BY <1>1, <1>2, <1>3, Invariance, PTL DEF Spec, NoThirdNak

-----------------------------------------------------------------------------
(* Blocks, answers and arrivals.                                           *)

LEMMA ToSetIsRange == \A s : ToSet(s) = Range(s)
  BY DEF ToSet, Range

\* Another block is stored or taken.
LEMMA HoldsMore ==
    ASSUME NEW blocks \in Seq(Blocks), NEW b \in Blocks
    PROVE  /\ \A n, c : Holds(blocks, n, c) => Holds(Append(blocks, b), n, c)
           /\ \A c \in Range(b.cmds) : Holds(Append(blocks, b), b.seq, c)
  BY RangeAppend DEF Holds

\* Every query of a block is answered.
LEMMA AnswersComplete ==
    ASSUME NEW cmds \in Seq(Commands), NEW seq \in Nat
    PROVE  /\ AnswersTo(cmds, seq) \in Seq(Messages)
           /\ \A m \in Range(AnswersTo(cmds, seq)) : m.data /\ m.seq = seq /\ m.about \in Range(cmds)
           /\ \A c \in Range(cmds) \cap Queries : Answer(seq, c) \in Range(AnswersTo(cmds, seq))
  <1>. DEFINE A == QueriesIn(cmds)
              Upto(i) == {j \in A : j <= i}
              Nth(n) == CHOOSE i \in A : Cardinality(Upto(i)) = n
              t == AnswersTo(cmds, seq)
  <1>1. /\ A \in SUBSET (1 .. Len(cmds)) /\ Len(cmds) \in Nat /\ A \subseteq Nat
        /\ \A i : i \in A <=> i \in 1 .. Len(cmds) /\ cmds[i] \in Queries
    BY DEF QueriesIn
  <1>2. IsFiniteSet(A) /\ Cardinality(A) \in Nat
    <2>1. IsFiniteSet(1 .. Len(cmds))
      BY <1>1, FS_Interval
    <2>2. IsFiniteSet(A)
      BY <1>1, <2>1, FS_Subset
    <2>. QED
      BY <2>2, FS_CardinalityType
  <1>3. t = [n \in 1 .. Cardinality(A) |-> Answer(seq, cmds[Nth(n)])]
    BY DEF AnswersTo
  <1>4. t \in Seq(Messages)
    BY AnswersProperties
  <1>5. Range(t) = {Answer(seq, cmds[Nth(n)]) : n \in 1 .. Cardinality(A)}
    <2>. HIDE DEF t, Nth, A
    <2>. QED
      BY <1>3 DEF Range
  <1>6. ASSUME NEW n \in 1 .. Cardinality(A)
        PROVE  Nth(n) \in A
    <2>1. \E i \in A : Cardinality(Upto(i)) = n
      BY <1>1, NthPosition
    <2>. HIDE DEF A, Upto
    <2>. QED
      BY <2>1
  <1>7. ASSUME NEW i \in A
        PROVE  Cardinality(Upto(i)) \in 1 .. Cardinality(A) /\ Nth(Cardinality(Upto(i))) = i
    <2>1. ASSUME NEW k \in A
          PROVE  /\ IsFiniteSet(Upto(k)) /\ Cardinality(Upto(k)) \in Nat
                 /\ Cardinality(Upto(k)) <= Cardinality(A)
      <3>1. Upto(k) \in SUBSET A
        OBVIOUS
      <3>. HIDE DEF Upto, A
      <3>2. IsFiniteSet(Upto(k)) /\ Cardinality(Upto(k)) <= Cardinality(A)
        BY <1>2, <3>1, FS_Subset
      <3>. QED
        BY <3>2, FS_CardinalityType
    <2>2. ASSUME NEW k \in A, NEW l \in A, Cardinality(Upto(k)) = Cardinality(Upto(l)), k < l
          PROVE  FALSE
      <3>1. Upto(k) \in SUBSET Upto(l) /\ l \in Upto(l) /\ l \notin Upto(k)
        BY <1>1, <2>2
      <3>2. IsFiniteSet(Upto(l))
        BY <2>1
      <3>. HIDE DEF Upto, A
      <3>3. Upto(l) = Upto(k)
        BY <2>2, <3>1, <3>2, FS_Subset
      <3>. QED
        BY <3>1, <3>3
    <2>3. Cardinality(Upto(i)) # 0
      <3>1. i \in Upto(i)
        BY <1>1
      <3>2. IsFiniteSet(Upto(i))
        BY <2>1
      <3>. HIDE DEF Upto, A
      <3>. QED
        BY <3>1, <3>2, FS_EmptySet
    <2>4. Cardinality(Upto(i)) \in 1 .. Cardinality(A)
      <3>. HIDE DEF Upto, A
      <3>. QED
        BY <1>2, <2>1, <2>3
    <2>. DEFINE n == Cardinality(Upto(i))
    <2>5. Nth(n) \in A /\ Cardinality(Upto(Nth(n))) = n
      <3>. HIDE DEF Upto, A
      <3>. QED
        OBVIOUS
    <2>6. Nth(n) = i
      <3>1. Nth(n) \in Nat /\ i \in Nat
        BY <1>1, <2>5
      <3>2. ~(Nth(n) < i) /\ ~(i < Nth(n))
        <4>. HIDE DEF Upto, A, Nth
        <4>. QED
          BY <2>2, <2>5
      <3>. HIDE DEF Nth, n
      <3>. QED
        BY <3>1, <3>2
    <2>. QED
      BY <2>4, <2>6
  <1>8. ASSUME NEW m \in Range(t)
        PROVE  m.data /\ m.seq = seq /\ m.about \in Range(cmds)
    <2>. HIDE DEF t, Nth, A
    <2>1. PICK n \in 1 .. Cardinality(A) : m = Answer(seq, cmds[Nth(n)])
      BY <1>5
    <2>2. Nth(n) \in 1 .. Len(cmds)
      BY <1>1, <1>6
    <2>. QED
      BY <2>1, <2>2, QueueRange DEF Answer
  <1>9. ASSUME NEW c \in Range(cmds) \cap Queries
        PROVE  Answer(seq, c) \in Range(t)
    <2>. HIDE DEF t, Nth, A, Upto
    <2>1. PICK i \in 1 .. Len(cmds) : c = cmds[i]
      BY QueueRange
    <2>2. i \in A
      BY <1>1, <2>1
    <2>. QED
      BY <1>5, <1>7, <2>1, <2>2
  <1>. QED
    BY <1>4, <1>8, <1>9

-----------------------------------------------------------------------------
(* Which time goes with an answer.                                         *)

\* What a message puts into receive_queue: notifications, and then itself.
LEMMA HandleArrives ==
    ASSUME IInv, IInv', HandleMessage, NEW r, r = Head(toHost).seq
    PROVE  \E n \in 0 .. Len(notifyQueue), told \in Seq(Arrivals), arrived \in Seq(Arrivals) :
             /\ Told(n, WakeSeq(Head(toHost), r))
             /\ notifyQueue' = SubSeq(notifyQueue, n + 1, Len(notifyQueue))
             /\ receiveQueue' = (receiveQueue \o told) \o arrived /\ pulled' = pulled
             /\ \A a \in Range(told) : ~a.data /\ \E i \in 1 .. n : a.about = notifyQueue[i].cmd
             /\ \A a \in Range(arrived) : a.data /\ a.about = Head(toHost).about /\ a.sent = SentBlock(r)
             /\ Head(toHost).data => arrived # <<>>
             /\ ~Head(toHost).data => arrived = <<>>
  <1>. DEFINE m == Head(toHost)
              Entries == [cmd : Commands, seq : Nat]
              new == [data |-> TRUE, about |-> m.about, sent |-> SentBlock(r)]
              arrived == IF m.data THEN <<new>> ELSE <<>>
  <1>1. m \in Messages /\ Rebuild(r) = r /\ ~Invalid(r)
    BY NumberIsRebuilt DEF HandleMessage
  <1>2. lastReceiveSent' \in Nat
    BY DEF IInv, TypeOK, NumbersTypeOK
  <1>3. new \in Arrivals /\ new.data /\ new.about = m.about /\ new.sent = SentBlock(r)
    BY <1>1, <1>2 DEF Arrivals, SentBlock, Messages
  <1>4. PICK n \in 0 .. Len(notifyQueue) :
          /\ Told(n, WakeSeq(m, r))
          /\ notifyQueue' = SubSeq(notifyQueue, n + 1, Len(notifyQueue))
          /\ receiveQueue' = receiveQueue \o [i \in 1 .. n |-> Notification(notifyQueue[i])] \o arrived
          /\ pulled' = pulled
    BY <1>1 DEF HandleMessage
  <1>5. /\ arrived \in Seq(Arrivals)
        /\ \A a \in Range(arrived) : a = new
        /\ m.data => arrived # <<>>
        /\ ~m.data => arrived = <<>>
    <2>. HIDE DEF new, m
    <2>. QED
      BY <1>3 DEF Range
  <1>. DEFINE told == [i \in 1 .. n |-> Notification(notifyQueue[i])]
  <1>6. ASSUME NEW i \in 1 .. n
        PROVE  /\ Notification(notifyQueue[i]) \in Arrivals /\ ~Notification(notifyQueue[i]).data
               /\ Notification(notifyQueue[i]).about = notifyQueue[i].cmd
    <2>1. notifyQueue \in Seq(Entries)
      BY DEF IInv, TypeOK, PullerTypeOK
    <2>2. i \in 1 .. Len(notifyQueue)
      BY <1>4, <2>1
    <2>3. notifyQueue[i] \in Entries
      BY <2>1, <2>2, ElementOfSeq
    <2>. QED
      BY <1>2, <2>3 DEF Notification, Arrivals
  <1>7. told \in Seq(Arrivals)
    <2>1. \A i \in 1 .. n : Notification(notifyQueue[i]) \in Arrivals
      BY <1>6
    <2>2. n \in Nat
      BY <1>4
    <2>. QED
      BY <2>1, <2>2, IsASeq
  <1>8. ASSUME NEW a \in Range(told)
        PROVE  ~a.data /\ \E i \in 1 .. n : a.about = notifyQueue[i].cmd
    <2>1. PICK i \in 1 .. n : a = Notification(notifyQueue[i])
      BY DEF Range
    <2>. QED
      BY <1>6, <2>1
  <1>. HIDE DEF arrived, told, new
  <1>. QED
    BY <1>3, <1>4, <1>5, <1>7, <1>8 DEF told

\* What the controller says: an acknowledgement, or a report.
LEMMA Said ==
    ASSUME IInv, McuAcknowledge \/ McuNak \/ McuReport \/ LoseBlock
    PROVE  /\ \/ toHost' = toHost
              \/ toHost' = Append(toHost, Ack(mcuSeq))
              \/ McuReport /\ toHost' = Append(toHost, Answer(mcuSeq, NoCommand))
           /\ Ack(mcuSeq) \in Messages /\ Answer(mcuSeq, NoCommand) \in Messages
           /\ UNCHANGED <<queueVars, executed, unanswered>>
  BY LinkFacts DEF McuAcknowledge, McuNak, McuReport, LoseBlock, mcuVars, Ack, Answer, Messages

LEMMA TimesInvStep ==
    ASSUME IInv, IInv', NakInv, TimesInv, [LinkNext]_vars
    PROVE  TimesInv'
  <1>1. /\ \A n \in resent : n < retransmitSeq
        /\ lastReceiveSent \in {0, receiveSeq - 1}
        /\ Truthful(toHost, executed)
        /\ ExactTimes(receiveQueue, receiveSeq, resent, executed)
        /\ retransmitSeq <= sendSeq
    BY DEF TimesInv, NakInv
  <1>2. /\ executed \in Seq(Blocks) /\ receiveQueue \in Seq(Arrivals) /\ resent \subseteq Nat
        /\ toHost \in Seq(Messages) /\ retransmitSeq \in Nat
    BY DEF IInv, TypeOK, NumbersTypeOK, PullerTypeOK, HistoryTypeOK, LinkTypeOK
  <1>3. CASE UNCHANGED <<resent, retransmitSeq, lastReceiveSent, receiveSeq, toHost, receiveQueue, executed>>
    BY <1>1, <1>3 DEF TimesInv
  <1>4. CASE RetransmitEvent
    <2>1. /\ resent' = resent \cup {b.seq : b \in Range(sentQueue)} /\ retransmitSeq' = sendSeq
          /\ UNCHANGED <<lastReceiveSent, receiveSeq, toHost, receiveQueue, executed>>
      BY <1>4, ToSetIsRange DEF RetransmitEvent, ackVars, seqVars, recvVars, mcuVars
    <2>2. ASSUME NEW b \in Range(sentQueue)
          PROVE  b.seq < sendSeq /\ receiveSeq <= b.seq
      <3>1. PICK i \in 1 .. Len(sentQueue) : b = sentQueue[i]
        BY LinkFacts, QueueRange
      <3>2. b.seq = receiveSeq + i - 1
        BY <3>1 DEF IInv, SentInv, SentIsOutstanding, Numbered
      <3>3. receiveSeq \in Nat /\ sendSeq \in Nat /\ Len(sentQueue) = sendSeq - receiveSeq
        BY LinkFacts
      <3>. QED
        BY <3>1, <3>2, <3>3
    <2>3. \A n \in resent' : n < sendSeq
      BY <1>1, <1>2, <2>1, <2>2, LinkFacts
    <2>4. ExactTimes(receiveQueue, receiveSeq, resent', executed)
      <3>1. ASSUME NEW a \in Range(receiveQueue), a.sent < receiveSeq, a.sent \notin resent
            PROVE  a.sent \notin resent'
        <4>0. a \in Arrivals
          BY <1>2, QueueRange
        <4>1. a.sent \in Nat
          BY <4>0 DEF Arrivals
        <4>. QED
          BY <2>1, <2>2, <3>1, <4>1, LinkFacts
      <3>. QED
        BY <1>1, <3>1 DEF ExactTimes
    <2>. QED
      BY <1>1, <2>1, <2>3, <2>4 DEF TimesInv
  <1>5. CASE HandleMessage
    <2>. DEFINE m == Head(toHost)
                r == m.seq
                s == SentBlock(r)
    <2>1. toHost # <<>> /\ r \in Nat \ {0} /\ receiveSeq <= r /\ receiveSeq \in Nat \ {0}
      BY <1>5, NumberIsRebuilt, LinkFacts DEF HandleMessage
    <2>2. /\ toHost' = Tail(toHost) /\ receiveSeq' = r /\ UNCHANGED <<resent, retransmitSeq, executed>>
          /\ lastReceiveSent' \in {0, r - 1}
      <3>1. toHost' = Tail(toHost) /\ receiveSeq' = r /\ UNCHANGED <<nakVars, mcuVars>>
        BY <1>5, HandleLeaves
      <3>2. \/ r = receiveSeq /\ UNCHANGED lastReceiveSent
            \/ r - receiveSeq \in 1 .. Len(sentQueue) /\ lastReceiveSent' = sentQueue[r - receiveSeq].seq
            \/ lastReceiveSent' = 0
        BY <1>5, HandleLeaves
      <3>3. \A i \in 1 .. Len(sentQueue) : sentQueue[i].seq = receiveSeq + i - 1
        BY DEF IInv, SentInv, SentIsOutstanding, Numbered
      <3>. HIDE DEF r
      <3>4. ASSUME r - receiveSeq \in 1 .. Len(sentQueue), lastReceiveSent' = sentQueue[r - receiveSeq].seq
            PROVE  lastReceiveSent' = r - 1
        <4>1. lastReceiveSent' = receiveSeq + (r - receiveSeq) - 1
          BY <3>3, <3>4
        <4>. QED
          BY <2>1, <4>1
      <3>5. r = receiveSeq /\ UNCHANGED lastReceiveSent => lastReceiveSent' \in {0, r - 1}
        BY <1>1
      <3>6. lastReceiveSent' \in {0, r - 1}
        BY <3>2, <3>4, <3>5
      <3>. QED
        BY <3>1, <3>6 DEF nakVars, mcuVars
    <2>3. Truthful(Tail(toHost), executed)
      BY <1>1, <1>2, <2>1, TailRange DEF Truthful
    <2>4. m.data /\ m.about # NoCommand => Holds(executed, r - 1, m.about)
      BY <1>1, <1>2, <2>1, QueueRange DEF Truthful
    <2>5. PICK n \in 0 .. Len(notifyQueue), told \in Seq(Arrivals), arrived \in Seq(Arrivals) :
            /\ receiveQueue' = (receiveQueue \o told) \o arrived
            /\ \A a \in Range(told) : ~a.data
            /\ \A a \in Range(arrived) : a.data /\ a.about = m.about /\ a.sent = s
            /\ ~m.data => arrived = <<>>
      BY <1>5, HandleArrives
    <2>6. Range(receiveQueue') = Range(receiveQueue) \cup Range(told) \cup Range(arrived)
      <3>. DEFINE q == receiveQueue \o told
      <3>1. q \in Seq(Arrivals) /\ Range(q) = Range(receiveQueue) \cup Range(told)
        BY <1>2, RangeConcat
      <3>. HIDE DEF q
      <3>2. Range(q \o arrived) = Range(q) \cup Range(arrived)
        BY <3>1, RangeConcat
      <3>. QED
        BY <2>5, <3>1, <3>2 DEF q
    <2>7. s # 0 => s = r - 1 /\ s < r /\ s \notin resent
      <3>1. s # 0 => s = lastReceiveSent' /\ r > retransmitSeq
        BY DEF SentBlock
      <3>. HIDE DEF s, r
      <3>2. s # 0 => s = r - 1 /\ r > retransmitSeq
        BY <2>2, <3>1
      <3>. QED
        BY <1>1, <1>2, <2>1, <3>2
    <2>8. ExactTimes(receiveQueue', r, resent, executed)
      <3>1. SUFFICES ASSUME NEW a \in Range(receiveQueue'), a.data, a.about # NoCommand, a.sent # 0
                     PROVE  a.sent < r /\ a.sent \notin resent /\ Holds(executed, a.sent, a.about)
        BY DEF ExactTimes
      <3>2. CASE a \in Range(receiveQueue)
        <4>1. a.sent < receiveSeq /\ a.sent \notin resent /\ Holds(executed, a.sent, a.about)
          BY <1>1, <3>1, <3>2 DEF ExactTimes
        <4>2. a \in Arrivals
          BY <1>2, <3>2, QueueRange
        <4>3. a.sent \in Nat
          BY <4>2 DEF Arrivals
        <4>. HIDE DEF r
        <4>. QED
          BY <2>1, <4>1, <4>3
      <3>3. CASE a \in Range(arrived)
        <4>1. a.about = m.about /\ a.sent = s /\ m.data
          <5>1. arrived # <<>>
            BY <3>3 DEF Range
          <5>. QED
            BY <2>5, <3>3, <5>1
        <4>. HIDE DEF s, r
        <4>. QED
          BY <2>4, <2>7, <3>1, <4>1
      <3>. QED
        BY <2>5, <2>6, <3>1, <3>2, <3>3
    <2>. HIDE DEF s, r
    <2>. QED
      BY <1>1, <2>2, <2>3, <2>8 DEF TimesInv
  <1>6. CASE PullMessage
    <2>1. /\ receiveQueue # <<>> /\ receiveQueue' = Tail(receiveQueue)
          /\ UNCHANGED <<resent, retransmitSeq, lastReceiveSent, receiveSeq, toHost, executed>>
      BY <1>6 DEF PullMessage, nakVars, ackVars, seqVars, wireVars, mcuVars
    <2>2. ExactTimes(Tail(receiveQueue), receiveSeq, resent, executed)
      BY <1>1, <1>2, <2>1, TailRange DEF ExactTimes
    <2>. QED
      BY <1>1, <2>1, <2>2 DEF TimesInv
  <1>7. CASE McuTake
    <2>. DEFINE b == Head(toMcu)
                t == AnswersTo(b.cmds, mcuSeq + 1)
                done == Append(executed, b)
    <2>1. /\ executed' = done /\ toHost' = toHost \o t
          /\ UNCHANGED <<resent, retransmitSeq, lastReceiveSent, receiveSeq, receiveQueue>>
      BY <1>7 DEF McuTake, queueVars, nakVars, ackVars, seqVars, recvVars
    <2>2. b \in Blocks /\ b.seq = mcuSeq /\ mcuSeq \in Nat
      BY <1>7, TakenIsExpected, LinkFacts
    <2>3. t \in Seq(Messages) /\ \A m \in Range(t) : m.seq = mcuSeq + 1 /\ m.about \in Range(b.cmds)
      <3>1. b.cmds \in Seq(Commands) /\ mcuSeq + 1 \in Nat
        BY <2>2 DEF Blocks
      <3>. HIDE DEF b
      <3>. QED
        BY <3>1, AnswersComplete
    <2>. HIDE DEF b, t
    <2>4. /\ \A n, c : Holds(executed, n, c) => Holds(done, n, c)
          /\ \A c \in Range(b.cmds) : Holds(done, mcuSeq, c)
      BY <1>2, <2>2, HoldsMore
    <2>. HIDE DEF done
    <2>5. ExactTimes(receiveQueue, receiveSeq, resent, done)
      BY <1>1, <2>4 DEF ExactTimes
    <2>6. Truthful(toHost \o t, done)
      <3>1. Range(toHost \o t) = Range(toHost) \cup Range(t)
        BY <1>2, <2>3, RangeConcat
      <3>2. \A m \in Range(t) : m.seq - 1 = mcuSeq
        BY <2>2, <2>3
      <3>. QED
        BY <1>1, <2>3, <2>4, <3>1, <3>2 DEF Truthful
    <2>. QED
      BY <1>1, <2>1, <2>5, <2>6 DEF TimesInv
  <1>8. CASE McuAcknowledge \/ McuNak \/ McuReport \/ LoseBlock
    <2>1. UNCHANGED <<resent, retransmitSeq, lastReceiveSent, receiveSeq, receiveQueue, executed>>
      BY <1>8, Said DEF queueVars, nakVars, ackVars, seqVars, recvVars
    <2>2. ASSUME NEW m \in Messages, ~m.data \/ m.about = NoCommand
          PROVE  Truthful(Append(toHost, m), executed)
      BY <1>1, <1>2, <2>2, RangeAppend DEF Truthful
    <2>3. ~Ack(mcuSeq).data /\ Answer(mcuSeq, NoCommand).about = NoCommand
      BY DEF Ack, Answer
    <2>4. Truthful(toHost', executed)
      BY <1>1, <1>8, <2>2, <2>3, Said
    <2>. QED
      BY <1>1, <2>1, <2>4 DEF TimesInv
  <1>9. CASE LoseMessage
    <2>1. /\ toHost # <<>> /\ toHost' = Tail(toHost)
          /\ UNCHANGED <<resent, retransmitSeq, lastReceiveSent, receiveSeq, receiveQueue, executed>>
      BY <1>9 DEF LoseMessage, queueVars, nakVars, ackVars, seqVars, recvVars, mcuVars
    <2>2. Truthful(Tail(toHost), executed)
      BY <1>1, <1>2, <2>1, TailRange DEF Truthful
    <2>. QED
      BY <1>1, <2>1, <2>2 DEF TimesInv
  <1>10. CASE (\E q \in Queues : SendBatch(q) \/ KickBgThread(q) \/ MoveDue(q)) \/ StartBlock \/ WriteBlocks
    BY <1>3, <1>10 DEF SendBatch, KickBgThread, MoveDue, StartBlock, WriteBlocks, seqVars, nakVars, ackVars,
                       recvVars, wireVars, mcuVars
  <1>11. CASE (\E i \in 1 .. Len(pendingQueues) : AddCommand(i)) \/ StoreBlock \/ CommandEvent \/ KickEvent
    BY <1>3, <1>11 DEF AddCommand, StoreBlock, CommandEvent, KickEvent, seqVars, nakVars, ackVars, recvVars,
                       wireVars, mcuVars
  <1>12. CASE BackgroundEnds \/ PullNothing \/ RequestExit \/ Closes
    BY <1>3, <1>12 DEF BackgroundEnds, PullNothing, RequestExit, Closes, seqVars, nakVars, ackVars, recvVars,
                       wireVars, mcuVars
  <1>13. CASE Tick \/ UNCHANGED vars
    BY <1>3, <1>13 DEF Tick, vars, queueVars, seqVars, nakVars, ackVars, recvVars, wireVars, mcuVars
  <1>. QED
    BY <1>4, <1>5, <1>6, <1>7, <1>8, <1>9, <1>10, <1>11, <1>12, <1>13
    DEF LinkNext, Next, BackgroundStep, CommandStep, PullerStep, McuStep, Quiet

\* The sent_time of an answer is that of its own block, and that block was sent
\* once, whichever blocks are sent again before the answer is pulled: what the
\* clock estimate is made of is right, whatever the controller expects at first.
THEOREM TimesAreExact == Spec => []SentTimeIsExact
  <1>1. Init => NakInv /\ TimesInv
    BY DEF Init, NakInv, TimesInv, Truthful, ExactTimes, Range
  <1>2. IInv /\ NakInv /\ TimesInv /\ IInv' /\ [Next]_vars => (NakInv /\ TimesInv)'
    BY NakInvStep, TimesInvStep DEF LinkNext
  <1>3. TimesInv => SentTimeIsExact
    BY ToSetIsRange DEF TimesInv, ExactTimes, Holds, SentTimeIsExact
  <1>. QED
    BY <1>1, <1>2, <1>3, Invariance, PTL DEF Spec

-----------------------------------------------------------------------------
(* Answers before notifications.                                           *)

LEMMA HeadOrTail ==
    ASSUME NEW S, NEW q \in Seq(S), q # <<>>
    PROVE  Range(q) = {Head(q)} \cup Range(Tail(q))
  <1>1. /\ Tail(q) \in Seq(S) /\ Len(Tail(q)) = Len(q) - 1 /\ Len(q) \in Nat \ {0}
        /\ \A i \in 1 .. Len(q) - 1 : Tail(q)[i] = q[i + 1]
        /\ Head(q) = q[1]
    OBVIOUS
  <1>2. /\ Range(Tail(q)) = {Tail(q)[i] : i \in 1 .. Len(Tail(q))}
        /\ Range(q) = {q[i] : i \in 1 .. Len(q)}
    BY <1>1, QueueRange
  <1>3. ASSUME NEW i \in 1 .. Len(q), i # 1
        PROVE  q[i] \in Range(Tail(q))
    <2>1. i - 1 \in 1 .. Len(Tail(q)) /\ (i - 1) + 1 = i
      BY <1>1, <1>3
    <2>2. Tail(q)[i - 1] = q[i]
      BY <1>1, <2>1
    <2>. QED
      BY <1>2, <2>1, <2>2
  <1>4. Range(Tail(q)) \subseteq Range(q) /\ Head(q) \in Range(q)
    BY TailRange
  <1>. QED
    BY <1>1, <1>2, <1>3, <1>4

\* The first message arrives, or is lost.
LEMMA AheadTail ==
    ASSUME NEW q \in Seq(Messages), q # <<>>, AnswersAhead(q)
    PROVE  /\ AnswersAhead(Tail(q))
           /\ \A m \in Range(q) : m.data => m.seq > 1 /\ (~Head(q).data => Head(q).seq < m.seq)
  <1>. DEFINE t == Tail(q)
  <1>1. /\ Len(t) = Len(q) - 1 /\ Len(q) \in Nat \ {0} /\ Head(q) = q[1]
        /\ \A i \in 1 .. Len(q) - 1 : t[i] = q[i + 1]
    OBVIOUS
  <1>. HIDE DEF t
  <1>2. ASSUME NEW j \in 1 .. Len(t), t[j].data
        PROVE  t[j].seq > 1 /\ \A i \in 1 .. j - 1 : ~t[i].data => t[i].seq < t[j].seq
    <2>1. j + 1 \in 1 .. Len(q) /\ t[j] = q[j + 1]
      BY <1>1
    <2>2. \A i \in 1 .. j - 1 : t[i] = q[i + 1] /\ i + 1 \in 1 .. (j + 1) - 1
      BY <1>1
    <2>3. q[j + 1].seq > 1 /\ \A i \in 1 .. (j + 1) - 1 : ~q[i].data => q[i].seq < q[j + 1].seq
      BY <1>2, <2>1 DEF AnswersAhead
    <2>. QED
      BY <2>1, <2>2, <2>3
  <1>3. ASSUME NEW m \in Range(q), m.data
        PROVE  m.seq > 1 /\ (~Head(q).data => Head(q).seq < m.seq)
    <2>1. PICK j \in 1 .. Len(q) : m = q[j]
      BY QueueRange
    <2>2. m.seq > 1 /\ \A i \in 1 .. j - 1 : ~q[i].data => q[i].seq < m.seq
      BY <1>3, <2>1 DEF AnswersAhead
    <2>3. j # 1 => 1 \in 1 .. j - 1
      BY <1>1
    <2>. QED
      BY <1>1, <1>3, <2>1, <2>2, <2>3
  <1>. QED
    BY <1>2, <1>3 DEF AnswersAhead, t

\* The controller acknowledges, or answers the queries of the block it takes.
LEMMA AheadConcat ==
    ASSUME NEW q \in Seq(Messages), NEW t \in Seq(Messages), NEW n \in Nat \ {0, 1}, AnswersAhead(q),
           \A i \in 1 .. Len(t) : t[i].data /\ t[i].seq = n,
           \A i \in 1 .. Len(q) : q[i].seq < n
    PROVE  AnswersAhead(q \o t)
  <1>. DEFINE u == q \o t
  <1>1. /\ Len(u) = Len(q) + Len(t) /\ Len(q) \in Nat /\ Len(t) \in Nat
        /\ \A i \in 1 .. Len(u) : u[i] = IF i <= Len(q) THEN q[i] ELSE t[i - Len(q)]
    BY ConcatProperties
  <1>. HIDE DEF u
  <1>2. \A i \in 1 .. Len(u) : i > Len(q) => u[i].data /\ u[i].seq = n
    <2>1. \A i \in 1 .. Len(u) : i > Len(q) => i - Len(q) \in 1 .. Len(t) /\ u[i] = t[i - Len(q)]
      BY <1>1
    <2>. QED
      BY <2>1
  <1>3. \A i \in 1 .. Len(u) : i <= Len(q) => i \in 1 .. Len(q) /\ u[i] = q[i]
    BY <1>1
  <1>4. ASSUME NEW j \in 1 .. Len(u), u[j].data
        PROVE  u[j].seq > 1 /\ \A i \in 1 .. j - 1 : ~u[i].data => u[i].seq < u[j].seq
    <2>1. \A i \in 1 .. j - 1 : i \in 1 .. Len(u)
      BY <1>1
    <2>2. CASE j <= Len(q)
      <3>1. j \in 1 .. Len(q) /\ u[j] = q[j] /\ \A i \in 1 .. j - 1 : u[i] = q[i]
        BY <1>1, <1>3, <2>1, <2>2
      <3>. QED
        BY <1>4, <3>1 DEF AnswersAhead
    <2>3. CASE j > Len(q)
      <3>1. u[j].seq = n
        BY <1>2, <2>3
      <3>2. ASSUME NEW i \in 1 .. j - 1, ~u[i].data
            PROVE  u[i].seq < n
        <4>1. i \in 1 .. Len(q) /\ u[i] = q[i]
          BY <1>1, <1>2, <1>3, <2>1, <3>2
        <4>. QED
          BY <4>1
      <3>. QED
        BY <3>1, <3>2
    <2>. QED
      BY <1>1, <2>2, <2>3
  <1>. QED
    BY <1>4 DEF AnswersAhead, u

LEMMA AheadAck ==
    ASSUME NEW q \in Seq(Messages), NEW m \in Messages, ~m.data, AnswersAhead(q)
    PROVE  AnswersAhead(Append(q, m))
  <1>. DEFINE u == Append(q, m)
  <1>1. /\ Len(u) = Len(q) + 1 /\ Len(q) \in Nat /\ u[Len(q) + 1] = m
        /\ \A i \in 1 .. Len(q) : u[i] = q[i]
    BY AppendProperties
  <1>. HIDE DEF u
  <1>2. ASSUME NEW j \in 1 .. Len(u), u[j].data
        PROVE  j \in 1 .. Len(q) /\ \A i \in 1 .. j : u[i] = q[i]
    <2>1. j # Len(q) + 1
      BY <1>1, <1>2
    <2>. QED
      BY <1>1, <2>1
  <1>3. ASSUME NEW j \in 1 .. Len(u), u[j].data
        PROVE  u[j].seq > 1 /\ \A i \in 1 .. j - 1 : ~u[i].data => u[i].seq < u[j].seq
    <2>1. j \in 1 .. Len(q) /\ u[j] = q[j] /\ \A i \in 1 .. j - 1 : u[i] = q[i]
      BY <1>2, <1>3
    <2>. QED
      BY <1>3, <2>1 DEF AnswersAhead
  <1>. QED
    BY <1>3 DEF AnswersAhead, u

\* Notifications behind the answers that have arrived.
LEMMA NoticesConcat ==
    ASSUME NEW q \in Seq(Arrivals), NEW t \in Seq(Arrivals), NEW lost, NoticesBehind(q, lost),
           \A a \in Range(t) : ~a.data /\ a.about \in Queries \ lost => Arrived(q, a.about)
    PROVE  NoticesBehind(q \o t, lost)
  <1>. DEFINE u == q \o t
  <1>1. /\ Len(u) = Len(q) + Len(t) /\ Len(q) \in Nat /\ Len(t) \in Nat
        /\ \A i \in 1 .. Len(u) : u[i] = IF i <= Len(q) THEN q[i] ELSE t[i - Len(q)]
    BY ConcatProperties
  <1>. HIDE DEF u
  <1>2. ASSUME NEW i \in 1 .. Len(u), ~u[i].data, u[i].about \in Queries \ lost
        PROVE  \E j \in 1 .. i - 1 : u[j].data /\ u[j].about = u[i].about
    <2>1. CASE i <= Len(q)
      <3>1. i \in 1 .. Len(q) /\ u[i] = q[i] /\ \A j \in 1 .. i - 1 : u[j] = q[j]
        BY <1>1, <2>1
      <3>. QED
        BY <1>2, <3>1 DEF NoticesBehind
    <2>2. CASE i > Len(q)
      <3>1. i - Len(q) \in 1 .. Len(t) /\ u[i] = t[i - Len(q)]
        BY <1>1, <2>2
      <3>2. u[i] \in Range(t)
        BY <3>1, QueueRange
      <3>3. Arrived(q, u[i].about)
        BY <1>2, <3>2
      <3>4. PICK j \in 1 .. Len(q) : q[j].data /\ q[j].about = u[i].about
        BY <3>3, QueueRange DEF Arrived
      <3>5. j \in 1 .. i - 1 /\ u[j] = q[j]
        BY <1>1, <2>2
      <3>. QED
        BY <3>4, <3>5
    <2>. QED
      BY <1>1, <2>1, <2>2
  <1>. QED
    BY <1>2 DEF NoticesBehind, u

\* The command that a message tells the sender of has been carried out, and its
\* answer, if it is a query, has arrived: the answer's number is larger than an
\* acknowledgement's for an earlier block, and an answer does not wake the
\* senders of its own block.
LEMMA ToldIsAnswered ==
    ASSUME IInv, BlocksInv, AnswersInv, toHost # <<>>, NEW e \in Range(notifyQueue),
           e.seq <= WakeSeq(Head(toHost), Head(toHost).seq)
    PROVE  /\ \E b \in Range(executed) : e.cmd \in Range(b.cmds)
           /\ e.cmd \in Queries \ unanswered => Arrived(Got, e.cmd)
  <1>. DEFINE m == Head(toHost)
              r == m.seq
              x == r - 1 - (IF m.data THEN 1 ELSE 0)
              w == x % WordSize
  <1>1. /\ m \in Messages /\ r \in Nat \ {0} /\ r <= mcuSeq /\ mcuSeq \in Nat
        /\ toHost \in Seq(Messages) /\ m \in Range(toHost)
    BY NumberIsRebuilt, LinkFacts, TailRange
  <1>2. \A a \in Range(toHost) : a.data => a.seq > 1 /\ (~m.data => r < a.seq)
    BY <1>1, AheadTail DEF AnswersInv
  <1>3. w \in Nat /\ w <= r - 1 /\ (m.data => w <= r - 2)
    <2>1. x \in Nat /\ x <= r - 1 /\ (m.data => x <= r - 2)
      BY <1>1, <1>2
    <2>. HIDE DEF x, r, m
    <2>2. w \in Nat /\ w <= x
      BY <2>1, RemainderBound, LinkAssumption
    <2>. HIDE DEF w
    <2>. QED
      BY <1>1, <2>1, <2>2
  <1>4. e.seq \in Nat /\ e.seq <= w
    <2>. DEFINE Entries == [cmd : Commands, seq : Nat]
    <2>1. notifyQueue \in Seq(Entries)
      BY DEF IInv, TypeOK, PullerTypeOK
    <2>2. e \in Entries
      <3>. HIDE DEF Entries
      <3>. QED
        BY <2>1, QueueRange
    <2>. QED
      BY <2>2 DEF WakeSeq
  <1>5. e.seq < mcuSeq /\ mcuSeq <= sendSeq /\ sendSeq \in Nat
    <2>. HIDE DEF w, r
    <2>. QED
      BY <1>1, <1>3, <1>4, LinkFacts DEF BlocksInv, BuiltInv
  <1>6. PICK b \in Range(built) : b.seq = e.seq /\ e.cmd \in Range(b.cmds)
    <2>1. e.seq # sendSeq
      BY <1>1, <1>4, <1>5
    <2>. QED
      BY <2>1 DEF AnswersInv, Announced, Holds
  <1>7. b \in Range(executed)
    <2>1. /\ built \in Seq(Blocks) /\ Numbered(built, 1) /\ executed \in Seq(Blocks)
          /\ Len(executed) = mcuSeq - 1 /\ Follows(executed, built)
      BY DEF BlocksInv, BuiltInv, ExecutedInv, IInv, TypeOK, HistoryTypeOK
    <2>2. PICK i \in 1 .. Len(built) : b = built[i]
      BY <1>6, <2>1, QueueRange
    <2>3. built[i].seq = i
      BY <2>1, <2>2 DEF Numbered
    <2>4. i \in 1 .. Len(executed)
      BY <1>1, <1>5, <1>6, <2>1, <2>2, <2>3
    <2>. QED
      BY <2>1, <2>2, <2>4, QueueRange DEF Follows
  <1>8. ASSUME Answer(b.seq + 1, e.cmd) \in Range(toHost)
        PROVE  FALSE
    <2>. DEFINE a == Answer(b.seq + 1, e.cmd)
    <2>1. a.data /\ a.seq = e.seq + 1
      BY <1>6 DEF Answer
    <2>2. r <= a.seq
      <3>1. PICK j \in 1 .. Len(toHost) : a = toHost[j]
        BY <1>1, <1>8, QueueRange
      <3>2. 1 \in 1 .. j /\ m = toHost[1]
        BY <1>1
      <3>3. InOrder(toHost, receiveSeq, mcuSeq)
        BY LinkFacts
      <3>. HIDE DEF a, m
      <3>. QED
        BY <3>1, <3>2, <3>3 DEF InOrder
    <2>3. ~m.data => r < a.seq
      BY <1>2, <1>8, <2>1
    <2>. HIDE DEF a, r, w, m
    <2>. QED
      BY <1>1, <1>3, <1>4, <2>1, <2>2, <2>3
  <1>9. ASSUME e.cmd \in Queries \ unanswered
        PROVE  Arrived(Got, e.cmd)
    BY <1>6, <1>7, <1>8, <1>9 DEF AnswersInv, AllAnswered
  <1>. QED
    BY <1>6, <1>7, <1>9

\* The puller takes the first arrival.
LEMMA PulledIsGot ==
    ASSUME NEW S, NEW s \in Seq(S), NEW t \in Seq(S), t # <<>>
    PROVE  Append(s, Head(t)) \o Tail(t) = s \o t
  <1>. DEFINE e == Head(t)
              u == Tail(t)
              one == <<e>>
  <1>1. e \in S /\ u \in Seq(S) /\ Len(u) = Len(t) - 1 /\ Len(t) \in Nat \ {0} /\ e = t[1]
        /\ \A i \in 1 .. Len(t) - 1 : u[i] = t[i + 1]
    OBVIOUS
  <1>. HIDE DEF e, u
  <1>2. one \in Seq(S) /\ Len(one) = 1 /\ one[1] = e /\ Append(s, e) = s \o one
    BY <1>1, AppendIsConcat
  <1>. HIDE DEF one
  <1>3. one \o u = t
    <2>. DEFINE v == one \o u
    <2>1. /\ v \in Seq(S) /\ Len(v) = 1 + Len(u)
          /\ \A i \in 1 .. 1 + Len(u) : v[i] = IF i <= 1 THEN one[i] ELSE u[i - 1]
      BY <1>1, <1>2, ConcatProperties
    <2>. HIDE DEF v
    <2>2. ASSUME NEW i \in 1 .. Len(v)
          PROVE  v[i] = t[i]
      <3>1. CASE i = 1
        BY <1>1, <1>2, <2>1, <3>1
      <3>2. CASE i # 1
        <4>1. i - 1 \in 1 .. Len(t) - 1 /\ (i - 1) + 1 = i
          BY <1>1, <2>1, <3>2
        <4>2. v[i] = u[i - 1]
          BY <1>1, <2>1, <3>2
        <4>. QED
          BY <1>1, <4>1, <4>2
      <3>. QED
        BY <3>1, <3>2
    <2>3. Len(v) = Len(t)
      BY <1>1, <2>1
    <2>. QED
      BY <2>1, <2>2, <2>3, SeqEqual DEF v
  <1>4. (s \o one) \o u = s \o (one \o u)
    <2>1. one \in Seq(S) /\ u \in Seq(S)
      BY <1>1, <1>2
    <2>. QED
      BY <2>1, ConcatAssociative, SMTT(20)
  <1>5. Append(s, e) \o u = s \o t
    BY <1>2, <1>3, <1>4
  <1>. QED
    BY <1>5 DEF e, u

\* The types the steps need.
LEMMA AnswersTypes ==
    ASSUME IInv
    PROVE  /\ executed \in Seq(Blocks) /\ built \in Seq(Blocks) /\ toHost \in Seq(Messages)
           /\ receiveQueue \in Seq(Arrivals) /\ pulled \in Seq(Arrivals) /\ Got \in Seq(Arrivals)
           /\ notifyQueue \in Seq([cmd : Commands, seq : Nat]) /\ block \in Seq(Commands)
  <1>1. receiveQueue \in Seq(Arrivals) /\ pulled \in Seq(Arrivals)
    BY DEF IInv, TypeOK, PullerTypeOK
  <1>2. Got \in Seq(Arrivals)
    BY <1>1, ConcatProperties DEF Got
  <1>. QED
    BY <1>1, <1>2 DEF IInv, TypeOK, LinkTypeOK, SenderTypeOK, PullerTypeOK, HistoryTypeOK

\* What command_event announces, it puts into a block.
LEMMA AnnouncedStep ==
    ASSUME IInv, BlocksInv, AnswersInv, [Next]_vars
    PROVE  Announced(notifyQueue', built', sendSeq', block')
  <1>1. Announced(notifyQueue, built, sendSeq, block)
    BY DEF AnswersInv
  <1>2. CASE UNCHANGED <<notifyQueue, built, sendSeq, block>>
    BY <1>1, <1>2
  <1>3. CASE \E i \in 1 .. Len(pendingQueues) : AddCommand(i)
    <2>1. PICK cmd \in Commands :
            /\ block' = Append(block, cmd) /\ UNCHANGED <<sendSeq, built>>
            /\ notifyQueue' \in {notifyQueue, Append(notifyQueue, [cmd |-> cmd, seq |-> sendSeq])}
      <3>1. PICK i \in 1 .. Len(pendingQueues) : AddCommand(i)
        BY <1>3
      <3>. DEFINE q == pendingQueues[i]
                  cmd == Head(ready[q])
      <3>2. /\ block' = Append(block, cmd) /\ UNCHANGED <<sendSeq, built>>
            /\ notifyQueue' \in {notifyQueue, Append(notifyQueue, [cmd |-> cmd, seq |-> sendSeq])}
            /\ ready[q] # <<>>
        BY <3>1 DEF AddCommand, seqVars, MostUrgent
      <3>3. pendingQueues \in Seq(Queues) /\ ready \in [Queues -> Seq(Commands)]
        BY DEF IInv, TypeOK, SenderTypeOK
      <3>4. q \in Queues
        BY <3>3, ElementOfSeq
      <3>5. ready[q] \in Seq(Commands)
        BY <3>3, <3>4
      <3>6. cmd \in Commands
        BY <3>2, <3>5
      <3>. QED
        BY <3>2, <3>6
    <2>2. Range(block') = Range(block) \cup {cmd}
      BY <2>1, AnswersTypes, RangeAppend
    <2>3. Announced(notifyQueue, built, sendSeq, block')
      BY <1>1, <2>2 DEF Announced
    <2>. DEFINE new == [cmd |-> cmd, seq |-> sendSeq]
                Entries == [cmd : Commands, seq : Nat]
    <2>4. Announced(Append(notifyQueue, new), built, sendSeq, block')
      <3>1. new \in Entries /\ notifyQueue \in Seq(Entries)
        BY LinkFacts, AnswersTypes
      <3>2. new.seq = sendSeq /\ new.cmd \in Range(block')
        BY <2>2
      <3>. HIDE DEF new, Entries
      <3>3. Range(Append(notifyQueue, new)) = Range(notifyQueue) \cup {new}
        BY <3>1, RangeAppend
      <3>. QED
        BY <2>3, <3>2, <3>3 DEF Announced
    <2>. HIDE DEF new
    <2>. QED
      BY <2>1, <2>3, <2>4 DEF new
  <1>4. CASE StoreBlock
    <2>. DEFINE out == [seq |-> sendSeq, cmds |-> block]
    <2>1. built' = Append(built, out) /\ UNCHANGED notifyQueue
      BY <1>4 DEF StoreBlock, recvVars
    <2>2. out \in Blocks /\ out.seq = sendSeq /\ out.cmds = block
      BY LinkFacts, AnswersTypes DEF Blocks
    <2>. HIDE DEF out
    <2>3. /\ \A n, c : Holds(built, n, c) => Holds(built', n, c)
          /\ \A c \in Range(block) : Holds(built', sendSeq, c)
      BY <2>1, <2>2, AnswersTypes, HoldsMore
    <2>. QED
      BY <1>1, <2>1, <2>3 DEF Announced
  <1>5. CASE HandleMessage
    <2>. DEFINE Entries == [cmd : Commands, seq : Nat]
                r == Head(toHost).seq
    <2>1. toHost # <<>> /\ UNCHANGED <<built, block>>
      BY <1>5 DEF HandleMessage, bgVars
    <2>2. sendSeq' = sendSeq
      <3>1. r <= mcuSeq /\ mcuSeq <= sendSeq /\ r \in Nat /\ mcuSeq \in Nat /\ sendSeq \in Nat
        BY <2>1, NumberIsRebuilt, LinkFacts DEF BlocksInv, BuiltInv
      <3>2. sendSeq' = sendSeq \/ r > sendSeq
        BY <1>5, HandleLeaves
      <3>. HIDE DEF r
      <3>. QED
        BY <3>1, <3>2
    <2>3. Range(notifyQueue') \subseteq Range(notifyQueue)
      <3>1. PICK n \in 0 .. Len(notifyQueue) : notifyQueue' = SubSeq(notifyQueue, n + 1, Len(notifyQueue))
        BY <1>5, NumberIsRebuilt DEF HandleMessage
      <3>2. notifyQueue \in Seq(Entries)
        BY AnswersTypes
      <3>. HIDE DEF Entries
      <3>3. n + 1 \in 1 .. Len(notifyQueue) + 1 /\ Len(notifyQueue) \in 0 .. Len(notifyQueue)
        BY <3>1, <3>2
      <3>. QED
        BY <3>1, <3>2, <3>3, RangePart
    <2>. QED
      BY <1>1, <2>1, <2>2, <2>3 DEF Announced
  <1>6. CASE (\E q \in Queues : SendBatch(q) \/ KickBgThread(q) \/ MoveDue(q)) \/ StartBlock \/ WriteBlocks
    BY <1>2, <1>6 DEF SendBatch, KickBgThread, MoveDue, StartBlock, WriteBlocks, seqVars, recvVars, bgVars
  <1>7. CASE CommandEvent \/ KickEvent \/ RetransmitEvent \/ BackgroundEnds \/ RequestExit
    BY <1>2, <1>7 DEF CommandEvent, KickEvent, RetransmitEvent, BackgroundEnds, RequestExit, seqVars, recvVars,
                      bgVars
  <1>8. CASE PullerStep \/ Tick \/ LoseBlock \/ LoseMessage \/ McuStep \/ UNCHANGED vars
    BY <1>2, <1>8 DEF PullerStep, PullMessage, PullNothing, Tick, LoseBlock, LoseMessage, McuStep, McuTake,
                      McuAcknowledge, McuNak, vars, queueVars, seqVars, recvVars, bgVars
  <1>. QED
    BY <1>3, <1>4, <1>5, <1>6, <1>7, <1>8 DEF Next, BackgroundStep, CommandStep, Quiet

\* The order of answers and acknowledgements on the wire.
LEMMA AnswersAheadStep ==
    ASSUME IInv, AnswersInv, [Next]_vars
    PROVE  AnswersAhead(toHost')
  <1>1. AnswersAhead(toHost) /\ toHost \in Seq(Messages)
    BY AnswersTypes DEF AnswersInv
  <1>2. CASE UNCHANGED toHost
    BY <1>1, <1>2
  <1>3. CASE HandleMessage \/ LoseMessage
    <2>1. toHost # <<>> /\ toHost' = Tail(toHost)
      BY <1>3 DEF HandleMessage, LoseMessage
    <2>. QED
      BY <1>1, <2>1, AheadTail
  <1>4. CASE McuTake
    <2>. DEFINE b == Head(toMcu)
                n == mcuSeq + 1
                t == AnswersTo(b.cmds, n)
    <2>1. toHost' = toHost \o t
      BY <1>4 DEF McuTake
    <2>2. b \in Blocks /\ mcuSeq \in Nat \ {0}
      BY <1>4, TakenIsExpected, LinkFacts
    <2>3. b.cmds \in Seq(Commands) /\ n \in Nat \ {0, 1}
      BY <2>2 DEF Blocks
    <2>. HIDE DEF b, n
    <2>4. t \in Seq(Messages) /\ \A m \in Range(t) : m.data /\ m.seq = n
      BY <2>3, AnswersComplete
    <2>. HIDE DEF t
    <2>5. \A i \in 1 .. Len(t) : t[i].data /\ t[i].seq = n
      BY <2>4, QueueRange
    <2>6. \A i \in 1 .. Len(toHost) : toHost[i].seq < n
      <3>1. InOrder(toHost, receiveSeq, mcuSeq)
        BY LinkFacts
      <3>2. ASSUME NEW i \in 1 .. Len(toHost)
            PROVE  toHost[i].seq < n
        <4>1. toHost[i] \in Messages
          BY <1>1, ElementOfSeq
        <4>2. toHost[i].seq \in Nat /\ toHost[i].seq <= mcuSeq
          BY <3>1, <4>1 DEF InOrder, Messages
        <4>. QED
          BY <2>2, <4>2 DEF n
      <3>. QED
        BY <3>2
    <2>. QED
      BY <1>1, <2>1, <2>3, <2>4, <2>5, <2>6, AheadConcat
  <1>5. CASE McuAcknowledge \/ McuNak \/ LoseBlock
    <2>1. toHost' = toHost \/ toHost' = Append(toHost, Ack(mcuSeq))
      BY <1>5 DEF McuAcknowledge, McuNak, LoseBlock
    <2>2. Ack(mcuSeq) \in Messages /\ ~Ack(mcuSeq).data
      BY LinkFacts DEF Ack, Messages
    <2>. QED
      BY <1>1, <2>1, <2>2, AheadAck
  <1>6. CASE (\E q \in Queues : SendBatch(q) \/ KickBgThread(q) \/ MoveDue(q)) \/ StartBlock \/ WriteBlocks
    BY <1>2, <1>6 DEF SendBatch, KickBgThread, MoveDue, StartBlock, WriteBlocks, wireVars
  <1>7. CASE (\E i \in 1 .. Len(pendingQueues) : AddCommand(i)) \/ StoreBlock \/ CommandEvent \/ KickEvent
             \/ RetransmitEvent \/ BackgroundEnds \/ RequestExit
    BY <1>2, <1>7 DEF AddCommand, StoreBlock, CommandEvent, KickEvent, RetransmitEvent, BackgroundEnds, RequestExit,
                      wireVars
  <1>8. CASE PullerStep \/ Tick \/ UNCHANGED vars
    BY <1>2, <1>8 DEF PullerStep, PullMessage, PullNothing, Tick, vars, wireVars
  <1>. QED
    BY <1>3, <1>4, <1>5, <1>6, <1>7, <1>8 DEF Next, BackgroundStep, CommandStep, McuStep, Quiet

\* An answer is sent with its block, and goes from the wire to receive_queue and
\* to the puller, unless it is lost.
LEMMA AllAnsweredStep ==
    ASSUME IInv, IInv', AnswersInv, [Next]_vars
    PROVE  AllAnswered(executed', toHost', Got', unanswered')
  <1>1. AllAnswered(executed, toHost, Got, unanswered)
    BY DEF AnswersInv
  <1>2. CASE UNCHANGED <<executed, toHost, pulled, receiveQueue, unanswered>>
    BY <1>1, <1>2 DEF Got
  <1>3. CASE HandleMessage
    <2>. DEFINE r == Head(toHost).seq
    <2>1. toHost # <<>> /\ toHost' = Tail(toHost) /\ UNCHANGED <<executed, unanswered>>
      BY <1>3 DEF HandleMessage, mcuVars
    <2>2. PICK n \in 0 .. Len(notifyQueue), told \in Seq(Arrivals), arrived \in Seq(Arrivals) :
            /\ receiveQueue' = (receiveQueue \o told) \o arrived /\ pulled' = pulled
            /\ \A a \in Range(arrived) : a.data /\ a.about = Head(toHost).about /\ a.sent = SentBlock(r)
            /\ Head(toHost).data => arrived # <<>>
      BY <1>3, HandleArrives
    <2>3. Range(toHost) = {Head(toHost)} \cup Range(Tail(toHost))
      BY <2>1, AnswersTypes, HeadOrTail
    <2>4. Range(Got') = Range(Got) \cup Range(told) \cup Range(arrived)
      <3>. DEFINE q == receiveQueue \o told
      <3>1. Range(Got) = Range(pulled) \cup Range(receiveQueue)
        BY AnswersTypes, RangeConcat DEF Got
      <3>2. q \in Seq(Arrivals) /\ Range(q) = Range(receiveQueue) \cup Range(told)
        BY AnswersTypes, RangeConcat
      <3>. HIDE DEF q
      <3>3. q \o arrived \in Seq(Arrivals) /\ Range(q \o arrived) = Range(q) \cup Range(arrived)
        BY <3>2, RangeConcat
      <3>. DEFINE v == q \o arrived
      <3>4. Got' = pulled \o v
        BY <2>2 DEF Got, q
      <3>5. v \in Seq(Arrivals) /\ pulled \in Seq(Arrivals)
        BY <3>3, AnswersTypes
      <3>. HIDE DEF v
      <3>6. Range(pulled \o v) = Range(pulled) \cup Range(v)
        BY <3>5, RangeConcat
      <3>. QED
        BY <3>1, <3>2, <3>3, <3>4, <3>6 DEF v
    <2>5. \A c : Arrived(Got, c) => Arrived(Got', c)
      BY <2>4 DEF Arrived
    <2>6. ASSUME NEW k, NEW c, Answer(k, c) = Head(toHost)
          PROVE  Arrived(Got', c)
      <3>1. Head(toHost).data /\ Head(toHost).about = c
        BY <2>6 DEF Answer
      <3>2. Head(arrived) \in Range(arrived)
        BY <2>2, <3>1, TailRange
      <3>. QED
        BY <2>2, <2>4, <3>1, <3>2 DEF Arrived
    <2>7. ASSUME NEW b \in Range(executed), NEW c \in Range(b.cmds) \cap Queries
          PROVE  c \in unanswered \/ Answer(b.seq + 1, c) \in Range(Tail(toHost)) \/ Arrived(Got', c)
      BY <1>1, <2>3, <2>5, <2>6 DEF AllAnswered
    <2>. QED
      BY <2>1, <2>7 DEF AllAnswered
  <1>4. CASE PullMessage
    <2>1. /\ receiveQueue # <<>> /\ pulled' = Append(pulled, Head(receiveQueue))
          /\ receiveQueue' = Tail(receiveQueue) /\ UNCHANGED <<executed, toHost, unanswered>>
      BY <1>4 DEF PullMessage, mcuVars, wireVars
    <2>2. Got' = Got
      BY <2>1, AnswersTypes, PulledIsGot DEF Got
    <2>. QED
      BY <1>1, <2>1, <2>2
  <1>5. CASE McuTake
    <2>. DEFINE b == Head(toMcu)
                n == mcuSeq + 1
                t == AnswersTo(b.cmds, n)
    <2>1. /\ executed' = Append(executed, b) /\ toHost' = toHost \o t
          /\ UNCHANGED <<pulled, receiveQueue, unanswered>>
      BY <1>5 DEF McuTake, queueVars, recvVars
    <2>2. b \in Blocks /\ b.seq = mcuSeq /\ mcuSeq \in Nat
      BY <1>5, TakenIsExpected, LinkFacts
    <2>3. b.cmds \in Seq(Commands) /\ n \in Nat /\ n = b.seq + 1
      BY <2>2 DEF Blocks
    <2>. HIDE DEF b, n
    <2>4. t \in Seq(Messages) /\ \A c \in Range(b.cmds) \cap Queries : Answer(n, c) \in Range(t)
      BY <2>3, AnswersComplete
    <2>. HIDE DEF t
    <2>5. Range(toHost \o t) = Range(toHost) \cup Range(t) /\ Range(Append(executed, b)) = Range(executed) \cup {b}
      BY <2>2, <2>4, AnswersTypes, RangeConcat, RangeAppend
    <2>6. Got' = Got
      BY <2>1 DEF Got
    <2>7. AllAnswered(Append(executed, b), toHost \o t, Got, unanswered)
      BY <1>1, <2>3, <2>4, <2>5 DEF AllAnswered
    <2>. QED
      BY <2>1, <2>6, <2>7
  <1>6. CASE McuAcknowledge \/ McuNak \/ LoseBlock
    <2>1. UNCHANGED <<executed, pulled, receiveQueue, unanswered>>
      BY <1>6 DEF McuAcknowledge, McuNak, LoseBlock, queueVars, recvVars, mcuVars
    <2>2. Range(toHost) \subseteq Range(toHost')
      <3>1. toHost' = toHost \/ toHost' = Append(toHost, Ack(mcuSeq))
        BY <1>6 DEF McuAcknowledge, McuNak, LoseBlock
      <3>2. Ack(mcuSeq) \in Messages
        BY LinkFacts DEF Ack, Messages
      <3>3. Range(Append(toHost, Ack(mcuSeq))) = Range(toHost) \cup {Ack(mcuSeq)}
        BY <3>2, AnswersTypes, RangeAppend
      <3>. QED
        BY <3>1, <3>3
    <2>3. Got' = Got
      BY <2>1 DEF Got
    <2>. QED
      BY <1>1, <2>1, <2>2, <2>3 DEF AllAnswered
  <1>7. CASE LoseMessage
    <2>1. /\ toHost # <<>> /\ toHost' = Tail(toHost) /\ UNCHANGED <<executed, pulled, receiveQueue>>
          /\ unanswered' = IF Head(toHost).about = NoCommand THEN unanswered
                           ELSE unanswered \cup {Head(toHost).about}
      BY <1>7 DEF LoseMessage, queueVars, recvVars, mcuVars
    <2>2. Range(toHost) = {Head(toHost)} \cup Range(Tail(toHost))
      BY <2>1, AnswersTypes, HeadOrTail
    <2>3. ASSUME NEW n, NEW c \in Queries, Answer(n, c) = Head(toHost)
          PROVE  c \in unanswered'
      <3>1. Head(toHost).about = c /\ c # NoCommand
        BY <2>3, CommandsAssumption DEF Answer
      <3>. QED
        BY <2>1, <3>1
    <2>4. Got' = Got
      BY <2>1 DEF Got
    <2>5. ASSUME NEW b \in Range(executed), NEW c \in Range(b.cmds) \cap Queries
          PROVE  c \in unanswered' \/ Answer(b.seq + 1, c) \in Range(Tail(toHost)) \/ Arrived(Got, c)
      BY <1>1, <2>1, <2>2, <2>3 DEF AllAnswered
    <2>. QED
      BY <2>1, <2>4, <2>5 DEF AllAnswered
  <1>8. CASE (\E q \in Queues : SendBatch(q) \/ KickBgThread(q) \/ MoveDue(q)) \/ StartBlock \/ WriteBlocks
    BY <1>2, <1>8 DEF SendBatch, KickBgThread, MoveDue, StartBlock, WriteBlocks, wireVars, recvVars, mcuVars
  <1>9. CASE (\E i \in 1 .. Len(pendingQueues) : AddCommand(i)) \/ StoreBlock \/ CommandEvent \/ KickEvent
             \/ RetransmitEvent \/ BackgroundEnds \/ RequestExit
    BY <1>2, <1>9 DEF AddCommand, StoreBlock, CommandEvent, KickEvent, RetransmitEvent, BackgroundEnds, RequestExit,
                      wireVars, recvVars, mcuVars
  <1>10. CASE PullNothing \/ Tick \/ UNCHANGED vars
    BY <1>2, <1>10 DEF PullNothing, Tick, vars, queueVars, wireVars, recvVars, mcuVars
  <1>. QED
    BY <1>3, <1>4, <1>5, <1>6, <1>7, <1>8, <1>9, <1>10
    DEF Next, BackgroundStep, CommandStep, PullerStep, McuStep, Quiet

\* Notifications come behind the answers: when a message tells the senders of a
\* block, the answers to that block have arrived.
LEMMA NoticesStep ==
    ASSUME IInv, IInv', BlocksInv, AnswersInv, [Next]_vars
    PROVE  NoticesTrue(receiveQueue', executed') /\ NoticesBehind(Got', unanswered')
  <1>1. NoticesTrue(receiveQueue, executed) /\ NoticesBehind(Got, unanswered)
    BY DEF AnswersInv
  <1>2. CASE UNCHANGED <<executed, pulled, receiveQueue, unanswered>>
    BY <1>1, <1>2 DEF Got
  <1>3. CASE HandleMessage
    <2>. DEFINE r == Head(toHost).seq
    <2>1. toHost # <<>> /\ UNCHANGED <<executed, unanswered>>
      BY <1>3 DEF HandleMessage, mcuVars
    <2>2. PICK n \in 0 .. Len(notifyQueue), told \in Seq(Arrivals), arrived \in Seq(Arrivals) :
            /\ Told(n, WakeSeq(Head(toHost), r))
            /\ receiveQueue' = (receiveQueue \o told) \o arrived /\ pulled' = pulled
            /\ \A a \in Range(told) : ~a.data /\ \E i \in 1 .. n : a.about = notifyQueue[i].cmd
            /\ \A a \in Range(arrived) : a.data /\ a.about = Head(toHost).about /\ a.sent = SentBlock(r)
      BY <1>3, HandleArrives
    <2>3. ASSUME NEW a \in Range(told)
          PROVE  /\ \E b \in Range(executed) : a.about \in Range(b.cmds)
                 /\ a.about \in Queries \ unanswered => Arrived(Got, a.about)
      <3>. DEFINE Entries == [cmd : Commands, seq : Nat]
      <3>1. PICK i \in 1 .. n : a.about = notifyQueue[i].cmd
        BY <2>2, <2>3
      <3>2. notifyQueue[i].seq <= WakeSeq(Head(toHost), r)
        BY <2>2, <3>1 DEF Told
      <3>3. notifyQueue \in Seq(Entries)
        BY AnswersTypes
      <3>. HIDE DEF Entries
      <3>4. i \in 1 .. Len(notifyQueue)
        BY <2>2, <3>1, <3>3
      <3>5. notifyQueue[i] \in Range(notifyQueue)
        BY <3>3, <3>4, QueueRange
      <3>. QED
        BY <2>1, <3>1, <3>2, <3>5, ToldIsAnswered
    <2>. DEFINE new == told \o arrived
    <2>4. new \in Seq(Arrivals) /\ Range(new) = Range(told) \cup Range(arrived)
      BY <2>2, RangeConcat
    <2>5. receiveQueue' = receiveQueue \o new
      <3>1. receiveQueue \in Seq(Arrivals)
        BY AnswersTypes
      <3>2. (receiveQueue \o told) \o arrived = receiveQueue \o (told \o arrived)
        BY <3>1, ConcatAssociative
      <3>. QED
        BY <2>2, <3>2
    <2>. HIDE DEF new
    <2>6. Got' = Got \o new
      <3>1. Got' = pulled \o (receiveQueue \o new)
        BY <2>2, <2>5 DEF Got
      <3>2. pulled \in Seq(Arrivals) /\ receiveQueue \in Seq(Arrivals)
        BY AnswersTypes
      <3>3. (pulled \o receiveQueue) \o new = pulled \o (receiveQueue \o new)
        BY <2>4, <3>2, ConcatAssociative
      <3>. QED
        BY <3>1, <3>3 DEF Got
    <2>7. ASSUME NEW a \in Range(new), ~a.data
          PROVE  a \in Range(told)
      BY <2>2, <2>4, <2>7
    <2>8. NoticesBehind(Got \o new, unanswered)
      <3>1. \A a \in Range(new) : ~a.data /\ a.about \in Queries \ unanswered => Arrived(Got, a.about)
        BY <2>3, <2>7
      <3>. QED
        BY <1>1, <2>4, <3>1, AnswersTypes, NoticesConcat
    <2>9. NoticesTrue(receiveQueue \o new, executed)
      <3>1. Range(receiveQueue \o new) = Range(receiveQueue) \cup Range(new)
        BY <2>4, AnswersTypes, RangeConcat
      <3>. QED
        BY <1>1, <2>3, <2>7, <3>1 DEF NoticesTrue
    <2>. QED
      BY <2>1, <2>5, <2>6, <2>8, <2>9
  <1>4. CASE PullMessage
    <2>1. /\ receiveQueue # <<>> /\ pulled' = Append(pulled, Head(receiveQueue))
          /\ receiveQueue' = Tail(receiveQueue) /\ UNCHANGED <<executed, unanswered>>
      BY <1>4 DEF PullMessage, mcuVars, wireVars
    <2>2. Got' = Got
      BY <2>1, AnswersTypes, PulledIsGot DEF Got
    <2>3. Range(Tail(receiveQueue)) \subseteq Range(receiveQueue)
      BY <2>1, AnswersTypes, TailRange
    <2>. QED
      BY <1>1, <2>1, <2>2, <2>3 DEF NoticesTrue
  <1>5. CASE McuTake
    <2>1. executed' = Append(executed, Head(toMcu)) /\ UNCHANGED <<pulled, receiveQueue, unanswered>>
      BY <1>5 DEF McuTake, queueVars, recvVars
    <2>2. Head(toMcu) \in Blocks
      BY <1>5, TakenIsExpected
    <2>3. Range(executed) \subseteq Range(executed')
      BY <2>1, <2>2, AnswersTypes, RangeAppend
    <2>. QED
      BY <1>1, <2>1, <2>3 DEF NoticesTrue, Got
  <1>6. CASE LoseMessage
    <2>1. UNCHANGED <<executed, pulled, receiveQueue>> /\ unanswered \subseteq unanswered'
      BY <1>6 DEF LoseMessage, queueVars, recvVars, mcuVars
    <2>. QED
      BY <1>1, <2>1 DEF NoticesBehind, Got
  <1>7. CASE (\E q \in Queues : SendBatch(q) \/ KickBgThread(q) \/ MoveDue(q)) \/ StartBlock \/ WriteBlocks
    BY <1>2, <1>7 DEF SendBatch, KickBgThread, MoveDue, StartBlock, WriteBlocks, wireVars, recvVars, mcuVars
  <1>8. CASE (\E i \in 1 .. Len(pendingQueues) : AddCommand(i)) \/ StoreBlock \/ CommandEvent \/ KickEvent
             \/ RetransmitEvent \/ BackgroundEnds \/ RequestExit
    BY <1>2, <1>8 DEF AddCommand, StoreBlock, CommandEvent, KickEvent, RetransmitEvent, BackgroundEnds, RequestExit,
                      wireVars, recvVars, mcuVars
  <1>9. CASE PullNothing \/ McuAcknowledge \/ McuNak \/ LoseBlock \/ Tick \/ UNCHANGED vars
    BY <1>2, <1>9 DEF PullNothing, McuAcknowledge, McuNak, LoseBlock, Tick, vars, queueVars, wireVars, recvVars,
                      mcuVars
  <1>. QED
    BY <1>3, <1>4, <1>5, <1>6, <1>7, <1>8, <1>9
    DEF Next, BackgroundStep, CommandStep, PullerStep, McuStep, Quiet

\* Whoever waits for a command's acknowledgement is told only when the controller
\* has the command, and the answer to a query is in receive_queue before that,
\* unless it was lost on the wire: SerialRetryCommand need look for it but once.
THEOREM AnswersComeFirst ==
    ASSUME McuStart = {1}
    PROVE  Spec => []AnswerBeforeNotification
  <1>1. Init => IInv /\ BlocksInv /\ AnswersInv
    <2>1. SUFFICES ASSUME Init
                   PROVE  AnswersInv
      BY McuStart = {1}, InitInv, InitBlocks
    <2>2. notifyQueue = <<>> /\ toHost = <<>> /\ receiveQueue = <<>> /\ pulled = <<>> /\ executed = <<>>
      BY <2>1 DEF Init
    <2>3. Got = <<>>
      <3>1. <<>> \in Seq(Arrivals)
        OBVIOUS
      <3>. QED
        BY <2>2, <3>1, ConcatEmptySeq DEF Got
    <2>4. Range(<<>>) = {}
      BY DEF Range
    <2>. QED
      BY <2>2, <2>3, <2>4 DEF AnswersInv, Announced, AnswersAhead, AllAnswered, NoticesTrue, NoticesBehind
  <1>2. IInv /\ BlocksInv /\ AnswersInv /\ [Next]_vars => (IInv /\ BlocksInv /\ AnswersInv)'
    <2>1. SUFFICES ASSUME IInv, BlocksInv, AnswersInv, [Next]_vars
                   PROVE  (IInv /\ BlocksInv /\ AnswersInv)'
      OBVIOUS
    <2>2. IInv' /\ BlocksInv'
      BY <2>1, NextInv, NextBlocks DEF LinkNext
    <2>3. AnswersInv'
      BY <2>1, <2>2, AnnouncedStep, AnswersAheadStep, AllAnsweredStep, NoticesStep DEF AnswersInv
    <2>. QED
      BY <2>2, <2>3
  <1>3. AnswersInv => AnswerBeforeNotification
    <2>1. ASSUME NEW a, NEW b \in Range(executed), a \in Range(b.cmds)
          PROVE  a \in ExecutedCommands
      BY <2>1, ToSetIsRange DEF ExecutedCommands
    <2>. QED
      BY <2>1, ToSetIsRange DEF AnswersInv, NoticesTrue, NoticesBehind, AnswerBeforeNotification, Got
  <1>. QED
    BY <1>1, <1>2, <1>3, PTL DEF Spec
=============================================================================
