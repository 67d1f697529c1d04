-------------------------- MODULE SerialQueue_proofs --------------------------
(***************************************************************************)
(* Theorems about SerialQueue: its types, that a few bits of a number are  *)
(* enough to tell which block a message is about, that what is taken off   *)
(* sent_queue as acknowledged has been executed, that every block is       *)
(* executed once and in order, for any window smaller than the range of    *)
(* the numbers and whatever is lost, garbled or sent again, that the       *)
(* controller's buffer is never asked to hold more than the window, and    *)
(* that every step is one of the abstract CommandChannel.                  *)
(***************************************************************************)
EXTENDS SerialQueue, QueueLemmas, FiniteSetTheorems

\* The blocks under way in q, none of which is next or later: the controller,
\* which expects the given block, is less than the range of the numbers ahead
\* of each, and will be when those before it in q have arrived.
Recent(q, next, expected) ==
    \A i \in 1 .. Len(q) :
        /\ q[i].seq < next /\ expected < q[i].seq + SeqNumbers
        /\ \A j \in 1 .. i - 1 : q[j].seq + 1 < q[i].seq + SeqNumbers

\* The numbers of the messages under way in q never go down, and are between
\* low and high.
InOrder(q, low, high) ==
    \A i \in 1 .. Len(q) :
        /\ low <= q[i].seq /\ q[i].seq <= high
        /\ \A j \in 1 .. i : q[j].seq <= q[i].seq

\* The blocks under way, those to be written last.
Wire == toMcu \o outBuf

WireInv == Recent(Wire, sendSeq, mcuSeq) /\ InOrder(toHost, receiveSeq, mcuSeq)

\* The messages under way in q all have the number n.
AllSay(q, n) == \A i \in 1 .. Len(q) : q[i].seq = n

\* The controller is not ahead of the host, except at first, when the number it
\* expects was never sent to it and is the only one it can answer with.
AheadInv ==
    /\ receiveSeq <= mcuSeq
    /\ mcuSeq > sendSeq =>
        /\ receiveSeq = 1 /\ mcuSeq <= SeqNumbers
        /\ AllSay(toHost, mcuSeq)

\* What is outstanding, and what is known of the window while a block is built.
SentInv ==
    /\ SentIsOutstanding
    /\ bg = "build" => sendSeq - receiveSeq < MaxPending
    /\ bg \in {"poll", "ended"} => outBuf = <<>>

\* The inductive invariant.
IInv == TypeOK /\ WireInv /\ AheadInv /\ SentInv

\* Block after block, s is what t is.
Follows(s, t) == \A i \in 1 .. Len(s) : s[i] = t[i]

\* When the controller expects block 1 at first, it never is ahead of the host,
\* the numbers of the blocks that were built are their positions, every block
\* under way is one of these, and the controller has executed them in order.
BuiltInv == mcuSeq <= sendSeq /\ Len(built) = sendSeq - 1 /\ Numbered(built, 1)
KnownInv == Range(Wire) \subseteq Range(built) /\ Range(sentQueue) \subseteq Range(built)
ExecutedInv == Len(executed) = mcuSeq - 1 /\ Follows(executed, built)
BlocksInv == BuiltInv /\ KnownInv /\ ExecutedInv
-----------------------------------------------------------------------------
(* Arithmetic: what the few bits of a number tell.                         *)

\* A number from the range of the remainders is its own remainder.
LEMMA SmallRemainder ==
    ASSUME NEW n \in Nat \ {0}, NEW x \in 0 .. n - 1
    PROVE  x % n = x
  OBVIOUS

\* The remainder of a number is not larger.
LEMMA RemainderBound ==
    ASSUME NEW n \in Nat \ {0}, NEW x \in Nat
    PROVE  x % n \in Nat /\ x % n <= x
  <1>1. x % n \in 0 .. n - 1
    OBVIOUS
  <1>2. CASE x < n
    BY <1>2, SmallRemainder
  <1>3. CASE x >= n
    BY <1>1, <1>3
  <1>. QED
    BY <1>1, <1>2, <1>3

\* Two numbers with the same remainder are the same when they are close.
LEMMA SameRemainder ==
    ASSUME NEW n \in Nat \ {0}, NEW x \in Nat, NEW y \in Nat, x % n = y % n, x < y + n, y < x + n
    PROVE  x = y
  <1>. DEFINE a == x \div n
              b == y \div n
  <1>1. /\ x = n * a + (x % n) /\ a \in Int /\ x % n \in 0 .. n - 1
        /\ y = n * b + (y % n) /\ b \in Int /\ y % n \in 0 .. n - 1
    OBVIOUS
  <1>. HIDE DEF a, b
  <1>2. x - y = n * (a - b)
    <2>1. x - y = n * a - n * b
      BY <1>1
    <2>2. n * a - n * b = n * (a - b)
      BY <1>1
    <2>. QED
      BY <2>1, <2>2
  <1>3. ASSUME NEW c \in Int, -n < n * c, n * c < n
        PROVE  c = 0
    <2>1. CASE c >= 1
      <3>1. n * c >= n * 1
        BY <2>1
      <3>. QED
        BY <1>3, <3>1
    <2>2. CASE c <= -1
      <3>1. n * c <= n * (-1)
        BY <2>2
      <3>. QED
        BY <1>3, <3>1
    <2>. QED
      BY <1>3, <2>1, <2>2
  <1>4. a - b = 0
    <2>1. a - b \in Int /\ -n < n * (a - b) /\ n * (a - b) < n
      BY <1>1, <1>2
    <2>. QED
      BY <2>1, <1>3
  <1>. QED
    BY <1>1, <1>4

\* The window is smaller than the range of the numbers.
LEMMA WindowFits ==
    /\ SeqNumbers \in Nat \ {0} /\ MaxPending \in Nat \ {0}
    /\ 1 < SeqNumbers /\ MaxPending < SeqNumbers
  BY LinkAssumption
-----------------------------------------------------------------------------
(* What is under way.                                                      *)

\* The first block of a wire arrives, or is lost.
LEMMA RecentTail ==
    ASSUME NEW q \in Seq(Blocks), q # <<>>, NEW next \in Int, NEW expected \in Int, Recent(q, next, expected)
    PROVE  /\ Tail(q) \in Seq(Blocks) /\ Recent(Tail(q), next, expected)
           /\ Recent(Tail(q), next, Head(q).seq + 1)
           /\ Head(q) \in Blocks /\ Head(q).seq < next /\ expected < Head(q).seq + SeqNumbers
  <1>1. /\ Tail(q) \in Seq(Blocks) /\ Len(Tail(q)) = Len(q) - 1 /\ Len(q) \in Nat \ {0}
        /\ Head(q) = q[1] /\ Head(q) \in Blocks
        /\ \A i \in 1 .. Len(q) - 1 : Tail(q)[i] = q[i + 1]
    OBVIOUS
  <1>. DEFINE t == Tail(q)
  <1>. HIDE DEF t
  <1>2. Len(t) = Len(q) - 1 /\ \A i \in 1 .. Len(t) : t[i] = q[i + 1] /\ i + 1 \in 1 .. Len(q)
    BY <1>1 DEF t
  <1>3. ASSUME NEW i \in 1 .. Len(t)
        PROVE  /\ t[i].seq < next /\ expected < t[i].seq + SeqNumbers /\ q[1].seq + 1 < t[i].seq + SeqNumbers
               /\ \A j \in 1 .. i - 1 : t[j].seq + 1 < t[i].seq + SeqNumbers
    <2>1. /\ q[i + 1].seq < next /\ expected < q[i + 1].seq + SeqNumbers
          /\ \A j \in 1 .. i : q[j].seq + 1 < q[i + 1].seq + SeqNumbers
      BY <1>1, <1>2, <1>3 DEF Recent
    <2>2. \A j \in 1 .. i - 1 : t[j] = q[j + 1] /\ j + 1 \in 1 .. i
      BY <1>1, <1>2
    <2>3. 1 \in 1 .. i
      BY <1>1, <1>2
    <2>. QED
      BY <1>2, <2>1, <2>2, <2>3
  <1>4. Recent(t, next, expected) /\ Recent(t, next, q[1].seq + 1)
    BY <1>3 DEF Recent
  <1>5. q[1].seq < next /\ expected < q[1].seq + SeqNumbers
    BY <1>1 DEF Recent
  <1>. QED
    BY <1>1, <1>4, <1>5 DEF t

\* What tcflush leaves of a wire.
LEMMA RecentPrefix ==
    ASSUME NEW q \in Seq(Blocks), NEW n \in 0 .. Len(q), NEW next, NEW expected, Recent(q, next, expected)
    PROVE  SubSeq(q, 1, n) \in Seq(Blocks) /\ Recent(SubSeq(q, 1, n), next, expected)
  <1>. DEFINE t == SubSeq(q, 1, n)
  <1>1. t \in Seq(Blocks) /\ Len(t) = n /\ \A i \in 1 .. n : t[i] = q[i]
    OBVIOUS
  <1>. HIDE DEF t
  <1>2. Recent(t, next, expected)
    BY <1>1 DEF Recent
  <1>. QED
    BY <1>1, <1>2 DEF t

\* More blocks have been built.
LEMMA RecentLater ==
    ASSUME NEW q \in Seq(Blocks), NEW next \in Int, NEW later \in Int, next <= later, NEW expected,
           Recent(q, next, expected)
    PROVE  Recent(q, later, expected)
  <1>1. \A i \in 1 .. Len(q) : q[i].seq \in Int
    <2>1. \A i \in 1 .. Len(q) : q[i] \in Blocks
      OBVIOUS
    <2>. QED
      BY <2>1 DEF Blocks
  <1>. QED
    BY <1>1 DEF Recent

\* Blocks that are sent, for the first time or again, are behind all the others.
LEMMA RecentConcat ==
    ASSUME NEW q \in Seq(Blocks), NEW t \in Seq(Blocks), NEW next \in Int, NEW expected \in Int,
           Recent(q, next, expected),
           \A i \in 1 .. Len(t) :
             t[i].seq < next /\ next < t[i].seq + SeqNumbers /\ expected < t[i].seq + SeqNumbers
    PROVE  q \o t \in Seq(Blocks) /\ Recent(q \o t, next, expected)
  <1>. DEFINE u == q \o t
  <1>1. u \in Seq(Blocks) /\ Len(u) = Len(q) + Len(t)
    BY ConcatProperties
  <1>2. \A i \in 1 .. Len(q) + Len(t) : u[i] = IF i <= Len(q) THEN q[i] ELSE t[i - Len(q)]
    BY ConcatProperties
  <1>3. Len(q) \in Nat /\ Len(t) \in Nat
    OBVIOUS
  <1>. HIDE DEF u
  <1>4. ASSUME NEW i \in 1 .. Len(u)
        PROVE  u[i].seq \in Int /\ u[i].seq + 1 <= next /\ expected < u[i].seq + SeqNumbers
    <2>1. u[i].seq \in Int
      <3>1. u[i] \in Blocks
        BY <1>1
      <3>. QED
        BY <3>1 DEF Blocks
    <2>2. CASE i <= Len(q)
      <3>1. i \in 1 .. Len(q) /\ u[i] = q[i]
        BY <1>1, <1>2, <1>3, <2>2
      <3>2. q[i].seq < next /\ expected < q[i].seq + SeqNumbers
        BY <3>1 DEF Recent
      <3>. QED
        BY <2>1, <3>1, <3>2
    <2>3. CASE i > Len(q)
      <3>1. i - Len(q) \in 1 .. Len(t) /\ u[i] = t[i - Len(q)]
        BY <1>1, <1>2, <1>3, <2>3
      <3>. QED
        BY <2>1, <3>1
    <2>. QED
      BY <1>3, <2>2, <2>3
  <1>5. ASSUME NEW i \in 1 .. Len(u), NEW j \in 1 .. i - 1
        PROVE  u[j].seq + 1 < u[i].seq + SeqNumbers
    <2>1. j \in 1 .. Len(u)
      BY <1>1, <1>3
    <2>2. CASE i <= Len(q)
      <3>1. i \in 1 .. Len(q) /\ u[i] = q[i] /\ u[j] = q[j]
        BY <1>1, <1>2, <1>3, <2>1, <2>2
      <3>. QED
        BY <3>1 DEF Recent
    <2>3. CASE i > Len(q)
      <3>1. i - Len(q) \in 1 .. Len(t) /\ u[i] = t[i - Len(q)]
        BY <1>1, <1>2, <1>3, <2>3
      <3>2. next < u[i].seq + SeqNumbers
        BY <3>1
      <3>. QED
        BY <1>4, <2>1, <3>2, WindowFits
    <2>. QED
      BY <1>3, <2>2, <2>3
  <1>6. Recent(u, next, expected)
    <2>1. \A i \in 1 .. Len(u) : u[i].seq < next
      BY <1>4
    <2>. QED
      BY <1>4, <1>5, <2>1 DEF Recent
  <1>. QED
    BY <1>1, <1>6 DEF u

\* The first message arrives, or is lost.
LEMMA InOrderTail ==
    ASSUME NEW q \in Seq(Messages), q # <<>>, NEW low \in Int, NEW high \in Int, InOrder(q, low, high)
    PROVE  /\ Tail(q) \in Seq(Messages) /\ Head(q) \in Messages
           /\ InOrder(Tail(q), low, high) /\ InOrder(Tail(q), Head(q).seq, high)
           /\ low <= Head(q).seq /\ Head(q).seq <= high
  <1>1. /\ Tail(q) \in Seq(Messages) /\ Len(Tail(q)) = Len(q) - 1 /\ Len(q) \in Nat \ {0}
        /\ Head(q) = q[1] /\ Head(q) \in Messages
        /\ \A i \in 1 .. Len(q) - 1 : Tail(q)[i] = q[i + 1]
    OBVIOUS
  <1>. DEFINE t == Tail(q)
  <1>. HIDE DEF t
  <1>2. Len(t) = Len(q) - 1 /\ \A i \in 1 .. Len(t) : t[i] = q[i + 1] /\ i + 1 \in 1 .. Len(q)
    BY <1>1 DEF t
  <1>3. ASSUME NEW i \in 1 .. Len(t)
        PROVE  /\ low <= t[i].seq /\ t[i].seq <= high /\ q[1].seq <= t[i].seq
               /\ \A j \in 1 .. i : t[j].seq <= t[i].seq
    <2>1. /\ low <= q[i + 1].seq /\ q[i + 1].seq <= high
          /\ \A j \in 1 .. i + 1 : q[j].seq <= q[i + 1].seq
      BY <1>2, <1>3 DEF InOrder
    <2>2. \A j \in 1 .. i : t[j] = q[j + 1] /\ j + 1 \in 1 .. i + 1
      BY <1>1, <1>2
    <2>3. 1 \in 1 .. i + 1
      BY <1>1, <1>2
    <2>. QED
      BY <1>2, <2>1, <2>2, <2>3
  <1>4. InOrder(t, low, high) /\ InOrder(t, q[1].seq, high)
    BY <1>3 DEF InOrder
  <1>5. low <= q[1].seq /\ q[1].seq <= high
    BY <1>1 DEF InOrder
  <1>. QED
    BY <1>1, <1>4, <1>5 DEF t

\* What the controller sends has the highest number.
LEMMA InOrderConcat ==
    ASSUME NEW q \in Seq(Messages), NEW t \in Seq(Messages), NEW low \in Int, NEW high \in Int, NEW new \in Int,
           InOrder(q, low, high), low <= high, high <= new, \A i \in 1 .. Len(t) : t[i].seq = new
    PROVE  q \o t \in Seq(Messages) /\ InOrder(q \o t, low, new)
  <1>. DEFINE u == q \o t
  <1>1. u \in Seq(Messages) /\ Len(u) = Len(q) + Len(t)
    BY ConcatProperties
  <1>2. \A i \in 1 .. Len(q) + Len(t) : u[i] = IF i <= Len(q) THEN q[i] ELSE t[i - Len(q)]
    BY ConcatProperties
  <1>3. Len(q) \in Nat /\ Len(t) \in Nat
    OBVIOUS
  <1>. HIDE DEF u
  <1>4. ASSUME NEW i \in 1 .. Len(u)
        PROVE  u[i].seq \in Int /\ low <= u[i].seq /\ u[i].seq <= new /\ (i > Len(q) => u[i].seq = new)
    <2>1. u[i].seq \in Int
      <3>1. u[i] \in Messages
        BY <1>1
      <3>. QED
        BY <3>1 DEF Messages
    <2>2. CASE i <= Len(q)
      <3>1. i \in 1 .. Len(q) /\ u[i] = q[i]
        BY <1>1, <1>2, <1>3, <2>2
      <3>2. low <= q[i].seq /\ q[i].seq <= high
        BY <3>1 DEF InOrder
      <3>. QED
        BY <1>3, <2>1, <2>2, <3>1, <3>2
    <2>3. CASE i > Len(q)
      <3>1. i - Len(q) \in 1 .. Len(t) /\ u[i] = t[i - Len(q)]
        BY <1>1, <1>2, <1>3, <2>3
      <3>. QED
        BY <2>1, <3>1
    <2>. QED
      BY <1>3, <2>2, <2>3
  <1>5. ASSUME NEW i \in 1 .. Len(u), NEW j \in 1 .. i
        PROVE  u[j].seq <= u[i].seq
    <2>1. j \in 1 .. Len(u)
      BY <1>1, <1>3
    <2>2. CASE i <= Len(q)
      <3>1. i \in 1 .. Len(q) /\ u[i] = q[i] /\ u[j] = q[j]
        BY <1>1, <1>2, <1>3, <2>1, <2>2
      <3>. QED
        BY <3>1 DEF InOrder
    <2>3. CASE i > Len(q)
      BY <1>4, <2>1, <2>3
    <2>. QED
      BY <1>3, <2>2, <2>3
  <1>6. InOrder(u, low, new)
    BY <1>4, <1>5 DEF InOrder
  <1>. QED
    BY <1>1, <1>6 DEF u

\* Among the members of a set of positions there is an n-th one.
LEMMA NthPosition ==
    ASSUME NEW len \in Nat, NEW A \in SUBSET (1 .. len), NEW n \in 1 .. Cardinality(A)
    PROVE  /\ Cardinality(A) \in Nat
           /\ \E i \in A : Cardinality({j \in A : j <= i}) = n
  <1>. DEFINE Upto(k) == {j \in A : j <= k}
              Enough == {k \in 0 .. len : n <= Cardinality(Upto(k))}
  <1>1. IsFiniteSet(A) /\ Cardinality(A) \in Nat /\ A \subseteq Nat
    <2>1. IsFiniteSet(1 .. len)
      BY FS_Interval
    <2>2. IsFiniteSet(A)
      BY <2>1, FS_Subset
    <2>. QED
      BY <2>2, FS_CardinalityType
  <1>2. ASSUME NEW k \in Nat
        PROVE  /\ IsFiniteSet(Upto(k)) /\ Cardinality(Upto(k)) \in Nat
               /\ \A j : j \in Upto(k) <=> j \in A /\ j <= k
    <2>1. Upto(k) \subseteq A /\ \A j : j \in Upto(k) <=> j \in A /\ j <= k
      OBVIOUS
    <2>. HIDE DEF Upto
    <2>2. IsFiniteSet(Upto(k))
      BY <1>1, <2>1, FS_Subset
    <2>. QED
      BY <2>1, <2>2, FS_CardinalityType
  <1>3. \A k : k \in Enough <=> k \in 0 .. len /\ n <= Cardinality(Upto(k))
    OBVIOUS
  <1>. HIDE DEF Upto, Enough
  <1>4. len \in Enough
    <2>1. \A j : j \in Upto(len) <=> j \in A /\ j <= len
      BY <1>2
    <2>2. \A j \in A : j <= len
      OBVIOUS
    <2>3. Upto(len) = A
      BY <2>1, <2>2
    <2>. QED
      BY <1>1, <1>3, <2>3
  <1>5. PICK k \in Enough : \A l \in Enough : k <= l
    <2>1. Enough \in SUBSET Nat /\ Enough # {}
      BY <1>3, <1>4
    <2>. QED
      BY <2>1, LeastNatural
  <1>6. k \in 0 .. len /\ n <= Cardinality(Upto(k)) /\ k \in Nat
    BY <1>3, <1>5
  <1>7. k # 0
    <2>1. \A j : j \in Upto(0) <=> j \in A /\ j <= 0
      BY <1>2
    <2>2. \A j \in A : ~(j <= 0)
      OBVIOUS
    <2>3. Upto(0) = {}
      BY <2>1, <2>2
    <2>4. Cardinality(Upto(0)) = 0
      BY <2>3, FS_EmptySet
    <2>. QED
      BY <1>6, <2>4
  <1>8. k - 1 \in 0 .. len /\ k - 1 \in Nat
    BY <1>6, <1>7
  <1>9. Cardinality(Upto(k - 1)) < n /\ Cardinality(Upto(k - 1)) \in Nat /\ Cardinality(Upto(k)) \in Nat
    <2>1. k - 1 \notin Enough
      BY <1>5, <1>6, <1>8
    <2>2. ~(n <= Cardinality(Upto(k - 1)))
      BY <1>3, <1>8, <2>1
    <2>3. Cardinality(Upto(k - 1)) \in Nat /\ Cardinality(Upto(k)) \in Nat
      BY <1>2, <1>6, <1>8
    <2>. QED
      BY <1>1, <2>2, <2>3
  <1>10. k \in A
    <2>1. SUFFICES ASSUME k \notin A
                   PROVE  FALSE
      OBVIOUS
    <2>2. \A j \in A : j \in Nat /\ (j <= k <=> j <= k - 1)
      BY <1>1, <1>6, <2>1
    <2>3. \A j : j \in Upto(k) <=> j \in Upto(k - 1)
      <3>1. \A j : j \in Upto(k) <=> j \in A /\ j <= k
        BY <1>2, <1>6
      <3>2. \A j : j \in Upto(k - 1) <=> j \in A /\ j <= k - 1
        BY <1>2, <1>8
      <3>. QED
        BY <2>2, <3>1, <3>2
    <2>4. Upto(k) = Upto(k - 1)
      BY <2>3
    <2>. QED
      BY <1>1, <1>6, <1>9, <2>4
  <1>11. Cardinality(Upto(k)) = Cardinality(Upto(k - 1)) + 1
    <2>1. \A j \in A : j \in Nat /\ (j <= k <=> j <= k - 1 \/ j = k)
      BY <1>1, <1>6
    <2>2. \A j : j \in Upto(k) <=> j \in Upto(k - 1) \cup {k}
      <3>1. \A j : j \in Upto(k) <=> j \in A /\ j <= k
        BY <1>2, <1>6
      <3>2. \A j : j \in Upto(k - 1) <=> j \in A /\ j <= k - 1
        BY <1>2, <1>8
      <3>. QED
        BY <1>10, <2>1, <3>1, <3>2
    <2>3. Upto(k) = Upto(k - 1) \cup {k}
      BY <2>2
    <2>4. k \notin Upto(k - 1)
      BY <1>2, <1>6, <1>8
    <2>5. IsFiniteSet(Upto(k - 1))
      BY <1>2, <1>8
    <2>. QED
      BY <2>3, <2>4, <2>5, FS_AddElement
  <1>12. Cardinality(Upto(k)) = n
    BY <1>1, <1>6, <1>9, <1>11
  <1>13. Cardinality({j \in A : j <= k}) = n
    BY <1>12 DEF Upto
  <1>. QED
    BY <1>1, <1>10, <1>13

\* The answers to a block are messages, and say which block comes next.
LEMMA AnswersProperties ==
    ASSUME NEW cmds \in Seq(Commands), NEW seq \in Nat
    PROVE  /\ AnswersTo(cmds, seq) \in Seq(Messages)
           /\ \A i \in 1 .. Len(AnswersTo(cmds, seq)) : AnswersTo(cmds, seq)[i].seq = seq
  <1>. DEFINE A == QueriesIn(cmds)
              Nth(n) == CHOOSE i \in A : Cardinality({j \in A : j <= i}) = n
              e(n) == Answer(seq, cmds[Nth(n)])
  <1>1. A \in SUBSET (1 .. Len(cmds)) /\ Len(cmds) \in Nat
    BY DEF QueriesIn
  <1>2. Cardinality(A) \in Nat
    <2>1. IsFiniteSet(1 .. Len(cmds))
      BY <1>1, FS_Interval
    <2>2. IsFiniteSet(A)
      BY <1>1, <2>1, FS_Subset
    <2>. QED
      BY <2>2, FS_CardinalityType
  <1>3. ASSUME NEW n \in 1 .. Cardinality(A)
        PROVE  e(n) \in Messages /\ e(n).seq = seq
    <2>1. \E i \in A : Cardinality({j \in A : j <= i}) = n
      BY <1>1, NthPosition
    <2>2. Nth(n) \in A
      BY <2>1
    <2>. HIDE DEF A, Nth
    <2>3. Nth(n) \in 1 .. Len(cmds)
      BY <1>1, <2>2
    <2>4. cmds[Nth(n)] \in Commands
      BY <2>3, ElementOfSeq
    <2>. QED
      BY <2>4 DEF Answer, Messages
  <1>4. AnswersTo(cmds, seq) = [n \in 1 .. Cardinality(A) |-> e(n)]
    BY DEF AnswersTo
  <1>. HIDE DEF A, e
  <1>5. [n \in 1 .. Cardinality(A) |-> e(n)] \in Seq(Messages)
    BY <1>2, <1>3, IsASeq
  <1>. QED
    BY <1>2, <1>3, <1>4, <1>5
-----------------------------------------------------------------------------
(* A message for the host.                                                 *)

\* SerialReader adds two steps to those of Next: the controller reports of its
\* own, and disconnect ends the threads whatever MayExit is.
Closes ==
    /\ mustExit' = TRUE /\ kicked' = TRUE
    /\ UNCHANGED <<seqVars, ackVars, nakVars, pendVars, recvVars, timerVars,
                   bgVars, sendVars, built, mcuVars, wireVars, countVars>>
LinkNext == Next \/ McuReport \/ Closes

\* The few bits of the first message under way stand for its number, which is
\* never refused.
LEMMA NumberIsRebuilt ==
    ASSUME IInv, toHost # <<>>
    PROVE  /\ Head(toHost) \in Messages /\ Head(toHost).seq \in Nat \ {0}
           /\ Rebuild(Head(toHost).seq) = Head(toHost).seq /\ ~Invalid(Head(toHost).seq)
           /\ receiveSeq <= Head(toHost).seq /\ Head(toHost).seq <= mcuSeq
           /\ Head(toHost).seq > sendSeq => Head(toHost).seq = mcuSeq /\ receiveSeq = 1
  <1>. DEFINE r == Head(toHost).seq
  <1>1. toHost \in Seq(Messages) /\ receiveSeq \in Nat \ {0} /\ sendSeq \in Nat \ {0} /\ mcuSeq \in Nat \ {0}
    BY DEF IInv, TypeOK, LinkTypeOK, NumbersTypeOK
  <1>2. InOrder(toHost, receiveSeq, mcuSeq)
    BY DEF IInv, WireInv
  <1>3. Head(toHost) \in Messages /\ receiveSeq <= r /\ r <= mcuSeq
    BY <1>1, <1>2, InOrderTail
  <1>4. r \in Nat \ {0}
    BY <1>1, <1>3 DEF Messages
  <1>. HIDE DEF r
  <1>5. r - receiveSeq \in 0 .. SeqNumbers - 1
    <2>1. CASE mcuSeq > sendSeq
      BY <1>1, <1>3, <1>4, <2>1, WindowFits DEF IInv, AheadInv
    <2>2. CASE ~(mcuSeq > sendSeq)
      <3>1. sendSeq - receiveSeq <= MaxPending
        BY DEF IInv, SentInv, SentIsOutstanding
      <3>. QED
        BY <1>1, <1>3, <1>4, <2>2, <3>1, WindowFits
    <2>. QED
      BY <2>1, <2>2
  <1>6. Rebuild(r) = r
    <2>1. (r - receiveSeq) % SeqNumbers = r - receiveSeq
      BY <1>5, SmallRemainder, WindowFits
    <2>. QED
      BY <1>1, <1>4, <2>1 DEF Rebuild
  <1>7. r > sendSeq => mcuSeq > sendSeq
    BY <1>1, <1>3, <1>4
  <1>8. mcuSeq > sendSeq => receiveSeq = 1 /\ r = mcuSeq
    <2>1. Len(toHost) \in Nat \ {0} /\ r = toHost[1].seq
      BY <1>1 DEF r
    <2>. QED
      BY <2>1 DEF IInv, AheadInv, AllSay
  <1>. QED
    BY <1>3, <1>4, <1>6, <1>7, <1>8 DEF Invalid, r

\* What is outstanding after a message, and what stays as it is.
LEMMA HandleLeaves ==
    ASSUME IInv, HandleMessage, NEW r, r = Head(toHost).seq
    PROVE  /\ toHost # <<>> /\ toHost' = Tail(toHost) /\ bg = "poll"
           /\ UNCHANGED <<nakVars, pendVars, bgVars, wakeVars, sendVars, built, mcuVars, toMcu, losses,
                          unanswered, countVars>>
           /\ receiveSeq' = r /\ UpdateTimers(Head(toHost), r)
           /\ lastAckSeq' \in {r, lastAckSeq}
           /\ \/ r = receiveSeq /\ UNCHANGED <<sendSeq, sentQueue, lastAckBytes, lastReceiveSent>>
              \/ /\ r > receiveSeq /\ r <= sendSeq /\ sendSeq' = sendSeq
                 /\ r - receiveSeq \in 1 .. Len(sentQueue)
                 /\ sentQueue' = SubSeq(sentQueue, r - receiveSeq + 1, Len(sentQueue))
                 /\ lastAckBytes' = Len(sentQueue[r - receiveSeq].cmds)
                 /\ lastReceiveSent' = sentQueue[r - receiveSeq].seq
              \/ /\ r > receiveSeq /\ r > sendSeq /\ sendSeq' = r /\ sentQueue' = <<>>
                 /\ lastReceiveSent' = 0 /\ lastAckBytes' = lastAckBytes
  <1>1. /\ toHost # <<>> /\ toHost' = Tail(toHost) /\ bg = "poll"
        /\ UNCHANGED <<nakVars, pendVars, bgVars, wakeVars, sendVars, built, mcuVars, toMcu, losses,
                       unanswered, countVars>>
    BY DEF HandleMessage, Polling
  <1>2. /\ r \in Nat \ {0} /\ Rebuild(r) = r /\ ~Invalid(r)
        /\ receiveSeq <= r
    BY <1>1, NumberIsRebuilt
  <1>3. UpdateReceiveSeq(r) /\ UpdateTimers(Head(toHost), r) /\ lastAckSeq' \in {r, lastAckSeq}
    BY <1>2 DEF HandleMessage
  <1>4. /\ receiveSeq \in Nat \ {0} /\ sendSeq \in Nat \ {0} /\ Len(sentQueue) = sendSeq - receiveSeq
    BY DEF IInv, TypeOK, NumbersTypeOK, SentInv, SentIsOutstanding
  <1>5. r - receiveSeq \in 1 .. Len(sentQueue) <=> r > receiveSeq /\ r <= sendSeq
    BY <1>2, <1>4
  <1>6. /\ receiveSeq' = r
        /\ \/ r = receiveSeq /\ UNCHANGED <<sendSeq, sentQueue, lastAckBytes, lastReceiveSent>>
           \/ /\ r # receiveSeq /\ r - receiveSeq \in 1 .. Len(sentQueue) /\ sendSeq' = sendSeq
              /\ sentQueue' = SubSeq(sentQueue, r - receiveSeq + 1, Len(sentQueue))
              /\ lastAckBytes' = Len(sentQueue[r - receiveSeq].cmds)
              /\ lastReceiveSent' = sentQueue[r - receiveSeq].seq
           \/ /\ r # receiveSeq /\ r - receiveSeq \notin 1 .. Len(sentQueue) /\ sendSeq' = r /\ sentQueue' = <<>>
              /\ lastReceiveSent' = 0 /\ lastAckBytes' = lastAckBytes
    BY <1>3 DEF UpdateReceiveSeq, seqVars
  <1>. QED
    BY <1>1, <1>2, <1>3, <1>4, <1>5, <1>6
-----------------------------------------------------------------------------
(* The inductive invariant, part by part: the types.                       *)

LEMMA NumbersTypeOKStep ==
    ASSUME IInv, [LinkNext]_vars
    PROVE  NumbersTypeOK'
  <1>. USE DEF IInv, TypeOK
  <1>1. ASSUME NEW q \in Queues, SendBatch(q) PROVE NumbersTypeOK'
    BY <1>1 DEF SendBatch, seqVars, ackVars, nakVars, mcuVars, NumbersTypeOK
  <1>2. ASSUME NEW q \in Queues, KickBgThread(q) PROVE NumbersTypeOK'
    BY <1>2 DEF KickBgThread, seqVars, ackVars, nakVars, mcuVars, NumbersTypeOK
  <1>3. ASSUME NEW q \in Queues, MoveDue(q) PROVE NumbersTypeOK'
    BY <1>3 DEF MoveDue, seqVars, ackVars, nakVars, mcuVars, NumbersTypeOK
  <1>4. CASE StartBlock
    BY <1>4 DEF StartBlock, seqVars, ackVars, nakVars, mcuVars, NumbersTypeOK
  <1>5. CASE WriteBlocks
    BY <1>5 DEF WriteBlocks, seqVars, ackVars, nakVars, mcuVars, NumbersTypeOK
  <1>6. ASSUME NEW i \in 1 .. Len(pendingQueues), AddCommand(i) PROVE NumbersTypeOK'
    BY <1>6 DEF AddCommand, seqVars, ackVars, nakVars, mcuVars, NumbersTypeOK
  <1>7. CASE StoreBlock
    <2>1. sendSeq' = sendSeq + 1 /\ UNCHANGED <<receiveSeq, mcuSeq, ackVars, nakVars>>
      BY <1>7 DEF StoreBlock, mcuVars
    <2>. QED
      BY <2>1 DEF NumbersTypeOK, ackVars, nakVars
  <1>8. CASE CommandEvent
    BY <1>8 DEF CommandEvent, seqVars, ackVars, nakVars, mcuVars, NumbersTypeOK
  <1>9. CASE KickEvent
    BY <1>9 DEF KickEvent, seqVars, ackVars, nakVars, mcuVars, NumbersTypeOK
  <1>10. CASE RetransmitEvent
    <2>1. /\ ignoreNakSeq' \in {retransmitSeq, receiveSeq, sendSeq} /\ retransmitSeq' = sendSeq
          /\ UNCHANGED <<seqVars, mcuSeq, ackVars>>
      BY <1>10 DEF RetransmitEvent, IgnoreAfterNak, mcuVars
    <2>. QED
      BY <2>1 DEF NumbersTypeOK, seqVars, ackVars
  <1>11. CASE HandleMessage
    <2>1. PICK r \in Nat \ {0} : r = Head(toHost).seq
      BY <1>11, NumberIsRebuilt DEF HandleMessage
    <2>2. UNCHANGED <<ignoreNakSeq, retransmitSeq, mcuSeq>> /\ receiveSeq' = r /\ lastAckSeq' \in {r, lastAckSeq}
      BY <1>11, <2>1, HandleLeaves DEF nakVars, mcuVars
    <2>3. sendSeq' \in {sendSeq, r}
      BY <1>11, <2>1, HandleLeaves
    <2>4. lastAckBytes' \in Nat /\ lastReceiveSent' \in Nat
      <3>1. ASSUME NEW i \in 1 .. Len(sentQueue)
            PROVE  Len(sentQueue[i].cmds) \in Nat /\ sentQueue[i].seq \in Nat
        <4>1. sentQueue[i] \in Blocks
          BY ElementOfSeq DEF LinkTypeOK
        <4>. QED
          BY <4>1 DEF Blocks
      <3>2. lastAckBytes \in Nat /\ lastReceiveSent \in Nat
        BY DEF NumbersTypeOK
      <3>3. \/ lastAckBytes' = lastAckBytes /\ lastReceiveSent' \in {lastReceiveSent, 0}
            \/ \E i \in 1 .. Len(sentQueue) :
                  lastAckBytes' = Len(sentQueue[i].cmds) /\ lastReceiveSent' = sentQueue[i].seq
        BY <1>11, <2>1, HandleLeaves
      <3>. QED
        BY <3>1, <3>2, <3>3
    <2>. QED
      BY <2>2, <2>3, <2>4 DEF NumbersTypeOK
  <1>12. CASE BackgroundEnds
    BY <1>12 DEF BackgroundEnds, seqVars, ackVars, nakVars, mcuVars, NumbersTypeOK
  <1>13. CASE PullMessage
    BY <1>13 DEF PullMessage, seqVars, ackVars, nakVars, mcuVars, NumbersTypeOK
  <1>14. CASE PullNothing
    BY <1>14 DEF PullNothing, seqVars, ackVars, nakVars, mcuVars, NumbersTypeOK
  <1>15. CASE RequestExit \/ Closes
    BY <1>15 DEF RequestExit, Closes, seqVars, ackVars, nakVars, mcuVars, NumbersTypeOK
  <1>16. CASE McuTake
    <2>1. mcuSeq' = mcuSeq + 1 /\ UNCHANGED <<seqVars, ackVars, nakVars>>
      BY <1>16 DEF McuTake, queueVars
    <2>. QED
      BY <2>1 DEF NumbersTypeOK, seqVars, ackVars, nakVars
  <1>17. CASE McuAcknowledge
    BY <1>17 DEF McuAcknowledge, queueVars, seqVars, ackVars, nakVars, NumbersTypeOK
  <1>18. CASE McuNak
    BY <1>18 DEF McuNak, queueVars, seqVars, ackVars, nakVars, mcuVars, NumbersTypeOK
  <1>19. CASE McuReport
    BY <1>19 DEF McuReport, queueVars, seqVars, ackVars, nakVars, NumbersTypeOK
  <1>20. CASE LoseBlock
    BY <1>20 DEF LoseBlock, queueVars, seqVars, ackVars, nakVars, mcuVars, NumbersTypeOK
  <1>21. CASE LoseMessage
    BY <1>21 DEF LoseMessage, queueVars, seqVars, ackVars, nakVars, mcuVars, NumbersTypeOK
  <1>22. CASE Tick
    BY <1>22 DEF Tick, queueVars, seqVars, ackVars, nakVars, mcuVars, NumbersTypeOK
  <1>23. CASE UNCHANGED vars
    BY <1>23 DEF vars, queueVars, seqVars, ackVars, nakVars, mcuVars, NumbersTypeOK
  <1>. QED
    BY <1>1, <1>2, <1>3, <1>4, <1>5, <1>6, <1>7, <1>8, <1>9, <1>10, <1>11, <1>12, <1>13, <1>14, <1>15, <1>16, <1>17, <1>18, <1>19, <1>20, <1>21, <1>22, <1>23
       DEF LinkNext, Next, BackgroundStep, CommandStep, PullerStep, McuStep, Quiet

LEMMA LinkTypeOKStep ==
    ASSUME IInv, [LinkNext]_vars
    PROVE  LinkTypeOK'
  <1>. USE DEF IInv, TypeOK
  <1>1. ASSUME NEW q \in Queues, SendBatch(q) PROVE LinkTypeOK'
    BY <1>1 DEF SendBatch, seqVars, bgVars, mcuVars, wireVars, LinkTypeOK
  <1>2. ASSUME NEW q \in Queues, KickBgThread(q) PROVE LinkTypeOK'
    BY <1>2 DEF KickBgThread, seqVars, bgVars, mcuVars, wireVars, LinkTypeOK
  <1>3. ASSUME NEW q \in Queues, MoveDue(q) PROVE LinkTypeOK'
    BY <1>3 DEF MoveDue, seqVars, bgVars, mcuVars, wireVars, LinkTypeOK
  <1>4. CASE StartBlock
    BY <1>4 DEF StartBlock, seqVars, mcuVars, wireVars, LinkTypeOK
  <1>5. CASE WriteBlocks
    <2>1. toMcu' = toMcu \o outBuf /\ outBuf' = <<>> /\ UNCHANGED <<sentQueue, toHost, mcuBlock>>
      BY <1>5 DEF WriteBlocks, seqVars, mcuVars
    <2>2. toMcu' \in Seq(Blocks)
      BY <2>1, ConcatProperties DEF LinkTypeOK
    <2>. QED
      BY <2>1, <2>2 DEF LinkTypeOK
  <1>6. ASSUME NEW i \in 1 .. Len(pendingQueues), AddCommand(i) PROVE LinkTypeOK'
    BY <1>6 DEF AddCommand, seqVars, mcuVars, wireVars, LinkTypeOK
  <1>7. CASE StoreBlock
    <2>. DEFINE out == [seq |-> sendSeq, cmds |-> block]
    <2>1. /\ sentQueue' = Append(sentQueue, out) /\ outBuf' = Append(outBuf, out)
          /\ UNCHANGED <<toMcu, toHost, mcuBlock>>
      BY <1>7 DEF StoreBlock, mcuVars, wireVars
    <2>2. out \in Blocks
      BY DEF NumbersTypeOK, SenderTypeOK, Blocks
    <2>. HIDE DEF out
    <2>3. sentQueue' \in Seq(Blocks) /\ outBuf' \in Seq(Blocks)
      BY <2>1, <2>2 DEF LinkTypeOK
    <2>. QED
      BY <2>1, <2>3 DEF LinkTypeOK
  <1>8. CASE CommandEvent
    BY <1>8 DEF CommandEvent, seqVars, mcuVars, wireVars, LinkTypeOK
  <1>9. CASE KickEvent
    BY <1>9 DEF KickEvent, seqVars, bgVars, mcuVars, wireVars, LinkTypeOK
  <1>10. CASE RetransmitEvent
    <2>1. /\ \E wire \in FlushOutput(toMcu) : toMcu' = wire \o sentQueue
          /\ UNCHANGED <<sentQueue, outBuf, toHost, mcuBlock>>
      BY <1>10 DEF RetransmitEvent, seqVars, bgVars, mcuVars
    <2>2. ASSUME NEW wire \in FlushOutput(toMcu)
          PROVE  wire \o sentQueue \in Seq(Blocks)
      <3>1. wire \in Seq(Blocks)
        BY DEF FlushOutput, LinkTypeOK
      <3>. QED
        BY <3>1, ConcatProperties DEF LinkTypeOK
    <2>3. toMcu' \in Seq(Blocks)
      BY <2>1, <2>2
    <2>. QED
      BY <2>1, <2>3 DEF LinkTypeOK
  <1>11. CASE HandleMessage
    <2>1. PICK r \in Nat \ {0} : r = Head(toHost).seq
      BY <1>11, NumberIsRebuilt DEF HandleMessage
    <2>2. toHost # <<>> /\ toHost' = Tail(toHost) /\ UNCHANGED <<toMcu, outBuf, mcuBlock>>
      BY <1>11, <2>1, HandleLeaves DEF bgVars, mcuVars
    <2>3. toHost' \in Seq(Messages)
      BY <2>2, TailRange DEF LinkTypeOK
    <2>4. sentQueue' \in Seq(Blocks)
      <3>1. \/ sentQueue' = sentQueue \/ sentQueue' = <<>>
            \/ /\ r - receiveSeq \in 1 .. Len(sentQueue)
               /\ sentQueue' = SubSeq(sentQueue, r - receiveSeq + 1, Len(sentQueue))
        BY <1>11, <2>1, HandleLeaves
      <3>2. ASSUME NEW n \in 1 .. Len(sentQueue)
            PROVE  SubSeq(sentQueue, n + 1, Len(sentQueue)) \in Seq(Blocks)
        <4>1. sentQueue \in Seq(Blocks)
          BY DEF LinkTypeOK
        <4>. QED
          BY <4>1
      <3>3. sentQueue \in Seq(Blocks) /\ <<>> \in Seq(Blocks)
        BY DEF LinkTypeOK
      <3>. QED
        BY <3>1, <3>2, <3>3
    <2>. QED
      BY <2>2, <2>3, <2>4 DEF LinkTypeOK
  <1>12. CASE BackgroundEnds
    BY <1>12 DEF BackgroundEnds, seqVars, mcuVars, wireVars, LinkTypeOK
  <1>13. CASE PullMessage
    BY <1>13 DEF PullMessage, seqVars, bgVars, mcuVars, wireVars, LinkTypeOK
  <1>14. CASE PullNothing
    BY <1>14 DEF PullNothing, seqVars, bgVars, mcuVars, wireVars, LinkTypeOK
  <1>15. CASE RequestExit \/ Closes
    BY <1>15 DEF RequestExit, Closes, seqVars, bgVars, mcuVars, wireVars, LinkTypeOK
  <1>16. CASE McuTake
    <2>1. /\ toMcu # <<>> /\ toMcu' = Tail(toMcu) /\ mcuBlock' = Head(toMcu)
          /\ toHost' = toHost \o AnswersTo(Head(toMcu).cmds, mcuSeq + 1) /\ UNCHANGED <<sentQueue, outBuf>>
      BY <1>16 DEF McuTake, queueVars, seqVars, bgVars
    <2>2. toMcu' \in Seq(Blocks) /\ mcuBlock' \in Blocks
      BY <2>1 DEF LinkTypeOK
    <2>3. Head(toMcu).cmds \in Seq(Commands) /\ mcuSeq + 1 \in Nat
      <3>1. Head(toMcu) \in Blocks
        BY <2>1, <2>2
      <3>. QED
        BY <3>1 DEF Blocks, NumbersTypeOK
    <2>4. toHost' \in Seq(Messages)
      BY <2>1, <2>3, AnswersProperties, ConcatProperties DEF LinkTypeOK
    <2>. QED
      BY <2>1, <2>2, <2>4 DEF LinkTypeOK
  <1>17. CASE McuAcknowledge
    <2>1. toHost' = Append(toHost, Ack(mcuSeq)) /\ mcuBlock' = NoBlock /\ UNCHANGED <<sentQueue, outBuf, toMcu>>
      BY <1>17 DEF McuAcknowledge, queueVars, seqVars, bgVars
    <2>2. Ack(mcuSeq) \in Messages
      BY DEF NumbersTypeOK, Ack, Messages
    <2>3. toHost' \in Seq(Messages)
      <3>1. toHost \in Seq(Messages)
        BY DEF LinkTypeOK
      <3>. QED
        BY <2>1, <2>2, <3>1, AppendProperties
    <2>4. toMcu' \in Seq(Blocks)
      BY <2>1 DEF LinkTypeOK
    <2>. QED
      BY <2>1, <2>3, <2>4 DEF LinkTypeOK, NoBlock, Blocks
  <1>18. CASE McuNak
    <2>1. toHost' = Append(toHost, Ack(mcuSeq)) /\ toMcu # <<>> /\ toMcu' = Tail(toMcu) /\ UNCHANGED <<sentQueue, outBuf, mcuBlock>>
      BY <1>18 DEF McuNak, queueVars, seqVars, bgVars, mcuVars
    <2>2. Ack(mcuSeq) \in Messages
      BY DEF NumbersTypeOK, Ack, Messages
    <2>3. toHost' \in Seq(Messages)
      <3>1. toHost \in Seq(Messages)
        BY DEF LinkTypeOK
      <3>. QED
        BY <2>1, <2>2, <3>1, AppendProperties
    <2>4. toMcu' \in Seq(Blocks)
      BY <2>1 DEF LinkTypeOK
    <2>. QED
      BY <2>1, <2>3, <2>4 DEF LinkTypeOK
  <1>19. CASE McuReport
    <2>1. toHost' = Append(toHost, Answer(mcuSeq, NoCommand)) /\ UNCHANGED <<sentQueue, outBuf, toMcu, mcuBlock>>
      BY <1>19 DEF McuReport, queueVars, seqVars, bgVars
    <2>2. Answer(mcuSeq, NoCommand) \in Messages
      BY DEF NumbersTypeOK, Answer, Messages
    <2>3. toHost' \in Seq(Messages)
      <3>1. toHost \in Seq(Messages)
        BY DEF LinkTypeOK
      <3>. QED
        BY <2>1, <2>2, <3>1, AppendProperties
    <2>4. toMcu' \in Seq(Blocks)
      BY <2>1 DEF LinkTypeOK
    <2>. QED
      BY <2>1, <2>3, <2>4 DEF LinkTypeOK
  <1>20. CASE LoseBlock
    <2>1. toHost' \in {toHost, Append(toHost, Ack(mcuSeq))} /\ toMcu # <<>> /\ toMcu' = Tail(toMcu) /\ UNCHANGED <<sentQueue, outBuf, mcuBlock>>
      BY <1>20 DEF LoseBlock, queueVars, seqVars, bgVars, mcuVars
    <2>2. Ack(mcuSeq) \in Messages
      BY DEF NumbersTypeOK, Ack, Messages
    <2>3. toHost' \in Seq(Messages)
      <3>1. toHost \in Seq(Messages)
        BY DEF LinkTypeOK
      <3>. QED
        BY <2>1, <2>2, <3>1, AppendProperties
    <2>4. toMcu' \in Seq(Blocks)
      BY <2>1 DEF LinkTypeOK
    <2>. QED
      BY <2>1, <2>3, <2>4 DEF LinkTypeOK
  <1>21. CASE LoseMessage
    <2>1. toHost # <<>> /\ toHost' = Tail(toHost) /\ UNCHANGED <<toMcu, sentQueue, outBuf, mcuBlock>>
      BY <1>21 DEF LoseMessage, queueVars, seqVars, bgVars, mcuVars
    <2>2. toHost' \in Seq(Messages)
      BY <2>1, TailRange DEF LinkTypeOK
    <2>. QED
      BY <2>1, <2>2 DEF LinkTypeOK
  <1>22. CASE Tick
    BY <1>22 DEF Tick, queueVars, seqVars, bgVars, mcuVars, wireVars, LinkTypeOK
  <1>23. CASE UNCHANGED vars
    BY <1>23 DEF vars, queueVars, seqVars, bgVars, mcuVars, wireVars, LinkTypeOK
  <1>. QED
    BY <1>1, <1>2, <1>3, <1>4, <1>5, <1>6, <1>7, <1>8, <1>9, <1>10, <1>11, <1>12, <1>13, <1>14, <1>15, <1>16, <1>17, <1>18, <1>19, <1>20, <1>21, <1>22, <1>23
       DEF LinkNext, Next, BackgroundStep, CommandStep, PullerStep, McuStep, Quiet

LEMMA SenderTypeOKStep ==
    ASSUME IInv, [LinkNext]_vars
    PROVE  SenderTypeOK'
  <1>. USE DEF IInv, TypeOK
  <1>24. /\ pendingQueues \in Seq(Queues) /\ block \in Seq(Commands)
         /\ upcoming \in [Queues -> Seq(Commands)] /\ ready \in [Queues -> Seq(Commands)]
         /\ unsent \in [Queues -> Seq(Commands)] /\ sender \in [Queues -> {"idle", "kick"}]
         /\ needKickClock \in 0 .. Never /\ commandTimer \in 0 .. Never
         /\ retransmitTimer \in {"never", "later", "now"} /\ bg \in {"poll", "check", "build", "ended"}
    BY DEF SenderTypeOK
  <1>25. 0 \in 0 .. Never /\ Never \in 0 .. Never
    BY LinkAssumption DEF Never
  <1>1. ASSUME NEW q \in Queues, SendBatch(q) PROVE SenderTypeOK'
    <2>1. PICK n \in 1 .. Len(unsent[q]) :
            /\ unsent' = [unsent EXCEPT ![q] = SubSeq(@, n + 1, Len(@))]
            /\ pendingQueues' \in {Append(pendingQueues, q), pendingQueues}
            /\ upcoming' = [upcoming EXCEPT ![q] = @ \o SubSeq(unsent[q], 1, n)]
            /\ needKickClock' \in {0, needKickClock}
            /\ \E s \in {"idle", "kick"} : sender' = [sender EXCEPT ![q] = s]
            /\ UNCHANGED <<ready, timerVars, bgVars>>
      BY <1>1 DEF SendBatch
    <2>2. unsent[q] \in Seq(Commands) /\ upcoming[q] \in Seq(Commands)
      BY <1>24
    <2>3. /\ SubSeq(unsent[q], n + 1, Len(unsent[q])) \in Seq(Commands)
          /\ SubSeq(unsent[q], 1, n) \in Seq(Commands)
      BY <2>2
    <2>4. upcoming[q] \o SubSeq(unsent[q], 1, n) \in Seq(Commands)
      BY <2>2, <2>3, ConcatProperties
    <2>5. /\ unsent' \in [Queues -> Seq(Commands)] /\ upcoming' \in [Queues -> Seq(Commands)]
          /\ sender' \in [Queues -> {"idle", "kick"}]
      BY <1>24, <2>1, <2>3, <2>4
    <2>6. pendingQueues' \in Seq(Queues)
      <3>1. Append(pendingQueues, q) \in Seq(Queues)
        BY <1>24, AppendProperties
      <3>. QED
        BY <1>24, <2>1, <3>1
    <2>. QED
      BY <1>24, <1>25, <2>1, <2>5, <2>6 DEF SenderTypeOK, timerVars, bgVars
  <1>2. ASSUME NEW q \in Queues, KickBgThread(q) PROVE SenderTypeOK'
    <2>1. sender' = [sender EXCEPT ![q] = "idle"] /\ UNCHANGED <<pendVars, unsent, timerVars, bgVars>>
      BY <1>2 DEF KickBgThread
    <2>2. sender' \in [Queues -> {"idle", "kick"}]
      BY <1>24, <2>1
    <2>. QED
      BY <1>24, <2>1, <2>2 DEF SenderTypeOK, pendVars, timerVars, bgVars
  <1>3. ASSUME NEW q \in Queues, MoveDue(q) PROVE SenderTypeOK'
    <2>1. /\ upcoming[q] # <<>>
          /\ upcoming' = [upcoming EXCEPT ![q] = Tail(@)]
          /\ ready' = [ready EXCEPT ![q] = Append(@, Head(upcoming[q]))]
          /\ UNCHANGED <<pendingQueues, needKickClock, unsent, sender, timerVars, bgVars>>
      BY <1>3 DEF MoveDue, HeadDue, sendVars
    <2>2. upcoming[q] \in Seq(Commands) /\ ready[q] \in Seq(Commands)
      BY <1>24
    <2>3. Tail(upcoming[q]) \in Seq(Commands) /\ Append(ready[q], Head(upcoming[q])) \in Seq(Commands)
      BY <2>1, <2>2
    <2>4. upcoming' \in [Queues -> Seq(Commands)] /\ ready' \in [Queues -> Seq(Commands)]
      BY <1>24, <2>1, <2>3
    <2>. QED
      BY <1>24, <2>1, <2>4 DEF SenderTypeOK, timerVars, bgVars
  <1>4. CASE StartBlock
    BY <1>4 DEF StartBlock, pendVars, timerVars, sendVars, SenderTypeOK
  <1>5. CASE WriteBlocks
    <2>1. /\ bg' = "poll"
          /\ UNCHANGED <<pendingQueues, upcoming, ready, retransmitTimer, block, sendVars>>
          /\ \/ commandTimer' = Never /\ UNCHANGED needKickClock
             \/ commandTimer' \in 0 .. Never /\ needKickClock' = commandTimer'
      BY <1>5 DEF WriteBlocks
    <2>. QED
      BY <1>24, <1>25, <2>1 DEF SenderTypeOK, sendVars
  <1>6. ASSUME NEW i \in 1 .. Len(pendingQueues), AddCommand(i) PROVE SenderTypeOK'
    <2>. DEFINE p == pendingQueues[i]
    <2>1. /\ ready[p] # <<>>
          /\ ready' = [ready EXCEPT ![p] = Tail(@)]
          /\ block' = Append(block, Head(ready[p]))
          /\ pendingQueues' \in {RemoveAt(pendingQueues, i), pendingQueues}
          /\ UNCHANGED <<upcoming, needKickClock, unsent, sender, timerVars, bg>>
      BY <1>6 DEF AddCommand, MostUrgent, sendVars
    <2>2. p \in Queues
      BY <1>24
    <2>. HIDE DEF p
    <2>3. ready[p] \in Seq(Commands)
      BY <1>24, <2>2
    <2>4. Tail(ready[p]) \in Seq(Commands) /\ Append(block, Head(ready[p])) \in Seq(Commands)
      BY <1>24, <2>1, <2>3
    <2>5. ready' \in [Queues -> Seq(Commands)]
      BY <1>24, <2>1, <2>4
    <2>6. pendingQueues' \in Seq(Queues)
      <3>1. RemoveAt(pendingQueues, i) \in Seq(Queues)
        BY <1>24, SequenceRemoveAt
      <3>. QED
        BY <1>24, <2>1, <3>1
    <2>. QED
      BY <1>24, <2>1, <2>4, <2>5, <2>6 DEF SenderTypeOK, timerVars
  <1>7. CASE StoreBlock
    <2>1. /\ retransmitTimer' \in {"later", retransmitTimer} /\ block' = <<>> /\ bg' = "check"
          /\ UNCHANGED <<pendVars, commandTimer, sendVars>>
      BY <1>7 DEF StoreBlock
    <2>. QED
      BY <1>24, <2>1 DEF SenderTypeOK, pendVars, sendVars
  <1>8. CASE CommandEvent
    BY <1>8 DEF CommandEvent, pendVars, timerVars, sendVars, SenderTypeOK
  <1>9. CASE KickEvent
    <2>1. commandTimer' = 0 /\ UNCHANGED <<pendVars, sendVars, retransmitTimer, bgVars>>
      BY <1>9 DEF KickEvent
    <2>. QED
      BY <1>24, <1>25, <2>1 DEF SenderTypeOK, pendVars, sendVars, bgVars
  <1>10. CASE RetransmitEvent
    <2>1. retransmitTimer' = "later" /\ UNCHANGED <<pendVars, sendVars, commandTimer, bgVars>>
      BY <1>10 DEF RetransmitEvent
    <2>. QED
      BY <1>24, <2>1 DEF SenderTypeOK, pendVars, sendVars, bgVars
  <1>11. CASE HandleMessage
    <2>1. PICK r \in Nat \ {0} : r = Head(toHost).seq
      BY <1>11, NumberIsRebuilt DEF HandleMessage
    <2>2. /\ UNCHANGED <<pendVars, sendVars, bgVars>>
          /\ UpdateTimers(Head(toHost), r)
      BY <1>11, <2>1, HandleLeaves
    <2>3. commandTimer' \in {0, commandTimer} /\ retransmitTimer' \in {"now", retransmitTimer, "never", "later"}
      BY <2>2 DEF UpdateTimers
    <2>. QED
      BY <1>24, <1>25, <2>2, <2>3 DEF SenderTypeOK, pendVars, sendVars, bgVars
  <1>12. CASE BackgroundEnds
    BY <1>12 DEF BackgroundEnds, pendVars, timerVars, sendVars, SenderTypeOK
  <1>13. CASE PullMessage
    BY <1>13 DEF PullMessage, pendVars, timerVars, bgVars, sendVars, SenderTypeOK
  <1>14. CASE PullNothing
    BY <1>14 DEF PullNothing, pendVars, timerVars, bgVars, sendVars, SenderTypeOK
  <1>15. CASE RequestExit \/ Closes
    BY <1>15 DEF RequestExit, Closes, pendVars, timerVars, bgVars, sendVars, SenderTypeOK
  <1>16. CASE McuTake
    BY <1>16 DEF McuTake, queueVars, pendVars, timerVars, bgVars, sendVars, SenderTypeOK
  <1>17. CASE McuAcknowledge
    BY <1>17 DEF McuAcknowledge, queueVars, pendVars, timerVars, bgVars, sendVars, SenderTypeOK
  <1>18. CASE McuNak
    BY <1>18 DEF McuNak, queueVars, pendVars, timerVars, bgVars, sendVars, SenderTypeOK
  <1>19. CASE McuReport
    BY <1>19 DEF McuReport, queueVars, pendVars, timerVars, bgVars, sendVars, SenderTypeOK
  <1>20. CASE LoseBlock
    BY <1>20 DEF LoseBlock, queueVars, pendVars, timerVars, bgVars, sendVars, SenderTypeOK
  <1>21. CASE LoseMessage
    BY <1>21 DEF LoseMessage, queueVars, pendVars, timerVars, bgVars, sendVars, SenderTypeOK
  <1>22. CASE Tick
    BY <1>22 DEF Tick, queueVars, pendVars, timerVars, bgVars, sendVars, SenderTypeOK
  <1>23. CASE UNCHANGED vars
    BY <1>23 DEF vars, queueVars, pendVars, timerVars, bgVars, sendVars, SenderTypeOK
  <1>. QED
    BY <1>1, <1>2, <1>3, <1>4, <1>5, <1>6, <1>7, <1>8, <1>9, <1>10, <1>11, <1>12, <1>13, <1>14, <1>15, <1>16, <1>17, <1>18, <1>19, <1>20, <1>21, <1>22, <1>23
       DEF LinkNext, Next, BackgroundStep, CommandStep, PullerStep, McuStep, Quiet

LEMMA PullerTypeOKStep ==
    ASSUME IInv, LinkTypeOK', NumbersTypeOK', [LinkNext]_vars
    PROVE  PullerTypeOK'
  <1>. USE DEF IInv, TypeOK
  <1>. DEFINE Entries == [cmd : Commands, seq : Nat]
  <1>24. /\ notifyQueue \in Seq(Entries)
         /\ receiveQueue \in Seq(Arrivals) /\ pulled \in Seq(Arrivals)
         /\ receiveWaiting \in BOOLEAN /\ mustExit \in BOOLEAN /\ kicked \in BOOLEAN
         /\ puller \in {"runs", "ended"}
    BY DEF PullerTypeOK
  <1>. HIDE DEF Entries
  <1>1. ASSUME NEW q \in Queues, SendBatch(q) PROVE PullerTypeOK'
    BY <1>1 DEF SendBatch, recvVars, wakeVars, PullerTypeOK
  <1>2. ASSUME NEW q \in Queues, KickBgThread(q) PROVE PullerTypeOK'
    BY <1>24, <1>2 DEF Entries, KickBgThread, recvVars, PullerTypeOK
  <1>3. ASSUME NEW q \in Queues, MoveDue(q) PROVE PullerTypeOK'
    BY <1>3 DEF MoveDue, recvVars, wakeVars, PullerTypeOK
  <1>4. CASE StartBlock
    BY <1>4 DEF StartBlock, recvVars, wakeVars, PullerTypeOK
  <1>5. CASE WriteBlocks
    BY <1>5 DEF WriteBlocks, recvVars, wakeVars, PullerTypeOK
  <1>6. ASSUME NEW i \in 1 .. Len(pendingQueues), AddCommand(i) PROVE PullerTypeOK'
    <2>. DEFINE p == pendingQueues[i]
                cmd == Head(ready[p])
                entry == [cmd |-> cmd, seq |-> sendSeq]
    <2>1. /\ ready[p] # <<>> /\ notifyQueue' \in {Append(notifyQueue, entry), notifyQueue}
          /\ UNCHANGED <<receiveQueue, receiveWaiting, puller, pulled, wakeVars>>
      BY <1>6 DEF AddCommand, MostUrgent
    <2>2. p \in Queues /\ ready \in [Queues -> Seq(Commands)]
      BY DEF SenderTypeOK
    <2>. HIDE DEF p, cmd, entry
    <2>3. ready[p] \in Seq(Commands) /\ ready[p] # <<>>
      BY <2>1, <2>2
    <2>4. cmd \in Commands
      BY <2>3, HeadTailProperties DEF cmd
    <2>5. entry \in Entries
      <3>1. sendSeq \in Nat
        BY DEF NumbersTypeOK
      <3>. QED
        BY <2>4, <3>1 DEF entry, Entries
    <2>6. Append(notifyQueue, entry) \in Seq(Entries)
      BY <1>24, <2>5, AppendProperties
    <2>7. notifyQueue' \in Seq(Entries)
      BY <1>24, <2>1, <2>6
    <2>. QED
      BY <1>24, <2>1, <2>7 DEF PullerTypeOK, wakeVars, Entries
  <1>7. CASE StoreBlock
    BY <1>7 DEF StoreBlock, recvVars, wakeVars, PullerTypeOK
  <1>8. CASE CommandEvent
    BY <1>8 DEF CommandEvent, recvVars, wakeVars, PullerTypeOK
  <1>9. CASE KickEvent
    BY <1>24, <1>9 DEF Entries, KickEvent, recvVars, PullerTypeOK
  <1>10. CASE RetransmitEvent
    BY <1>10 DEF RetransmitEvent, recvVars, wakeVars, PullerTypeOK
  <1>11. CASE HandleMessage
    <2>. DEFINE m == Head(toHost)
                r == m.seq
    <2>1. m \in Messages /\ Rebuild(r) = r /\ ~Invalid(r)
      BY <1>11, NumberIsRebuilt DEF HandleMessage
    <2>2. lastReceiveSent' \in Nat
      BY DEF NumbersTypeOK
    <2>. DEFINE new == [data |-> TRUE, about |-> m.about, sent |-> SentBlock(r)]
    <2>3. new \in Arrivals
      BY <2>1, <2>2 DEF Arrivals, SentBlock, Messages
    <2>. DEFINE arrived == IF m.data THEN <<new>> ELSE <<>>
    <2>4. arrived \in Seq(Arrivals)
      <3>. HIDE DEF new, m
      <3>. QED
        BY <2>3
    <2>5. PICK n \in 0 .. Len(notifyQueue) :
            /\ notifyQueue' = SubSeq(notifyQueue, n + 1, Len(notifyQueue))
            /\ receiveQueue' = receiveQueue \o [i \in 1 .. n |-> Notification(notifyQueue[i])] \o arrived
            /\ receiveWaiting' \in {FALSE, receiveWaiting}
            /\ UNCHANGED <<puller, pulled, wakeVars>>
      BY <1>11, <2>1 DEF HandleMessage, CheckWakeReceive
    <2>. HIDE DEF arrived, m
    <2>. DEFINE told == [i \in 1 .. n |-> Notification(notifyQueue[i])]
    <2>6. told \in Seq(Arrivals)
      <3>1. ASSUME NEW i \in 1 .. n
            PROVE  Notification(notifyQueue[i]) \in Arrivals
        <4>1. i \in 1 .. Len(notifyQueue)
          BY <1>24, <2>5
        <4>2. notifyQueue[i] \in Entries
          BY <1>24, <4>1, ElementOfSeq
        <4>. QED
          BY <2>2, <4>2 DEF Notification, Arrivals, Entries
      <3>. QED
        BY <2>5, <3>1, IsASeq
    <2>. HIDE DEF told
    <2>7. receiveQueue' = receiveQueue \o told \o arrived
      BY <2>5 DEF told
    <2>8. receiveQueue \o told \in Seq(Arrivals)
      BY <1>24, <2>6, ConcatProperties
    <2>9. receiveQueue' \in Seq(Arrivals)
      BY <2>4, <2>7, <2>8, ConcatProperties
    <2>10. notifyQueue' \in Seq(Entries)
      BY <1>24, <2>5
    <2>. QED
      BY <1>24, <2>5, <2>9, <2>10 DEF PullerTypeOK, wakeVars, Entries
  <1>12. CASE BackgroundEnds
    BY <1>24, <1>12 DEF Entries, BackgroundEnds, CheckWakeReceive, wakeVars, PullerTypeOK
  <1>13. CASE PullMessage
    <2>1. /\ receiveQueue # <<>> /\ pulled' = Append(pulled, Head(receiveQueue))
          /\ receiveQueue' = Tail(receiveQueue)
          /\ UNCHANGED <<notifyQueue, receiveWaiting, puller, wakeVars>>
      BY <1>13 DEF PullMessage
    <2>2. Head(receiveQueue) \in Arrivals /\ receiveQueue' \in Seq(Arrivals)
      BY <1>24, <2>1
    <2>3. pulled' \in Seq(Arrivals)
      BY <1>24, <2>1, <2>2, AppendProperties
    <2>. QED
      BY <1>24, <2>1, <2>2, <2>3 DEF PullerTypeOK, wakeVars, Entries
  <1>14. CASE PullNothing
    BY <1>24, <1>14 DEF Entries, PullNothing, wakeVars, PullerTypeOK
  <1>15. CASE RequestExit \/ Closes
    BY <1>24, <1>15 DEF Entries, RequestExit, Closes, recvVars, PullerTypeOK
  <1>16. CASE McuTake
    BY <1>16 DEF McuTake, queueVars, recvVars, wakeVars, PullerTypeOK
  <1>17. CASE McuAcknowledge
    BY <1>17 DEF McuAcknowledge, queueVars, recvVars, wakeVars, PullerTypeOK
  <1>18. CASE McuNak
    BY <1>18 DEF McuNak, queueVars, recvVars, wakeVars, PullerTypeOK
  <1>19. CASE McuReport
    BY <1>19 DEF McuReport, queueVars, recvVars, wakeVars, PullerTypeOK
  <1>20. CASE LoseBlock
    BY <1>20 DEF LoseBlock, queueVars, recvVars, wakeVars, PullerTypeOK
  <1>21. CASE LoseMessage
    BY <1>21 DEF LoseMessage, queueVars, recvVars, wakeVars, PullerTypeOK
  <1>22. CASE Tick
    BY <1>22 DEF Tick, queueVars, recvVars, wakeVars, PullerTypeOK
  <1>23. CASE UNCHANGED vars
    BY <1>23 DEF vars, queueVars, recvVars, wakeVars, PullerTypeOK
  <1>. QED
    BY <1>1, <1>2, <1>3, <1>4, <1>5, <1>6, <1>7, <1>8, <1>9, <1>10, <1>11, <1>12, <1>13, <1>14, <1>15, <1>16, <1>17, <1>18, <1>19, <1>20, <1>21, <1>22, <1>23
       DEF LinkNext, Next, BackgroundStep, CommandStep, PullerStep, McuStep, Quiet

LEMMA HistoryTypeOKStep ==
    ASSUME IInv, [LinkNext]_vars
    PROVE  HistoryTypeOK'
  <1>. USE DEF IInv, TypeOK
  <1>24. /\ executed \in Seq(Blocks) /\ built \in Seq(Blocks)
         /\ clock \in Nat /\ losses \in Nat /\ early \in Nat /\ reports \in Nat
         /\ resent \in SUBSET Nat /\ unanswered \in SUBSET Commands /\ retransmits \in Nat \X Nat
    BY DEF HistoryTypeOK
  <1>1. ASSUME NEW q \in Queues, SendBatch(q) PROVE HistoryTypeOK'
    BY <1>1 DEF SendBatch, nakVars, mcuVars, wireVars, countVars, HistoryTypeOK
  <1>2. ASSUME NEW q \in Queues, KickBgThread(q) PROVE HistoryTypeOK'
    BY <1>2 DEF KickBgThread, nakVars, mcuVars, wireVars, countVars, HistoryTypeOK
  <1>3. ASSUME NEW q \in Queues, MoveDue(q) PROVE HistoryTypeOK'
    BY <1>3 DEF MoveDue, nakVars, mcuVars, wireVars, countVars, HistoryTypeOK
  <1>4. CASE StartBlock
    BY <1>4 DEF StartBlock, nakVars, mcuVars, wireVars, countVars, HistoryTypeOK
  <1>5. CASE WriteBlocks
    BY <1>5 DEF WriteBlocks, nakVars, mcuVars, countVars, HistoryTypeOK
  <1>6. ASSUME NEW i \in 1 .. Len(pendingQueues), AddCommand(i) PROVE HistoryTypeOK'
    BY <1>6 DEF AddCommand, nakVars, mcuVars, wireVars, countVars, HistoryTypeOK
  <1>7. CASE StoreBlock
    <2>. DEFINE out == [seq |-> sendSeq, cmds |-> block]
    <2>1. built' = Append(built, out) /\ UNCHANGED <<nakVars, mcuVars, wireVars, countVars>>
      BY <1>7 DEF StoreBlock
    <2>2. out \in Blocks
      BY DEF NumbersTypeOK, SenderTypeOK, Blocks
    <2>. HIDE DEF out
    <2>3. built' \in Seq(Blocks)
      BY <1>24, <2>1, <2>2, AppendProperties
    <2>. QED
      BY <1>24, <2>1, <2>3 DEF HistoryTypeOK, nakVars, mcuVars, wireVars, countVars
  <1>8. CASE CommandEvent
    BY <1>8 DEF CommandEvent, nakVars, mcuVars, wireVars, countVars, HistoryTypeOK
  <1>9. CASE KickEvent
    BY <1>9 DEF KickEvent, nakVars, mcuVars, wireVars, countVars, HistoryTypeOK
  <1>10. CASE RetransmitEvent
    <2>. DEFINE again == {b.seq : b \in ToSet(sentQueue)}
    <2>1. /\ early' \in {early, early + 1} /\ resent' = resent \cup again
          /\ retransmits' = <<retransmits[2], sendSeq>>
          /\ UNCHANGED <<built, mcuVars, losses, unanswered, clock>>
      BY <1>10 DEF RetransmitEvent
    <2>2. again \in SUBSET Nat
      <3>1. sentQueue \in Seq(Blocks)
        BY DEF LinkTypeOK
      <3>2. ToSet(sentQueue) \subseteq Blocks
        BY <3>1 DEF ToSet
      <3>. QED
        BY <3>2 DEF Blocks
    <2>. HIDE DEF again
    <2>3. retransmits' \in Nat \X Nat
      <3>1. retransmits[2] \in Nat /\ sendSeq \in Nat
        BY <1>24 DEF NumbersTypeOK
      <3>. QED
        BY <2>1, <3>1
    <2>4. early' \in Nat
      BY <1>24, <2>1
    <2>5. resent' \in SUBSET Nat
      BY <1>24, <2>1, <2>2
    <2>. QED
      BY <1>24, <2>1, <2>3, <2>4, <2>5 DEF HistoryTypeOK, mcuVars
  <1>11. CASE HandleMessage
    <2>1. UNCHANGED <<nakVars, built, mcuVars, losses, unanswered, countVars>>
      BY <1>11 DEF HandleMessage
    <2>. QED
      BY <1>24, <2>1 DEF HistoryTypeOK, nakVars, mcuVars, countVars
  <1>12. CASE BackgroundEnds
    BY <1>12 DEF BackgroundEnds, nakVars, mcuVars, wireVars, countVars, HistoryTypeOK
  <1>13. CASE PullMessage
    BY <1>13 DEF PullMessage, nakVars, mcuVars, wireVars, countVars, HistoryTypeOK
  <1>14. CASE PullNothing
    BY <1>14 DEF PullNothing, nakVars, mcuVars, wireVars, countVars, HistoryTypeOK
  <1>15. CASE RequestExit \/ Closes
    BY <1>15 DEF RequestExit, Closes, nakVars, mcuVars, wireVars, countVars, HistoryTypeOK
  <1>16. CASE McuTake
    <2>1. /\ toMcu # <<>> /\ executed' = Append(executed, Head(toMcu))
          /\ UNCHANGED <<queueVars, reports, losses, unanswered, countVars>>
      BY <1>16 DEF McuTake
    <2>2. Head(toMcu) \in Blocks
      <3>1. toMcu \in Seq(Blocks)
        BY DEF LinkTypeOK
      <3>. QED
        BY <2>1, <3>1
    <2>3. executed' \in Seq(Blocks)
      BY <1>24, <2>1, <2>2, AppendProperties
    <2>. QED
      BY <1>24, <2>1, <2>3 DEF HistoryTypeOK, queueVars, nakVars, countVars
  <1>17. CASE McuAcknowledge
    BY <1>17 DEF McuAcknowledge, queueVars, nakVars, countVars, HistoryTypeOK
  <1>18. CASE McuNak
    BY <1>18 DEF McuNak, queueVars, nakVars, mcuVars, countVars, HistoryTypeOK
  <1>19. CASE McuReport
    <2>1. reports' = reports + 1 /\ UNCHANGED <<queueVars, executed, losses, unanswered, countVars>>
      BY <1>19 DEF McuReport
    <2>. QED
      BY <1>24, <2>1 DEF HistoryTypeOK, queueVars, nakVars, countVars
  <1>20. CASE LoseBlock
    <2>1. losses' = losses + 1 /\ UNCHANGED <<queueVars, mcuVars, unanswered, countVars>>
      BY <1>20 DEF LoseBlock
    <2>. QED
      BY <1>24, <2>1 DEF HistoryTypeOK, queueVars, nakVars, mcuVars, countVars
  <1>21. CASE LoseMessage
    <2>1. /\ toHost # <<>> /\ losses' = losses + 1
          /\ unanswered' = IF Head(toHost).about = NoCommand THEN unanswered
                           ELSE unanswered \cup {Head(toHost).about}
          /\ UNCHANGED <<queueVars, mcuVars, countVars>>
      BY <1>21 DEF LoseMessage
    <2>2. Head(toHost) \in Messages
      <3>1. toHost \in Seq(Messages)
        BY DEF LinkTypeOK
      <3>. QED
        BY <2>1, <3>1
    <2>3. Head(toHost).about \in Commands \cup {NoCommand}
      BY <2>2 DEF Messages
    <2>4. unanswered' \in SUBSET Commands /\ losses' \in Nat
      BY <1>24, <2>1, <2>3
    <2>. QED
      BY <1>24, <2>1, <2>4 DEF HistoryTypeOK, queueVars, nakVars, mcuVars, countVars
  <1>22. CASE Tick
    <2>1. clock' = clock + 1 /\ UNCHANGED <<queueVars, mcuVars, wireVars, early>>
      BY <1>22 DEF Tick
    <2>. QED
      BY <1>24, <2>1 DEF HistoryTypeOK, queueVars, nakVars, mcuVars, wireVars
  <1>23. CASE UNCHANGED vars
    BY <1>23 DEF vars, queueVars, nakVars, mcuVars, wireVars, countVars, HistoryTypeOK
  <1>. QED
    BY <1>1, <1>2, <1>3, <1>4, <1>5, <1>6, <1>7, <1>8, <1>9, <1>10, <1>11, <1>12, <1>13, <1>14, <1>15, <1>16, <1>17, <1>18, <1>19, <1>20, <1>21, <1>22, <1>23
       DEF LinkNext, Next, BackgroundStep, CommandStep, PullerStep, McuStep, Quiet
-----------------------------------------------------------------------------
(* The inductive invariant, part by part: what is under way.               *)

\* What the invariant says, for the steps that follow.
LEMMA LinkFacts ==
    ASSUME IInv
    PROVE  /\ sendSeq \in Nat \ {0} /\ receiveSeq \in Nat \ {0} /\ mcuSeq \in Nat \ {0}
           /\ sentQueue \in Seq(Blocks) /\ outBuf \in Seq(Blocks) /\ toMcu \in Seq(Blocks)
           /\ toHost \in Seq(Messages) /\ Wire \in Seq(Blocks)
           /\ Recent(Wire, sendSeq, mcuSeq) /\ InOrder(toHost, receiveSeq, mcuSeq)
           /\ receiveSeq <= mcuSeq /\ Len(sentQueue) = sendSeq - receiveSeq /\ Len(sentQueue) <= MaxPending
           /\ mcuSeq < sendSeq + SeqNumbers
  <1>1. /\ sendSeq \in Nat \ {0} /\ receiveSeq \in Nat \ {0} /\ mcuSeq \in Nat \ {0}
        /\ sentQueue \in Seq(Blocks) /\ outBuf \in Seq(Blocks) /\ toMcu \in Seq(Blocks)
        /\ toHost \in Seq(Messages)
    BY DEF IInv, TypeOK, NumbersTypeOK, LinkTypeOK
  <1>2. Wire \in Seq(Blocks)
    BY <1>1, ConcatProperties DEF Wire
  <1>3. /\ Recent(Wire, sendSeq, mcuSeq) /\ InOrder(toHost, receiveSeq, mcuSeq)
        /\ receiveSeq <= mcuSeq /\ Len(sentQueue) = sendSeq - receiveSeq /\ Len(sentQueue) <= MaxPending
    BY DEF IInv, WireInv, AheadInv, SentInv, SentIsOutstanding
  <1>4. mcuSeq > sendSeq => mcuSeq <= SeqNumbers
    BY DEF IInv, AheadInv
  <1>. QED
    BY <1>1, <1>2, <1>3, <1>4, WindowFits

\* Unless command_event builds blocks, all that is under way has been written.
LEMMA AllWritten ==
    ASSUME IInv, bg \in {"poll", "ended"}
    PROVE  outBuf = <<>> /\ Wire = toMcu
  <1>1. outBuf = <<>>
    BY DEF IInv, SentInv
  <1>. QED
    BY <1>1, LinkFacts, ConcatEmptySeq DEF Wire

\* The controller takes a block only when its whole number is the one it
\* expects, though it looks at a few bits.
LEMMA TakenIsExpected ==
    ASSUME IInv, McuTake
    PROVE  /\ toMcu # <<>> /\ Wire = toMcu /\ outBuf = <<>>
           /\ Head(toMcu) \in Blocks /\ Head(toMcu).seq = mcuSeq /\ mcuSeq < sendSeq
  <1>1. /\ toMcu # <<>> /\ SameNumber(Head(toMcu).seq, mcuSeq) /\ bg \in {"poll", "ended"}
    BY DEF McuTake, Unlocked
  <1>2. Wire = toMcu /\ outBuf = <<>>
    BY <1>1, AllWritten
  <1>3. Head(toMcu) \in Blocks /\ Head(toMcu).seq < sendSeq /\ mcuSeq < Head(toMcu).seq + SeqNumbers
    BY <1>1, <1>2, LinkFacts, RecentTail
  <1>. DEFINE s == Head(toMcu).seq
  <1>4. s \in Nat
    BY <1>3 DEF Blocks
  <1>5. s % SeqNumbers = mcuSeq % SeqNumbers
    BY <1>1 DEF SameNumber
  <1>6. s < sendSeq /\ mcuSeq < s + SeqNumbers
    BY <1>3
  <1>. HIDE DEF s
  <1>7. s < mcuSeq + SeqNumbers
    BY <1>4, <1>6, LinkFacts, WindowFits
  <1>8. s = mcuSeq
    BY <1>4, <1>5, <1>6, <1>7, LinkFacts, SameRemainder, WindowFits
  <1>. QED
    BY <1>1, <1>2, <1>3, <1>6, <1>8 DEF s


LEMMA RecentStep ==
    ASSUME IInv, [LinkNext]_vars
    PROVE  Recent(Wire', sendSeq', mcuSeq')
  <1>24. Recent(Wire, sendSeq, mcuSeq)
    BY LinkFacts
  <1>1. ASSUME NEW q \in Queues, SendBatch(q) PROVE Recent(Wire', sendSeq', mcuSeq')
    BY <1>1, <1>24 DEF SendBatch, seqVars, bgVars, mcuVars, wireVars, Wire
  <1>2. ASSUME NEW q \in Queues, KickBgThread(q) PROVE Recent(Wire', sendSeq', mcuSeq')
    BY <1>2, <1>24 DEF KickBgThread, seqVars, bgVars, mcuVars, wireVars, Wire
  <1>3. ASSUME NEW q \in Queues, MoveDue(q) PROVE Recent(Wire', sendSeq', mcuSeq')
    BY <1>3, <1>24 DEF MoveDue, seqVars, bgVars, mcuVars, wireVars, Wire
  <1>4. CASE StartBlock
    BY <1>4, <1>24 DEF StartBlock, seqVars, mcuVars, wireVars, Wire
  <1>5. CASE WriteBlocks
    <2>1. toMcu' = Wire /\ outBuf' = <<>> /\ UNCHANGED <<sendSeq, mcuSeq>>
      BY <1>5 DEF WriteBlocks, Wire, seqVars, mcuVars
    <2>2. Wire' = Wire
      BY <2>1, LinkFacts, ConcatEmptySeq DEF Wire
    <2>. QED
      BY <1>24, <2>1, <2>2
  <1>6. ASSUME NEW i \in 1 .. Len(pendingQueues), AddCommand(i) PROVE Recent(Wire', sendSeq', mcuSeq')
    BY <1>6, <1>24 DEF AddCommand, seqVars, mcuVars, wireVars, Wire
  <1>7. CASE StoreBlock
    <2>. DEFINE out == [seq |-> sendSeq, cmds |-> block]
    <2>1. outBuf' = Append(outBuf, out) /\ sendSeq' = sendSeq + 1 /\ UNCHANGED <<toMcu, mcuSeq>>
      BY <1>7 DEF StoreBlock, mcuVars, wireVars
    <2>2. out \in Blocks /\ out.seq = sendSeq
      BY DEF IInv, TypeOK, NumbersTypeOK, SenderTypeOK, Blocks
    <2>. HIDE DEF out
    <2>3. Append(outBuf, out) = outBuf \o <<out>>
      BY <2>2, LinkFacts, AppendIsConcat
    <2>. DEFINE t == <<out>>
    <2>4. t \in Seq(Blocks) /\ Len(t) = 1 /\ t[1] = out
      BY <2>2
    <2>. HIDE DEF t
    <2>5. Wire' = Wire \o t
      <3>1. (toMcu \o outBuf) \o t = toMcu \o (outBuf \o t)
        <4>1. toMcu \in Seq(Blocks) /\ outBuf \in Seq(Blocks) /\ t \in Seq(Blocks)
          BY <2>4, LinkFacts
        <4>. QED
          BY <4>1, ConcatAssociative
      <3>. QED
        BY <2>1, <2>3, <3>1 DEF Wire, t
    <2>6. Recent(Wire, sendSeq + 1, mcuSeq)
      BY <1>24, LinkFacts, RecentLater
    <2>7. ASSUME NEW i \in 1 .. Len(t)
          PROVE  /\ t[i].seq < sendSeq + 1 /\ sendSeq + 1 < t[i].seq + SeqNumbers
                 /\ mcuSeq < t[i].seq + SeqNumbers
      <3>1. t[i].seq = sendSeq
        BY <2>2, <2>4
      <3>. QED
        BY <3>1, LinkFacts, WindowFits
    <2>8. sendSeq + 1 \in Int /\ mcuSeq \in Int
      BY LinkFacts
    <2>9. Recent(Wire \o t, sendSeq + 1, mcuSeq)
      BY <2>4, <2>6, <2>7, <2>8, LinkFacts, RecentConcat
    <2>. QED
      BY <2>1, <2>5, <2>9
  <1>8. CASE CommandEvent
    BY <1>8, <1>24 DEF CommandEvent, seqVars, mcuVars, wireVars, Wire
  <1>9. CASE KickEvent
    BY <1>9, <1>24 DEF KickEvent, seqVars, bgVars, mcuVars, wireVars, Wire
  <1>10. CASE RetransmitEvent
    <2>1. PICK wire \in FlushOutput(toMcu) :
            /\ toMcu' = wire \o sentQueue /\ bg = "poll"
            /\ UNCHANGED <<outBuf, sendSeq, mcuSeq>>
      BY <1>10 DEF RetransmitEvent, Polling, seqVars, bgVars, mcuVars
    <2>2. Wire = toMcu /\ outBuf = <<>>
      BY <2>1, AllWritten
    <2>3. wire \in Seq(Blocks) /\ Recent(wire, sendSeq, mcuSeq)
      <3>1. \/ wire = toMcu
            \/ \E n \in 0 .. Len(toMcu) : wire = SubSeq(toMcu, 1, n)
        BY <2>1 DEF FlushOutput
      <3>. QED
        BY <1>24, <2>2, <3>1, LinkFacts, RecentPrefix
    <2>4. ASSUME NEW i \in 1 .. Len(sentQueue)
          PROVE  /\ sentQueue[i].seq < sendSeq /\ sendSeq < sentQueue[i].seq + SeqNumbers
                 /\ mcuSeq < sentQueue[i].seq + SeqNumbers
      <3>1. sentQueue[i].seq = receiveSeq + i - 1
        BY DEF IInv, SentInv, SentIsOutstanding, Numbered
      <3>2. mcuSeq > sendSeq => mcuSeq <= SeqNumbers
        BY DEF IInv, AheadInv
      <3>3. /\ receiveSeq \in Nat \ {0} /\ sendSeq \in Nat /\ mcuSeq \in Nat /\ SeqNumbers \in Nat
            /\ i \in Nat \ {0} /\ i <= sendSeq - receiveSeq /\ sendSeq - receiveSeq < SeqNumbers
        BY LinkFacts, WindowFits
      <3>. QED
        BY <3>1, <3>2, <3>3
    <2>5. wire \o sentQueue \in Seq(Blocks) /\ Recent(wire \o sentQueue, sendSeq, mcuSeq)
      BY <2>3, <2>4, LinkFacts, RecentConcat
    <2>6. Wire' = wire \o sentQueue
      BY <2>1, <2>2, <2>5, ConcatEmptySeq DEF Wire
    <2>. QED
      BY <2>1, <2>5, <2>6
  <1>11. CASE HandleMessage
    <2>1. PICK r \in Nat \ {0} : r = Head(toHost).seq
      BY <1>11, NumberIsRebuilt DEF HandleMessage
    <2>2. UNCHANGED <<toMcu, outBuf, mcuSeq>>
      BY <1>11, <2>1, HandleLeaves DEF bgVars, mcuVars
    <2>3. sendSeq' \in Int /\ sendSeq <= sendSeq'
      <3>1. sendSeq' = sendSeq \/ (r > sendSeq /\ sendSeq' = r)
        BY <1>11, <2>1, HandleLeaves
      <3>. QED
        BY <3>1, LinkFacts
    <2>4. Recent(Wire, sendSeq', mcuSeq)
      BY <1>24, <2>3, LinkFacts, RecentLater
    <2>. QED
      BY <2>2, <2>4 DEF Wire
  <1>12. CASE BackgroundEnds
    BY <1>12, <1>24 DEF BackgroundEnds, seqVars, mcuVars, wireVars, Wire
  <1>13. CASE PullMessage
    BY <1>13, <1>24 DEF PullMessage, seqVars, bgVars, mcuVars, wireVars, Wire
  <1>14. CASE PullNothing
    BY <1>14, <1>24 DEF PullNothing, seqVars, bgVars, mcuVars, wireVars, Wire
  <1>15. CASE RequestExit \/ Closes
    BY <1>15, <1>24 DEF RequestExit, Closes, seqVars, bgVars, mcuVars, wireVars, Wire
  <1>16. CASE McuTake
    <2>1. toMcu' = Tail(toMcu) /\ mcuSeq' = mcuSeq + 1 /\ UNCHANGED <<outBuf, sendSeq>>
      BY <1>16 DEF McuTake, queueVars, seqVars, bgVars
    <2>2. Tail(toMcu) \in Seq(Blocks) /\ Recent(Tail(toMcu), sendSeq, Head(toMcu).seq + 1)
      BY <1>16, TakenIsExpected, LinkFacts, RecentTail
    <2>3. Wire' = Tail(toMcu)
      BY <1>16, <2>1, <2>2, TakenIsExpected, ConcatEmptySeq DEF Wire
    <2>. QED
      BY <1>16, <2>1, <2>2, <2>3, TakenIsExpected
  <1>17. CASE McuAcknowledge
    BY <1>17, <1>24 DEF McuAcknowledge, queueVars, seqVars, bgVars, Wire
  <1>18. CASE McuNak
    <2>1. /\ toMcu # <<>> /\ toMcu' = Tail(toMcu) /\ bg \in {"poll", "ended"}
          /\ UNCHANGED <<outBuf, sendSeq, mcuSeq>>
      BY <1>18 DEF McuNak, Unlocked, queueVars, seqVars, bgVars, mcuVars
    <2>2. Wire = toMcu /\ outBuf = <<>>
      BY <2>1, AllWritten
    <2>3. Tail(toMcu) \in Seq(Blocks) /\ Recent(Tail(toMcu), sendSeq, mcuSeq)
      BY <2>1, <2>2, LinkFacts, RecentTail
    <2>4. Wire' = Tail(toMcu)
      BY <2>1, <2>2, <2>3, ConcatEmptySeq DEF Wire
    <2>. QED
      BY <2>1, <2>3, <2>4
  <1>19. CASE McuReport
    BY <1>19, <1>24 DEF McuReport, queueVars, seqVars, bgVars, Wire
  <1>20. CASE LoseBlock
    <2>1. /\ toMcu # <<>> /\ toMcu' = Tail(toMcu) /\ bg \in {"poll", "ended"}
          /\ UNCHANGED <<outBuf, sendSeq, mcuSeq>>
      BY <1>20 DEF LoseBlock, Unlocked, queueVars, seqVars, bgVars, mcuVars
    <2>2. Wire = toMcu /\ outBuf = <<>>
      BY <2>1, AllWritten
    <2>3. Tail(toMcu) \in Seq(Blocks) /\ Recent(Tail(toMcu), sendSeq, mcuSeq)
      BY <2>1, <2>2, LinkFacts, RecentTail
    <2>4. Wire' = Tail(toMcu)
      BY <2>1, <2>2, <2>3, ConcatEmptySeq DEF Wire
    <2>. QED
      BY <2>1, <2>3, <2>4
  <1>21. CASE LoseMessage
    BY <1>21, <1>24 DEF LoseMessage, queueVars, seqVars, bgVars, mcuVars, Wire
  <1>22. CASE Tick
    BY <1>22, <1>24 DEF Tick, queueVars, seqVars, bgVars, mcuVars, wireVars, Wire
  <1>23. CASE UNCHANGED vars
    BY <1>23, <1>24 DEF vars, queueVars, seqVars, bgVars, mcuVars, wireVars, Wire
  <1>. QED
    BY <1>1, <1>2, <1>3, <1>4, <1>5, <1>6, <1>7, <1>8, <1>9, <1>10, <1>11, <1>12, <1>13, <1>14, <1>15, <1>16, <1>17, <1>18, <1>19, <1>20, <1>21, <1>22, <1>23
       DEF LinkNext, Next, BackgroundStep, CommandStep, PullerStep, McuStep, Quiet

LEMMA InOrderStep ==
    ASSUME IInv, [LinkNext]_vars
    PROVE  InOrder(toHost', receiveSeq', mcuSeq')
  <1>24. InOrder(toHost, receiveSeq, mcuSeq)
    BY LinkFacts
  <1>25. receiveSeq \in Int /\ mcuSeq \in Int /\ receiveSeq <= mcuSeq /\ mcuSeq <= mcuSeq /\ mcuSeq <= mcuSeq + 1
    BY LinkFacts
  <1>1. ASSUME NEW q \in Queues, SendBatch(q) PROVE InOrder(toHost', receiveSeq', mcuSeq')
    BY <1>1, <1>24 DEF SendBatch, seqVars, mcuVars, wireVars
  <1>2. ASSUME NEW q \in Queues, KickBgThread(q) PROVE InOrder(toHost', receiveSeq', mcuSeq')
    BY <1>2, <1>24 DEF KickBgThread, seqVars, mcuVars, wireVars
  <1>3. ASSUME NEW q \in Queues, MoveDue(q) PROVE InOrder(toHost', receiveSeq', mcuSeq')
    BY <1>3, <1>24 DEF MoveDue, seqVars, mcuVars, wireVars
  <1>4. CASE StartBlock
    BY <1>4, <1>24 DEF StartBlock, seqVars, mcuVars, wireVars
  <1>5. CASE WriteBlocks
    BY <1>5, <1>24 DEF WriteBlocks, seqVars, mcuVars
  <1>6. ASSUME NEW i \in 1 .. Len(pendingQueues), AddCommand(i) PROVE InOrder(toHost', receiveSeq', mcuSeq')
    BY <1>6, <1>24 DEF AddCommand, seqVars, mcuVars, wireVars
  <1>7. CASE StoreBlock
    BY <1>7, <1>24 DEF StoreBlock, mcuVars, wireVars
  <1>8. CASE CommandEvent
    BY <1>8, <1>24 DEF CommandEvent, seqVars, mcuVars, wireVars
  <1>9. CASE KickEvent
    BY <1>9, <1>24 DEF KickEvent, seqVars, mcuVars, wireVars
  <1>10. CASE RetransmitEvent
    BY <1>10, <1>24 DEF RetransmitEvent, seqVars, mcuVars
  <1>11. CASE HandleMessage
    <2>1. PICK r \in Nat \ {0} : r = Head(toHost).seq
      BY <1>11, NumberIsRebuilt DEF HandleMessage
    <2>2. toHost # <<>> /\ toHost' = Tail(toHost) /\ receiveSeq' = r /\ UNCHANGED mcuSeq
      BY <1>11, <2>1, HandleLeaves DEF mcuVars
    <2>3. InOrder(Tail(toHost), Head(toHost).seq, mcuSeq)
      BY <2>2, LinkFacts, InOrderTail
    <2>. QED
      BY <2>1, <2>2, <2>3
  <1>12. CASE BackgroundEnds
    BY <1>12, <1>24 DEF BackgroundEnds, seqVars, mcuVars, wireVars
  <1>13. CASE PullMessage
    BY <1>13, <1>24 DEF PullMessage, seqVars, mcuVars, wireVars
  <1>14. CASE PullNothing
    BY <1>14, <1>24 DEF PullNothing, seqVars, mcuVars, wireVars
  <1>15. CASE RequestExit \/ Closes
    BY <1>15, <1>24 DEF RequestExit, Closes, seqVars, mcuVars, wireVars
  <1>16. CASE McuTake
    <2>. DEFINE new == mcuSeq + 1
                t == AnswersTo(Head(toMcu).cmds, new)
    <2>1. toHost' = toHost \o t /\ mcuSeq' = new /\ UNCHANGED receiveSeq
      BY <1>16 DEF McuTake, queueVars, seqVars
    <2>2. Head(toMcu).cmds \in Seq(Commands) /\ new \in Nat /\ mcuSeq <= new
      BY <1>16, TakenIsExpected, LinkFacts DEF Blocks
    <2>. HIDE DEF new
    <2>3. t \in Seq(Messages) /\ \A i \in 1 .. Len(t) : t[i].seq = new
      BY <2>2, AnswersProperties
    <2>. HIDE DEF t
    <2>4. InOrder(toHost \o t, receiveSeq, new)
      BY <1>24, <1>25, <2>2, <2>3, LinkFacts, InOrderConcat
    <2>. QED
      BY <2>1, <2>4
  <1>17. CASE McuAcknowledge
    <2>. DEFINE new == Ack(mcuSeq)
    <2>1. toHost' = Append(toHost, new) /\ UNCHANGED <<receiveSeq, mcuSeq>>
      BY <1>17 DEF McuAcknowledge, queueVars, seqVars, mcuVars
    <2>2. new \in Messages /\ new.seq = mcuSeq
      BY LinkFacts DEF Ack, Messages
    <2>. HIDE DEF new
    <2>3. Append(toHost, new) = toHost \o <<new>>
      BY <2>2, LinkFacts, AppendIsConcat
    <2>. DEFINE t == <<new>>
    <2>4. t \in Seq(Messages) /\ \A i \in 1 .. Len(t) : t[i].seq = mcuSeq
      BY <2>2
    <2>. HIDE DEF t
    <2>5. InOrder(toHost \o t, receiveSeq, mcuSeq)
      BY <1>24, <1>25, <2>4, LinkFacts, InOrderConcat
    <2>. QED
      BY <1>24, <2>1, <2>3, <2>5 DEF t
  <1>18. CASE McuNak
    <2>. DEFINE new == Ack(mcuSeq)
    <2>1. toHost' = Append(toHost, new) /\ UNCHANGED <<receiveSeq, mcuSeq>>
      BY <1>18 DEF McuNak, queueVars, seqVars, mcuVars
    <2>2. new \in Messages /\ new.seq = mcuSeq
      BY LinkFacts DEF Ack, Messages
    <2>. HIDE DEF new
    <2>3. Append(toHost, new) = toHost \o <<new>>
      BY <2>2, LinkFacts, AppendIsConcat
    <2>. DEFINE t == <<new>>
    <2>4. t \in Seq(Messages) /\ \A i \in 1 .. Len(t) : t[i].seq = mcuSeq
      BY <2>2
    <2>. HIDE DEF t
    <2>5. InOrder(toHost \o t, receiveSeq, mcuSeq)
      BY <1>24, <1>25, <2>4, LinkFacts, InOrderConcat
    <2>. QED
      BY <1>24, <2>1, <2>3, <2>5 DEF t
  <1>19. CASE McuReport
    <2>. DEFINE new == Answer(mcuSeq, NoCommand)
    <2>1. toHost' = Append(toHost, new) /\ UNCHANGED <<receiveSeq, mcuSeq>>
      BY <1>19 DEF McuReport, queueVars, seqVars, mcuVars
    <2>2. new \in Messages /\ new.seq = mcuSeq
      BY LinkFacts DEF Answer, Messages
    <2>. HIDE DEF new
    <2>3. Append(toHost, new) = toHost \o <<new>>
      BY <2>2, LinkFacts, AppendIsConcat
    <2>. DEFINE t == <<new>>
    <2>4. t \in Seq(Messages) /\ \A i \in 1 .. Len(t) : t[i].seq = mcuSeq
      BY <2>2
    <2>. HIDE DEF t
    <2>5. InOrder(toHost \o t, receiveSeq, mcuSeq)
      BY <1>24, <1>25, <2>4, LinkFacts, InOrderConcat
    <2>. QED
      BY <1>24, <2>1, <2>3, <2>5 DEF t
  <1>20. CASE LoseBlock
    <2>. DEFINE new == Ack(mcuSeq)
    <2>1. toHost' \in {toHost, Append(toHost, new)} /\ UNCHANGED <<receiveSeq, mcuSeq>>
      BY <1>20 DEF LoseBlock, queueVars, seqVars, mcuVars
    <2>2. new \in Messages /\ new.seq = mcuSeq
      BY LinkFacts DEF Ack, Messages
    <2>. HIDE DEF new
    <2>3. Append(toHost, new) = toHost \o <<new>>
      BY <2>2, LinkFacts, AppendIsConcat
    <2>. DEFINE t == <<new>>
    <2>4. t \in Seq(Messages) /\ \A i \in 1 .. Len(t) : t[i].seq = mcuSeq
      BY <2>2
    <2>. HIDE DEF t
    <2>5. InOrder(toHost \o t, receiveSeq, mcuSeq)
      BY <1>24, <1>25, <2>4, LinkFacts, InOrderConcat
    <2>. QED
      BY <1>24, <2>1, <2>3, <2>5 DEF t
  <1>21. CASE LoseMessage
    <2>1. toHost # <<>> /\ toHost' = Tail(toHost) /\ UNCHANGED <<receiveSeq, mcuSeq>>
      BY <1>21 DEF LoseMessage, queueVars, seqVars, mcuVars
    <2>2. InOrder(Tail(toHost), receiveSeq, mcuSeq)
      BY <2>1, LinkFacts, InOrderTail
    <2>. QED
      BY <2>1, <2>2
  <1>22. CASE Tick
    BY <1>22, <1>24 DEF Tick, queueVars, seqVars, mcuVars, wireVars
  <1>23. CASE UNCHANGED vars
    BY <1>23, <1>24 DEF vars, queueVars, seqVars, mcuVars, wireVars
  <1>. QED
    BY <1>1, <1>2, <1>3, <1>4, <1>5, <1>6, <1>7, <1>8, <1>9, <1>10, <1>11, <1>12, <1>13, <1>14, <1>15, <1>16, <1>17, <1>18, <1>19, <1>20, <1>21, <1>22, <1>23
       DEF LinkNext, Next, BackgroundStep, CommandStep, PullerStep, McuStep, Quiet
-----------------------------------------------------------------------------
(* The inductive invariant, part by part: who is ahead of whom.            *)


LEMMA AheadInvStep ==
    ASSUME IInv, [LinkNext]_vars
    PROVE  AheadInv'
  <1>24. /\ receiveSeq <= mcuSeq
         /\ mcuSeq > sendSeq => /\ receiveSeq = 1 /\ mcuSeq <= SeqNumbers
                               /\ AllSay(toHost, mcuSeq)
    BY DEF IInv, AheadInv
  <1>1. ASSUME NEW q \in Queues, SendBatch(q) PROVE AheadInv'
    BY <1>1, <1>24 DEF SendBatch, seqVars, mcuVars, wireVars, AheadInv
  <1>2. ASSUME NEW q \in Queues, KickBgThread(q) PROVE AheadInv'
    BY <1>2, <1>24 DEF KickBgThread, seqVars, mcuVars, wireVars, AheadInv
  <1>3. ASSUME NEW q \in Queues, MoveDue(q) PROVE AheadInv'
    BY <1>3, <1>24 DEF MoveDue, seqVars, mcuVars, wireVars, AheadInv
  <1>4. CASE StartBlock
    BY <1>4, <1>24 DEF StartBlock, seqVars, mcuVars, wireVars, AheadInv
  <1>5. CASE WriteBlocks
    BY <1>5, <1>24 DEF WriteBlocks, seqVars, mcuVars, AheadInv
  <1>6. ASSUME NEW i \in 1 .. Len(pendingQueues), AddCommand(i) PROVE AheadInv'
    BY <1>6, <1>24 DEF AddCommand, seqVars, mcuVars, wireVars, AheadInv
  <1>7. CASE StoreBlock
    <2>1. sendSeq' = sendSeq + 1 /\ UNCHANGED <<receiveSeq, mcuSeq, toHost>>
      BY <1>7 DEF StoreBlock, mcuVars, wireVars
    <2>. QED
      BY <1>24, <2>1, LinkFacts DEF AheadInv
  <1>8. CASE CommandEvent
    BY <1>8, <1>24 DEF CommandEvent, seqVars, mcuVars, wireVars, AheadInv
  <1>9. CASE KickEvent
    BY <1>9, <1>24 DEF KickEvent, seqVars, mcuVars, wireVars, AheadInv
  <1>10. CASE RetransmitEvent
    BY <1>10, <1>24 DEF RetransmitEvent, seqVars, mcuVars, AheadInv
  <1>11. CASE HandleMessage
    <2>1. PICK r \in Nat \ {0} : r = Head(toHost).seq
      BY <1>11, NumberIsRebuilt DEF HandleMessage
    <2>2. /\ toHost # <<>> /\ receiveSeq' = r /\ UNCHANGED mcuSeq
          /\ \/ r = receiveSeq /\ sendSeq' = sendSeq
             \/ r <= sendSeq /\ sendSeq' = sendSeq
             \/ r > sendSeq /\ sendSeq' = r
      BY <1>11, <2>1, HandleLeaves DEF mcuVars
    <2>3. r <= mcuSeq /\ (r > sendSeq => r = mcuSeq /\ receiveSeq = 1)
      BY <2>1, <2>2, NumberIsRebuilt
    <2>4. mcuSeq > sendSeq => r = mcuSeq
      <3>1. Len(toHost) \in Nat \ {0} /\ r = toHost[1].seq
        BY <2>1, <2>2, LinkFacts
      <3>. QED
        BY <1>24, <3>1 DEF AllSay
    <2>5. ~(mcuSeq > sendSeq')
      BY <1>24, <2>2, <2>3, <2>4, LinkFacts
    <2>. QED
      BY <2>2, <2>3, <2>5 DEF AheadInv
  <1>12. CASE BackgroundEnds
    BY <1>12, <1>24 DEF BackgroundEnds, seqVars, mcuVars, wireVars, AheadInv
  <1>13. CASE PullMessage
    BY <1>13, <1>24 DEF PullMessage, seqVars, mcuVars, wireVars, AheadInv
  <1>14. CASE PullNothing
    BY <1>14, <1>24 DEF PullNothing, seqVars, mcuVars, wireVars, AheadInv
  <1>15. CASE RequestExit \/ Closes
    BY <1>15, <1>24 DEF RequestExit, Closes, seqVars, mcuVars, wireVars, AheadInv
  <1>16. CASE McuTake
    <2>1. mcuSeq' = mcuSeq + 1 /\ UNCHANGED <<receiveSeq, sendSeq>>
      BY <1>16 DEF McuTake, queueVars, seqVars
    <2>2. mcuSeq < sendSeq
      BY <1>16, TakenIsExpected
    <2>. QED
      BY <1>24, <2>1, <2>2, LinkFacts DEF AheadInv
  <1>17. CASE McuAcknowledge
    <2>. DEFINE new == Ack(mcuSeq)
    <2>1. toHost' = Append(toHost, new) /\ UNCHANGED <<receiveSeq, sendSeq, mcuSeq>>
      BY <1>17 DEF McuAcknowledge, queueVars, seqVars, mcuVars
    <2>2. new \in Messages /\ new.seq = mcuSeq
      BY LinkFacts DEF Ack, Messages
    <2>. HIDE DEF new
    <2>3. /\ Len(Append(toHost, new)) = Len(toHost) + 1 /\ Append(toHost, new)[Len(toHost) + 1] = new
          /\ \A i \in 1 .. Len(toHost) : Append(toHost, new)[i] = toHost[i]
      BY <2>2, LinkFacts, AppendProperties
    <2>4. Len(toHost) \in Nat
      BY LinkFacts
    <2>. DEFINE q == Append(toHost, new)
    <2>. HIDE DEF q
    <2>5. mcuSeq > sendSeq => AllSay(q, mcuSeq)
      BY <1>24, <2>2, <2>3, <2>4 DEF q, AllSay
    <2>. QED
      BY <1>24, <2>1, <2>5 DEF AheadInv, q
  <1>18. CASE McuNak
    <2>. DEFINE new == Ack(mcuSeq)
    <2>1. toHost' = Append(toHost, new) /\ UNCHANGED <<receiveSeq, sendSeq, mcuSeq>>
      BY <1>18 DEF McuNak, queueVars, seqVars, mcuVars
    <2>2. new \in Messages /\ new.seq = mcuSeq
      BY LinkFacts DEF Ack, Messages
    <2>. HIDE DEF new
    <2>3. /\ Len(Append(toHost, new)) = Len(toHost) + 1 /\ Append(toHost, new)[Len(toHost) + 1] = new
          /\ \A i \in 1 .. Len(toHost) : Append(toHost, new)[i] = toHost[i]
      BY <2>2, LinkFacts, AppendProperties
    <2>4. Len(toHost) \in Nat
      BY LinkFacts
    <2>. DEFINE q == Append(toHost, new)
    <2>. HIDE DEF q
    <2>5. mcuSeq > sendSeq => AllSay(q, mcuSeq)
      BY <1>24, <2>2, <2>3, <2>4 DEF q, AllSay
    <2>. QED
      BY <1>24, <2>1, <2>5 DEF AheadInv, q
  <1>19. CASE McuReport
    <2>. DEFINE new == Answer(mcuSeq, NoCommand)
    <2>1. toHost' = Append(toHost, new) /\ UNCHANGED <<receiveSeq, sendSeq, mcuSeq>>
      BY <1>19 DEF McuReport, queueVars, seqVars, mcuVars
    <2>2. new \in Messages /\ new.seq = mcuSeq
      BY LinkFacts DEF Answer, Messages
    <2>. HIDE DEF new
    <2>3. /\ Len(Append(toHost, new)) = Len(toHost) + 1 /\ Append(toHost, new)[Len(toHost) + 1] = new
          /\ \A i \in 1 .. Len(toHost) : Append(toHost, new)[i] = toHost[i]
      BY <2>2, LinkFacts, AppendProperties
    <2>4. Len(toHost) \in Nat
      BY LinkFacts
    <2>. DEFINE q == Append(toHost, new)
    <2>. HIDE DEF q
    <2>5. mcuSeq > sendSeq => AllSay(q, mcuSeq)
      BY <1>24, <2>2, <2>3, <2>4 DEF q, AllSay
    <2>. QED
      BY <1>24, <2>1, <2>5 DEF AheadInv, q
  <1>20. CASE LoseBlock
    <2>. DEFINE new == Ack(mcuSeq)
    <2>1. toHost' \in {toHost, Append(toHost, new)} /\ UNCHANGED <<receiveSeq, sendSeq, mcuSeq>>
      BY <1>20 DEF LoseBlock, queueVars, seqVars, mcuVars
    <2>2. new \in Messages /\ new.seq = mcuSeq
      BY LinkFacts DEF Ack, Messages
    <2>. HIDE DEF new
    <2>3. /\ Len(Append(toHost, new)) = Len(toHost) + 1 /\ Append(toHost, new)[Len(toHost) + 1] = new
          /\ \A i \in 1 .. Len(toHost) : Append(toHost, new)[i] = toHost[i]
      BY <2>2, LinkFacts, AppendProperties
    <2>4. Len(toHost) \in Nat
      BY LinkFacts
    <2>. DEFINE q == Append(toHost, new)
    <2>. HIDE DEF q
    <2>5. mcuSeq > sendSeq => AllSay(q, mcuSeq)
      BY <1>24, <2>2, <2>3, <2>4 DEF q, AllSay
    <2>. QED
      BY <1>24, <2>1, <2>5 DEF AheadInv, q
  <1>21. CASE LoseMessage
    <2>1. toHost # <<>> /\ toHost' = Tail(toHost) /\ UNCHANGED <<receiveSeq, sendSeq, mcuSeq>>
      BY <1>21 DEF LoseMessage, queueVars, seqVars, mcuVars
    <2>. DEFINE q == Tail(toHost)
    <2>2. Len(q) = Len(toHost) - 1 /\ Len(toHost) \in Nat /\ \A i \in 1 .. Len(toHost) - 1 : q[i] = toHost[i + 1]
      BY <2>1, LinkFacts
    <2>. HIDE DEF q
    <2>3. mcuSeq > sendSeq => AllSay(q, mcuSeq)
      BY <1>24, <2>2 DEF AllSay
    <2>. QED
      BY <1>24, <2>1, <2>3 DEF AheadInv, q
  <1>22. CASE Tick
    BY <1>22, <1>24 DEF Tick, queueVars, seqVars, mcuVars, wireVars, AheadInv
  <1>23. CASE UNCHANGED vars
    BY <1>23, <1>24 DEF vars, queueVars, seqVars, mcuVars, wireVars, AheadInv
  <1>. QED
    BY <1>1, <1>2, <1>3, <1>4, <1>5, <1>6, <1>7, <1>8, <1>9, <1>10, <1>11, <1>12, <1>13, <1>14, <1>15, <1>16, <1>17, <1>18, <1>19, <1>20, <1>21, <1>22, <1>23
       DEF LinkNext, Next, BackgroundStep, CommandStep, PullerStep, McuStep, Quiet

LEMMA SentInvStep ==
    ASSUME IInv, [LinkNext]_vars
    PROVE  SentInv'
  <1>24. /\ Len(sentQueue) = sendSeq - receiveSeq /\ Len(sentQueue) <= MaxPending
         /\ Numbered(sentQueue, receiveSeq)
         /\ sentQueue # <<>> <=> retransmitTimer # "never"
         /\ bg = "build" => sendSeq - receiveSeq < MaxPending
         /\ bg \in {"poll", "ended"} => outBuf = <<>>
    BY DEF IInv, SentInv, SentIsOutstanding
  <1>1. ASSUME NEW q \in Queues, SendBatch(q) PROVE SentInv'
    BY <1>1, <1>24 DEF SendBatch, seqVars, timerVars, bgVars, SentInv, SentIsOutstanding
  <1>2. ASSUME NEW q \in Queues, KickBgThread(q) PROVE SentInv'
    BY <1>2, <1>24 DEF KickBgThread, seqVars, timerVars, bgVars, SentInv, SentIsOutstanding
  <1>3. ASSUME NEW q \in Queues, MoveDue(q) PROVE SentInv'
    BY <1>3, <1>24 DEF MoveDue, seqVars, timerVars, bgVars, SentInv, SentIsOutstanding
  <1>4. CASE StartBlock
    <2>1. /\ sendSeq - receiveSeq < MaxPending
          /\ bg' = "build" /\ UNCHANGED <<seqVars, retransmitTimer, outBuf>>
      <3>1. ~(sendSeq - receiveSeq >= MaxPending)
        BY <1>4 DEF StartBlock, MustWaitForAck, BlocksPending
      <3>. QED
        BY <1>4, <3>1, LinkFacts, WindowFits DEF StartBlock, timerVars
    <2>. QED
      BY <1>24, <2>1 DEF SentInv, SentIsOutstanding, seqVars
  <1>5. CASE WriteBlocks
    BY <1>5, <1>24 DEF WriteBlocks, seqVars, SentInv, SentIsOutstanding
  <1>6. ASSUME NEW i \in 1 .. Len(pendingQueues), AddCommand(i) PROVE SentInv'
    BY <1>6, <1>24 DEF AddCommand, seqVars, timerVars, SentInv, SentIsOutstanding
  <1>7. CASE StoreBlock
    <2>. DEFINE out == [seq |-> sendSeq, cmds |-> block]
                q == Append(sentQueue, out)
    <2>1. /\ bg = "build" /\ bg' = "check" /\ sentQueue' = q /\ sendSeq' = sendSeq + 1
          /\ retransmitTimer' = IF sentQueue = <<>> THEN "later" ELSE retransmitTimer
          /\ UNCHANGED receiveSeq
      BY <1>7 DEF StoreBlock
    <2>2. out \in Blocks /\ out.seq = sendSeq
      BY DEF IInv, TypeOK, NumbersTypeOK, SenderTypeOK, Blocks
    <2>. HIDE DEF out
    <2>3. /\ Len(q) = Len(sentQueue) + 1 /\ q[Len(sentQueue) + 1] = out /\ q # <<>>
          /\ \A i \in 1 .. Len(sentQueue) : q[i] = sentQueue[i]
      BY <2>2, LinkFacts, AppendProperties
    <2>. HIDE DEF q
    <2>4. Len(q) = sendSeq + 1 - receiveSeq /\ Len(q) <= MaxPending
      BY <1>24, <2>1, <2>3, LinkFacts, WindowFits
    <2>5. ASSUME NEW i \in 1 .. Len(q)
          PROVE  q[i].seq = receiveSeq + i - 1
      <3>1. CASE i \in 1 .. Len(sentQueue)
        BY <1>24, <2>3, <3>1 DEF Numbered
      <3>2. CASE i = Len(sentQueue) + 1
        BY <1>24, <2>2, <2>3, <3>2, LinkFacts
      <3>. QED
        BY <2>3, <3>1, <3>2, LinkFacts
    <2>6. retransmitTimer' # "never"
      BY <1>24, <2>1
    <2>7. Numbered(q, receiveSeq)
      BY <2>5 DEF Numbered
    <2>8. SentIsOutstanding'
      <3>1. sentQueue' = q /\ sendSeq' = sendSeq + 1 /\ receiveSeq' = receiveSeq
        BY <2>1
      <3>2. Numbered(sentQueue', receiveSeq')
        BY <2>7, <3>1
      <3>3. Len(sentQueue') = sendSeq' - receiveSeq' /\ Len(sentQueue') <= MaxPending
        BY <2>4, <3>1, LinkFacts
      <3>4. sentQueue' # <<>> /\ retransmitTimer' # "never"
        BY <2>3, <2>6, <3>1
      <3>. QED
        BY <3>2, <3>3, <3>4 DEF SentIsOutstanding
    <2>. QED
      BY <2>1, <2>8 DEF SentInv
  <1>8. CASE CommandEvent
    BY <1>8, <1>24 DEF CommandEvent, seqVars, timerVars, SentInv, SentIsOutstanding
  <1>9. CASE KickEvent
    BY <1>9, <1>24 DEF KickEvent, seqVars, bgVars, SentInv, SentIsOutstanding
  <1>10. CASE RetransmitEvent
    <2>1. /\ retransmitTimer # "never" /\ retransmitTimer' = "later"
          /\ UNCHANGED <<seqVars, bgVars>>
      BY <1>10 DEF RetransmitEvent
    <2>. QED
      BY <1>24, <2>1 DEF SentInv, SentIsOutstanding, seqVars, bgVars
  <1>11. CASE HandleMessage
    <2>1. PICK r \in Nat \ {0} : r = Head(toHost).seq
      BY <1>11, NumberIsRebuilt DEF HandleMessage
    <2>2. /\ bg = "poll" /\ UNCHANGED <<bg, outBuf>> /\ receiveSeq' = r
          /\ UpdateTimers(Head(toHost), r)
      BY <1>11, <2>1, HandleLeaves DEF bgVars
    <2>3. CASE r = receiveSeq
      <3>1. UNCHANGED <<sendSeq, sentQueue>>
        BY <1>11, <2>1, <2>3, HandleLeaves
      <3>2. sentQueue # <<>> <=> retransmitTimer' # "never"
        BY <1>24, <2>2, <2>3, <3>1 DEF UpdateTimers, IsNak
      <3>. QED
        BY <1>24, <2>2, <2>3, <3>1, <3>2 DEF SentInv, SentIsOutstanding
    <2>4. ASSUME r # receiveSeq
          PROVE  sentQueue' # <<>> <=> retransmitTimer' # "never"
      BY <2>2, <2>4 DEF UpdateTimers, IsNak
    <2>5. ASSUME r > receiveSeq, r <= sendSeq
          PROVE  SentInv'
      <3>. DEFINE n == r - receiveSeq
                  q == SubSeq(sentQueue, n + 1, Len(sentQueue))
      <3>0. /\ sendSeq \in Nat /\ receiveSeq \in Nat \ {0} /\ Len(sentQueue) \in Nat
            /\ Len(sentQueue) = sendSeq - receiveSeq /\ Len(sentQueue) <= MaxPending /\ MaxPending \in Nat
        BY LinkFacts, WindowFits
      <3>1. sendSeq' = sendSeq /\ n \in 1 .. Len(sentQueue) /\ sentQueue' = q
        BY <1>11, <2>1, <2>5, <3>0, HandleLeaves
      <3>2. Len(q) = Len(sentQueue) - n /\ \A i \in 1 .. Len(q) : q[i] = sentQueue[n + i]
        <4>1. sentQueue \in Seq(Blocks)
          BY LinkFacts
        <4>. QED
          BY <3>1, <4>1
      <3>. HIDE DEF q
      <3>3. Len(q) = sendSeq - r /\ Len(q) <= MaxPending
        BY <2>1, <3>0, <3>1, <3>2
      <3>4. ASSUME NEW i \in 1 .. Len(q)
            PROVE  q[i].seq = r + i - 1
        <4>1. n + i \in 1 .. Len(sentQueue)
          BY <3>0, <3>1, <3>2
        <4>2. q[i].seq = receiveSeq + (n + i) - 1
          BY <1>24, <3>2, <4>1 DEF Numbered
        <4>. QED
          BY <3>0, <4>2
      <3>5. sentQueue' # <<>> <=> retransmitTimer' # "never"
        BY <2>4, <2>5, LinkFacts
      <3>6. Numbered(q, r)
        BY <3>4 DEF Numbered
      <3>. QED
        BY <1>24, <2>2, <3>1, <3>3, <3>5, <3>6 DEF SentInv, SentIsOutstanding
    <2>6. ASSUME r > receiveSeq, r > sendSeq
          PROVE  SentInv'
      <3>1. sendSeq' = r /\ sentQueue' = <<>>
        BY <1>11, <2>1, <2>6, HandleLeaves, LinkFacts
      <3>2. sentQueue' # <<>> <=> retransmitTimer' # "never"
        BY <2>4, <2>6, LinkFacts
      <3>. QED
        BY <1>24, <2>2, <3>1, <3>2, WindowFits DEF SentInv, SentIsOutstanding, Numbered
    <2>7. receiveSeq <= r
      BY <1>11, <2>1, NumberIsRebuilt DEF HandleMessage
    <2>. QED
      BY <2>3, <2>5, <2>6, <2>7, LinkFacts
  <1>12. CASE BackgroundEnds
    <2>1. outBuf = <<>> /\ bg' = "ended" /\ UNCHANGED <<seqVars, retransmitTimer, outBuf>>
      BY <1>12, AllWritten DEF BackgroundEnds, Polling, timerVars
    <2>. QED
      BY <1>24, <2>1 DEF SentInv, SentIsOutstanding, seqVars
  <1>13. CASE PullMessage
    BY <1>13, <1>24 DEF PullMessage, seqVars, timerVars, bgVars, SentInv, SentIsOutstanding
  <1>14. CASE PullNothing
    BY <1>14, <1>24 DEF PullNothing, seqVars, timerVars, bgVars, SentInv, SentIsOutstanding
  <1>15. CASE RequestExit \/ Closes
    BY <1>15, <1>24 DEF RequestExit, Closes, seqVars, timerVars, bgVars, SentInv, SentIsOutstanding
  <1>16. CASE McuTake
    BY <1>16, <1>24 DEF McuTake, queueVars, seqVars, timerVars, bgVars, SentInv, SentIsOutstanding
  <1>17. CASE McuAcknowledge
    BY <1>17, <1>24 DEF McuAcknowledge, queueVars, seqVars, timerVars, bgVars, SentInv, SentIsOutstanding
  <1>18. CASE McuNak
    BY <1>18, <1>24 DEF McuNak, queueVars, seqVars, timerVars, bgVars, SentInv, SentIsOutstanding
  <1>19. CASE McuReport
    BY <1>19, <1>24 DEF McuReport, queueVars, seqVars, timerVars, bgVars, SentInv, SentIsOutstanding
  <1>20. CASE LoseBlock
    BY <1>20, <1>24 DEF LoseBlock, queueVars, seqVars, timerVars, bgVars, SentInv, SentIsOutstanding
  <1>21. CASE LoseMessage
    BY <1>21, <1>24 DEF LoseMessage, queueVars, seqVars, timerVars, bgVars, SentInv, SentIsOutstanding
  <1>22. CASE Tick
    BY <1>22, <1>24 DEF Tick, queueVars, seqVars, timerVars, bgVars, SentInv, SentIsOutstanding
  <1>23. CASE UNCHANGED vars
    BY <1>23, <1>24 DEF vars, queueVars, seqVars, timerVars, bgVars, SentInv, SentIsOutstanding
  <1>. QED
    BY <1>1, <1>2, <1>3, <1>4, <1>5, <1>6, <1>7, <1>8, <1>9, <1>10, <1>11, <1>12, <1>13, <1>14, <1>15, <1>16, <1>17, <1>18, <1>19, <1>20, <1>21, <1>22, <1>23
       DEF LinkNext, Next, BackgroundStep, CommandStep, PullerStep, McuStep, Quiet
-----------------------------------------------------------------------------
(* The theorems.                                                           *)

LEMMA InitInv ==
    ASSUME Init
    PROVE  IInv
  <1>1. NumbersTypeOK
    BY LinkAssumption DEF Init, NumbersTypeOK
  <1>2. LinkTypeOK
    BY DEF Init, LinkTypeOK, NoBlock, Blocks
  <1>3. SenderTypeOK
    <2>1. /\ unsent = Program /\ upcoming = [q \in Queues |-> <<>>] /\ ready = [q \in Queues |-> <<>>]
          /\ sender = [q \in Queues |-> "idle"] /\ block = <<>> /\ pendingQueues = <<>>
          /\ needKickClock = Never /\ commandTimer = Never /\ retransmitTimer = "never" /\ bg = "poll"
      BY DEF Init
    <2>2. Never \in 0 .. Never
      BY LinkAssumption DEF Never
    <2>. QED
      BY <2>1, <2>2, CommandsAssumption DEF SenderTypeOK
  <1>4. PullerTypeOK
    <2>1. /\ notifyQueue = <<>> /\ receiveQueue = <<>> /\ pulled = <<>> /\ puller = "runs"
          /\ receiveWaiting = FALSE /\ mustExit = FALSE /\ kicked = FALSE
      BY DEF Init
    <2>. DEFINE Entries == [cmd : Commands, seq : Nat]
    <2>. HIDE DEF Entries
    <2>2. <<>> \in Seq(Entries) /\ <<>> \in Seq(Arrivals)
      OBVIOUS
    <2>. QED
      BY <2>1, <2>2 DEF PullerTypeOK, Entries
  <1>5. HistoryTypeOK
    BY DEF Init, HistoryTypeOK
  <1>6. WireInv /\ SentInv /\ AheadInv
    <2>1. /\ toMcu = <<>> /\ outBuf = <<>> /\ toHost = <<>> /\ sentQueue = <<>>
          /\ sendSeq = 1 /\ receiveSeq = 1 /\ mcuSeq \in 1 .. SeqNumbers
          /\ retransmitTimer = "never" /\ bg = "poll"
      BY LinkAssumption DEF Init
    <2>2. Wire = <<>>
      <3>1. <<>> \in Seq(Blocks) /\ toMcu \o outBuf = <<>> \o <<>>
        BY <2>1
      <3>. QED
        BY <3>1, ConcatEmptySeq DEF Wire
    <2>3. WireInv
      BY <2>1, <2>2 DEF WireInv, Recent, InOrder
    <2>4. AheadInv
      BY <2>1, WindowFits DEF AheadInv, AllSay
    <2>5. SentInv
      BY <2>1, WindowFits DEF SentInv, SentIsOutstanding, Numbered
    <2>. QED
      BY <2>3, <2>4, <2>5
  <1>. QED
    BY <1>1, <1>2, <1>3, <1>4, <1>5, <1>6 DEF IInv, TypeOK

\* IInv is inductive, whatever is lost, garbled or sent again.
LEMMA NextInv ==
    ASSUME IInv, [LinkNext]_vars
    PROVE  IInv'
  <1>1. TypeOK'
    BY NumbersTypeOKStep, LinkTypeOKStep, SenderTypeOKStep, PullerTypeOKStep, HistoryTypeOKStep DEF TypeOK
  <1>2. WireInv'
    BY RecentStep, InOrderStep DEF WireInv
  <1>. QED
    BY <1>1, <1>2, AheadInvStep, SentInvStep DEF IInv

THEOREM Invariance == Spec => []IInv
  <1>1. Init => IInv
    BY InitInv
  <1>2. IInv /\ [Next]_vars => IInv'
    BY NextInv DEF LinkNext
  <1>. QED
    BY <1>1, <1>2, PTL DEF Spec

\* Every variable of the link keeps its type.
THEOREM TypeCorrect == Spec => []TypeOK
  <1>1. IInv => TypeOK
    BY DEF IInv
  <1>. QED
    BY <1>1, Invariance, PTL

\* update_receive_seq takes off sent_queue only what the controller has executed,
\* and the controller executes only what was sent: four bits of a number are
\* enough, because the window is smaller than their range and the wire keeps
\* the order.
THEOREM AcknowledgedIsExecuted == Spec => []AckedWasExecuted
  <1>1. IInv => AckedWasExecuted
    BY LinkFacts DEF IInv, AheadInv, AckedWasExecuted
  <1>. QED
    BY <1>1, Invariance, PTL

\* sent_queue holds exactly the numbers that wait for an acknowledgement, never
\* more than MAX_PENDING_BLOCKS, and is never left without a retransmission.
THEOREM NothingForgotten == Spec => []SentIsOutstanding
  <1>1. IInv => SentIsOutstanding
    BY DEF IInv, SentInv
  <1>. QED
    BY <1>1, Invariance, PTL
-----------------------------------------------------------------------------
(* Every block once and in order.                                          *)

\* What queues hold.
LEMMA RangeConcat ==
    ASSUME NEW S, NEW s \in Seq(S), NEW t \in Seq(S)
    PROVE  s \o t \in Seq(S) /\ Range(s \o t) = Range(s) \cup Range(t)
  <1>. DEFINE u == s \o t
  <1>1. u \in Seq(S) /\ Len(u) = Len(s) + Len(t)
    BY ConcatProperties
  <1>2. \A i \in 1 .. Len(s) + Len(t) : u[i] = IF i <= Len(s) THEN s[i] ELSE t[i - Len(s)]
    BY ConcatProperties
  <1>3. Len(s) \in Nat /\ Len(t) \in Nat
    OBVIOUS
  <1>. HIDE DEF u
  <1>4. Range(u) = {u[i] : i \in 1 .. Len(u)}
    BY <1>1, QueueRange
  <1>5. Range(s) = {s[i] : i \in 1 .. Len(s)}
    BY QueueRange
  <1>6. Range(t) = {t[i] : i \in 1 .. Len(t)}
    BY QueueRange
  <1>7. ASSUME NEW i \in 1 .. Len(u)
        PROVE  u[i] \in Range(s) \cup Range(t)
    <2>1. CASE i <= Len(s)
      BY <1>1, <1>2, <1>3, <1>5, <2>1
    <2>2. CASE i > Len(s)
      <3>1. i - Len(s) \in 1 .. Len(t) /\ u[i] = t[i - Len(s)]
        BY <1>1, <1>2, <1>3, <2>2
      <3>. QED
        BY <1>6, <3>1
    <2>. QED
      BY <1>3, <2>1, <2>2
  <1>8. ASSUME NEW i \in 1 .. Len(s)
        PROVE  s[i] \in Range(u)
    BY <1>1, <1>2, <1>3, <1>4
  <1>9. ASSUME NEW i \in 1 .. Len(t)
        PROVE  t[i] \in Range(u)
    <2>1. Len(s) + i \in 1 .. Len(u) /\ u[Len(s) + i] = t[i]
      <3>1. /\ Len(s) + i \in 1 .. Len(s) + Len(t) /\ ~(Len(s) + i <= Len(s)) /\ Len(s) + i - Len(s) = i
        BY <1>3
      <3>. QED
        BY <1>1, <1>2, <3>1
    <2>. QED
      BY <1>4, <2>1
  <1>. QED
    BY <1>1, <1>4, <1>5, <1>6, <1>7, <1>8, <1>9 DEF u

LEMMA RangeAppend ==
    ASSUME NEW S, NEW s \in Seq(S), NEW e \in S
    PROVE  Append(s, e) \in Seq(S) /\ Range(Append(s, e)) = Range(s) \cup {e}
  <1>. DEFINE t == <<e>>
  <1>1. t \in Seq(S) /\ Range(t) = {e}
    BY QueueRange DEF Range
  <1>2. Append(s, e) = s \o t
    BY AppendIsConcat
  <1>. HIDE DEF t
  <1>. QED
    BY <1>1, <1>2, RangeConcat

LEMMA RangePart ==
    ASSUME NEW S, NEW s \in Seq(S), NEW m \in 1 .. Len(s) + 1, NEW n \in 0 .. Len(s)
    PROVE  SubSeq(s, m, n) \in Seq(S) /\ Range(SubSeq(s, m, n)) \subseteq Range(s)
  <1>. DEFINE t == SubSeq(s, m, n)
  <1>1. /\ t \in Seq(S) /\ Len(t) = (IF m <= n THEN n - m + 1 ELSE 0)
        /\ \A i \in 1 .. n - m + 1 : t[i] = s[m + i - 1]
    BY SubSeqProperties
  <1>2. Len(s) \in Nat
    OBVIOUS
  <1>. HIDE DEF t
  <1>3. ASSUME NEW i \in 1 .. Len(t)
        PROVE  t[i] \in Range(s)
    <2>1. m + i - 1 \in 1 .. Len(s) /\ t[i] = s[m + i - 1]
      BY <1>1, <1>2
    <2>. QED
      BY <2>1, QueueRange
  <1>4. Range(t) = {t[i] : i \in 1 .. Len(t)}
    BY <1>1, QueueRange
  <1>. QED
    BY <1>1, <1>3, <1>4 DEF t


LEMMA BuiltInvStep ==
    ASSUME IInv, BlocksInv, [LinkNext]_vars
    PROVE  BuiltInv'
  <1>24. /\ mcuSeq <= sendSeq /\ Len(built) = sendSeq - 1 /\ Numbered(built, 1)
         /\ built \in Seq(Blocks)
    BY DEF BlocksInv, BuiltInv, IInv, TypeOK, HistoryTypeOK
  <1>1. ASSUME NEW q \in Queues, SendBatch(q) PROVE BuiltInv'
    BY <1>1, <1>24 DEF SendBatch, seqVars, mcuVars, BuiltInv
  <1>2. ASSUME NEW q \in Queues, KickBgThread(q) PROVE BuiltInv'
    BY <1>2, <1>24 DEF KickBgThread, seqVars, mcuVars, BuiltInv
  <1>3. ASSUME NEW q \in Queues, MoveDue(q) PROVE BuiltInv'
    BY <1>3, <1>24 DEF MoveDue, seqVars, mcuVars, BuiltInv
  <1>4. CASE StartBlock
    BY <1>4, <1>24 DEF StartBlock, seqVars, mcuVars, BuiltInv
  <1>5. CASE WriteBlocks
    BY <1>5, <1>24 DEF WriteBlocks, seqVars, mcuVars, BuiltInv
  <1>6. ASSUME NEW i \in 1 .. Len(pendingQueues), AddCommand(i) PROVE BuiltInv'
    BY <1>6, <1>24 DEF AddCommand, seqVars, mcuVars, BuiltInv
  <1>7. CASE StoreBlock
    <2>. DEFINE out == [seq |-> sendSeq, cmds |-> block]
    <2>1. sendSeq' = sendSeq + 1 /\ built' = Append(built, out) /\ UNCHANGED mcuSeq
      BY <1>7 DEF StoreBlock, mcuVars, wireVars
    <2>2. out \in Blocks /\ out.seq = sendSeq
      BY DEF IInv, TypeOK, NumbersTypeOK, SenderTypeOK, Blocks
    <2>. HIDE DEF out
    <2>. DEFINE q == Append(built, out)
    <2>3. /\ Len(q) = Len(built) + 1 /\ q[Len(built) + 1] = out
          /\ \A i \in 1 .. Len(built) : q[i] = built[i]
      BY <1>24, <2>2, AppendProperties
    <2>. HIDE DEF q
    <2>4. Len(q) = sendSeq /\ sendSeq \in Nat /\ mcuSeq \in Nat
      BY <1>24, <2>3, LinkFacts
    <2>5. Numbered(q, 1)
      <3>1. ASSUME NEW i \in 1 .. Len(q)
            PROVE  q[i].seq = 1 + i - 1
        <4>1. CASE i \in 1 .. Len(built)
          BY <1>24, <2>3, <4>1 DEF Numbered
        <4>2. CASE i = Len(built) + 1
          BY <1>24, <2>2, <2>3, <2>4, <4>2
        <4>. QED
          BY <1>24, <2>3, <2>4, <4>1, <4>2
      <3>. QED
        BY <3>1 DEF Numbered
    <2>. QED
      BY <1>24, <2>1, <2>4, <2>5 DEF BuiltInv, q
  <1>8. CASE CommandEvent
    BY <1>8, <1>24 DEF CommandEvent, seqVars, mcuVars, BuiltInv
  <1>9. CASE KickEvent
    BY <1>9, <1>24 DEF KickEvent, seqVars, mcuVars, BuiltInv
  <1>10. CASE RetransmitEvent
    BY <1>10, <1>24 DEF RetransmitEvent, seqVars, mcuVars, BuiltInv
  <1>11. CASE HandleMessage
    <2>1. PICK r \in Nat \ {0} : r = Head(toHost).seq
      BY <1>11, NumberIsRebuilt DEF HandleMessage
    <2>2. r <= mcuSeq
      BY <1>11, <2>1, NumberIsRebuilt DEF HandleMessage
    <2>3. sendSeq' = sendSeq \/ (r > sendSeq /\ sendSeq' = r)
      BY <1>11, <2>1, HandleLeaves
    <2>4. UNCHANGED <<built, mcuSeq>>
      BY <1>11 DEF HandleMessage, mcuVars
    <2>5. sendSeq' = sendSeq
      BY <1>24, <2>2, <2>3, LinkFacts
    <2>. QED
      BY <1>24, <2>4, <2>5 DEF BuiltInv
  <1>12. CASE BackgroundEnds
    BY <1>12, <1>24 DEF BackgroundEnds, seqVars, mcuVars, BuiltInv
  <1>13. CASE PullMessage
    BY <1>13, <1>24 DEF PullMessage, seqVars, mcuVars, BuiltInv
  <1>14. CASE PullNothing
    BY <1>14, <1>24 DEF PullNothing, seqVars, mcuVars, BuiltInv
  <1>15. CASE RequestExit \/ Closes
    BY <1>15, <1>24 DEF RequestExit, Closes, seqVars, mcuVars, BuiltInv
  <1>16. CASE McuTake
    <2>1. mcuSeq' = mcuSeq + 1 /\ UNCHANGED <<sendSeq, built>>
      BY <1>16 DEF McuTake, queueVars, seqVars
    <2>2. mcuSeq < sendSeq
      BY <1>16, TakenIsExpected
    <2>. QED
      BY <1>24, <2>1, <2>2, LinkFacts DEF BuiltInv
  <1>17. CASE McuAcknowledge
    BY <1>17, <1>24 DEF McuAcknowledge, queueVars, seqVars, BuiltInv
  <1>18. CASE McuNak
    BY <1>18, <1>24 DEF McuNak, queueVars, seqVars, mcuVars, BuiltInv
  <1>19. CASE McuReport
    BY <1>19, <1>24 DEF McuReport, queueVars, seqVars, BuiltInv
  <1>20. CASE LoseBlock
    BY <1>20, <1>24 DEF LoseBlock, queueVars, seqVars, mcuVars, BuiltInv
  <1>21. CASE LoseMessage
    BY <1>21, <1>24 DEF LoseMessage, queueVars, seqVars, mcuVars, BuiltInv
  <1>22. CASE Tick
    BY <1>22, <1>24 DEF Tick, queueVars, seqVars, mcuVars, BuiltInv
  <1>23. CASE UNCHANGED vars
    BY <1>23, <1>24 DEF vars, queueVars, seqVars, mcuVars, BuiltInv
  <1>. QED
    BY <1>1, <1>2, <1>3, <1>4, <1>5, <1>6, <1>7, <1>8, <1>9, <1>10, <1>11, <1>12, <1>13, <1>14, <1>15, <1>16, <1>17, <1>18, <1>19, <1>20, <1>21, <1>22, <1>23
       DEF LinkNext, Next, BackgroundStep, CommandStep, PullerStep, McuStep, Quiet

LEMMA KnownInvStep ==
    ASSUME IInv, KnownInv, [LinkNext]_vars
    PROVE  KnownInv'
  <1>24. /\ Range(Wire) \subseteq Range(built) /\ Range(sentQueue) \subseteq Range(built)
         /\ built \in Seq(Blocks)
    BY DEF KnownInv, IInv, TypeOK, HistoryTypeOK
  <1>1. ASSUME NEW q \in Queues, SendBatch(q) PROVE KnownInv'
    BY <1>1, <1>24 DEF SendBatch, seqVars, bgVars, wireVars, KnownInv, Wire
  <1>2. ASSUME NEW q \in Queues, KickBgThread(q) PROVE KnownInv'
    BY <1>2, <1>24 DEF KickBgThread, seqVars, bgVars, wireVars, KnownInv, Wire
  <1>3. ASSUME NEW q \in Queues, MoveDue(q) PROVE KnownInv'
    BY <1>3, <1>24 DEF MoveDue, seqVars, bgVars, wireVars, KnownInv, Wire
  <1>4. CASE StartBlock
    BY <1>4, <1>24 DEF StartBlock, seqVars, wireVars, KnownInv, Wire
  <1>5. CASE WriteBlocks
    <2>1. toMcu' = Wire /\ outBuf' = <<>> /\ UNCHANGED <<sentQueue, built>>
      BY <1>5 DEF WriteBlocks, Wire, seqVars
    <2>2. Wire' = Wire
      BY <2>1, LinkFacts, ConcatEmptySeq DEF Wire
    <2>. QED
      BY <1>24, <2>1, <2>2 DEF KnownInv
  <1>6. ASSUME NEW i \in 1 .. Len(pendingQueues), AddCommand(i) PROVE KnownInv'
    BY <1>6, <1>24 DEF AddCommand, seqVars, wireVars, KnownInv, Wire
  <1>7. CASE StoreBlock
    <2>. DEFINE out == [seq |-> sendSeq, cmds |-> block]
    <2>1. /\ sentQueue' = Append(sentQueue, out) /\ outBuf' = Append(outBuf, out)
          /\ built' = Append(built, out) /\ UNCHANGED toMcu
      BY <1>7 DEF StoreBlock, mcuVars, wireVars
    <2>2. out \in Blocks /\ out.seq = sendSeq
      BY DEF IInv, TypeOK, NumbersTypeOK, SenderTypeOK, Blocks
    <2>. HIDE DEF out
    <2>3. Range(built') = Range(built) \cup {out} /\ Range(sentQueue') = Range(sentQueue) \cup {out}
      BY <1>24, <2>1, <2>2, LinkFacts, RangeAppend
    <2>4. outBuf' \in Seq(Blocks) /\ Range(outBuf') = Range(outBuf) \cup {out}
      BY <2>1, <2>2, LinkFacts, RangeAppend
    <2>5. Range(Wire) = Range(toMcu) \cup Range(outBuf)
      BY LinkFacts, RangeConcat DEF Wire
    <2>6. Range(Wire') = Range(toMcu) \cup Range(outBuf')
      <3>1. Wire' = toMcu \o outBuf'
        BY <2>1 DEF Wire
      <3>2. toMcu \in Seq(Blocks)
        BY LinkFacts
      <3>. QED
        BY <2>4, <3>1, <3>2, RangeConcat
    <2>. QED
      BY <1>24, <2>3, <2>4, <2>5, <2>6 DEF KnownInv
  <1>8. CASE CommandEvent
    BY <1>8, <1>24 DEF CommandEvent, seqVars, wireVars, KnownInv, Wire
  <1>9. CASE KickEvent
    BY <1>9, <1>24 DEF KickEvent, seqVars, bgVars, wireVars, KnownInv, Wire
  <1>10. CASE RetransmitEvent
    <2>1. PICK wire \in FlushOutput(toMcu) :
            /\ toMcu' = wire \o sentQueue /\ bg = "poll"
            /\ UNCHANGED <<outBuf, sentQueue, built>>
      BY <1>10 DEF RetransmitEvent, Polling, seqVars, bgVars
    <2>2. Wire = toMcu /\ outBuf = <<>>
      BY <2>1, AllWritten
    <2>3. wire \in Seq(Blocks) /\ Range(wire) \subseteq Range(toMcu)
      <3>1. \/ wire = toMcu
            \/ \E n \in 0 .. Len(toMcu) : wire = SubSeq(toMcu, 1, n)
        BY <2>1 DEF FlushOutput
      <3>2. ASSUME NEW n \in 0 .. Len(toMcu)
            PROVE  SubSeq(toMcu, 1, n) \in Seq(Blocks) /\ Range(SubSeq(toMcu, 1, n)) \subseteq Range(toMcu)
        <4>1. toMcu \in Seq(Blocks) /\ 1 \in 1 .. Len(toMcu) + 1
          BY LinkFacts
        <4>. QED
          BY <4>1, RangePart
      <3>. QED
        BY <3>1, <3>2, LinkFacts
    <2>4. wire \o sentQueue \in Seq(Blocks) /\ Range(wire \o sentQueue) = Range(wire) \cup Range(sentQueue)
      BY <2>3, LinkFacts, RangeConcat
    <2>5. Wire' = wire \o sentQueue
      BY <2>1, <2>2, <2>4, ConcatEmptySeq DEF Wire
    <2>. QED
      BY <1>24, <2>1, <2>2, <2>3, <2>4, <2>5 DEF KnownInv
  <1>11. CASE HandleMessage
    <2>1. PICK r \in Nat \ {0} : r = Head(toHost).seq
      BY <1>11, NumberIsRebuilt DEF HandleMessage
    <2>2. UNCHANGED <<toMcu, outBuf, built>>
      BY <1>11 DEF HandleMessage, bgVars
    <2>3. Range(sentQueue') \subseteq Range(sentQueue)
      <3>1. \/ sentQueue' = sentQueue \/ sentQueue' = <<>>
            \/ /\ r - receiveSeq \in 1 .. Len(sentQueue)
               /\ sentQueue' = SubSeq(sentQueue, r - receiveSeq + 1, Len(sentQueue))
        BY <1>11, <2>1, HandleLeaves
      <3>2. ASSUME NEW n \in 1 .. Len(sentQueue)
            PROVE  Range(SubSeq(sentQueue, n + 1, Len(sentQueue))) \subseteq Range(sentQueue)
        <4>1. /\ sentQueue \in Seq(Blocks) /\ n + 1 \in 1 .. Len(sentQueue) + 1
              /\ Len(sentQueue) \in 0 .. Len(sentQueue)
          BY LinkFacts
        <4>. QED
          BY <4>1, RangePart
      <3>3. Range(<<>>) = {}
        BY DEF Range
      <3>. QED
        BY <3>1, <3>2, <3>3
    <2>. QED
      BY <1>24, <2>2, <2>3 DEF KnownInv, Wire
  <1>12. CASE BackgroundEnds
    BY <1>12, <1>24 DEF BackgroundEnds, seqVars, wireVars, KnownInv, Wire
  <1>13. CASE PullMessage
    BY <1>13, <1>24 DEF PullMessage, seqVars, bgVars, wireVars, KnownInv, Wire
  <1>14. CASE PullNothing
    BY <1>14, <1>24 DEF PullNothing, seqVars, bgVars, wireVars, KnownInv, Wire
  <1>15. CASE RequestExit \/ Closes
    BY <1>15, <1>24 DEF RequestExit, Closes, seqVars, bgVars, wireVars, KnownInv, Wire
  <1>16. CASE McuTake
    <2>1. /\ toMcu # <<>> /\ toMcu' = Tail(toMcu) /\ bg \in {"poll", "ended"}
          /\ UNCHANGED <<outBuf, sentQueue, built>>
      BY <1>16 DEF McuTake, Unlocked, queueVars, seqVars, bgVars
    <2>2. Wire = toMcu /\ outBuf = <<>>
      BY <2>1, AllWritten
    <2>3. Tail(toMcu) \in Seq(Blocks) /\ Range(Tail(toMcu)) \subseteq Range(toMcu)
      BY <2>1, LinkFacts, TailRange
    <2>4. Wire' = Tail(toMcu)
      BY <2>1, <2>2, <2>3, ConcatEmptySeq DEF Wire
    <2>. QED
      BY <1>24, <2>1, <2>2, <2>3, <2>4 DEF KnownInv
  <1>17. CASE McuAcknowledge
    BY <1>17, <1>24 DEF McuAcknowledge, queueVars, seqVars, bgVars, KnownInv, Wire
  <1>18. CASE McuNak
    <2>1. /\ toMcu # <<>> /\ toMcu' = Tail(toMcu) /\ bg \in {"poll", "ended"}
          /\ UNCHANGED <<outBuf, sentQueue, built>>
      BY <1>18 DEF McuNak, Unlocked, queueVars, seqVars, bgVars
    <2>2. Wire = toMcu /\ outBuf = <<>>
      BY <2>1, AllWritten
    <2>3. Tail(toMcu) \in Seq(Blocks) /\ Range(Tail(toMcu)) \subseteq Range(toMcu)
      BY <2>1, LinkFacts, TailRange
    <2>4. Wire' = Tail(toMcu)
      BY <2>1, <2>2, <2>3, ConcatEmptySeq DEF Wire
    <2>. QED
      BY <1>24, <2>1, <2>2, <2>3, <2>4 DEF KnownInv
  <1>19. CASE McuReport
    BY <1>19, <1>24 DEF McuReport, queueVars, seqVars, bgVars, KnownInv, Wire
  <1>20. CASE LoseBlock
    <2>1. /\ toMcu # <<>> /\ toMcu' = Tail(toMcu) /\ bg \in {"poll", "ended"}
          /\ UNCHANGED <<outBuf, sentQueue, built>>
      BY <1>20 DEF LoseBlock, Unlocked, queueVars, seqVars, bgVars
    <2>2. Wire = toMcu /\ outBuf = <<>>
      BY <2>1, AllWritten
    <2>3. Tail(toMcu) \in Seq(Blocks) /\ Range(Tail(toMcu)) \subseteq Range(toMcu)
      BY <2>1, LinkFacts, TailRange
    <2>4. Wire' = Tail(toMcu)
      BY <2>1, <2>2, <2>3, ConcatEmptySeq DEF Wire
    <2>. QED
      BY <1>24, <2>1, <2>2, <2>3, <2>4 DEF KnownInv
  <1>21. CASE LoseMessage
    BY <1>21, <1>24 DEF LoseMessage, queueVars, seqVars, bgVars, KnownInv, Wire
  <1>22. CASE Tick
    BY <1>22, <1>24 DEF Tick, queueVars, seqVars, bgVars, wireVars, KnownInv, Wire
  <1>23. CASE UNCHANGED vars
    BY <1>23, <1>24 DEF vars, queueVars, seqVars, bgVars, wireVars, KnownInv, Wire
  <1>. QED
    BY <1>1, <1>2, <1>3, <1>4, <1>5, <1>6, <1>7, <1>8, <1>9, <1>10, <1>11, <1>12, <1>13, <1>14, <1>15, <1>16, <1>17, <1>18, <1>19, <1>20, <1>21, <1>22, <1>23
       DEF LinkNext, Next, BackgroundStep, CommandStep, PullerStep, McuStep, Quiet

LEMMA ExecutedInvStep ==
    ASSUME IInv, BlocksInv, [LinkNext]_vars
    PROVE  ExecutedInv'
  <1>24. /\ Len(executed) = mcuSeq - 1 /\ Follows(executed, built)
         /\ mcuSeq <= sendSeq /\ Len(built) = sendSeq - 1 /\ Numbered(built, 1)
         /\ executed \in Seq(Blocks) /\ built \in Seq(Blocks)
    BY DEF BlocksInv, BuiltInv, ExecutedInv, IInv, TypeOK, HistoryTypeOK
  <1>1. ASSUME NEW q \in Queues, SendBatch(q) PROVE ExecutedInv'
    BY <1>1, <1>24 DEF SendBatch, mcuVars, ExecutedInv
  <1>2. ASSUME NEW q \in Queues, KickBgThread(q) PROVE ExecutedInv'
    BY <1>2, <1>24 DEF KickBgThread, mcuVars, ExecutedInv
  <1>3. ASSUME NEW q \in Queues, MoveDue(q) PROVE ExecutedInv'
    BY <1>3, <1>24 DEF MoveDue, mcuVars, ExecutedInv
  <1>4. CASE StartBlock
    BY <1>4, <1>24 DEF StartBlock, mcuVars, ExecutedInv
  <1>5. CASE WriteBlocks
    BY <1>5, <1>24 DEF WriteBlocks, mcuVars, ExecutedInv
  <1>6. ASSUME NEW i \in 1 .. Len(pendingQueues), AddCommand(i) PROVE ExecutedInv'
    BY <1>6, <1>24 DEF AddCommand, mcuVars, ExecutedInv
  <1>7. CASE StoreBlock
    <2>. DEFINE out == [seq |-> sendSeq, cmds |-> block]
    <2>1. built' = Append(built, out) /\ UNCHANGED <<executed, mcuSeq>>
      BY <1>7 DEF StoreBlock, mcuVars, wireVars
    <2>2. out \in Blocks /\ out.seq = sendSeq
      BY DEF IInv, TypeOK, NumbersTypeOK, SenderTypeOK, Blocks
    <2>. HIDE DEF out
    <2>3. \A i \in 1 .. Len(built) : Append(built, out)[i] = built[i]
      BY <1>24, <2>2, AppendProperties
    <2>4. \A i \in 1 .. Len(executed) : i \in 1 .. Len(built)
      BY <1>24, LinkFacts
    <2>5. Follows(executed, Append(built, out))
      BY <1>24, <2>3, <2>4 DEF Follows
    <2>. QED
      BY <1>24, <2>1, <2>5 DEF ExecutedInv
  <1>8. CASE CommandEvent
    BY <1>8, <1>24 DEF CommandEvent, mcuVars, ExecutedInv
  <1>9. CASE KickEvent
    BY <1>9, <1>24 DEF KickEvent, mcuVars, ExecutedInv
  <1>10. CASE RetransmitEvent
    BY <1>10, <1>24 DEF RetransmitEvent, mcuVars, ExecutedInv
  <1>11. CASE HandleMessage
    <2>1. UNCHANGED <<executed, built, mcuSeq>>
      BY <1>11 DEF HandleMessage, mcuVars
    <2>. QED
      BY <1>24, <2>1 DEF ExecutedInv
  <1>12. CASE BackgroundEnds
    BY <1>12, <1>24 DEF BackgroundEnds, mcuVars, ExecutedInv
  <1>13. CASE PullMessage
    BY <1>13, <1>24 DEF PullMessage, mcuVars, ExecutedInv
  <1>14. CASE PullNothing
    BY <1>14, <1>24 DEF PullNothing, mcuVars, ExecutedInv
  <1>15. CASE RequestExit \/ Closes
    BY <1>15, <1>24 DEF RequestExit, Closes, mcuVars, ExecutedInv
  <1>16. CASE McuTake
    <2>. DEFINE b == Head(toMcu)
                q == Append(executed, b)
    <2>1. executed' = q /\ mcuSeq' = mcuSeq + 1 /\ UNCHANGED built
      BY <1>16 DEF McuTake, queueVars
    <2>2. b \in Blocks /\ b.seq = mcuSeq /\ toMcu # <<>> /\ Wire = toMcu
      BY <1>16, TakenIsExpected
    <2>3. b \in Range(built)
      <3>1. b \in Range(toMcu)
        BY <2>2, LinkFacts, TailRange
      <3>. QED
        BY <2>2, <3>1 DEF BlocksInv, KnownInv
    <2>. HIDE DEF b
    <2>4. PICK i \in 1 .. Len(built) : b = built[i]
      BY <1>24, <2>3, QueueRange
    <2>5. i = mcuSeq
      BY <1>24, <2>2, <2>4, LinkFacts DEF Numbered
    <2>6. /\ Len(q) = Len(executed) + 1 /\ q[Len(executed) + 1] = b
          /\ \A j \in 1 .. Len(executed) : q[j] = executed[j]
      BY <1>24, <2>2, AppendProperties
    <2>. HIDE DEF q
    <2>7. Len(q) = mcuSeq
      <3>1. mcuSeq \in Nat /\ Len(executed) = mcuSeq - 1 /\ Len(q) = Len(executed) + 1
        BY <1>24, <2>6, LinkFacts
      <3>. QED
        BY <3>1
    <2>8. Follows(q, built)
      <3>1. ASSUME NEW j \in 1 .. Len(q)
            PROVE  q[j] = built[j]
        <4>1. CASE j \in 1 .. Len(executed)
          BY <1>24, <2>6, <4>1 DEF Follows
        <4>2. CASE j = Len(executed) + 1
          BY <1>24, <2>4, <2>5, <2>6, <2>7, <4>2
        <4>. QED
          BY <1>24, <2>6, <4>1, <4>2
      <3>. QED
        BY <3>1 DEF Follows
    <2>. QED
      BY <2>1, <2>7, <2>8, LinkFacts DEF ExecutedInv
  <1>17. CASE McuAcknowledge
    BY <1>17, <1>24 DEF McuAcknowledge, queueVars, ExecutedInv
  <1>18. CASE McuNak
    BY <1>18, <1>24 DEF McuNak, queueVars, mcuVars, ExecutedInv
  <1>19. CASE McuReport
    BY <1>19, <1>24 DEF McuReport, queueVars, ExecutedInv
  <1>20. CASE LoseBlock
    BY <1>20, <1>24 DEF LoseBlock, queueVars, mcuVars, ExecutedInv
  <1>21. CASE LoseMessage
    BY <1>21, <1>24 DEF LoseMessage, queueVars, mcuVars, ExecutedInv
  <1>22. CASE Tick
    BY <1>22, <1>24 DEF Tick, queueVars, mcuVars, ExecutedInv
  <1>23. CASE UNCHANGED vars
    BY <1>23, <1>24 DEF vars, queueVars, mcuVars, ExecutedInv
  <1>. QED
    BY <1>1, <1>2, <1>3, <1>4, <1>5, <1>6, <1>7, <1>8, <1>9, <1>10, <1>11, <1>12, <1>13, <1>14, <1>15, <1>16, <1>17, <1>18, <1>19, <1>20, <1>21, <1>22, <1>23
       DEF LinkNext, Next, BackgroundStep, CommandStep, PullerStep, McuStep, Quiet

LEMMA InitBlocks ==
    ASSUME McuStart = {1}, Init
    PROVE  BlocksInv
  <1>1. /\ toMcu = <<>> /\ outBuf = <<>> /\ sentQueue = <<>> /\ built = <<>> /\ executed = <<>>
        /\ sendSeq = 1 /\ mcuSeq = 1
    BY McuStart = {1} DEF Init
  <1>2. Range(Wire) = {} /\ Range(sentQueue) = {}
    <2>1. <<>> \in Seq(Blocks) /\ Wire = <<>> \o <<>>
      BY <1>1 DEF Wire
    <2>2. Range(<<>>) = {}
      BY DEF Range
    <2>. QED
      BY <1>1, <2>1, <2>2, ConcatEmptySeq
  <1>. QED
    BY <1>1, <1>2 DEF BlocksInv, BuiltInv, KnownInv, ExecutedInv, Numbered, Follows

LEMMA NextBlocks ==
    ASSUME IInv, BlocksInv, [LinkNext]_vars
    PROVE  BlocksInv'
  BY BuiltInvStep, KnownInvStep, ExecutedInvStep DEF BlocksInv

\* When the controller expects block 1 at first, as it does after a reset, the
\* blocks it executes are those that command_event built, each once and in
\* order, whatever is lost, garbled, thrown away or sent again.
THEOREM BlocksExecutedOnce ==
    ASSUME McuStart = {1}
    PROVE  Spec => []ExactlyOnce
  <1>1. Init => IInv /\ BlocksInv
    BY InitInv, InitBlocks
  <1>2. IInv /\ BlocksInv /\ [Next]_vars => (IInv /\ BlocksInv)'
    BY NextInv, NextBlocks DEF LinkNext
  <1>3. IInv /\ BlocksInv => ExactlyOnce
    <2>1. SUFFICES ASSUME IInv, BlocksInv
                   PROVE  IsPrefix(executed, built)
      BY DEF ExactlyOnce
    <2>2. executed \in Seq(Blocks) /\ built \in Seq(Blocks)
      BY <2>1 DEF IInv, TypeOK, HistoryTypeOK
    <2>3. /\ Len(executed) \in Nat /\ Len(built) \in Nat /\ Len(executed) <= Len(built)
          /\ \A i \in 1 .. Len(executed) : executed[i] = built[i]
      BY <2>1, <2>2, LinkFacts DEF BlocksInv, BuiltInv, ExecutedInv, Follows
    <2>. DEFINE n == Len(executed)
                s == SubSeq(executed, 1, n)
                t == SubSeq(built, 1, n)
    <2>4. /\ s \in Seq(Blocks) /\ Len(s) = n /\ \A i \in 1 .. n : s[i] = executed[i]
          /\ t \in Seq(Blocks) /\ Len(t) = n /\ \A i \in 1 .. n : t[i] = built[i]
      BY <2>2, <2>3
    <2>. HIDE DEF s, t
    <2>5. s = t
      BY <2>3, <2>4, SeqEqual
    <2>. QED
      BY <2>3, <2>5 DEF IsPrefix, s, t
  <1>. QED
    BY <1>1, <1>2, <1>3, PTL DEF Spec
-----------------------------------------------------------------------------
(* The controller's buffer: how much of it is in use.                      *)

\* The length of the blocks of q, and more.
Bytes(more, q) == FoldLeft(LAMBDA n, b : n + Len(b.cmds), more, q)

\* What need_ack_bytes adds for a block that only an answer has acknowledged.
Answered == IF lastAckSeq < receiveSeq THEN lastAckBytes ELSE 0

\* Blocks have at most the length of one, and what the host counts as in the
\* controller's buffer fits into the window, the block it builds included.
Small(q) == \A i \in 1 .. Len(q) : Len(q[i].cmds) <= BlockMax
WindowInv ==
    /\ Small(sentQueue) /\ Len(block) <= BlockMax /\ lastAckBytes <= BlockMax
    /\ Window # 0 =>
          Bytes(Answered, sentQueue) + (IF bg = "build" THEN BlockMax ELSE 0) <= Window

\* The blocks under way in q come in the order of their numbers.
Ascending(q, low) ==
    \A i \in 1 .. Len(q) :
        low <= q[i].seq /\ \A j \in 1 .. i - 1 : q[j].seq < q[i].seq

\* As long as nothing was sent twice, no block under way has been executed and
\* none is there twice.
OnceInv == resent = {} => Ascending(Wire, mcuSeq)

\* No acknowledgement in q has the number n or a higher one.
NotSaid(q, n) == \A i \in 1 .. Len(q) : ~q[i].data => q[i].seq < n

\* The block that the controller is handling is the one it took last, and no
\* acknowledgement says so yet; when an answer did, it is the last one that the
\* host has taken off sent_queue.
HandlingInv ==
    /\ lastAckSeq <= mcuSeq
    /\ mcuBlock # NoBlock =>
        /\ mcuBlock.seq = mcuSeq - 1 /\ mcuBlock \in Range(built)
        /\ lastAckSeq < mcuSeq /\ NotSaid(toHost, mcuSeq)
        /\ receiveSeq = mcuSeq => lastAckBytes = Len(mcuBlock.cmds)

BufferInv == WindowInv /\ OnceInv /\ HandlingInv

\* f is the function by which a fold over the places 1 .. n of q sums up the
\* length of its blocks.
Folds(f, more, q, n) ==
    f = [s \in SUBSET (1 .. n) |->
            IF s = {} THEN more ELSE f[s \ {Max(s)}] + Len(q[Max(s)].cmds)]

\* The number up to which a set goes is its largest element.
LEMMA LargestIs ==
    ASSUME NEW n \in Nat \ {0}, NEW s \in SUBSET (1 .. n), n \in s
    PROVE  Max(s) = n
  <1>1. \A y \in s : n >= y
    OBVIOUS
  <1>2. \A x \in s : (\A y \in s : x >= y) => x = n
    OBVIOUS
  <1>. QED
    BY <1>1, <1>2 DEF Max

\* Where two sums have agreed, they still do at the next place.
Agree(f, g, n) == \A i \in 1 .. n : f[i - 1] = g[i - 1] => f[i] = g[i]

\* What agrees at first, and after a place if before it, agrees at the end.
LEMMA SumEnds ==
    ASSUME NEW n \in Nat, NEW f, NEW g,
           f[0] = g[0], Agree(f, g, n)
    PROVE  \A i \in 0 .. n : f[i] = g[i]
  <1>. DEFINE T == {i \in 0 .. n : f[i] # g[i]}
  <1>1. SUFFICES ASSUME T # {} PROVE FALSE
    OBVIOUS
  <1>2. T \in SUBSET Nat
    OBVIOUS
  <1>3. \A i : i \in T <=> i \in 0 .. n /\ f[i] # g[i]
    OBVIOUS
  <1>. HIDE DEF T
  <1>4. PICK t \in T : \A u \in T : t <= u
    BY <1>1, <1>2, LeastNatural
  <1>5. t \in 1 .. n /\ t - 1 \in 0 .. n /\ ~(t <= t - 1)
    BY <1>3
  <1>6. f[t - 1] = g[t - 1]
    BY <1>3, <1>4, <1>5
  <1>. QED
    BY <1>3, <1>5, <1>6 DEF Agree

LEMMA FoldExtends ==
    ASSUME NEW more, NEW q, NEW n \in Nat \ {0}, NEW f, Folds(f, more, q, n - 1)
    PROVE  \E g : Folds(g, more, q, n)
  <1>. DEFINE D == 1 .. n - 1
              g == [s \in SUBSET (1 .. n) |->
                       IF n \in s THEN f[s \ {n}] + Len(q[n].cmds) ELSE f[s]]
              h == [s \in SUBSET (1 .. n) |->
                       IF s = {} THEN more ELSE g[s \ {Max(s)}] + Len(q[Max(s)].cmds)]
  <1>1. \A s \in SUBSET D :
           f[s] = IF s = {} THEN more ELSE f[s \ {Max(s)}] + Len(q[Max(s)].cmds)
    BY DEF Folds
  <1>2. ASSUME NEW s \in SUBSET (1 .. n)
        PROVE  g[s] = h[s]
    <2>1. CASE n \in s
      <3>1. Max(s) = n
        BY <2>1, LargestIs
      <3>2. s \ {n} \in SUBSET (1 .. n) /\ n \notin s \ {n} /\ s # {}
        BY <2>1
      <3>. QED
        BY <2>1, <3>1, <3>2
    <2>2. CASE n \notin s /\ s # {}
      <3>1. s \in SUBSET D
        BY <2>2
      <3>2. s \ {Max(s)} \in SUBSET (1 .. n) /\ n \notin s \ {Max(s)}
        BY <2>2
      <3>. QED
        BY <1>1, <2>2, <3>1, <3>2
    <2>3. CASE s = {}
      BY <1>1, <2>3
    <2>. QED
      BY <2>1, <2>2, <2>3
  <1>3. g = h
    BY <1>2
  <1>. QED
    BY <1>3 DEF Folds

LEMMA FoldExists ==
    ASSUME NEW more, NEW q, NEW n \in Nat
    PROVE  \E f : Folds(f, more, q, n)
  <1>. DEFINE T == {k \in 0 .. n : ~\E f : Folds(f, more, q, k)}
  <1>1. SUFFICES ASSUME T # {} PROVE FALSE
    <2>1. n \in 0 .. n
      OBVIOUS
    <2>. QED
      BY <2>1
  <1>2. T \in SUBSET Nat
    OBVIOUS
  <1>3. \A k : k \in T <=> k \in 0 .. n /\ ~\E f : Folds(f, more, q, k)
    OBVIOUS
  <1>. HIDE DEF T
  <1>4. PICK t \in T : \A u \in T : t <= u
    BY <1>1, <1>2, LeastNatural
  <1>5. t # 0
    <2>. DEFINE f == [s \in SUBSET (1 .. 0) |-> more]
    <2>1. SUBSET (1 .. 0) = {{}}
      OBVIOUS
    <2>2. Folds(f, more, q, 0)
      BY <2>1 DEF Folds
    <2>. QED
      BY <1>3, <2>2
  <1>6. t \in Nat \ {0} /\ t - 1 \in 0 .. n /\ ~(t <= t - 1)
    BY <1>3, <1>5
  <1>7. PICK f : Folds(f, more, q, t - 1)
    BY <1>3, <1>4, <1>6
  <1>. QED
    BY <1>3, <1>6, <1>7, FoldExtends

\* f sums up the numbers w, place after place.
Sums(f, w, n) == \A i \in 1 .. n : w[i] \in Nat /\ f[i] = f[i - 1] + w[i]

Lengths(q) == [i \in 1 .. Len(q) |-> Len(q[i].cmds)]

LEMMA LengthsAre ==
    ASSUME NEW q \in Seq(Blocks)
    PROVE  /\ Len(q) \in Nat /\ DOMAIN q = 1 .. Len(q)
           /\ \A i \in 1 .. Len(q) : Lengths(q)[i] \in Nat /\ Lengths(q)[i] = Len(q[i].cmds)
  <1>1. ASSUME NEW i \in 1 .. Len(q)
        PROVE  Len(q[i].cmds) \in Nat
    <2>1. q[i] \in Blocks
      BY ElementOfSeq
    <2>2. q[i].cmds \in Seq(Commands)
      BY <2>1 DEF Blocks
    <2>. QED
      BY <2>2, LenProperties
  <1>. QED
    BY <1>1 DEF Lengths

\* The length of the blocks is summed up place after place.
LEMMA BytesSum ==
    ASSUME NEW more \in Nat, NEW q \in Seq(Blocks)
    PROVE  \E f : f[0] = more /\ f[Len(q)] = Bytes(more, q) /\ Sums(f, Lengths(q), Len(q))
  <1>. DEFINE n == Len(q)
  <1>0. n \in Nat /\ DOMAIN q = 1 .. n
    OBVIOUS
  <1>. DEFINE iter == CHOOSE g : Folds(g, more, q, n)
  <1>1. Bytes(more, q) = iter[1 .. n]
    BY <1>0 DEF Bytes, FoldLeft, MapThenFoldSet, Folds
  <1>2. Folds(iter, more, q, n)
    BY <1>0, FoldExists
  <1>. HIDE DEF iter, n
  <1>. DEFINE f == [i \in 0 .. n |-> iter[1 .. i]]
  <1>3. f[0] = more
    <2>1. 1 .. 0 = {} /\ 1 .. 0 \in SUBSET (1 .. n)
      OBVIOUS
    <2>. QED
      BY <1>0, <1>2, <2>1 DEF Folds
  <1>4. ASSUME NEW i \in 1 .. n
        PROVE  f[i] = f[i - 1] + Len(q[i].cmds)
    <2>. DEFINE s == 1 .. i
    <2>1. i \in Nat \ {0} /\ s \in SUBSET (1 .. i) /\ i \in s
      BY <1>0
    <2>2. Max(s) = i
      BY <2>1, LargestIs
    <2>3. s \ {i} = 1 .. i - 1 /\ s # {} /\ s \in SUBSET (1 .. n)
      <3>1. \A x : x \in s \ {i} <=> x \in 1 .. i - 1
        BY <1>0
      <3>2. s \ {i} = 1 .. i - 1
        BY <3>1
      <3>3. s # {}
        BY <2>1
      <3>4. \A x \in s : x \in 1 .. n
        BY <1>0
      <3>. QED
        BY <3>2, <3>3, <3>4
    <2>4. iter[s] = iter[s \ {Max(s)}] + Len(q[Max(s)].cmds)
      BY <1>2, <2>3 DEF Folds
    <2>5. iter[s] = iter[1 .. i - 1] + Len(q[i].cmds)
      BY <2>2, <2>3, <2>4
    <2>6. i \in 0 .. n /\ i - 1 \in 0 .. n
      BY <1>0
    <2>7. f[i] = iter[s] /\ f[i - 1] = iter[1 .. i - 1]
      BY <2>6
    <2>. QED
      BY <2>5, <2>7
  <1>5. f[n] = Bytes(more, q)
    BY <1>0, <1>1
  <1>. HIDE DEF f
  <1>6. Sums(f, Lengths(q), n)
    BY <1>4, LengthsAre DEF Sums, n
  <1>. QED
    BY <1>3, <1>5, <1>6 DEF n

\* Sums of natural numbers are natural numbers and never go down.
LEMMA SumGrows ==
    ASSUME NEW n \in Nat, NEW f, NEW w,
           f[0] \in Nat, Sums(f, w, n)
    PROVE  \A j \in 0 .. n : f[j] \in Nat /\ \A i \in 0 .. j : f[i] <= f[j]
  <1>. DEFINE P(j) == f[j] \in Nat /\ \A i \in 0 .. j : f[i] <= f[j]
              T == {j \in 0 .. n : ~P(j)}
  <1>1. SUFFICES ASSUME T # {} PROVE FALSE
    OBVIOUS
  <1>2. T \in SUBSET Nat
    OBVIOUS
  <1>3. \A j : j \in T <=> j \in 0 .. n /\ ~P(j)
    OBVIOUS
  <1>. HIDE DEF T
  <1>4. PICK t \in T : \A u \in T : t <= u
    BY <1>1, <1>2, LeastNatural
  <1>5. t # 0
    <2>1. P(0)
      OBVIOUS
    <2>. QED
      BY <1>3, <2>1
  <1>6. t \in 1 .. n /\ t - 1 \in 0 .. n /\ ~(t <= t - 1)
    BY <1>3, <1>5
  <1>7. P(t - 1)
    BY <1>3, <1>4, <1>6
  <1>8. PICK x \in Nat, y \in Nat : x = f[t - 1] /\ y = w[t] /\ f[t] = x + y
    BY <1>6, <1>7 DEF Sums
  <1>9. ASSUME NEW i \in 0 .. t
        PROVE  f[i] <= f[t]
    <2>1. CASE i = t
      BY <1>8, <2>1
    <2>2. CASE i # t
      <3>1. i \in 0 .. t - 1
        BY <1>6, <2>2
      <3>2. PICK z \in Nat : z = f[i]
        <4>1. ~(t <= i) /\ i \in 0 .. n
          BY <1>6, <3>1
        <4>. QED
          BY <1>3, <1>4, <4>1
      <3>. QED
        BY <1>7, <1>8, <3>1, <3>2
    <2>. QED
      BY <2>1, <2>2
  <1>10. P(t)
    BY <1>8, <1>9
  <1>. QED
    BY <1>3, <1>10

\* The numbers v are not larger than the numbers w at the places that e says,
\* which are in order and after place k.
Found(e, v, m, w, k, n) ==
    \A i \in 1 .. m : /\ e[i] \in k + 1 .. n /\ v[i] <= w[e[i]]
                      /\ \A j \in 1 .. i - 1 : e[j] < e[i]

\* When the places of one sum are found, in order, among the places of another
\* one after its k-th, it is not larger.
LEMMA SumWithin ==
    ASSUME NEW m \in Nat, NEW n \in Nat, NEW f, NEW g, NEW v, NEW w, NEW e, NEW k \in 0 .. n,
           f[0] \in Nat, g[0] \in Nat, f[0] <= g[k],
           Sums(f, v, m), Sums(g, w, n), Found(e, v, m, w, k, n)
    PROVE  f[m] \in Nat /\ g[n] \in Nat /\ f[m] <= g[n]
  <1>1. \A j \in 0 .. n : g[j] \in Nat /\ \A i \in 0 .. j : g[i] <= g[j]
    BY SumGrows
  <1>2. \A j \in 0 .. m : f[j] \in Nat /\ \A i \in 0 .. j : f[i] <= f[j]
    BY SumGrows
  <1>. DEFINE at(i) == IF i = 0 THEN k ELSE e[i]
              T == {i \in 0 .. m : ~(f[i] <= g[at(i)])}
  <1>3. T = {}
    <2>1. SUFFICES ASSUME T # {} PROVE FALSE
      OBVIOUS
    <2>2. T \in SUBSET Nat
      OBVIOUS
    <2>3. \A i : i \in T <=> i \in 0 .. m /\ ~(f[i] <= g[at(i)])
      OBVIOUS
    <2>. HIDE DEF T
    <2>4. PICK t \in T : \A u \in T : t <= u
      BY <2>1, <2>2, LeastNatural
    <2>5. t # 0
      BY <2>3
    <2>6. t \in 1 .. m /\ t - 1 \in 0 .. m /\ ~(t <= t - 1)
      BY <2>3, <2>5
    <2>7. f[t - 1] <= g[at(t - 1)]
      BY <2>3, <2>4, <2>6
    <2>8. PICK c \in k + 1 .. n : c = e[t] /\ v[t] <= w[c]
      BY <2>6 DEF Found
    <2>9. at(t - 1) \in 0 .. c - 1
      <3>1. CASE t - 1 = 0
        BY <2>8, <3>1
      <3>2. CASE t - 1 # 0
        <4>1. t - 1 \in 1 .. m /\ t - 1 \in 1 .. t - 1
          BY <2>6, <3>2
        <4>2. e[t - 1] \in k + 1 .. n /\ e[t - 1] < e[t]
          BY <2>6, <4>1 DEF Found
        <4>. QED
          BY <2>8, <3>2, <4>2
      <3>. QED
        BY <3>1, <3>2
    <2>10. c \in 1 .. n /\ c - 1 \in 0 .. n
      OBVIOUS
    <2>11. PICK x \in Nat, y \in Nat : x = g[at(t - 1)] /\ y = g[c - 1] /\ x <= y
      <3>. HIDE DEF at
      <3>1. at(t - 1) \in 0 .. n
        BY <2>9, <2>10
      <3>2. g[at(t - 1)] <= g[c - 1] /\ g[c - 1] \in Nat
        BY <1>1, <2>9, <2>10
      <3>. QED
        BY <1>1, <3>1, <3>2
    <2>12. PICK a \in Nat, b \in Nat : a = f[t - 1] /\ b = v[t] /\ f[t] = a + b
      BY <1>2, <2>6 DEF Sums
    <2>13. PICK d \in Nat : d = w[c] /\ g[c] = y + d
      BY <2>10, <2>11 DEF Sums
    <2>14. a <= x /\ b <= d
      <3>. HIDE DEF at
      <3>. QED
        BY <2>7, <2>8, <2>11, <2>12, <2>13
    <2>15. f[t] <= g[c]
      BY <2>11, <2>12, <2>13, <2>14
    <2>16. at(t) = c
      BY <2>5, <2>8
    <2>. QED
      BY <2>3, <2>15, <2>16
  <1>4. f[m] <= g[at(m)]
    BY <1>3
  <1>5. at(m) \in 0 .. n
    <2>1. m # 0 => e[m] \in k + 1 .. n
      BY DEF Found
    <2>. QED
      BY <2>1
  <1>. HIDE DEF at
  <1>6. PICK x \in Nat, y \in Nat, z \in Nat : x = f[m] /\ y = g[at(m)] /\ z = g[n] /\ y <= z
    BY <1>1, <1>2, <1>5
  <1>. QED
    BY <1>4, <1>6

\* What the sum of the lengths is made of.
LEMMA BytesFacts ==
    ASSUME NEW a \in Nat, NEW q \in Seq(Blocks)
    PROVE  /\ Bytes(a, q) \in Nat /\ Bytes(a, q) = a + Bytes(0, q)
           /\ q = <<>> => Bytes(a, q) = a
           /\ \A b \in Blocks : Bytes(a, Append(q, b)) = Bytes(a, q) + Len(b.cmds)
  <1>. DEFINE n == Len(q)
              w == Lengths(q)
  <1>1. n \in Nat /\ 0 \in Nat
    OBVIOUS
  <1>2. \A i \in 1 .. n : w[i] \in Nat /\ w[i] = Len(q[i].cmds)
    BY LengthsAre
  <1>3. PICK f : f[0] = a /\ f[n] = Bytes(a, q) /\ Sums(f, w, n)
    BY BytesSum
  <1>4. PICK g : g[0] = 0 /\ g[n] = Bytes(0, q) /\ Sums(g, w, n)
    BY <1>1, BytesSum
  <1>. HIDE DEF w, n
  <1>5. \A j \in 0 .. n : f[j] \in Nat
    BY <1>1, <1>3, SumGrows
  <1>6. \A j \in 0 .. n : g[j] \in Nat
    BY <1>1, <1>4, SumGrows
  <1>7. Bytes(a, q) = a + Bytes(0, q)
    <2>. DEFINE h == [i \in 0 .. n |-> a + g[i]]
    <2>1. f[0] = h[0]
      BY <1>1, <1>3, <1>4
    <2>2. Agree(f, h, n)
      <3>1. SUFFICES ASSUME NEW i \in 1 .. n, f[i - 1] = h[i - 1]
                     PROVE  f[i] = h[i]
        BY DEF Agree
      <3>2. i - 1 \in 0 .. n /\ i \in 0 .. n
        BY <1>1
      <3>3. PICK x \in Nat, y \in Nat : x = g[i - 1] /\ y = w[i] /\ g[i] = x + y /\ f[i] = f[i - 1] + y
        BY <1>2, <1>3, <1>4, <1>6, <3>2 DEF Sums
      <3>4. h[i - 1] = a + x /\ h[i] = a + (x + y)
        BY <3>2, <3>3
      <3>. QED
        BY <3>1, <3>3, <3>4
    <2>3. \A i \in 0 .. n : f[i] = h[i]
      <3>. HIDE DEF h
      <3>. QED
        BY <1>1, <2>1, <2>2, SumEnds
    <2>. QED
      BY <1>1, <1>3, <1>4, <2>3
  <1>8. Bytes(a, q) \in Nat
    BY <1>1, <1>3, <1>5
  <1>9. q = <<>> => Bytes(a, q) = a
    BY <1>1, <1>3 DEF n
  <1>10. ASSUME NEW b \in Blocks
         PROVE  Bytes(a, Append(q, b)) = Bytes(a, q) + Len(b.cmds)
    <2>. DEFINE r == Append(q, b)
    <2>1. /\ r \in Seq(Blocks) /\ Len(r) = n + 1 /\ r[n + 1] = b
          /\ \A i \in 1 .. n : r[i] = q[i]
      BY DEF n
    <2>. HIDE DEF r
    <2>2. PICK h : h[0] = a /\ h[n + 1] = Bytes(a, r) /\ Sums(h, Lengths(r), n + 1)
      BY <2>1, BytesSum
    <2>3. \A i \in 1 .. n + 1 : Lengths(r)[i] = Len(r[i].cmds)
      BY <2>1, LengthsAre
    <2>4. Agree(f, h, n)
      <3>1. SUFFICES ASSUME NEW i \in 1 .. n, f[i - 1] = h[i - 1]
                     PROVE  f[i] = h[i]
        BY DEF Agree
      <3>2. i \in 1 .. n + 1
        BY <1>1
      <3>3. f[i] = f[i - 1] + Len(q[i].cmds)
        BY <1>2, <1>3 DEF Sums
      <3>4. h[i] = h[i - 1] + Len(q[i].cmds)
        BY <2>1, <2>2, <2>3, <3>2 DEF Sums
      <3>. QED
        BY <3>1, <3>3, <3>4
    <2>5. f[0] = h[0]
      BY <1>3, <2>2
    <2>6. \A i \in 0 .. n : f[i] = h[i]
      BY <1>1, <2>4, <2>5, SumEnds
    <2>7. n + 1 \in 1 .. n + 1 /\ n + 1 - 1 = n /\ n \in 0 .. n
      BY <1>1
    <2>8. h[n + 1] = h[n] + Len(b.cmds)
      BY <2>1, <2>2, <2>3, <2>7 DEF Sums
    <2>. QED
      BY <1>3, <2>2, <2>6, <2>7, <2>8 DEF r
  <1>. QED
    BY <1>7, <1>8, <1>9, <1>10

\* Blocks that are found, in order, among those of r after its k-th are not
\* longer than r, and neither is one more that is as long as its k-th.
LEMMA BytesWithin ==
    ASSUME NEW a \in Nat, NEW b \in Nat, NEW q \in Seq(Blocks), NEW r \in Seq(Blocks), NEW e,
           NEW k \in 0 .. Len(r),
           k = 0 => a <= b,
           k # 0 => a <= Len(r[k].cmds),
           \A i \in 1 .. Len(q) : /\ e[i] \in k + 1 .. Len(r) /\ q[i] = r[e[i]]
                                  /\ \A j \in 1 .. i - 1 : e[j] < e[i]
    PROVE  Bytes(a, q) <= Bytes(b, r)
  <1>. DEFINE m == Len(q)
              n == Len(r)
              v == Lengths(q)
              w == Lengths(r)
  <1>1. m \in Nat /\ n \in Nat /\ k \in 0 .. n
    OBVIOUS
  <1>2. \A i \in 1 .. m : v[i] \in Nat /\ v[i] = Len(q[i].cmds)
    BY LengthsAre
  <1>3. \A i \in 1 .. n : w[i] \in Nat /\ w[i] = Len(r[i].cmds)
    BY LengthsAre
  <1>4. PICK f : f[0] = a /\ f[m] = Bytes(a, q) /\ Sums(f, v, m)
    BY BytesSum
  <1>5. PICK g : g[0] = b /\ g[n] = Bytes(b, r) /\ Sums(g, w, n)
    BY BytesSum
  <1>6. \A i \in 1 .. m : /\ e[i] \in k + 1 .. n /\ q[i] = r[e[i]]
                          /\ \A j \in 1 .. i - 1 : e[j] < e[i]
    OBVIOUS
  <1>7. k # 0 => a <= Len(r[k].cmds)
    OBVIOUS
  <1>. HIDE DEF v, w, m, n
  <1>8. Found(e, v, m, w, k, n)
    <2>1. SUFFICES ASSUME NEW i \in 1 .. m
                   PROVE  /\ e[i] \in k + 1 .. n /\ v[i] <= w[e[i]]
                          /\ \A j \in 1 .. i - 1 : e[j] < e[i]
      BY DEF Found
    <2>2. e[i] \in k + 1 .. n /\ q[i] = r[e[i]] /\ \A j \in 1 .. i - 1 : e[j] < e[i]
      BY <1>6
    <2>3. PICK c \in 1 .. n : c = e[i]
      BY <1>1, <2>2
    <2>4. v[i] = w[c] /\ v[i] \in Nat
      BY <1>2, <1>3, <2>2, <2>3
    <2>. QED
      BY <2>2, <2>3, <2>4
  <1>9. f[0] <= g[k]
    <2>1. CASE k = 0
      BY <1>4, <1>5, <2>1
    <2>2. CASE k # 0
      <3>1. k \in 1 .. n /\ k - 1 \in 0 .. n
        BY <1>1, <2>2
      <3>2. g[k - 1] \in Nat
        <4>1. g[0] \in Nat
          BY <1>5
        <4>. QED
          BY <1>1, <1>5, <3>1, <4>1, SumGrows
      <3>3. w[k] \in Nat /\ g[k] = g[k - 1] + w[k]
        BY <1>5, <3>1 DEF Sums
      <3>4. a <= w[k]
        BY <1>3, <1>7, <2>2, <3>1
      <3>. QED
        BY <1>4, <3>2, <3>3, <3>4
    <2>. QED
      BY <2>1, <2>2
  <1>10. f[0] \in Nat /\ g[0] \in Nat
    BY <1>4, <1>5
  <1>11. f[m] <= g[n]
    BY <1>1, <1>4, <1>5, <1>8, <1>9, <1>10, SumWithin
  <1>. QED
    BY <1>4, <1>5, <1>11
-----------------------------------------------------------------------------
(* The controller's buffer: what the host counts.                          *)

\* What the window is about is left as it is.
LEMMA WindowKept ==
    ASSUME WindowInv,
           UNCHANGED <<sentQueue, block, receiveSeq, lastAckSeq, lastAckBytes>>,
           bg' = bg \/ (bg # "build" /\ bg' # "build")
    PROVE  WindowInv'
  <1>1. Answered' = Answered /\ sentQueue' = sentQueue
    BY DEF Answered
  <1>2. (IF bg = "build" THEN BlockMax ELSE 0)' = IF bg = "build" THEN BlockMax ELSE 0
    OBVIOUS
  <1>. QED
    BY <1>1, <1>2 DEF WindowInv, Small

\* What is counted for a block that only an answer has acknowledged.
LEMMA AnsweredFits ==
    ASSUME IInv, WindowInv
    PROVE  /\ sentQueue \in Seq(Blocks) /\ Answered \in Nat /\ Answered <= BlockMax
           /\ BlockMax \in Nat \ {0} /\ Window \in Nat /\ (Window # 0 => Window >= 2 * BlockMax)
           /\ Bytes(Answered, sentQueue) \in Nat
  <1>1. BlockMax \in Nat \ {0} /\ Window \in Nat /\ (Window # 0 => Window >= 2 * BlockMax)
    BY LinkAssumption
  <1>2. lastAckBytes \in Nat /\ lastAckBytes <= BlockMax
    BY DEF WindowInv, IInv, TypeOK, NumbersTypeOK
  <1>3. Answered \in Nat /\ Answered <= BlockMax
    BY <1>1, <1>2 DEF Answered
  <1>. QED
    BY <1>1, <1>3, LinkFacts, BytesFacts

\* Acknowledged blocks are no longer counted, the last one while only an answer
\* has acknowledged it.
LEMMA WindowHandle ==
    ASSUME IInv, WindowInv, HandleMessage
    PROVE  WindowInv'
  <1>1. PICK r \in Nat \ {0} : r = Head(toHost).seq
    BY NumberIsRebuilt DEF HandleMessage
  <1>2. /\ bg = "poll" /\ bg' = bg /\ block' = block /\ receiveSeq' = r /\ lastAckSeq' \in {r, lastAckSeq}
        /\ \/ r = receiveSeq /\ UNCHANGED <<sentQueue, lastAckBytes>>
           \/ /\ r - receiveSeq \in 1 .. Len(sentQueue)
              /\ sentQueue' = SubSeq(sentQueue, r - receiveSeq + 1, Len(sentQueue))
              /\ lastAckBytes' = Len(sentQueue[r - receiveSeq].cmds)
           \/ sentQueue' = <<>> /\ lastAckBytes' = lastAckBytes
    BY <1>1, HandleLeaves DEF bgVars
  <1>3. /\ Small(sentQueue) /\ Len(block) <= BlockMax /\ lastAckBytes <= BlockMax /\ lastAckBytes \in Nat
        /\ Window # 0 => Bytes(Answered, sentQueue) + 0 <= Window
    BY <1>2 DEF WindowInv, IInv, TypeOK, NumbersTypeOK
  <1>4. Answered' \in {0, lastAckBytes'}
    BY DEF Answered
  <1>5. SUFFICES /\ Small(sentQueue') /\ lastAckBytes' <= BlockMax
                 /\ Window # 0 => Bytes(Answered', sentQueue') + 0 <= Window
    BY <1>2, <1>3, <1>5 DEF WindowInv
  <1>6. CASE r = receiveSeq /\ UNCHANGED <<sentQueue, lastAckBytes>>
    <2>1. Answered' = Answered \/ Answered' = 0
      BY <1>2, <1>6, LinkFacts DEF Answered, IInv, TypeOK, NumbersTypeOK
    <2>2. Bytes(0, sentQueue) \in Nat /\ Bytes(0, sentQueue) <= Bytes(Answered, sentQueue)
      <3>1. 0 \in Nat
        OBVIOUS
      <3>2. Bytes(0, sentQueue) \in Nat /\ Bytes(Answered, sentQueue) = Answered + Bytes(0, sentQueue)
        BY <3>1, AnsweredFits, BytesFacts
      <3>. QED
        BY <3>2, AnsweredFits
    <2>3. Window # 0 => Bytes(Answered', sentQueue) + 0 <= Window
      BY <1>3, <2>1, <2>2, AnsweredFits
    <2>. QED
      BY <1>3, <1>6, <2>3
  <1>7. CASE /\ r - receiveSeq \in 1 .. Len(sentQueue)
             /\ sentQueue' = SubSeq(sentQueue, r - receiveSeq + 1, Len(sentQueue))
             /\ lastAckBytes' = Len(sentQueue[r - receiveSeq].cmds)
    <2>1. PICK k \in 1 .. Len(sentQueue) : k = r - receiveSeq
      BY <1>7
    <2>. DEFINE q == SubSeq(sentQueue, k + 1, Len(sentQueue))
                e == [i \in 1 .. Len(q) |-> k + i]
    <2>2. /\ sentQueue \in Seq(Blocks) /\ Len(sentQueue) \in Nat
          /\ k + 1 \in 1 .. Len(sentQueue) + 1 /\ Len(sentQueue) \in 0 .. Len(sentQueue)
      BY LinkFacts
    <2>3. /\ q \in Seq(Blocks) /\ Len(q) = Len(sentQueue) - k
          /\ \A i \in 1 .. Len(q) : q[i] = sentQueue[k + i]
      <3>1. /\ q \in Seq(Blocks)
            /\ Len(q) = (IF k + 1 <= Len(sentQueue) THEN Len(sentQueue) - (k + 1) + 1 ELSE 0)
            /\ \A i \in 1 .. Len(sentQueue) - (k + 1) + 1 : q[i] = sentQueue[(k + 1) + i - 1]
        BY <2>2, SubSeqProperties
      <3>2. Len(q) = Len(sentQueue) - k
        BY <2>2, <3>1
      <3>3. \A i \in 1 .. Len(q) : i \in 1 .. Len(sentQueue) - (k + 1) + 1 /\ (k + 1) + i - 1 = k + i
        BY <2>2, <3>2
      <3>. QED
        BY <3>1, <3>2, <3>3
    <2>4. sentQueue' = q /\ lastAckBytes' = Len(sentQueue[k].cmds)
      BY <1>7, <2>1
    <2>5. Len(sentQueue[k].cmds) <= BlockMax
      BY <1>3, <2>2 DEF Small
    <2>. HIDE DEF q
    <2>6. Small(q)
      <3>1. \A i \in 1 .. Len(q) : k + i \in 1 .. Len(sentQueue)
        BY <2>2, <2>3
      <3>. QED
        BY <1>3, <2>3, <3>1 DEF Small
    <2>7. \A i \in 1 .. Len(q) : /\ e[i] \in k + 1 .. Len(sentQueue) /\ q[i] = sentQueue[e[i]]
                                 /\ \A j \in 1 .. i - 1 : e[j] < e[i]
      BY <2>2, <2>3
    <2>8. Len(sentQueue[k].cmds) \in Nat
      BY <2>2, LengthsAre
    <2>9. Answered' \in Nat /\ Answered' <= Len(sentQueue[k].cmds)
      BY <1>4, <2>4, <2>8
    <2>10. k \in 0 .. Len(sentQueue) /\ k # 0
      BY <2>2
    <2>11. Bytes(Answered', q) <= Bytes(Answered, sentQueue)
      <3>. HIDE DEF e
      <3>1. Answered \in Nat /\ (k = 0 => Answered' <= Answered) /\ (k # 0 => Answered' <= Len(sentQueue[k].cmds))
        BY <2>9, <2>10, AnsweredFits
      <3>. QED
        BY <2>2, <2>3, <2>7, <2>9, <2>10, <3>1, BytesWithin
    <2>12. Bytes(Answered', q) \in Nat
      BY <2>3, <2>9, BytesFacts
    <2>13. Window # 0 => Bytes(Answered', q) + 0 <= Window
      BY <1>3, <2>11, <2>12, AnsweredFits
    <2>. QED
      BY <2>4, <2>5, <2>6, <2>13
  <1>8. CASE sentQueue' = <<>> /\ lastAckBytes' = lastAckBytes
    <2>1. Answered' \in Nat /\ Answered' <= BlockMax
      BY <1>3, <1>4, <1>8, AnsweredFits
    <2>2. <<>> \in Seq(Blocks)
      OBVIOUS
    <2>3. Bytes(Answered', <<>>) = Answered'
      BY <2>1, <2>2, BytesFacts
    <2>4. Window # 0 => Bytes(Answered', <<>>) + 0 <= Window
      BY <2>1, <2>3, AnsweredFits
    <2>5. Small(<<>>)
      BY DEF Small
    <2>. QED
      BY <1>3, <1>8, <2>4, <2>5
  <1>. QED
    BY <1>2, <1>6, <1>7, <1>8

LEMMA WindowInvStep ==
    ASSUME IInv, WindowInv, [LinkNext]_vars
    PROVE  WindowInv'
  <1>24. /\ Small(sentQueue) /\ Len(block) <= BlockMax /\ lastAckBytes <= BlockMax
         /\ Window # 0 =>
               Bytes(Answered, sentQueue) + (IF bg = "build" THEN BlockMax ELSE 0) <= Window
    BY DEF WindowInv
  <1>1. ASSUME NEW q \in Queues, SendBatch(q) PROVE WindowInv'
    <2>1. UNCHANGED <<sentQueue, block, receiveSeq, lastAckSeq, lastAckBytes, bg>>
      BY <1>1 DEF SendBatch, queueVars, seqVars, ackVars, bgVars
    <2>. QED
      BY <2>1, WindowKept
  <1>2. ASSUME NEW q \in Queues, KickBgThread(q) PROVE WindowInv'
    <2>1. UNCHANGED <<sentQueue, block, receiveSeq, lastAckSeq, lastAckBytes, bg>>
      BY <1>2 DEF KickBgThread, queueVars, seqVars, ackVars, bgVars
    <2>. QED
      BY <2>1, WindowKept
  <1>3. ASSUME NEW q \in Queues, MoveDue(q) PROVE WindowInv'
    <2>1. UNCHANGED <<sentQueue, block, receiveSeq, lastAckSeq, lastAckBytes, bg>>
      BY <1>3 DEF MoveDue, queueVars, seqVars, ackVars, bgVars
    <2>. QED
      BY <2>1, WindowKept
  <1>4. CASE StartBlock
    <2>1. /\ bg = "check" /\ ~MustWaitForAck /\ bg' = "build"
          /\ UNCHANGED <<sentQueue, block, receiveSeq, lastAckSeq, lastAckBytes>>
      BY <1>4 DEF StartBlock, seqVars, ackVars
    <2>2. Answered' = Answered
      BY <2>1 DEF Answered
    <2>3. ASSUME Window # 0
          PROVE  Bytes(Answered, sentQueue) + BlockMax <= Window
      <3>1. CASE sendSeq > receiveSeq
        <4>1. NeedAckBytes = Bytes(0, sentQueue)
          BY DEF NeedAckBytes, Bytes
        <4>2. 0 \in Nat
          OBVIOUS
        <4>3. Bytes(0, sentQueue) \in Nat /\ Bytes(Answered, sentQueue) = Answered + Bytes(0, sentQueue)
          BY <4>2, AnsweredFits, BytesFacts
        <4>4. ~(NeedAckBytes + BlockMax + Answered > Window)
          BY <2>1, <2>3, <3>1 DEF MustWaitForAck, WindowFull, Answered
        <4>. QED
          BY <4>1, <4>3, <4>4, AnsweredFits
      <3>2. CASE ~(sendSeq > receiveSeq)
        <4>1. sentQueue = <<>>
          BY <3>2, LinkFacts
        <4>2. Bytes(Answered, sentQueue) = Answered
          BY <4>1, AnsweredFits, BytesFacts
        <4>. QED
          BY <2>3, <4>2, AnsweredFits
      <3>. QED
        BY <3>1, <3>2
    <2>. QED
      BY <1>24, <2>1, <2>2, <2>3 DEF WindowInv
  <1>5. CASE WriteBlocks
    BY <1>5, WindowKept DEF WriteBlocks, seqVars, ackVars
  <1>6. ASSUME NEW i \in 1 .. Len(pendingQueues), AddCommand(i) PROVE WindowInv'
    <2>1. /\ Len(block) < BlockMax
          /\ block' = Append(block, Head(ready[pendingQueues[i]]))
          /\ UNCHANGED <<bg, sentQueue, receiveSeq, lastAckSeq, lastAckBytes>>
      BY <1>6 DEF AddCommand, seqVars, ackVars
    <2>2. block \in Seq(Commands) /\ BlockMax \in Nat
      BY AnsweredFits DEF IInv, TypeOK, SenderTypeOK
    <2>3. Len(block') <= BlockMax
      <3>1. Len(block') = Len(block) + 1
        BY <2>1, <2>2
      <3>. QED
        BY <2>1, <2>2, <3>1
    <2>4. Answered' = Answered
      BY <2>1 DEF Answered
    <2>. QED
      BY <1>24, <2>1, <2>3, <2>4 DEF WindowInv
  <1>7. CASE StoreBlock
    <2>. DEFINE out == [seq |-> sendSeq, cmds |-> block]
    <2>1. /\ bg = "build" /\ sentQueue' = Append(sentQueue, out) /\ block' = <<>> /\ bg' = "check"
          /\ UNCHANGED <<receiveSeq, lastAckSeq, lastAckBytes>>
      BY <1>7 DEF StoreBlock, ackVars
    <2>2. out \in Blocks /\ out.cmds = block /\ block \in Seq(Commands)
      BY DEF IInv, TypeOK, NumbersTypeOK, SenderTypeOK, Blocks
    <2>. HIDE DEF out
    <2>3. Answered' = Answered
      BY <2>1 DEF Answered
    <2>4. Bytes(Answered, sentQueue') = Bytes(Answered, sentQueue) + Len(block)
      BY <2>1, <2>2, AnsweredFits, BytesFacts
    <2>5. Small(sentQueue')
      <3>1. /\ Len(sentQueue') = Len(sentQueue) + 1 /\ sentQueue'[Len(sentQueue) + 1] = out
            /\ \A i \in 1 .. Len(sentQueue) : sentQueue'[i] = sentQueue[i]
            /\ Len(sentQueue) \in Nat
        BY <2>1, <2>2, LinkFacts, AppendProperties
      <3>2. \A i \in 1 .. Len(sentQueue') : i \in 1 .. Len(sentQueue) \/ i = Len(sentQueue) + 1
        BY <3>1
      <3>3. \A i \in 1 .. Len(sentQueue') : Len(sentQueue'[i].cmds) <= BlockMax
        BY <1>24, <2>2, <3>1, <3>2 DEF Small
      <3>. QED
        BY <3>3 DEF Small
    <2>6. Window # 0 => Bytes(Answered', sentQueue') + 0 <= Window
      <3>1. Len(block) \in Nat
        BY <2>2
      <3>2. Window # 0 => Bytes(Answered, sentQueue) + BlockMax <= Window
        BY <1>24, <2>1
      <3>. QED
        BY <1>24, <2>3, <2>4, <3>1, <3>2, AnsweredFits
    <2>7. Len(block') <= BlockMax
      BY <2>1, AnsweredFits
    <2>8. lastAckBytes' <= BlockMax
      BY <1>24, <2>1
    <2>. QED
      BY <2>1, <2>5, <2>6, <2>7, <2>8 DEF WindowInv
  <1>8. CASE CommandEvent
    <2>1. UNCHANGED <<sentQueue, block, receiveSeq, lastAckSeq, lastAckBytes>> /\ bg = "poll" /\ bg' = "check"
      BY <1>8 DEF CommandEvent, Polling, seqVars, ackVars
    <2>. QED
      BY <2>1, WindowKept
  <1>9. CASE KickEvent
    <2>1. UNCHANGED <<sentQueue, block, receiveSeq, lastAckSeq, lastAckBytes, bg>>
      BY <1>9 DEF KickEvent, queueVars, seqVars, ackVars, bgVars
    <2>. QED
      BY <2>1, WindowKept
  <1>10. CASE RetransmitEvent
    <2>1. UNCHANGED <<sentQueue, block, receiveSeq, lastAckSeq, lastAckBytes, bg>>
      BY <1>10 DEF RetransmitEvent, queueVars, seqVars, ackVars, bgVars
    <2>. QED
      BY <2>1, WindowKept
  <1>11. CASE HandleMessage
    BY <1>11, WindowHandle
  <1>12. CASE BackgroundEnds
    <2>1. UNCHANGED <<sentQueue, block, receiveSeq, lastAckSeq, lastAckBytes>> /\ bg = "poll" /\ bg' = "ended"
      BY <1>12 DEF BackgroundEnds, Polling, seqVars, ackVars
    <2>. QED
      BY <2>1, WindowKept
  <1>13. CASE PullMessage
    <2>1. UNCHANGED <<sentQueue, block, receiveSeq, lastAckSeq, lastAckBytes, bg>>
      BY <1>13 DEF PullMessage, queueVars, seqVars, ackVars, bgVars
    <2>. QED
      BY <2>1, WindowKept
  <1>14. CASE PullNothing
    <2>1. UNCHANGED <<sentQueue, block, receiveSeq, lastAckSeq, lastAckBytes, bg>>
      BY <1>14 DEF PullNothing, queueVars, seqVars, ackVars, bgVars
    <2>. QED
      BY <2>1, WindowKept
  <1>15. CASE RequestExit \/ Closes
    <2>1. UNCHANGED <<sentQueue, block, receiveSeq, lastAckSeq, lastAckBytes, bg>>
      BY <1>15 DEF RequestExit, Closes, queueVars, seqVars, ackVars, bgVars
    <2>. QED
      BY <2>1, WindowKept
  <1>16. CASE McuTake
    <2>1. UNCHANGED <<sentQueue, block, receiveSeq, lastAckSeq, lastAckBytes, bg>>
      BY <1>16 DEF McuTake, queueVars, seqVars, ackVars, bgVars
    <2>. QED
      BY <2>1, WindowKept
  <1>17. CASE McuAcknowledge
    <2>1. UNCHANGED <<sentQueue, block, receiveSeq, lastAckSeq, lastAckBytes, bg>>
      BY <1>17 DEF McuAcknowledge, queueVars, seqVars, ackVars, bgVars
    <2>. QED
      BY <2>1, WindowKept
  <1>18. CASE McuNak
    <2>1. UNCHANGED <<sentQueue, block, receiveSeq, lastAckSeq, lastAckBytes, bg>>
      BY <1>18 DEF McuNak, queueVars, seqVars, ackVars, bgVars
    <2>. QED
      BY <2>1, WindowKept
  <1>19. CASE McuReport
    <2>1. UNCHANGED <<sentQueue, block, receiveSeq, lastAckSeq, lastAckBytes, bg>>
      BY <1>19 DEF McuReport, queueVars, seqVars, ackVars, bgVars
    <2>. QED
      BY <2>1, WindowKept
  <1>20. CASE LoseBlock
    <2>1. UNCHANGED <<sentQueue, block, receiveSeq, lastAckSeq, lastAckBytes, bg>>
      BY <1>20 DEF LoseBlock, queueVars, seqVars, ackVars, bgVars
    <2>. QED
      BY <2>1, WindowKept
  <1>21. CASE LoseMessage
    <2>1. UNCHANGED <<sentQueue, block, receiveSeq, lastAckSeq, lastAckBytes, bg>>
      BY <1>21 DEF LoseMessage, queueVars, seqVars, ackVars, bgVars
    <2>. QED
      BY <2>1, WindowKept
  <1>22. CASE Tick
    <2>1. UNCHANGED <<sentQueue, block, receiveSeq, lastAckSeq, lastAckBytes, bg>>
      BY <1>22 DEF Tick, queueVars, seqVars, ackVars, bgVars
    <2>. QED
      BY <2>1, WindowKept
  <1>23. CASE UNCHANGED vars
    <2>1. UNCHANGED <<sentQueue, block, receiveSeq, lastAckSeq, lastAckBytes, bg>>
      BY <1>23 DEF vars, queueVars, seqVars, ackVars, bgVars
    <2>. QED
      BY <2>1, WindowKept
  <1>. QED
    BY <1>1, <1>2, <1>3, <1>4, <1>5, <1>6, <1>7, <1>8, <1>9, <1>10, <1>11, <1>12, <1>13, <1>14, <1>15, <1>16, <1>17, <1>18, <1>19, <1>20, <1>21, <1>22, <1>23
       DEF LinkNext, Next, BackgroundStep, CommandStep, PullerStep, McuStep, Quiet
-----------------------------------------------------------------------------
(* The controller's buffer: what is under way.                             *)

LEMMA AscendingTail ==
    ASSUME NEW q \in Seq(Blocks), q # <<>>, NEW low, Ascending(q, low)
    PROVE  /\ Tail(q) \in Seq(Blocks) /\ Ascending(Tail(q), low)
           /\ low = Head(q).seq => Ascending(Tail(q), low + 1)
  <1>1. /\ Tail(q) \in Seq(Blocks) /\ Len(Tail(q)) = Len(q) - 1 /\ Len(q) \in Nat \ {0}
        /\ Head(q) = q[1] /\ \A i \in 1 .. Len(q) : q[i] \in Blocks
        /\ \A i \in 1 .. Len(q) - 1 : Tail(q)[i] = q[i + 1]
    OBVIOUS
  <1>. DEFINE t == Tail(q)
  <1>. HIDE DEF t
  <1>2. Len(t) = Len(q) - 1 /\ \A i \in 1 .. Len(t) : t[i] = q[i + 1] /\ i + 1 \in 1 .. Len(q)
    BY <1>1 DEF t
  <1>3. ASSUME NEW i \in 1 .. Len(t)
        PROVE  /\ low <= t[i].seq /\ q[1].seq < t[i].seq
               /\ \A j \in 1 .. i - 1 : t[j].seq < t[i].seq
    <2>1. low <= q[i + 1].seq /\ \A j \in 1 .. i : q[j].seq < q[i + 1].seq
      BY <1>1, <1>2 DEF Ascending
    <2>2. \A j \in 1 .. i - 1 : t[j] = q[j + 1] /\ j + 1 \in 1 .. i
      BY <1>1, <1>2
    <2>3. 1 \in 1 .. i
      BY <1>1, <1>2
    <2>. QED
      BY <1>2, <2>1, <2>2, <2>3
  <1>4. Ascending(t, low)
    BY <1>3 DEF Ascending
  <1>5. ASSUME low = q[1].seq
        PROVE  Ascending(t, low + 1)
    <2>1. \A x \in Blocks : x.seq \in Nat
      BY DEF Blocks
    <2>2. \A i \in 1 .. Len(t) : t[i] \in Blocks
      BY <1>1, <1>2
    <2>3. \A i \in 1 .. Len(t) : q[1].seq + 1 <= t[i].seq
      BY <1>1, <1>3, <2>1, <2>2
    <2>. QED
      BY <1>3, <1>5, <2>3 DEF Ascending
  <1>. QED
    BY <1>1, <1>4, <1>5 DEF t

\* A block with a higher number is the last one.
LEMMA AscendingAppend ==
    ASSUME NEW q \in Seq(Blocks), NEW b \in Blocks, NEW low, Ascending(q, low), low <= b.seq,
           \A i \in 1 .. Len(q) : q[i].seq < b.seq
    PROVE  Ascending(Append(q, b), low)
  <1>. DEFINE t == Append(q, b)
  <1>1. /\ Len(t) = Len(q) + 1 /\ t[Len(q) + 1] = b /\ \A i \in 1 .. Len(q) : t[i] = q[i]
        /\ Len(q) \in Nat
    OBVIOUS
  <1>. HIDE DEF t
  <1>2. ASSUME NEW i \in 1 .. Len(t)
        PROVE  low <= t[i].seq /\ \A j \in 1 .. i - 1 : t[j].seq < t[i].seq
    <2>1. CASE i \in 1 .. Len(q)
      <3>1. \A j \in 1 .. i - 1 : j \in 1 .. Len(q)
        BY <1>1, <2>1
      <3>. QED
        BY <1>1, <2>1, <3>1 DEF Ascending
    <2>2. CASE i = Len(q) + 1
      <3>1. \A j \in 1 .. i - 1 : j \in 1 .. Len(q)
        BY <1>1, <2>2
      <3>. QED
        BY <1>1, <2>2, <3>1
    <2>. QED
      BY <1>1, <2>1, <2>2
  <1>. QED
    BY <1>2 DEF Ascending, t

\* The first block under way is gone, taken, refused or lost.
LEMMA OnceTail ==
    ASSUME IInv, OnceInv, bg \in {"poll", "ended"}, toMcu # <<>>, toMcu' = Tail(toMcu),
           UNCHANGED <<outBuf, resent>>,
           mcuSeq' = mcuSeq \/ (mcuSeq' = mcuSeq + 1 /\ Head(toMcu).seq = mcuSeq)
    PROVE  OnceInv'
  <1>1. Wire = toMcu /\ outBuf = <<>>
    BY AllWritten
  <1>2. toMcu \in Seq(Blocks) /\ Tail(toMcu) \in Seq(Blocks)
    BY LinkFacts, TailRange
  <1>3. Wire' = Tail(toMcu)
    BY <1>1, <1>2, ConcatEmptySeq DEF Wire
  <1>4. ASSUME resent = {}
        PROVE  Ascending(Tail(toMcu), mcuSeq')
    <2>1. Ascending(toMcu, mcuSeq)
      BY <1>1, <1>4 DEF OnceInv
    <2>2. /\ Ascending(Tail(toMcu), mcuSeq)
          /\ mcuSeq = Head(toMcu).seq => Ascending(Tail(toMcu), mcuSeq + 1)
      BY <1>2, <2>1, AscendingTail
    <2>. QED
      BY <2>2
  <1>. QED
    BY <1>3, <1>4 DEF OnceInv

LEMMA OnceInvStep ==
    ASSUME IInv, BlocksInv, OnceInv, [LinkNext]_vars
    PROVE  OnceInv'
  <1>24. ASSUME UNCHANGED <<toMcu, outBuf, mcuSeq, resent>>
         PROVE  OnceInv'
    BY <1>24 DEF OnceInv, Wire
  <1>1. ASSUME NEW q \in Queues, SendBatch(q) PROVE OnceInv'
    <2>1. UNCHANGED <<toMcu, outBuf, mcuSeq, resent>>
      BY <1>1 DEF SendBatch, queueVars, nakVars, bgVars, mcuVars, wireVars
    <2>. QED
      BY <2>1, <1>24
  <1>2. ASSUME NEW q \in Queues, KickBgThread(q) PROVE OnceInv'
    <2>1. UNCHANGED <<toMcu, outBuf, mcuSeq, resent>>
      BY <1>2 DEF KickBgThread, queueVars, nakVars, bgVars, mcuVars, wireVars
    <2>. QED
      BY <2>1, <1>24
  <1>3. ASSUME NEW q \in Queues, MoveDue(q) PROVE OnceInv'
    <2>1. UNCHANGED <<toMcu, outBuf, mcuSeq, resent>>
      BY <1>3 DEF MoveDue, queueVars, nakVars, bgVars, mcuVars, wireVars
    <2>. QED
      BY <2>1, <1>24
  <1>4. CASE StartBlock
    <2>1. UNCHANGED <<toMcu, outBuf, mcuSeq, resent>>
      BY <1>4 DEF StartBlock, queueVars, nakVars, bgVars, mcuVars, wireVars
    <2>. QED
      BY <2>1, <1>24
  <1>5. CASE WriteBlocks
    <2>1. toMcu' = Wire /\ outBuf' = <<>> /\ UNCHANGED <<resent, mcuSeq>>
      BY <1>5 DEF WriteBlocks, Wire, nakVars, mcuVars
    <2>2. Wire' = Wire
      BY <2>1, LinkFacts, ConcatEmptySeq DEF Wire
    <2>. QED
      BY <2>1, <2>2 DEF OnceInv
  <1>6. ASSUME NEW i \in 1 .. Len(pendingQueues), AddCommand(i) PROVE OnceInv'
    <2>1. UNCHANGED <<toMcu, outBuf, mcuSeq, resent>>
      BY <1>6 DEF AddCommand, nakVars, mcuVars, wireVars
    <2>. QED
      BY <2>1, <1>24
  <1>7. CASE StoreBlock
    <2>. DEFINE out == [seq |-> sendSeq, cmds |-> block]
    <2>1. outBuf' = Append(outBuf, out) /\ UNCHANGED <<toMcu, mcuSeq, resent>>
      BY <1>7 DEF StoreBlock, nakVars, mcuVars, wireVars
    <2>2. out \in Blocks /\ out.seq = sendSeq
      BY DEF IInv, TypeOK, NumbersTypeOK, SenderTypeOK, Blocks
    <2>. HIDE DEF out
    <2>. DEFINE t == <<out>>
    <2>3. t \in Seq(Blocks)
      BY <2>2
    <2>4. Append(outBuf, out) = outBuf \o t /\ Append(Wire, out) = Wire \o t
      BY <2>2, LinkFacts, AppendIsConcat
    <2>. HIDE DEF t
    <2>5. Wire' = Append(Wire, out)
      <3>1. (toMcu \o outBuf) \o t = toMcu \o (outBuf \o t)
        <4>1. toMcu \in Seq(Blocks) /\ outBuf \in Seq(Blocks) /\ t \in Seq(Blocks)
          BY <2>3, LinkFacts
        <4>. QED
          BY <4>1, ConcatAssociative
      <3>. QED
        BY <2>1, <2>4, <3>1 DEF Wire
    <2>6. \A i \in 1 .. Len(Wire) : Wire[i].seq < out.seq
      BY <2>2, LinkFacts DEF Recent
    <2>7. mcuSeq <= out.seq
      BY <2>2 DEF BlocksInv, BuiltInv
    <2>8. ASSUME resent = {}
          PROVE  Ascending(Append(Wire, out), mcuSeq)
      <3>1. Ascending(Wire, mcuSeq)
        BY <2>8 DEF OnceInv
      <3>2. Wire \in Seq(Blocks)
        BY LinkFacts
      <3>. QED
        BY <2>2, <2>6, <2>7, <3>1, <3>2, AscendingAppend
    <2>. QED
      BY <2>1, <2>5, <2>8 DEF OnceInv
  <1>8. CASE CommandEvent
    <2>1. UNCHANGED <<toMcu, outBuf, mcuSeq, resent>>
      BY <1>8 DEF CommandEvent, queueVars, nakVars, bgVars, mcuVars, wireVars
    <2>. QED
      BY <2>1, <1>24
  <1>9. CASE KickEvent
    <2>1. UNCHANGED <<toMcu, outBuf, mcuSeq, resent>>
      BY <1>9 DEF KickEvent, queueVars, nakVars, bgVars, mcuVars, wireVars
    <2>. QED
      BY <2>1, <1>24
  <1>10. CASE RetransmitEvent
    <2>1. resent' = resent \cup {b.seq : b \in ToSet(sentQueue)} /\ retransmitTimer # "never"
      BY <1>10 DEF RetransmitEvent
    <2>2. sentQueue # <<>>
      BY <2>1 DEF IInv, SentInv, SentIsOutstanding
    <2>3. sentQueue[1] \in ToSet(sentQueue)
      <3>1. 1 \in DOMAIN sentQueue
        BY <2>2, LinkFacts
      <3>. QED
        BY <3>1 DEF ToSet
    <2>4. resent' # {}
      BY <2>1, <2>3
    <2>. QED
      BY <2>4 DEF OnceInv
  <1>11. CASE HandleMessage
    <2>1. UNCHANGED <<toMcu, outBuf, mcuSeq, resent>>
      BY <1>11 DEF HandleMessage, queueVars, nakVars, bgVars, mcuVars, wireVars
    <2>. QED
      BY <2>1, <1>24
  <1>12. CASE BackgroundEnds
    <2>1. UNCHANGED <<toMcu, outBuf, mcuSeq, resent>>
      BY <1>12 DEF BackgroundEnds, queueVars, nakVars, bgVars, mcuVars, wireVars
    <2>. QED
      BY <2>1, <1>24
  <1>13. CASE PullMessage
    <2>1. UNCHANGED <<toMcu, outBuf, mcuSeq, resent>>
      BY <1>13 DEF PullMessage, queueVars, nakVars, bgVars, mcuVars, wireVars
    <2>. QED
      BY <2>1, <1>24
  <1>14. CASE PullNothing
    <2>1. UNCHANGED <<toMcu, outBuf, mcuSeq, resent>>
      BY <1>14 DEF PullNothing, queueVars, nakVars, bgVars, mcuVars, wireVars
    <2>. QED
      BY <2>1, <1>24
  <1>15. CASE RequestExit \/ Closes
    <2>1. UNCHANGED <<toMcu, outBuf, mcuSeq, resent>>
      BY <1>15 DEF RequestExit, Closes, queueVars, nakVars, bgVars, mcuVars, wireVars
    <2>. QED
      BY <2>1, <1>24
  <1>16. CASE McuTake
    <2>1. /\ toMcu' = Tail(toMcu) /\ mcuSeq' = mcuSeq + 1 /\ bg \in {"poll", "ended"}
          /\ UNCHANGED <<outBuf, resent>>
      BY <1>16 DEF McuTake, Unlocked, queueVars, nakVars, bgVars
    <2>2. toMcu # <<>> /\ Head(toMcu).seq = mcuSeq
      BY <1>16, TakenIsExpected
    <2>. QED
      BY <2>1, <2>2, OnceTail
  <1>17. CASE McuAcknowledge
    <2>1. UNCHANGED <<toMcu, outBuf, mcuSeq, resent>>
      BY <1>17 DEF McuAcknowledge, queueVars, nakVars, bgVars, mcuVars, wireVars
    <2>. QED
      BY <2>1, <1>24
  <1>18. CASE McuNak
    <2>1. /\ toMcu # <<>> /\ toMcu' = Tail(toMcu) /\ bg \in {"poll", "ended"}
          /\ UNCHANGED <<outBuf, resent, mcuSeq>>
      BY <1>18 DEF McuNak, Unlocked, queueVars, nakVars, bgVars, mcuVars
    <2>. QED
      BY <2>1, OnceTail
  <1>19. CASE McuReport
    <2>1. UNCHANGED <<toMcu, outBuf, mcuSeq, resent>>
      BY <1>19 DEF McuReport, queueVars, nakVars, bgVars, mcuVars, wireVars
    <2>. QED
      BY <2>1, <1>24
  <1>20. CASE LoseBlock
    <2>1. /\ toMcu # <<>> /\ toMcu' = Tail(toMcu) /\ bg \in {"poll", "ended"}
          /\ UNCHANGED <<outBuf, resent, mcuSeq>>
      BY <1>20 DEF LoseBlock, Unlocked, queueVars, nakVars, bgVars, mcuVars
    <2>. QED
      BY <2>1, OnceTail
  <1>21. CASE LoseMessage
    <2>1. UNCHANGED <<toMcu, outBuf, mcuSeq, resent>>
      BY <1>21 DEF LoseMessage, queueVars, nakVars, bgVars, mcuVars, wireVars
    <2>. QED
      BY <2>1, <1>24
  <1>22. CASE Tick
    <2>1. UNCHANGED <<toMcu, outBuf, mcuSeq, resent>>
      BY <1>22 DEF Tick, queueVars, nakVars, bgVars, mcuVars, wireVars
    <2>. QED
      BY <2>1, <1>24
  <1>23. CASE UNCHANGED vars
    <2>1. UNCHANGED <<toMcu, outBuf, mcuSeq, resent>>
      BY <1>23 DEF vars, queueVars, nakVars, bgVars, mcuVars, wireVars
    <2>. QED
      BY <2>1, <1>24
  <1>. QED
    BY <1>1, <1>2, <1>3, <1>4, <1>5, <1>6, <1>7, <1>8, <1>9, <1>10, <1>11, <1>12, <1>13, <1>14, <1>15, <1>16, <1>17, <1>18, <1>19, <1>20, <1>21, <1>22, <1>23
       DEF LinkNext, Next, BackgroundStep, CommandStep, PullerStep, McuStep, Quiet
-----------------------------------------------------------------------------
(* The controller's buffer: the block that is being handled.               *)

LEMMA NotSaidConcat ==
    ASSUME NEW q \in Seq(Messages), NEW t \in Seq(Messages), NEW n, NotSaid(q, n),
           \A i \in 1 .. Len(t) : t[i].data
    PROVE  NotSaid(q \o t, n)
  <1>. DEFINE u == q \o t
  <1>1. u \in Seq(Messages) /\ Len(u) = Len(q) + Len(t)
    BY ConcatProperties
  <1>2. \A i \in 1 .. Len(q) + Len(t) : u[i] = IF i <= Len(q) THEN q[i] ELSE t[i - Len(q)]
    BY ConcatProperties
  <1>3. Len(q) \in Nat /\ Len(t) \in Nat
    OBVIOUS
  <1>. HIDE DEF u
  <1>4. ASSUME NEW i \in 1 .. Len(u), ~u[i].data
        PROVE  u[i].seq < n
    <2>1. CASE i <= Len(q)
      <3>1. i \in 1 .. Len(q) /\ u[i] = q[i]
        BY <1>1, <1>2, <1>3, <2>1
      <3>. QED
        BY <1>4, <3>1 DEF NotSaid
    <2>2. CASE i > Len(q)
      <3>1. i \in 1 .. Len(q) + Len(t) /\ ~(i <= Len(q)) /\ i - Len(q) \in 1 .. Len(t)
        BY <1>1, <1>3, <2>2
      <3>2. u[i] = t[i - Len(q)]
        BY <1>2, <3>1
      <3>. QED
        BY <1>4, <3>1, <3>2
    <2>. QED
      BY <1>3, <2>1, <2>2
  <1>. QED
    BY <1>4 DEF NotSaid, u

LEMMA NotSaidTail ==
    ASSUME NEW q \in Seq(Messages), q # <<>>, NEW n, NotSaid(q, n)
    PROVE  NotSaid(Tail(q), n) /\ (~Head(q).data => Head(q).seq < n)
  <1>1. /\ Len(Tail(q)) = Len(q) - 1 /\ Len(q) \in Nat \ {0} /\ Head(q) = q[1]
        /\ \A i \in 1 .. Len(q) - 1 : Tail(q)[i] = q[i + 1]
    OBVIOUS
  <1>. DEFINE t == Tail(q)
  <1>. HIDE DEF t
  <1>2. \A i \in 1 .. Len(t) : t[i] = q[i + 1] /\ i + 1 \in 1 .. Len(q)
    BY <1>1 DEF t
  <1>3. NotSaid(t, n)
    BY <1>2 DEF NotSaid
  <1>4. 1 \in 1 .. Len(q)
    BY <1>1
  <1>. QED
    BY <1>1, <1>3, <1>4 DEF NotSaid, t

LEMMA AnswersAreData ==
    ASSUME NEW cmds \in Seq(Commands), NEW seq \in Nat
    PROVE  \A i \in 1 .. Len(AnswersTo(cmds, seq)) : AnswersTo(cmds, seq)[i].data
  <1>. DEFINE m == Cardinality(QueriesIn(cmds))
  <1>1. DOMAIN AnswersTo(cmds, seq) = 1 .. m /\ \A i \in 1 .. m : AnswersTo(cmds, seq)[i].data
    BY DEF AnswersTo, Answer
  <1>2. AnswersTo(cmds, seq) \in Seq(Messages)
    BY AnswersProperties
  <1>. HIDE DEF m
  <1>3. DOMAIN AnswersTo(cmds, seq) = 1 .. Len(AnswersTo(cmds, seq))
    BY <1>2
  <1>. QED
    BY <1>1, <1>3

\* Blocks that were built and have the same number are the same.
LEMMA SameBlock ==
    ASSUME IInv, BlocksInv, NEW a \in Range(built), NEW b \in Range(built), a.seq = b.seq
    PROVE  a = b
  <1>1. built \in Seq(Blocks) /\ Numbered(built, 1)
    BY DEF IInv, TypeOK, HistoryTypeOK, BlocksInv, BuiltInv
  <1>2. PICK i \in 1 .. Len(built) : a = built[i]
    BY <1>1, QueueRange
  <1>3. PICK j \in 1 .. Len(built) : b = built[j]
    BY <1>1, QueueRange
  <1>4. a.seq = 1 + i - 1 /\ b.seq = 1 + j - 1
    BY <1>1, <1>2, <1>3 DEF Numbered
  <1>. QED
    BY <1>2, <1>3, <1>4

\* An acknowledgement or an answer arrives while a block is being handled.
LEMMA HandlingHandle ==
    ASSUME IInv, BlocksInv, HandlingInv, HandleMessage
    PROVE  HandlingInv'
  <1>1. PICK r \in Nat \ {0} : r = Head(toHost).seq
    BY NumberIsRebuilt DEF HandleMessage
  <1>2. /\ toHost # <<>> /\ toHost' = Tail(toHost) /\ receiveSeq' = r
        /\ UNCHANGED <<built, mcuSeq, mcuBlock>>
        /\ \/ r = receiveSeq /\ UNCHANGED <<sentQueue, lastAckBytes>>
           \/ /\ r - receiveSeq \in 1 .. Len(sentQueue)
              /\ lastAckBytes' = Len(sentQueue[r - receiveSeq].cmds)
           \/ r > sendSeq
    BY <1>1, HandleLeaves DEF mcuVars
  <1>3. r <= mcuSeq /\ Rebuild(r) = r /\ ~Invalid(r)
    BY <1>1, <1>2, NumberIsRebuilt
  <1>4. lastAckSeq' = IF ~Head(toHost).data /\ lastAckSeq < r THEN r ELSE lastAckSeq
    BY <1>1, <1>3 DEF HandleMessage
  <1>5. lastAckSeq \in Nat /\ mcuSeq \in Nat /\ lastAckSeq <= mcuSeq /\ toHost \in Seq(Messages)
    BY LinkFacts DEF HandlingInv, IInv, TypeOK, NumbersTypeOK
  <1>6. lastAckSeq' <= mcuSeq
    BY <1>3, <1>4, <1>5
  <1>7. ASSUME mcuBlock # NoBlock
        PROVE  /\ mcuBlock.seq = mcuSeq - 1 /\ mcuBlock \in Range(built)
               /\ lastAckSeq' < mcuSeq /\ NotSaid(Tail(toHost), mcuSeq)
               /\ r = mcuSeq => lastAckBytes' = Len(mcuBlock.cmds)
    <2>1. /\ mcuBlock.seq = mcuSeq - 1 /\ mcuBlock \in Range(built)
          /\ lastAckSeq < mcuSeq /\ NotSaid(toHost, mcuSeq)
          /\ receiveSeq = mcuSeq => lastAckBytes = Len(mcuBlock.cmds)
      BY <1>7 DEF HandlingInv
    <2>2. NotSaid(Tail(toHost), mcuSeq) /\ (~Head(toHost).data => r < mcuSeq)
      BY <1>1, <1>2, <1>5, <2>1, NotSaidTail
    <2>3. lastAckSeq' < mcuSeq
      BY <1>4, <2>1, <2>2
    <2>4. ASSUME r = mcuSeq
          PROVE  lastAckBytes' = Len(mcuBlock.cmds)
      <3>1. CASE r = receiveSeq /\ UNCHANGED <<sentQueue, lastAckBytes>>
        BY <2>1, <2>4, <3>1
      <3>2. CASE /\ r - receiveSeq \in 1 .. Len(sentQueue)
                 /\ lastAckBytes' = Len(sentQueue[r - receiveSeq].cmds)
        <4>1. PICK k \in 1 .. Len(sentQueue) : k = r - receiveSeq
          BY <3>2
        <4>2. sentQueue[k].seq = receiveSeq + k - 1
          BY DEF IInv, SentInv, SentIsOutstanding, Numbered
        <4>3. sentQueue[k].seq = mcuBlock.seq
          BY <2>1, <2>4, <4>1, <4>2, LinkFacts
        <4>4. sentQueue[k] \in Range(built)
          <5>1. sentQueue[k] \in Range(sentQueue)
            BY LinkFacts, QueueRange
          <5>. QED
            BY <5>1 DEF BlocksInv, KnownInv
        <4>5. sentQueue[k] = mcuBlock
          BY <2>1, <4>3, <4>4, SameBlock
        <4>. QED
          BY <3>2, <4>1, <4>5
      <3>3. CASE r > sendSeq
        <4>1. mcuSeq <= sendSeq
          BY DEF BlocksInv, BuiltInv
        <4>. QED
          BY <2>4, <3>3, <4>1, LinkFacts
      <3>. QED
        BY <1>2, <3>1, <3>2, <3>3
    <2>. QED
      BY <2>1, <2>2, <2>3, <2>4
  <1>. QED
    BY <1>2, <1>6, <1>7 DEF HandlingInv

LEMMA HandlingInvStep ==
    ASSUME IInv, BlocksInv, HandlingInv, [LinkNext]_vars
    PROVE  HandlingInv'
  <1>24. ASSUME UNCHANGED <<lastAckSeq, lastAckBytes, receiveSeq, mcuSeq, mcuBlock, built, toHost>>
         PROVE  HandlingInv'
    BY <1>24 DEF HandlingInv
  <1>25. ASSUME mcuBlock' = NoBlock, UNCHANGED <<lastAckSeq, mcuSeq>>
         PROVE  HandlingInv'
    BY <1>25 DEF HandlingInv
  <1>1. ASSUME NEW q \in Queues, SendBatch(q) PROVE HandlingInv'
    <2>1. UNCHANGED <<lastAckSeq, lastAckBytes, receiveSeq, mcuSeq, mcuBlock, built, toHost>>
      BY <1>1 DEF SendBatch, queueVars, seqVars, ackVars, mcuVars, wireVars
    <2>. QED
      BY <2>1, <1>24
  <1>2. ASSUME NEW q \in Queues, KickBgThread(q) PROVE HandlingInv'
    <2>1. UNCHANGED <<lastAckSeq, lastAckBytes, receiveSeq, mcuSeq, mcuBlock, built, toHost>>
      BY <1>2 DEF KickBgThread, queueVars, seqVars, ackVars, mcuVars, wireVars
    <2>. QED
      BY <2>1, <1>24
  <1>3. ASSUME NEW q \in Queues, MoveDue(q) PROVE HandlingInv'
    <2>1. UNCHANGED <<lastAckSeq, lastAckBytes, receiveSeq, mcuSeq, mcuBlock, built, toHost>>
      BY <1>3 DEF MoveDue, queueVars, seqVars, ackVars, mcuVars, wireVars
    <2>. QED
      BY <2>1, <1>24
  <1>4. CASE StartBlock
    <2>1. UNCHANGED <<lastAckSeq, lastAckBytes, receiveSeq, mcuSeq, mcuBlock, built, toHost>>
      BY <1>4 DEF StartBlock, queueVars, seqVars, ackVars, mcuVars, wireVars
    <2>. QED
      BY <2>1, <1>24
  <1>5. CASE WriteBlocks
    <2>1. UNCHANGED <<lastAckSeq, lastAckBytes, receiveSeq, mcuSeq, mcuBlock, built, toHost>>
      BY <1>5 DEF WriteBlocks, seqVars, ackVars, mcuVars
    <2>. QED
      BY <2>1, <1>24
  <1>6. ASSUME NEW i \in 1 .. Len(pendingQueues), AddCommand(i) PROVE HandlingInv'
    <2>1. UNCHANGED <<lastAckSeq, lastAckBytes, receiveSeq, mcuSeq, mcuBlock, built, toHost>>
      BY <1>6 DEF AddCommand, seqVars, ackVars, mcuVars, wireVars
    <2>. QED
      BY <2>1, <1>24
  <1>7. CASE StoreBlock
    <2>. DEFINE out == [seq |-> sendSeq, cmds |-> block]
    <2>1. /\ built' = Append(built, out)
          /\ UNCHANGED <<lastAckSeq, lastAckBytes, receiveSeq, mcuSeq, mcuBlock, toHost>>
      BY <1>7 DEF StoreBlock, ackVars, mcuVars, wireVars
    <2>2. out \in Blocks /\ built \in Seq(Blocks)
      BY DEF IInv, TypeOK, NumbersTypeOK, SenderTypeOK, HistoryTypeOK, Blocks
    <2>. HIDE DEF out
    <2>3. Range(built') = Range(built) \cup {out}
      BY <2>1, <2>2, RangeAppend
    <2>. QED
      BY <2>1, <2>3 DEF HandlingInv
  <1>8. CASE CommandEvent
    <2>1. UNCHANGED <<lastAckSeq, lastAckBytes, receiveSeq, mcuSeq, mcuBlock, built, toHost>>
      BY <1>8 DEF CommandEvent, queueVars, seqVars, ackVars, mcuVars, wireVars
    <2>. QED
      BY <2>1, <1>24
  <1>9. CASE KickEvent
    <2>1. UNCHANGED <<lastAckSeq, lastAckBytes, receiveSeq, mcuSeq, mcuBlock, built, toHost>>
      BY <1>9 DEF KickEvent, queueVars, seqVars, ackVars, mcuVars, wireVars
    <2>. QED
      BY <2>1, <1>24
  <1>10. CASE RetransmitEvent
    <2>1. UNCHANGED <<lastAckSeq, lastAckBytes, receiveSeq, mcuSeq, mcuBlock, built, toHost>>
      BY <1>10 DEF RetransmitEvent, queueVars, seqVars, ackVars, mcuVars, wireVars
    <2>. QED
      BY <2>1, <1>24
  <1>11. CASE HandleMessage
    BY <1>11, HandlingHandle
  <1>12. CASE BackgroundEnds
    <2>1. UNCHANGED <<lastAckSeq, lastAckBytes, receiveSeq, mcuSeq, mcuBlock, built, toHost>>
      BY <1>12 DEF BackgroundEnds, queueVars, seqVars, ackVars, mcuVars, wireVars
    <2>. QED
      BY <2>1, <1>24
  <1>13. CASE PullMessage
    <2>1. UNCHANGED <<lastAckSeq, lastAckBytes, receiveSeq, mcuSeq, mcuBlock, built, toHost>>
      BY <1>13 DEF PullMessage, queueVars, seqVars, ackVars, mcuVars, wireVars
    <2>. QED
      BY <2>1, <1>24
  <1>14. CASE PullNothing
    <2>1. UNCHANGED <<lastAckSeq, lastAckBytes, receiveSeq, mcuSeq, mcuBlock, built, toHost>>
      BY <1>14 DEF PullNothing, queueVars, seqVars, ackVars, mcuVars, wireVars
    <2>. QED
      BY <2>1, <1>24
  <1>15. CASE RequestExit \/ Closes
    <2>1. UNCHANGED <<lastAckSeq, lastAckBytes, receiveSeq, mcuSeq, mcuBlock, built, toHost>>
      BY <1>15 DEF RequestExit, Closes, queueVars, seqVars, ackVars, mcuVars, wireVars
    <2>. QED
      BY <2>1, <1>24
  <1>16. CASE McuTake
    <2>. DEFINE new == mcuSeq + 1
                t == AnswersTo(Head(toMcu).cmds, new)
                b == Head(toMcu)
    <2>1. /\ toHost' = toHost \o t /\ mcuSeq' = new /\ mcuBlock' = b
          /\ UNCHANGED <<lastAckSeq, lastAckBytes, receiveSeq, built>>
      BY <1>16 DEF McuTake, queueVars, seqVars, ackVars
    <2>2. b \in Blocks /\ b.seq = mcuSeq /\ toMcu # <<>> /\ Wire = toMcu
      BY <1>16, TakenIsExpected
    <2>3. b \in Range(built)
      <3>1. b \in Range(toMcu)
        BY <2>2, LinkFacts, TailRange
      <3>. QED
        BY <2>2, <3>1 DEF BlocksInv, KnownInv
    <2>4. b.cmds \in Seq(Commands) /\ new \in Nat /\ new - 1 = mcuSeq
      <3>1. \A x \in Blocks : x.cmds \in Seq(Commands)
        BY DEF Blocks
      <3>2. new \in Nat /\ new - 1 = mcuSeq
        BY LinkFacts
      <3>. QED
        BY <2>2, <3>1, <3>2
    <2>5. mcuSeq \in Nat /\ receiveSeq \in Nat /\ receiveSeq <= mcuSeq /\ lastAckSeq \in Nat /\ lastAckSeq <= mcuSeq
      BY LinkFacts DEF HandlingInv, IInv, TypeOK, NumbersTypeOK
    <2>6. lastAckSeq < new /\ receiveSeq # new /\ lastAckSeq <= new
      BY <2>5
    <2>7. NotSaid(toHost, new)
      <3>1. \A i \in 1 .. Len(toHost) : toHost[i].seq <= mcuSeq
        BY LinkFacts DEF InOrder
      <3>2. \A i \in 1 .. Len(toHost) : toHost[i].seq \in Nat
        <4>1. \A i \in 1 .. Len(toHost) : toHost[i] \in Messages
          BY LinkFacts, ElementOfSeq
        <4>. QED
          BY <4>1 DEF Messages
      <3>. QED
        BY <2>5, <3>1, <3>2 DEF NotSaid
    <2>. HIDE DEF new, b
    <2>8. t \in Seq(Messages) /\ \A i \in 1 .. Len(t) : t[i].data
      BY <2>4, AnswersProperties, AnswersAreData DEF b
    <2>. HIDE DEF t
    <2>9. NotSaid(toHost \o t, new)
      BY <2>7, <2>8, LinkFacts, NotSaidConcat
    <2>. QED
      BY <2>1, <2>2, <2>3, <2>4, <2>6, <2>9 DEF HandlingInv
  <1>17. CASE McuAcknowledge
    <2>1. mcuBlock' = NoBlock /\ UNCHANGED <<lastAckSeq, mcuSeq>>
      BY <1>17 DEF McuAcknowledge, queueVars, ackVars
    <2>. QED
      BY <2>1, <1>25
  <1>18. CASE McuNak
    <2>1. mcuBlock' = NoBlock /\ UNCHANGED <<lastAckSeq, mcuSeq>>
      BY <1>18 DEF McuNak, queueVars, ackVars, mcuVars
    <2>. QED
      BY <2>1, <1>25
  <1>19. CASE McuReport
    <2>. DEFINE new == Answer(mcuSeq, NoCommand)
                t == <<new>>
    <2>1. /\ toHost' = Append(toHost, new)
          /\ UNCHANGED <<lastAckSeq, lastAckBytes, receiveSeq, mcuSeq, mcuBlock, built>>
      BY <1>19 DEF McuReport, queueVars, seqVars, ackVars
    <2>2. new \in Messages /\ new.data
      BY LinkFacts DEF Answer, Messages
    <2>. HIDE DEF new
    <2>3. Append(toHost, new) = toHost \o t
      BY <2>2, LinkFacts, AppendIsConcat
    <2>4. t \in Seq(Messages) /\ \A i \in 1 .. Len(t) : t[i].data
      BY <2>2
    <2>. HIDE DEF t
    <2>5. NotSaid(toHost, mcuSeq) => NotSaid(toHost \o t, mcuSeq)
      BY <2>4, LinkFacts, NotSaidConcat
    <2>. QED
      BY <2>1, <2>3, <2>5 DEF HandlingInv
  <1>20. CASE LoseBlock
    <2>1. mcuBlock' = NoBlock /\ UNCHANGED <<lastAckSeq, mcuSeq>>
      BY <1>20 DEF LoseBlock, queueVars, ackVars, mcuVars
    <2>. QED
      BY <2>1, <1>25
  <1>21. CASE LoseMessage
    <2>1. /\ toHost # <<>> /\ toHost' = Tail(toHost)
          /\ UNCHANGED <<lastAckSeq, lastAckBytes, receiveSeq, mcuSeq, mcuBlock, built>>
      BY <1>21 DEF LoseMessage, queueVars, seqVars, ackVars, mcuVars
    <2>2. NotSaid(toHost, mcuSeq) => NotSaid(Tail(toHost), mcuSeq)
      BY <2>1, LinkFacts, NotSaidTail
    <2>. QED
      BY <2>1, <2>2 DEF HandlingInv
  <1>22. CASE Tick
    <2>1. UNCHANGED <<lastAckSeq, lastAckBytes, receiveSeq, mcuSeq, mcuBlock, built, toHost>>
      BY <1>22 DEF Tick, queueVars, seqVars, ackVars, mcuVars, wireVars
    <2>. QED
      BY <2>1, <1>24
  <1>23. CASE UNCHANGED vars
    <2>1. UNCHANGED <<lastAckSeq, lastAckBytes, receiveSeq, mcuSeq, mcuBlock, built, toHost>>
      BY <1>23 DEF vars, queueVars, seqVars, ackVars, mcuVars, wireVars
    <2>. QED
      BY <2>1, <1>24
  <1>. QED
    BY <1>1, <1>2, <1>3, <1>4, <1>5, <1>6, <1>7, <1>8, <1>9, <1>10, <1>11, <1>12, <1>13, <1>14, <1>15, <1>16, <1>17, <1>18, <1>19, <1>20, <1>21, <1>22, <1>23
       DEF LinkNext, Next, BackgroundStep, CommandStep, PullerStep, McuStep, Quiet
-----------------------------------------------------------------------------
(* The controller's buffer never holds more than the window.               *)

LEMMA InitBuffer ==
    ASSUME McuStart = {1}, Init
    PROVE  BufferInv
  <1>1. /\ toMcu = <<>> /\ outBuf = <<>> /\ sentQueue = <<>> /\ block = <<>> /\ bg = "poll"
        /\ lastAckSeq = 0 /\ lastAckBytes = 0 /\ receiveSeq = 1 /\ mcuSeq = 1 /\ mcuBlock = NoBlock
    BY McuStart = {1} DEF Init
  <1>2. BlockMax \in Nat /\ Window \in Nat
    BY LinkAssumption
  <1>3. WindowInv
    <2>1. Answered = 0 /\ 0 \in Nat /\ <<>> \in Seq(Blocks)
      BY <1>1 DEF Answered
    <2>2. Bytes(0, <<>>) = 0
      BY <2>1, BytesFacts
    <2>3. Small(<<>>)
      BY DEF Small
    <2>4. Len(<<>>) <= BlockMax /\ 0 <= BlockMax /\ 0 + 0 <= Window
      BY <1>2
    <2>. QED
      BY <1>1, <2>1, <2>2, <2>3, <2>4 DEF WindowInv
  <1>4. OnceInv
    <2>1. <<>> \in Seq(Blocks)
      OBVIOUS
    <2>2. Wire = <<>>
      BY <1>1, <2>1, ConcatEmptySeq DEF Wire
    <2>. QED
      BY <2>2 DEF OnceInv, Ascending
  <1>5. HandlingInv
    BY <1>1 DEF HandlingInv
  <1>. QED
    BY <1>3, <1>4, <1>5 DEF BufferInv

LEMMA NextBuffer ==
    ASSUME IInv, BlocksInv, BufferInv, [LinkNext]_vars
    PROVE  BufferInv'
  BY WindowInvStep, OnceInvStep, HandlingInvStep DEF BufferInv

\* The blocks under way, which the controller has not taken, are blocks that the
\* host counts, and so is the one that is being handled.
LEMMA BufferBounded ==
    ASSUME IInv, BlocksInv, BufferInv, Window # 0, resent = {}
    PROVE  Bytes(Len(mcuBlock.cmds), toMcu) <= Window
  <1>. DEFINE n == Len(sentQueue)
              e == [i \in 1 .. Len(toMcu) |-> toMcu[i].seq - receiveSeq + 1]
              a == Len(mcuBlock.cmds)
              k == IF mcuBlock # NoBlock /\ receiveSeq # mcuSeq THEN mcuSeq - receiveSeq ELSE 0
  <1>1. /\ sendSeq \in Nat /\ receiveSeq \in Nat /\ mcuSeq \in Nat /\ n \in Nat
        /\ receiveSeq <= mcuSeq /\ mcuSeq <= sendSeq /\ n = sendSeq - receiveSeq
        /\ toMcu \in Seq(Blocks) /\ sentQueue \in Seq(Blocks) /\ outBuf \in Seq(Blocks)
    BY LinkFacts DEF BlocksInv, BuiltInv
  <1>2. /\ Len(toMcu) \in Nat
        /\ \A i \in 1 .. Len(toMcu) : i \in 1 .. Len(Wire) /\ Wire[i] = toMcu[i]
    BY <1>1, ConcatProperties DEF Wire
  <1>3. Ascending(toMcu, mcuSeq)
    <2>1. Ascending(Wire, mcuSeq)
      BY resent = {} DEF BufferInv, OnceInv
    <2>2. \A i \in 1 .. Len(toMcu) : \A j \in 1 .. i - 1 : j \in 1 .. Len(toMcu)
      BY <1>2
    <2>. QED
      BY <1>2, <2>1, <2>2 DEF Ascending
  <1>4. ASSUME NEW c \in 1 .. n
        PROVE  sentQueue[c].seq = receiveSeq + c - 1 /\ sentQueue[c] \in Range(built)
    <2>1. sentQueue[c] \in Range(sentQueue)
      BY <1>1, QueueRange
    <2>. QED
      BY <2>1 DEF IInv, SentInv, SentIsOutstanding, Numbered, BlocksInv, KnownInv
  <1>5. ASSUME NEW i \in 1 .. Len(toMcu)
        PROVE  /\ toMcu[i].seq \in Nat /\ mcuSeq <= toMcu[i].seq
               /\ e[i] \in (mcuSeq - receiveSeq) + 1 .. n /\ toMcu[i] = sentQueue[e[i]]
    <2>1. toMcu[i].seq \in Nat
      <3>1. toMcu[i] \in Blocks
        BY <1>1, ElementOfSeq
      <3>. QED
        BY <3>1 DEF Blocks
    <2>2. mcuSeq <= toMcu[i].seq
      BY <1>3 DEF Ascending
    <2>3. toMcu[i].seq < sendSeq
      BY <1>2, LinkFacts DEF Recent
    <2>4. e[i] = toMcu[i].seq - receiveSeq + 1
      OBVIOUS
    <2>. HIDE DEF e, n
    <2>5. e[i] \in (mcuSeq - receiveSeq) + 1 .. n
      BY <1>1, <2>1, <2>2, <2>3, <2>4
    <2>6. PICK c \in 1 .. n : c = e[i]
      BY <1>1, <2>5
    <2>7. sentQueue[c].seq = toMcu[i].seq /\ sentQueue[c] \in Range(built)
      <3>1. sentQueue[c].seq = receiveSeq + c - 1 /\ sentQueue[c] \in Range(built)
        BY <1>4
      <3>2. c = toMcu[i].seq - receiveSeq + 1
        BY <2>4, <2>6
      <3>. QED
        BY <1>1, <2>1, <3>1, <3>2
    <2>8. toMcu[i] \in Range(built)
      <3>1. Wire \in Seq(Blocks)
        BY LinkFacts
      <3>2. toMcu[i] \in Range(Wire)
        BY <1>2, <3>1, QueueRange
      <3>. QED
        BY <3>2 DEF BlocksInv, KnownInv
    <2>9. toMcu[i] = sentQueue[c]
      BY <2>7, <2>8, SameBlock
    <2>. QED
      BY <2>1, <2>2, <2>5, <2>6, <2>9
  <1>6. k \in 0 .. n /\ k <= mcuSeq - receiveSeq
    BY <1>1
  <1>7. a \in Nat
    <2>1. mcuBlock.cmds \in Seq(Commands)
      <3>1. mcuBlock \in Blocks
        BY DEF IInv, TypeOK, LinkTypeOK
      <3>. QED
        BY <3>1 DEF Blocks
    <2>. QED
      BY <2>1, LenProperties
  <1>8. Answered \in Nat /\ Bytes(Answered, sentQueue) \in Nat /\ Window \in Nat
    BY AnsweredFits DEF BufferInv
  <1>9. k = 0 => a <= Answered
    <2>1. CASE mcuBlock = NoBlock
      <3>1. a = 0
        BY <2>1 DEF NoBlock
      <3>. QED
        BY <1>8, <3>1
    <2>2. CASE mcuBlock # NoBlock /\ receiveSeq = mcuSeq
      <3>1. Answered = a
        BY <2>2 DEF BufferInv, HandlingInv, Answered
      <3>. QED
        BY <1>7, <3>1
    <2>3. CASE mcuBlock # NoBlock /\ receiveSeq # mcuSeq
      BY <1>1, <2>3
    <2>. QED
      BY <2>1, <2>2, <2>3
  <1>10. k # 0 => a <= Len(sentQueue[k].cmds)
    <2>1. SUFFICES ASSUME k # 0 PROVE a <= Len(sentQueue[k].cmds)
      OBVIOUS
    <2>2. mcuBlock # NoBlock /\ k = mcuSeq - receiveSeq /\ k \in 1 .. n
      BY <1>6, <2>1
    <2>3. sentQueue[k].seq = mcuSeq - 1 /\ sentQueue[k] \in Range(built)
      BY <1>1, <1>4, <2>2
    <2>4. mcuBlock.seq = mcuSeq - 1 /\ mcuBlock \in Range(built)
      BY <2>2 DEF BufferInv, HandlingInv
    <2>5. mcuBlock = sentQueue[k]
      BY <2>3, <2>4, SameBlock
    <2>. QED
      BY <1>7, <2>5
  <1>11. ASSUME NEW i \in 1 .. Len(toMcu)
         PROVE  /\ e[i] \in k + 1 .. n /\ toMcu[i] = sentQueue[e[i]]
                /\ \A j \in 1 .. i - 1 : e[j] < e[i]
    <2>. HIDE DEF k
    <2>1. e[i] \in k + 1 .. n
      BY <1>1, <1>5, <1>6
    <2>2. ASSUME NEW j \in 1 .. i - 1
          PROVE  e[j] < e[i]
      <3>1. j \in 1 .. Len(toMcu)
        BY <1>2
      <3>2. toMcu[j].seq < toMcu[i].seq
        BY <1>3 DEF Ascending
      <3>3. toMcu[j].seq \in Nat /\ toMcu[i].seq \in Nat
        BY <1>5, <3>1
      <3>4. e[j] = toMcu[j].seq - receiveSeq + 1 /\ e[i] = toMcu[i].seq - receiveSeq + 1
        BY <3>1
      <3>. HIDE DEF e
      <3>5. PICK x \in Nat, y \in Nat :
               x < y /\ e[j] = x - receiveSeq + 1 /\ e[i] = y - receiveSeq + 1
        BY <3>2, <3>3, <3>4
      <3>. QED
        BY <1>1, <3>5
    <2>. QED
      BY <1>5, <2>1, <2>2
  <1>. HIDE DEF k, e, a
  <1>12. Bytes(a, toMcu) <= Bytes(Answered, sentQueue)
    BY <1>1, <1>6, <1>7, <1>8, <1>9, <1>10, <1>11, BytesWithin DEF n
  <1>13. Bytes(Answered, sentQueue) <= Window
    <2>1. Bytes(Answered, sentQueue) + (IF bg = "build" THEN BlockMax ELSE 0) <= Window
      BY Window # 0 DEF BufferInv, WindowInv
    <2>2. BlockMax \in Nat
      BY LinkAssumption
    <2>. QED
      BY <1>8, <2>1, <2>2
  <1>14. Bytes(a, toMcu) \in Nat
    BY <1>1, <1>7, BytesFacts
  <1>. QED
    BY <1>8, <1>12, <1>13, <1>14 DEF a

\* When the controller expects block 1 at first and nothing has been sent twice,
\* the blocks under way and the one the controller is handling never are longer
\* than the receive window: need_ack_bytes counts them all, the one whose answer
\* has arrived before its acknowledgement included.
THEOREM BufferNeverOverflows ==
    ASSUME McuStart = {1}
    PROVE  Spec => []BufferFits
  <1>1. Init => IInv /\ BlocksInv /\ BufferInv
    BY InitInv, InitBlocks, InitBuffer
  <1>2. IInv /\ BlocksInv /\ BufferInv /\ [Next]_vars => (IInv /\ BlocksInv /\ BufferInv)'
    BY NextInv, NextBlocks, NextBuffer DEF LinkNext
  <1>3. IInv /\ BlocksInv /\ BufferInv => BufferFits
    BY BufferBounded DEF BufferFits, Bytes
  <1>. QED
    BY <1>1, <1>2, <1>3, PTL DEF Spec
-----------------------------------------------------------------------------
(* The channel: what has been carried out of each queue.                   *)

\* f is the function by which Taking folds the first n of cmds.
TakingFolds(f, q, s, cmds, n) ==
    f = [d \in SUBSET (1 .. n) |->
            IF d = {} THEN s ELSE Taken(q, f[d \ {Max(d)}], cmds[Max(d)])]

LEMMA TakingExtends ==
    ASSUME NEW q, NEW s, NEW cmds, NEW n \in Nat \ {0}, NEW f, TakingFolds(f, q, s, cmds, n - 1)
    PROVE  \E g : TakingFolds(g, q, s, cmds, n)
  <1>. DEFINE D == 1 .. n - 1
              g == [d \in SUBSET (1 .. n) |->
                       IF n \in d THEN Taken(q, f[d \ {n}], cmds[n]) ELSE f[d]]
              h == [d \in SUBSET (1 .. n) |->
                       IF d = {} THEN s ELSE Taken(q, g[d \ {Max(d)}], cmds[Max(d)])]
  <1>1. \A d \in SUBSET D :
           f[d] = IF d = {} THEN s ELSE Taken(q, f[d \ {Max(d)}], cmds[Max(d)])
    BY DEF TakingFolds
  <1>2. ASSUME NEW d \in SUBSET (1 .. n)
        PROVE  g[d] = h[d]
    <2>1. CASE n \in d
      <3>1. Max(d) = n
        BY <2>1, LargestIs
      <3>2. d \ {n} \in SUBSET (1 .. n) /\ n \notin d \ {n} /\ d # {}
        BY <2>1
      <3>. QED
        BY <2>1, <3>1, <3>2
    <2>2. CASE n \notin d /\ d # {}
      <3>1. d \in SUBSET D
        BY <2>2
      <3>2. d \ {Max(d)} \in SUBSET (1 .. n) /\ n \notin d \ {Max(d)}
        BY <2>2
      <3>. QED
        BY <1>1, <2>2, <3>1, <3>2
    <2>3. CASE d = {}
      BY <1>1, <2>3
    <2>. QED
      BY <2>1, <2>2, <2>3
  <1>3. g = h
    BY <1>2
  <1>. QED
    BY <1>3 DEF TakingFolds

LEMMA TakingExists ==
    ASSUME NEW q, NEW s, NEW cmds, NEW n \in Nat
    PROVE  \E f : TakingFolds(f, q, s, cmds, n)
  <1>. DEFINE T == {k \in 0 .. n : ~\E f : TakingFolds(f, q, s, cmds, k)}
  <1>1. SUFFICES ASSUME T # {} PROVE FALSE
    <2>1. n \in 0 .. n
      OBVIOUS
    <2>. QED
      BY <2>1
  <1>2. T \in SUBSET Nat
    OBVIOUS
  <1>3. \A k : k \in T <=> k \in 0 .. n /\ ~\E f : TakingFolds(f, q, s, cmds, k)
    OBVIOUS
  <1>. HIDE DEF T
  <1>4. PICK t \in T : \A u \in T : t <= u
    BY <1>1, <1>2, LeastNatural
  <1>5. t # 0
    <2>. DEFINE f == [d \in SUBSET (1 .. 0) |-> s]
    <2>1. SUBSET (1 .. 0) = {{}}
      OBVIOUS
    <2>2. TakingFolds(f, q, s, cmds, 0)
      BY <2>1 DEF TakingFolds
    <2>. QED
      BY <1>3, <2>2
  <1>6. t \in Nat \ {0} /\ t - 1 \in 0 .. n /\ ~(t <= t - 1)
    BY <1>3, <1>5
  <1>7. PICK f : TakingFolds(f, q, s, cmds, t - 1)
    BY <1>3, <1>4, <1>6
  <1>. QED
    BY <1>3, <1>6, <1>7, TakingExtends

\* f takes the commands one after the other.
TakenBy(f, q, cmds, n) ==
    \A i \in 1 .. n : f[i] = Taken(q, f[i - 1], cmds[i])

LEMMA TakingSteps ==
    ASSUME NEW q, NEW s, NEW S, NEW cmds \in Seq(S)
    PROVE  \E f : f[0] = s /\ f[Len(cmds)] = Taking(q, s, cmds) /\ TakenBy(f, q, cmds, Len(cmds))
  <1>. DEFINE n == Len(cmds)
  <1>0. n \in Nat /\ DOMAIN cmds = 1 .. n
    OBVIOUS
  <1>. DEFINE iter == CHOOSE g : TakingFolds(g, q, s, cmds, n)
  <1>1. Taking(q, s, cmds) = iter[1 .. n]
    BY <1>0 DEF Taking, FoldLeft, MapThenFoldSet, TakingFolds
  <1>2. TakingFolds(iter, q, s, cmds, n)
    BY <1>0, TakingExists
  <1>. HIDE DEF iter, n
  <1>. DEFINE f == [i \in 0 .. n |-> iter[1 .. i]]
  <1>3. f[0] = s
    <2>1. 1 .. 0 = {} /\ 1 .. 0 \in SUBSET (1 .. n)
      OBVIOUS
    <2>. QED
      BY <1>0, <1>2, <2>1 DEF TakingFolds
  <1>4. ASSUME NEW i \in 1 .. n
        PROVE  f[i] = Taken(q, f[i - 1], cmds[i])
    <2>. DEFINE d == 1 .. i
    <2>1. i \in Nat \ {0} /\ d \in SUBSET (1 .. i) /\ i \in d
      BY <1>0
    <2>2. Max(d) = i
      BY <2>1, LargestIs
    <2>3. d \ {i} = 1 .. i - 1 /\ d # {} /\ d \in SUBSET (1 .. n)
      <3>1. \A x : x \in d \ {i} <=> x \in 1 .. i - 1
        BY <1>0
      <3>2. d \ {i} = 1 .. i - 1
        BY <3>1
      <3>3. d # {}
        BY <2>1
      <3>4. \A x \in d : x \in 1 .. n
        BY <1>0
      <3>. QED
        BY <3>2, <3>3, <3>4
    <2>4. iter[d] = Taken(q, iter[d \ {Max(d)}], cmds[Max(d)])
      BY <1>2, <2>3 DEF TakingFolds
    <2>5. iter[d] = Taken(q, iter[1 .. i - 1], cmds[i])
      BY <2>2, <2>3, <2>4
    <2>6. i \in 0 .. n /\ i - 1 \in 0 .. n
      BY <1>0
    <2>7. f[i] = iter[d] /\ f[i - 1] = iter[1 .. i - 1]
      BY <2>6
    <2>. QED
      BY <2>5, <2>7
  <1>5. f[n] = Taking(q, s, cmds)
    BY <1>0, <1>1
  <1>. HIDE DEF f
  <1>. QED
    BY <1>3, <1>4, <1>5 DEF n, TakenBy

\* f is the function by which CommandsOf folds the first n of blocks.
CommandsFolds(f, q, blocks, n) ==
    f = [d \in SUBSET (1 .. n) |->
            IF d = {} THEN <<>> ELSE Taking(q, f[d \ {Max(d)}], blocks[Max(d)].cmds)]

LEMMA CommandsExtends ==
    ASSUME NEW q, NEW blocks, NEW n \in Nat \ {0}, NEW f, CommandsFolds(f, q, blocks, n - 1)
    PROVE  \E g : CommandsFolds(g, q, blocks, n)
  <1>. DEFINE D == 1 .. n - 1
              g == [d \in SUBSET (1 .. n) |->
                       IF n \in d THEN Taking(q, f[d \ {n}], blocks[n].cmds) ELSE f[d]]
              h == [d \in SUBSET (1 .. n) |->
                       IF d = {} THEN <<>> ELSE Taking(q, g[d \ {Max(d)}], blocks[Max(d)].cmds)]
  <1>1. \A d \in SUBSET D :
           f[d] = IF d = {} THEN <<>> ELSE Taking(q, f[d \ {Max(d)}], blocks[Max(d)].cmds)
    BY DEF CommandsFolds
  <1>2. ASSUME NEW d \in SUBSET (1 .. n)
        PROVE  g[d] = h[d]
    <2>1. CASE n \in d
      <3>1. Max(d) = n
        BY <2>1, LargestIs
      <3>2. d \ {n} \in SUBSET (1 .. n) /\ n \notin d \ {n} /\ d # {}
        BY <2>1
      <3>. QED
        BY <2>1, <3>1, <3>2
    <2>2. CASE n \notin d /\ d # {}
      <3>1. d \in SUBSET D
        BY <2>2
      <3>2. d \ {Max(d)} \in SUBSET (1 .. n) /\ n \notin d \ {Max(d)}
        BY <2>2
      <3>. QED
        BY <1>1, <2>2, <3>1, <3>2
    <2>3. CASE d = {}
      BY <1>1, <2>3
    <2>. QED
      BY <2>1, <2>2, <2>3
  <1>3. g = h
    BY <1>2
  <1>. QED
    BY <1>3 DEF CommandsFolds

LEMMA CommandsExists ==
    ASSUME NEW q, NEW blocks, NEW n \in Nat
    PROVE  \E f : CommandsFolds(f, q, blocks, n)
  <1>. DEFINE T == {k \in 0 .. n : ~\E f : CommandsFolds(f, q, blocks, k)}
  <1>1. SUFFICES ASSUME T # {} PROVE FALSE
    <2>1. n \in 0 .. n
      OBVIOUS
    <2>. QED
      BY <2>1
  <1>2. T \in SUBSET Nat
    OBVIOUS
  <1>3. \A k : k \in T <=> k \in 0 .. n /\ ~\E f : CommandsFolds(f, q, blocks, k)
    OBVIOUS
  <1>. HIDE DEF T
  <1>4. PICK t \in T : \A u \in T : t <= u
    BY <1>1, <1>2, LeastNatural
  <1>5. t # 0
    <2>. DEFINE f == [d \in SUBSET (1 .. 0) |-> <<>>]
    <2>1. SUBSET (1 .. 0) = {{}}
      OBVIOUS
    <2>2. CommandsFolds(f, q, blocks, 0)
      BY <2>1 DEF CommandsFolds
    <2>. QED
      BY <1>3, <2>2
  <1>6. t \in Nat \ {0} /\ t - 1 \in 0 .. n /\ ~(t <= t - 1)
    BY <1>3, <1>5
  <1>7. PICK f : CommandsFolds(f, q, blocks, t - 1)
    BY <1>3, <1>4, <1>6
  <1>. QED
    BY <1>3, <1>6, <1>7, CommandsExtends

\* f takes the commands of one block after the other.
TakenByBlocks(f, q, blocks, n) ==
    \A i \in 1 .. n : f[i] = Taking(q, f[i - 1], blocks[i].cmds)

LEMMA CommandsSteps ==
    ASSUME NEW q, NEW S, NEW blocks \in Seq(S)
    PROVE  \E f : f[0] = <<>> /\ f[Len(blocks)] = CommandsOf(q, blocks) /\ TakenByBlocks(f, q, blocks, Len(blocks))
  <1>. DEFINE n == Len(blocks)
  <1>0. n \in Nat /\ DOMAIN blocks = 1 .. n
    OBVIOUS
  <1>. DEFINE iter == CHOOSE g : CommandsFolds(g, q, blocks, n)
  <1>1. CommandsOf(q, blocks) = iter[1 .. n]
    BY <1>0 DEF CommandsOf, FoldLeft, MapThenFoldSet, CommandsFolds
  <1>2. CommandsFolds(iter, q, blocks, n)
    BY <1>0, CommandsExists
  <1>. HIDE DEF iter, n
  <1>. DEFINE f == [i \in 0 .. n |-> iter[1 .. i]]
  <1>3. f[0] = <<>>
    <2>1. 1 .. 0 = {} /\ 1 .. 0 \in SUBSET (1 .. n)
      OBVIOUS
    <2>. QED
      BY <1>0, <1>2, <2>1 DEF CommandsFolds
  <1>4. ASSUME NEW i \in 1 .. n
        PROVE  f[i] = Taking(q, f[i - 1], blocks[i].cmds)
    <2>. DEFINE d == 1 .. i
    <2>1. i \in Nat \ {0} /\ d \in SUBSET (1 .. i) /\ i \in d
      BY <1>0
    <2>2. Max(d) = i
      BY <2>1, LargestIs
    <2>3. d \ {i} = 1 .. i - 1 /\ d # {} /\ d \in SUBSET (1 .. n)
      <3>1. \A x : x \in d \ {i} <=> x \in 1 .. i - 1
        BY <1>0
      <3>2. d \ {i} = 1 .. i - 1
        BY <3>1
      <3>3. d # {}
        BY <2>1
      <3>4. \A x \in d : x \in 1 .. n
        BY <1>0
      <3>. QED
        BY <3>2, <3>3, <3>4
    <2>4. iter[d] = Taking(q, iter[d \ {Max(d)}], blocks[Max(d)].cmds)
      BY <1>2, <2>3 DEF CommandsFolds
    <2>5. iter[d] = Taking(q, iter[1 .. i - 1], blocks[i].cmds)
      BY <2>2, <2>3, <2>4
    <2>6. i \in 0 .. n /\ i - 1 \in 0 .. n
      BY <1>0
    <2>7. f[i] = iter[d] /\ f[i - 1] = iter[1 .. i - 1]
      BY <2>6
    <2>. QED
      BY <2>5, <2>7
  <1>5. f[n] = CommandsOf(q, blocks)
    BY <1>0, <1>1
  <1>. HIDE DEF f
  <1>. QED
    BY <1>3, <1>4, <1>5 DEF n, TakenByBlocks

\* t begins with s.
Begins(s, t) == Len(s) <= Len(t) /\ Follows(s, t)

LEMMA PrefixIs ==
    ASSUME NEW S, NEW s \in Seq(S), NEW t \in Seq(S), Begins(s, t)
    PROVE  IsPrefix(s, t)
  <1>. DEFINE n == Len(s)
              u == SubSeq(s, 1, n)
              v == SubSeq(t, 1, n)
  <1>1. n \in Nat /\ Len(t) \in Nat /\ n <= Len(t) /\ \A i \in 1 .. n : s[i] = t[i]
    BY DEF Begins, Follows
  <1>2. \A i \in 1 .. n : s[i] \in S /\ t[i] \in S
    BY <1>1, ElementOfSeq
  <1>3. u \in Seq(S) /\ Len(u) = n /\ \A i \in 1 .. n : u[i] = s[i]
    BY <1>1, <1>2
  <1>4. v \in Seq(S) /\ Len(v) = n /\ \A i \in 1 .. n : v[i] = t[i]
    BY <1>1, <1>2
  <1>. HIDE DEF u, v
  <1>5. u = v
    BY <1>1, <1>3, <1>4, SeqEqual
  <1>. QED
    BY <1>1, <1>5 DEF IsPrefix, u, v

LEMMA BeginsConcat ==
    ASSUME NEW S, NEW s \in Seq(S), NEW t \in Seq(S)
    PROVE  s \o t \in Seq(S) /\ Begins(s, s \o t)
  <1>1. Len(s) \in Nat /\ Len(t) \in Nat
    OBVIOUS
  <1>2. /\ s \o t \in Seq(S) /\ Len(s \o t) = Len(s) + Len(t)
        /\ \A i \in 1 .. Len(s) + Len(t) :
              (s \o t)[i] = IF i <= Len(s) THEN s[i] ELSE t[i - Len(s)]
    BY ConcatProperties
  <1>. QED
    BY <1>1, <1>2 DEF Begins, Follows

LEMMA BeginsLater ==
    ASSUME NEW S, NEW s \in Seq(S), NEW t \in Seq(S), NEW u \in Seq(S),
           Begins(s, t), Begins(t, u)
    PROVE  Begins(s, u)
  <1>1. Len(s) \in Nat /\ Len(t) \in Nat /\ Len(u) \in Nat
    OBVIOUS
  <1>. QED
    BY <1>1 DEF Begins, Follows

\* Each f[i] begins with the one before.
Grows(f, S, n) ==
    \A i \in 1 .. n :
        f[i - 1] \in Seq(S) => f[i] \in Seq(S) /\ Begins(f[i - 1], f[i])

LEMMA ChainGrows ==
    ASSUME NEW S, NEW n \in Nat, NEW f, f[0] \in Seq(S), Grows(f, S, n)
    PROVE  \A i \in 0 .. n : f[i] \in Seq(S) /\ Begins(f[0], f[i])
  <1>. DEFINE T == {i \in 0 .. n : ~(f[i] \in Seq(S) /\ Begins(f[0], f[i]))}
  <1>1. SUFFICES ASSUME T # {} PROVE FALSE
    OBVIOUS
  <1>2. T \in SUBSET Nat
    OBVIOUS
  <1>3. \A i : i \in T <=> i \in 0 .. n /\ ~(f[i] \in Seq(S) /\ Begins(f[0], f[i]))
    OBVIOUS
  <1>. HIDE DEF T
  <1>4. PICK t \in T : \A u \in T : t <= u
    BY <1>1, <1>2, LeastNatural
  <1>5. Begins(f[0], f[0])
    BY DEF Begins, Follows
  <1>6. t \in 1 .. n /\ t - 1 \in 0 .. n /\ ~(t <= t - 1)
    BY <1>3, <1>5
  <1>7. f[t - 1] \in Seq(S) /\ Begins(f[0], f[t - 1])
    BY <1>3, <1>4, <1>6
  <1>8. f[t] \in Seq(S) /\ Begins(f[t - 1], f[t])
    BY <1>6, <1>7 DEF Grows
  <1>9. Begins(f[0], f[t])
    BY <1>7, <1>8, BeginsLater
  <1>. QED
    BY <1>3, <1>8, <1>9

LEMMA TakenGrows ==
    ASSUME NEW q, NEW s \in Seq(Commands), NEW c \in Commands
    PROVE  Taken(q, s, c) \in Seq(Commands) /\ Begins(s, Taken(q, s, c))
  <1>1. Len(s) \in Nat
    OBVIOUS
  <1>2. /\ Append(s, c) \in Seq(Commands) /\ Len(Append(s, c)) = Len(s) + 1
        /\ \A i \in 1 .. Len(s) : Append(s, c)[i] = s[i]
    BY AppendProperties
  <1>. QED
    BY <1>1, <1>2 DEF Taken, Begins, Follows

\* Taking adds commands at the end.
LEMMA TakingGrows ==
    ASSUME NEW q, NEW s \in Seq(Commands), NEW cmds \in Seq(Commands)
    PROVE  Taking(q, s, cmds) \in Seq(Commands) /\ Begins(s, Taking(q, s, cmds))
  <1>. DEFINE n == Len(cmds)
  <1>1. n \in Nat /\ \A i \in 1 .. n : cmds[i] \in Commands
    BY ElementOfSeq
  <1>2. PICK f : f[0] = s /\ f[n] = Taking(q, s, cmds) /\ TakenBy(f, q, cmds, n)
    BY TakingSteps
  <1>. HIDE DEF n
  <1>3. Grows(f, Commands, n)
    BY <1>1, <1>2, TakenGrows DEF Grows, TakenBy
  <1>4. \A i \in 0 .. n : f[i] \in Seq(Commands) /\ Begins(f[0], f[i])
    BY <1>1, <1>2, <1>3, ChainGrows
  <1>. QED
    BY <1>1, <1>2, <1>4

LEMMA TakingEmpty ==
    ASSUME NEW q, NEW s
    PROVE  Taking(q, s, <<>>) = s
  <1>1. PICK none \in Seq(Commands) : none = <<>> /\ Len(none) = 0
    <2>1. <<>> \in Seq(Commands) /\ Len(<<>>) = 0
      OBVIOUS
    <2>. QED
      BY <2>1
  <1>2. PICK f : f[0] = s /\ f[Len(none)] = Taking(q, s, none)
    BY TakingSteps
  <1>. QED
    BY <1>1, <1>2

LEMMA TakingAppend ==
    ASSUME NEW q, NEW s, NEW cmds \in Seq(Commands), NEW c \in Commands
    PROVE  Taking(q, s, Append(cmds, c)) = Taken(q, Taking(q, s, cmds), c)
  <1>. DEFINE n == Len(cmds)
              more == Append(cmds, c)
  <1>1. /\ n \in Nat /\ more \in Seq(Commands) /\ Len(more) = n + 1
        /\ \A i \in 1 .. n : more[i] = cmds[i]
        /\ more[n + 1] = c
    BY AppendProperties
  <1>. HIDE DEF more
  <1>2. PICK f : f[0] = s /\ f[n] = Taking(q, s, cmds) /\ TakenBy(f, q, cmds, n)
    BY TakingSteps
  <1>3. PICK g : g[0] = s /\ g[n + 1] = Taking(q, s, more) /\ TakenBy(g, q, more, n + 1)
    BY <1>1, TakingSteps
  <1>. HIDE DEF n
  <1>4. Agree(f, g, n)
    BY <1>1, <1>2, <1>3 DEF Agree, TakenBy
  <1>5. \A i \in 0 .. n : f[i] = g[i]
    BY <1>1, <1>2, <1>3, <1>4, SumEnds
  <1>6. g[n] = Taking(q, s, cmds)
    BY <1>1, <1>2, <1>5
  <1>7. PICK k \in 1 .. n + 1 : k = n + 1 /\ k - 1 = n
    BY <1>1
  <1>8. g[k] = Taken(q, g[k - 1], more[k])
    BY <1>3 DEF TakenBy
  <1>. QED
    BY <1>1, <1>3, <1>6, <1>7, <1>8 DEF more

LEMMA BlockCommands ==
    ASSUME NEW blocks \in Seq(Blocks)
    PROVE  /\ Len(blocks) \in Nat
           /\ \A i \in 1 .. Len(blocks) : blocks[i].cmds \in Seq(Commands)
  <1>1. Len(blocks) \in Nat /\ \A i \in 1 .. Len(blocks) : blocks[i] \in Blocks
    BY ElementOfSeq
  <1>. QED
    BY <1>1 DEF Blocks

LEMMA CommandsGrow ==
    ASSUME NEW q, NEW blocks \in Seq(Blocks), NEW n \in 0 .. Len(blocks),
           NEW f, f[n] \in Seq(Commands), TakenByBlocks(f, q, blocks, Len(blocks))
    PROVE  f[Len(blocks)] \in Seq(Commands) /\ Begins(f[n], f[Len(blocks)])
  <1>. DEFINE m == Len(blocks) - n
              g == [i \in 0 .. m |-> f[n + i]]
  <1>1. /\ Len(blocks) \in Nat /\ n \in Nat /\ m \in Nat /\ n + m = Len(blocks)
        /\ \A i \in 1 .. Len(blocks) : blocks[i].cmds \in Seq(Commands)
    BY BlockCommands
  <1>2. g[0] = f[n] /\ g[m] = f[Len(blocks)]
    BY <1>1
  <1>3. ASSUME NEW i \in 1 .. m, g[i - 1] \in Seq(Commands)
        PROVE  g[i] \in Seq(Commands) /\ Begins(g[i - 1], g[i])
    <2>1. PICK j \in 1 .. Len(blocks) : j = n + i
      BY <1>1
    <2>2. g[i] = f[j] /\ g[i - 1] = f[j - 1]
      BY <1>1, <2>1
    <2>3. f[j] = Taking(q, f[j - 1], blocks[j].cmds)
      BY <2>1 DEF TakenByBlocks
    <2>4. blocks[j].cmds \in Seq(Commands)
      BY <1>1
    <2>. HIDE DEF g
    <2>. QED
      BY <1>3, <2>2, <2>3, <2>4, TakingGrows
  <1>. HIDE DEF g, m
  <1>4. Grows(g, Commands, m)
    BY <1>3 DEF Grows
  <1>5. \A i \in 0 .. m : g[i] \in Seq(Commands) /\ Begins(g[0], g[i])
    BY <1>1, <1>2, <1>4, ChainGrows
  <1>6. m \in 0 .. m
    BY <1>1
  <1>. QED
    BY <1>2, <1>5, <1>6

\* What has been taken from the first blocks is what comes first of all blocks.
LEMMA CommandsBegin ==
    ASSUME NEW q, NEW some \in Seq(Blocks), NEW all \in Seq(Blocks), Begins(some, all)
    PROVE  /\ CommandsOf(q, some) \in Seq(Commands)
           /\ CommandsOf(q, all) \in Seq(Commands)
           /\ Begins(CommandsOf(q, some), CommandsOf(q, all))
  <1>. DEFINE n == Len(some)
              m == Len(all)
  <1>1. n \in Nat /\ m \in Nat /\ n \in 0 .. m /\ \A i \in 1 .. n : some[i] = all[i]
    BY DEF Begins, Follows
  <1>2. PICK f : f[0] = <<>> /\ f[n] = CommandsOf(q, some) /\ TakenByBlocks(f, q, some, n)
    BY CommandsSteps
  <1>3. PICK g : g[0] = <<>> /\ g[m] = CommandsOf(q, all) /\ TakenByBlocks(g, q, all, m)
    BY CommandsSteps
  <1>4. Agree(f, g, n)
    BY <1>1, <1>2, <1>3 DEF Agree, TakenByBlocks
  <1>5. f[n] = g[n]
    BY <1>1, <1>2, <1>3, <1>4, SumEnds
  <1>6. <<>> \in Seq(Commands) /\ 0 \in 0 .. n
    BY <1>1
  <1>7. f[n] \in Seq(Commands)
    BY <1>2, <1>6, CommandsGrow
  <1>8. g[m] \in Seq(Commands) /\ Begins(g[n], g[m])
    BY <1>1, <1>3, <1>5, <1>7, CommandsGrow
  <1>. QED
    BY <1>2, <1>3, <1>5, <1>7, <1>8

LEMMA CommandsAppend ==
    ASSUME NEW q, NEW blocks \in Seq(Blocks), NEW b \in Blocks
    PROVE  CommandsOf(q, Append(blocks, b)) = Taking(q, CommandsOf(q, blocks), b.cmds)
  <1>. DEFINE n == Len(blocks)
              more == Append(blocks, b)
  <1>1. /\ n \in Nat /\ more \in Seq(Blocks) /\ Len(more) = n + 1
        /\ \A i \in 1 .. n : more[i] = blocks[i]
        /\ more[n + 1] = b
    BY AppendProperties
  <1>. HIDE DEF more
  <1>2. PICK f : f[0] = <<>> /\ f[n] = CommandsOf(q, blocks) /\ TakenByBlocks(f, q, blocks, n)
    BY CommandsSteps
  <1>3. PICK g : g[0] = <<>> /\ g[n + 1] = CommandsOf(q, more) /\ TakenByBlocks(g, q, more, n + 1)
    BY <1>1, CommandsSteps
  <1>. HIDE DEF n
  <1>4. Agree(f, g, n)
    <2>1. ASSUME NEW i \in 1 .. n
          PROVE  /\ f[i] = Taking(q, f[i - 1], blocks[i].cmds)
                 /\ g[i] = Taking(q, g[i - 1], blocks[i].cmds)
      <3>1. i \in 1 .. n + 1 /\ more[i] = blocks[i]
        BY <1>1
      <3>. QED
        BY <1>2, <1>3, <3>1 DEF TakenByBlocks
    <2>. QED
      BY <2>1 DEF Agree
  <1>5. \A i \in 0 .. n : f[i] = g[i]
    BY <1>1, <1>2, <1>3, <1>4, SumEnds
  <1>6. g[n] = CommandsOf(q, blocks)
    BY <1>1, <1>2, <1>5
  <1>7. PICK k \in 1 .. n + 1 : k = n + 1 /\ k - 1 = n
    BY <1>1
  <1>8. g[k] = Taking(q, g[k - 1], more[k].cmds)
    BY <1>3 DEF TakenByBlocks
  <1>. QED
    BY <1>1, <1>3, <1>6, <1>7, <1>8 DEF more

LEMMA HeadMoves ==
    ASSUME NEW S, NEW s \in Seq(S), NEW t \in Seq(S), t # <<>>
    PROVE  Append(s, Head(t)) \o Tail(t) = s \o t
  <1>. DEFINE h == Head(t)
              u == Tail(t)
  <1>1. h \in S /\ u \in Seq(S) /\ <<h>> \in Seq(S)
    BY HeadTailProperties
  <1>2. t = <<h>> \o u
    <2>1. Len(t) \in Nat \ {0}
      OBVIOUS
    <2>2. /\ Len(u) = Len(t) - 1 /\ h = t[1]
          /\ \A i \in 1 .. Len(t) - 1 : u[i] = t[i + 1]
      BY <2>1, HeadTailProperties
    <2>. HIDE DEF h, u
    <2>. DEFINE w == <<h>> \o u
    <2>3. /\ w \in Seq(S) /\ Len(w) = 1 + Len(u)
          /\ \A i \in 1 .. 1 + Len(u) : w[i] = IF i <= 1 THEN h ELSE u[i - 1]
      <3>1. Len(<<h>>) = 1 /\ <<h>>[1] = h
        OBVIOUS
      <3>2. /\ w \in Seq(S) /\ Len(w) = Len(<<h>>) + Len(u)
            /\ \A i \in 1 .. Len(<<h>>) + Len(u) :
                  w[i] = IF i <= Len(<<h>>) THEN <<h>>[i] ELSE u[i - Len(<<h>>)]
        BY <1>1, ConcatProperties
      <3>. HIDE DEF w
      <3>. QED
        BY <1>1, <3>1, <3>2
    <2>. HIDE DEF w
    <2>4. Len(w) = Len(t)
      BY <2>1, <2>2, <2>3
    <2>5. ASSUME NEW i \in 1 .. Len(w)
          PROVE  w[i] = t[i]
      <3>1. CASE i = 1
        BY <2>1, <2>2, <2>3, <2>4, <3>1
      <3>2. CASE i # 1
        <4>1. PICK j \in 1 .. Len(t) - 1 : i = j + 1 /\ j = i - 1
          BY <2>1, <2>4, <3>2
        <4>2. w[i] = u[j] /\ u[j] = t[i]
          BY <2>1, <2>2, <2>3, <4>1
        <4>. QED
          BY <4>2
      <3>. QED
        BY <3>1, <3>2
    <2>6. w = t
      BY <2>3, <2>4, <2>5, SeqEqual
    <2>. QED
      BY <2>6 DEF w
  <1>3. Append(s, h) = s \o <<h>>
    BY <1>1, AppendIsConcat
  <1>. HIDE DEF h, u
  <1>4. (s \o <<h>>) \o u = s \o (<<h>> \o u)
    BY <1>1, ConcatAssociative
  <1>. QED
    BY <1>2, <1>3, <1>4 DEF h, u

LEMMA Associative ==
    \A s, t, u \in Seq(Commands) : (s \o t) \o u = s \o (t \o u)
  <1>. TAKE s, t, u \in Seq(Commands)
  <1>. QED
    BY ConcatAssociative

\* A first part of s is appended to what comes before it.
LEMMA PartMoves ==
    ASSUME NEW r \in Seq(Commands), NEW s \in Seq(Commands), NEW n \in 1 .. Len(s)
    PROVE  /\ SubSeq(s, 1, n) \in Seq(Commands) /\ SubSeq(s, n + 1, Len(s)) \in Seq(Commands)
           /\ Len(SubSeq(s, n + 1, Len(s))) = Len(s) - n
           /\ (r \o SubSeq(s, 1, n)) \o SubSeq(s, n + 1, Len(s)) = r \o s
  <1>. DEFINE a == SubSeq(s, 1, n)
              b == SubSeq(s, n + 1, Len(s))
  <1>1. Len(s) \in Nat /\ n \in Nat /\ \A i \in 1 .. Len(s) : s[i] \in Commands
    BY ElementOfSeq
  <1>2. a \in Seq(Commands) /\ b \in Seq(Commands) /\ Len(b) = Len(s) - n
    BY <1>1
  <1>3. a \o b = s
    <2>1. 1 \in 1 .. Len(s) + 1 /\ n \in 1 - 1 .. Len(s) /\ Len(s) \in n .. Len(s)
      BY <1>1
    <2>2. a \o b = SubSeq(s, 1, Len(s))
      BY <2>1, ConcatAdjacentSubSeq
    <2>. QED
      BY <2>2, SubSeqFull
  <1>4. PICK x \in Seq(Commands), y \in Seq(Commands) : x = a /\ y = b
    BY <1>2
  <1>5. (r \o x) \o y = r \o (x \o y)
    BY Associative
  <1>. QED
    BY <1>2, <1>3, <1>4, <1>5

\* The commands of q in the blocks that were built or are, and all those that
\* have been handed over.  With those its sender still has they are its program.
Packed(q) == Taking(q, CommandsOf(q, built), block)
Handed(q) == Packed(q) \o (ready[q] \o upcoming[q])
OrderInv == \A q \in Queues : Program[q] = Handed(q) \o unsent[q]

LEMMA OrderFacts ==
    ASSUME IInv, NEW q \in Queues
    PROVE  /\ {ready[q], upcoming[q], unsent[q], block, Program[q]} \subseteq Seq(Commands)
           /\ built \in Seq(Blocks) /\ executed \in Seq(Blocks)
           /\ {ready[q] \o upcoming[q], CommandsOf(q, built), Packed(q), Handed(q)}
                 \subseteq Seq(Commands)
  <1>1. /\ ready[q] \in Seq(Commands) /\ upcoming[q] \in Seq(Commands)
        /\ unsent[q] \in Seq(Commands) /\ block \in Seq(Commands)
        /\ Program[q] \in Seq(Commands)
    BY CommandsAssumption DEF IInv, TypeOK, SenderTypeOK
  <1>2. built \in Seq(Blocks) /\ executed \in Seq(Blocks)
    BY DEF IInv, TypeOK, HistoryTypeOK
  <1>3. CommandsOf(q, built) \in Seq(Commands)
    <2>1. Begins(built, built)
      <3>1. Len(built) \in Nat
        BY <1>2, LenProperties
      <3>. QED
        BY <3>1 DEF Begins, Follows
    <2>. QED
      BY <1>2, <2>1, CommandsBegin
  <1>4. Packed(q) \in Seq(Commands)
    BY <1>1, <1>3, TakingGrows DEF Packed
  <1>5. ready[q] \o upcoming[q] \in Seq(Commands)
    BY <1>1, ConcatProperties
  <1>6. Handed(q) \in Seq(Commands)
    BY <1>4, <1>5, ConcatProperties DEF Handed
  <1>. QED
    BY <1>1, <1>2, <1>3, <1>4, <1>5, <1>6

LEMMA OrderKept ==
    ASSUME OrderInv, UNCHANGED <<built, block, ready, upcoming, unsent>>
    PROVE  OrderInv'
  BY DEF OrderInv, Handed, Packed

\* A sender hands over the first commands it has.
LEMMA OrderSend ==
    ASSUME IInv, OrderInv, NEW p \in Queues, SendBatch(p)
    PROVE  /\ OrderInv' /\ Len(unsent'[p]) < Len(unsent[p])
           /\ \A q \in Queues \ {p} : unsent'[q] = unsent[q]
  <1>1. PICK n \in 1 .. Len(unsent[p]) :
           /\ unsent' = [unsent EXCEPT ![p] = SubSeq(@, n + 1, Len(@))]
           /\ upcoming' = [upcoming EXCEPT ![p] = @ \o SubSeq(unsent[p], 1, n)]
    BY DEF SendBatch
  <1>2. UNCHANGED <<built, block, ready>>
    BY DEF SendBatch, bgVars
  <1>3. unsent \in [Queues -> Seq(Commands)] /\ upcoming \in [Queues -> Seq(Commands)]
    BY DEF IInv, TypeOK, SenderTypeOK
  <1>4. \A q \in Queues \ {p} : unsent'[q] = unsent[q] /\ upcoming'[q] = upcoming[q]
    BY <1>1, <1>3
  <1>5. PICK a, b : /\ a = SubSeq(unsent[p], 1, n)
                    /\ b = SubSeq(unsent[p], n + 1, Len(unsent[p]))
    OBVIOUS
  <1>6. unsent'[p] = b /\ upcoming'[p] = upcoming[p] \o a
    BY <1>1, <1>3, <1>5
  <1>7. /\ unsent[p] \in Seq(Commands) /\ upcoming[p] \in Seq(Commands)
        /\ ready[p] \in Seq(Commands) /\ Packed(p) \in Seq(Commands)
        /\ Handed(p) \in Seq(Commands)
    BY OrderFacts
  <1>8. /\ a \in Seq(Commands) /\ b \in Seq(Commands)
        /\ Len(b) = Len(unsent[p]) - n
        /\ (Handed(p) \o a) \o b = Handed(p) \o unsent[p]
    <2>1. PICK s \in Seq(Commands), r \in Seq(Commands) : s = unsent[p] /\ r = Handed(p)
      BY <1>7
    <2>2. n \in 1 .. Len(s) /\ a = SubSeq(s, 1, n) /\ b = SubSeq(s, n + 1, Len(s))
      BY <1>5, <2>1
    <2>3. /\ a \in Seq(Commands) /\ b \in Seq(Commands)
          /\ Len(b) = Len(s) - n /\ (r \o a) \o b = r \o s
      BY <2>2, PartMoves
    <2>. QED
      BY <2>1, <2>3
  <1>9. Handed(p)' = Handed(p) \o a
    <2>1. Packed(p)' = Packed(p)
      BY <1>2 DEF Packed
    <2>2. ready[p] \o (upcoming[p] \o a) = (ready[p] \o upcoming[p]) \o a
      BY <1>7, <1>8, Associative
    <2>3. ready[p] \o upcoming[p] \in Seq(Commands)
      BY <1>7, ConcatProperties
    <2>4. Packed(p) \o ((ready[p] \o upcoming[p]) \o a)
             = (Packed(p) \o (ready[p] \o upcoming[p])) \o a
      <3>1. PICK s \in Seq(Commands), t \in Seq(Commands) :
               s = Packed(p) /\ t = ready[p] \o upcoming[p]
        BY <1>7, <2>3
      <3>2. s \o (t \o a) = (s \o t) \o a
        BY <1>8, Associative
      <3>. QED
        BY <3>1, <3>2
    <2>. QED
      BY <1>2, <1>6, <2>1, <2>2, <2>4 DEF Handed
  <1>10. Program[p] = Handed(p)' \o unsent'[p]
    BY <1>6, <1>8, <1>9 DEF OrderInv
  <1>11. ASSUME NEW q \in Queues \ {p}
         PROVE  Program[q] = Handed(q)' \o unsent'[q]
    <2>1. Program[q] = Handed(q) \o unsent[q]
      BY DEF OrderInv
    <2>. QED
      BY <1>2, <1>4, <2>1 DEF Handed, Packed
  <1>12. OrderInv'
    BY <1>10, <1>11 DEF OrderInv
  <1>13. Len(unsent'[p]) < Len(unsent[p])
    <2>1. Len(unsent[p]) \in Nat
      BY <1>7, LenProperties
    <2>. QED
      BY <1>6, <1>8, <2>1
  <1>. QED
    BY <1>4, <1>12, <1>13

LEMMA OrderMoveDue ==
    ASSUME IInv, OrderInv, NEW p \in Queues, MoveDue(p)
    PROVE  OrderInv'
  <1>1. /\ upcoming[p] # <<>>
        /\ upcoming' = [upcoming EXCEPT ![p] = Tail(@)]
        /\ ready' = [ready EXCEPT ![p] = Append(@, Head(upcoming[p]))]
        /\ UNCHANGED <<built, block, unsent>>
    BY DEF MoveDue, HeadDue, bgVars, sendVars
  <1>2. upcoming \in [Queues -> Seq(Commands)] /\ ready \in [Queues -> Seq(Commands)]
    BY DEF IInv, TypeOK, SenderTypeOK
  <1>3. \A q \in Queues \ {p} : upcoming'[q] = upcoming[q] /\ ready'[q] = ready[q]
    BY <1>1, <1>2
  <1>4. upcoming'[p] = Tail(upcoming[p]) /\ ready'[p] = Append(ready[p], Head(upcoming[p]))
    BY <1>1, <1>2
  <1>5. ready'[p] \o upcoming'[p] = ready[p] \o upcoming[p]
    BY <1>1, <1>2, <1>4, HeadMoves
  <1>6. ASSUME NEW q \in Queues
        PROVE  Program[q] = Handed(q)' \o unsent'[q]
    <2>1. ready'[q] \o upcoming'[q] = ready[q] \o upcoming[q]
      BY <1>3, <1>5
    <2>2. Program[q] = Handed(q) \o unsent[q]
      BY DEF OrderInv
    <2>. QED
      BY <1>1, <2>1, <2>2 DEF Handed, Packed
  <1>. QED
    BY <1>6 DEF OrderInv

\* The command added to a block is one of its queue, and of no other.
LEMMA OrderAdd ==
    ASSUME IInv, OrderInv, NEW i \in 1 .. Len(pendingQueues), AddCommand(i)
    PROVE  OrderInv'
  <1>1. PICK p \in Queues : p = pendingQueues[i]
    <2>1. pendingQueues \in Seq(Queues)
      BY DEF IInv, TypeOK, SenderTypeOK
    <2>2. pendingQueues[i] \in Queues
      BY <2>1, ElementOfSeq
    <2>. QED
      BY <2>2
  <1>2. PICK c : c = Head(ready[p])
    OBVIOUS
  <1>3. /\ ready[p] # <<>>
        /\ ready' = [ready EXCEPT ![p] = Tail(@)]
        /\ block' = Append(block, c)
        /\ UNCHANGED <<built, upcoming, unsent>>
    BY <1>1, <1>2 DEF AddCommand, MostUrgent, sendVars
  <1>4. ready \in [Queues -> Seq(Commands)]
    BY DEF IInv, TypeOK, SenderTypeOK
  <1>5. \A q \in Queues \ {p} : ready'[q] = ready[q]
    BY <1>3, <1>4
  <1>6. ready'[p] = Tail(ready[p])
    BY <1>3, <1>4
  <1>7. c \in Commands /\ Tail(ready[p]) \in Seq(Commands)
    BY <1>2, <1>3, <1>4, HeadTailProperties
  <1>8. \A q \in Queues : Packed(q)' = Taken(q, Packed(q), c)
    <2>1. ASSUME NEW q \in Queues
          PROVE  Taking(q, CommandsOf(q, built), Append(block, c)) = Taken(q, Packed(q), c)
      <3>1. block \in Seq(Commands)
        BY OrderFacts
      <3>. QED
        BY <1>7, <3>1, TakingAppend DEF Packed
    <2>. QED
      BY <1>3, <2>1 DEF Packed
  <1>9. c \in ToSet(Program[p])
    <2>1. /\ {ready[p], upcoming[p], unsent[p], Packed(p)} \subseteq Seq(Commands)
          /\ ready[p] \o upcoming[p] \in Seq(Commands) /\ Handed(p) \in Seq(Commands)
      BY OrderFacts
    <2>2. c \in Range(ready[p])
      BY <1>2, <1>3, <2>1, QueueRange
    <2>3. c \in Range(ready[p] \o upcoming[p])
      BY <2>1, <2>2, RangeConcatenation
    <2>4. c \in Range(Handed(p))
      <3>1. PICK s \in Seq(Commands) : s = ready[p] \o upcoming[p]
        BY <2>1
      <3>2. Range(Packed(p) \o s) = Range(Packed(p)) \cup Range(s)
        BY <2>1, RangeConcatenation
      <3>. QED
        BY <2>3, <3>1, <3>2 DEF Handed
    <2>5. c \in Range(Handed(p) \o unsent[p])
      BY <2>1, <2>4, RangeConcatenation
    <2>6. c \in Range(Program[p])
      BY <2>5 DEF OrderInv
    <2>. QED
      BY <2>6 DEF Range, ToSet
  <1>10. Program[p] = Handed(p)' \o unsent'[p]
    <2>1. Packed(p)' = Append(Packed(p), c)
      BY <1>8, <1>9 DEF Taken
    <2>2. /\ {ready[p], upcoming[p], unsent[p], Packed(p)} \subseteq Seq(Commands)
      BY OrderFacts
    <2>3. PICK s, t, u, v : s = Packed(p) /\ t = ready[p] /\ u = upcoming[p] /\ v = Tail(ready[p])
      OBVIOUS
    <2>4. /\ s \in Seq(Commands) /\ t \in Seq(Commands) /\ u \in Seq(Commands)
          /\ v \in Seq(Commands) /\ Append(s, c) \in Seq(Commands)
      BY <1>7, <2>2, <2>3, AppendProperties
    <2>5. Append(s, c) \o v = s \o t
      BY <1>2, <1>3, <2>3, <2>4, HeadMoves
    <2>6. Append(s, c) \o (v \o u) = (Append(s, c) \o v) \o u
      BY <2>4, Associative
    <2>7. (s \o t) \o u = s \o (t \o u)
      BY <2>4, Associative
    <2>8. Handed(p)' = Append(s, c) \o (v \o u)
      BY <1>3, <1>6, <2>1, <2>3 DEF Handed
    <2>9. Handed(p)' = Handed(p)
      BY <2>3, <2>5, <2>6, <2>7, <2>8 DEF Handed
    <2>. QED
      BY <1>3, <2>9 DEF OrderInv
  <1>11. ASSUME NEW q \in Queues \ {p}
         PROVE  Program[q] = Handed(q)' \o unsent'[q]
    <2>1. c \notin ToSet(Program[q])
      BY <1>9, QueuesAssumption
    <2>2. Packed(q)' = Packed(q)
      BY <1>8, <2>1 DEF Taken
    <2>3. Program[q] = Handed(q) \o unsent[q]
      BY DEF OrderInv
    <2>. QED
      BY <1>3, <1>5, <2>2, <2>3 DEF Handed
  <1>. QED
    BY <1>10, <1>11 DEF OrderInv

LEMMA OrderStore ==
    ASSUME IInv, OrderInv, StoreBlock
    PROVE  OrderInv'
  <1>. DEFINE out == [seq |-> sendSeq, cmds |-> block]
  <1>1. built' = Append(built, out) /\ block' = <<>> /\ UNCHANGED <<ready, upcoming, unsent>>
    BY DEF StoreBlock, pendVars, sendVars
  <1>2. out \in Blocks /\ out.cmds = block
    BY DEF IInv, TypeOK, NumbersTypeOK, SenderTypeOK, Blocks
  <1>. HIDE DEF out
  <1>3. ASSUME NEW q \in Queues
        PROVE  Program[q] = Handed(q)' \o unsent'[q]
    <2>1. built \in Seq(Blocks)
      BY OrderFacts
    <2>2. CommandsOf(q, Append(built, out)) = Packed(q)
      BY <1>2, <2>1, CommandsAppend DEF Packed
    <2>3. Taking(q, CommandsOf(q, Append(built, out)), <<>>) = Packed(q)
      BY <2>2, TakingEmpty
    <2>4. Packed(q)' = Packed(q)
      BY <1>1, <2>3 DEF Packed
    <2>5. Program[q] = Handed(q) \o unsent[q]
      BY DEF OrderInv
    <2>. QED
      BY <1>1, <2>4, <2>5 DEF Handed
  <1>. QED
    BY <1>3 DEF OrderInv

LEMMA OrderInvStep ==
    ASSUME IInv, OrderInv, [Next]_vars
    PROVE  OrderInv'
  <1>1. ASSUME NEW q \in Queues, SendBatch(q) PROVE OrderInv'
    BY <1>1, OrderSend
  <1>2. ASSUME NEW q \in Queues, KickBgThread(q) PROVE OrderInv'
    <2>1. UNCHANGED <<built, block, ready, upcoming, unsent>>
      BY <1>2 DEF KickBgThread, queueVars, pendVars, bgVars, sendVars
    <2>. QED
      BY <2>1, OrderKept
  <1>3. ASSUME NEW q \in Queues, MoveDue(q) PROVE OrderInv'
    BY <1>3, OrderMoveDue
  <1>4. CASE StartBlock
    <2>1. UNCHANGED <<built, block, ready, upcoming, unsent>>
      BY <1>4 DEF StartBlock, queueVars, pendVars, bgVars, sendVars
    <2>. QED
      BY <2>1, OrderKept
  <1>5. CASE WriteBlocks
    <2>1. UNCHANGED <<built, block, ready, upcoming, unsent>>
      BY <1>5 DEF WriteBlocks, queueVars, pendVars, bgVars, sendVars
    <2>. QED
      BY <2>1, OrderKept
  <1>6. ASSUME NEW i \in 1 .. Len(pendingQueues), AddCommand(i) PROVE OrderInv'
    BY <1>6, OrderAdd
  <1>7. CASE StoreBlock
    BY <1>7, OrderStore
  <1>8. CASE CommandEvent
    <2>1. UNCHANGED <<built, block, ready, upcoming, unsent>>
      BY <1>8 DEF CommandEvent, queueVars, pendVars, bgVars, sendVars
    <2>. QED
      BY <2>1, OrderKept
  <1>9. CASE KickEvent
    <2>1. UNCHANGED <<built, block, ready, upcoming, unsent>>
      BY <1>9 DEF KickEvent, queueVars, pendVars, bgVars, sendVars
    <2>. QED
      BY <2>1, OrderKept
  <1>10. CASE RetransmitEvent
    <2>1. UNCHANGED <<built, block, ready, upcoming, unsent>>
      BY <1>10 DEF RetransmitEvent, queueVars, pendVars, bgVars, sendVars
    <2>. QED
      BY <2>1, OrderKept
  <1>11. CASE HandleMessage
    <2>1. UNCHANGED <<built, block, ready, upcoming, unsent>>
      BY <1>11 DEF HandleMessage, queueVars, pendVars, bgVars, sendVars
    <2>. QED
      BY <2>1, OrderKept
  <1>12. CASE BackgroundEnds
    <2>1. UNCHANGED <<built, block, ready, upcoming, unsent>>
      BY <1>12 DEF BackgroundEnds, queueVars, pendVars, bgVars, sendVars
    <2>. QED
      BY <2>1, OrderKept
  <1>13. CASE PullMessage
    <2>1. UNCHANGED <<built, block, ready, upcoming, unsent>>
      BY <1>13 DEF PullMessage, queueVars, pendVars, bgVars, sendVars
    <2>. QED
      BY <2>1, OrderKept
  <1>14. CASE PullNothing
    <2>1. UNCHANGED <<built, block, ready, upcoming, unsent>>
      BY <1>14 DEF PullNothing, queueVars, pendVars, bgVars, sendVars
    <2>. QED
      BY <2>1, OrderKept
  <1>15. CASE RequestExit
    <2>1. UNCHANGED <<built, block, ready, upcoming, unsent>>
      BY <1>15 DEF RequestExit, queueVars, pendVars, bgVars, sendVars
    <2>. QED
      BY <2>1, OrderKept
  <1>16. CASE McuTake
    <2>1. UNCHANGED <<built, block, ready, upcoming, unsent>>
      BY <1>16 DEF McuTake, queueVars, pendVars, bgVars, sendVars
    <2>. QED
      BY <2>1, OrderKept
  <1>17. CASE McuAcknowledge
    <2>1. UNCHANGED <<built, block, ready, upcoming, unsent>>
      BY <1>17 DEF McuAcknowledge, queueVars, pendVars, bgVars, sendVars
    <2>. QED
      BY <2>1, OrderKept
  <1>18. CASE McuNak
    <2>1. UNCHANGED <<built, block, ready, upcoming, unsent>>
      BY <1>18 DEF McuNak, queueVars, pendVars, bgVars, sendVars
    <2>. QED
      BY <2>1, OrderKept
  <1>20. CASE LoseBlock
    <2>1. UNCHANGED <<built, block, ready, upcoming, unsent>>
      BY <1>20 DEF LoseBlock, queueVars, pendVars, bgVars, sendVars
    <2>. QED
      BY <2>1, OrderKept
  <1>21. CASE LoseMessage
    <2>1. UNCHANGED <<built, block, ready, upcoming, unsent>>
      BY <1>21 DEF LoseMessage, queueVars, pendVars, bgVars, sendVars
    <2>. QED
      BY <2>1, OrderKept
  <1>22. CASE Tick
    <2>1. UNCHANGED <<built, block, ready, upcoming, unsent>>
      BY <1>22 DEF Tick, queueVars, pendVars, bgVars, sendVars
    <2>. QED
      BY <2>1, OrderKept
  <1>23. CASE UNCHANGED vars
    <2>1. UNCHANGED <<built, block, ready, upcoming, unsent>>
      BY <1>23 DEF vars, queueVars, pendVars, bgVars, sendVars
    <2>. QED
      BY <2>1, OrderKept
  <1>. QED
    BY <1>1, <1>2, <1>3, <1>4, <1>5, <1>6, <1>7, <1>8, <1>9, <1>10, <1>11, <1>12, <1>13, <1>14, <1>15, <1>16, <1>17, <1>18, <1>20, <1>21, <1>22, <1>23
       DEF Next, BackgroundStep, CommandStep, PullerStep, McuStep, Quiet

LEMMA CommandsOfNone ==
    ASSUME NEW q
    PROVE  CommandsOf(q, <<>>) = <<>>
  <1>1. PICK none \in Seq(Blocks) : none = <<>> /\ Len(none) = 0
    <2>1. <<>> \in Seq(Blocks) /\ Len(<<>>) = 0
      OBVIOUS
    <2>. QED
      BY <2>1
  <1>2. PICK f : f[0] = <<>> /\ f[Len(none)] = CommandsOf(q, none)
    BY CommandsSteps
  <1>. QED
    BY <1>1, <1>2

LEMMA InitOrder ==
    ASSUME Init
    PROVE  OrderInv
  <1>1. ASSUME NEW q \in Queues
        PROVE  Program[q] = Handed(q) \o unsent[q]
    <2>1. /\ built = <<>> /\ block = <<>> /\ ready[q] = <<>> /\ upcoming[q] = <<>>
          /\ unsent[q] = Program[q]
      BY DEF Init
    <2>2. Packed(q) = <<>>
      BY <2>1, CommandsOfNone, TakingEmpty DEF Packed
    <2>3. <<>> \in Seq(Commands) /\ Program[q] \in Seq(Commands)
      BY CommandsAssumption
    <2>4. <<>> \o <<>> = <<>> /\ <<>> \o Program[q] = Program[q]
      BY <2>3, ConcatEmptySeq
    <2>. QED
      BY <2>1, <2>2, <2>4 DEF Handed
  <1>. QED
    BY <1>1 DEF OrderInv

\* What was carried out of q is the beginning of what was handed over.
LEMMA Carried ==
    ASSUME IInv, OrderInv, NEW q \in Queues, NEW x \in Seq(Blocks), Begins(x, built)
    PROVE  /\ CommandsOf(q, x) \in Prefixes(Program[q])
           /\ IsPrefix(CommandsOf(q, x),
                       SubSeq(Program[q], 1, Len(Program[q]) - Len(unsent[q])))
  <1>1. PICK c, h, u, p : /\ c = CommandsOf(q, x) /\ h = Handed(q)
                          /\ u = unsent[q] /\ p = Program[q]
    OBVIOUS
  <1>2. /\ h \in Seq(Commands) /\ u \in Seq(Commands) /\ p \in Seq(Commands)
        /\ CommandsOf(q, built) \in Seq(Commands) /\ block \in Seq(Commands)
        /\ Packed(q) \in Seq(Commands) /\ ready[q] \o upcoming[q] \in Seq(Commands)
        /\ built \in Seq(Blocks)
    BY <1>1, OrderFacts
  <1>3. c \in Seq(Commands) /\ Begins(c, CommandsOf(q, built))
    BY <1>1, <1>2, CommandsBegin
  <1>4. Begins(CommandsOf(q, built), Packed(q))
    BY <1>2, TakingGrows DEF Packed
  <1>5. Begins(Packed(q), h)
    <2>1. PICK s \in Seq(Commands), t \in Seq(Commands) :
             s = Packed(q) /\ t = ready[q] \o upcoming[q]
      BY <1>2
    <2>2. Begins(s, s \o t)
      BY BeginsConcat
    <2>. QED
      BY <1>1, <2>1, <2>2 DEF Handed
  <1>6. Begins(c, h)
    BY <1>2, <1>3, <1>4, <1>5, BeginsLater
  <1>7. p = h \o u
    BY <1>1 DEF OrderInv
  <1>8. /\ Len(c) \in Nat /\ Len(h) \in Nat /\ Len(u) \in Nat
        /\ Len(p) = Len(h) + Len(u)
        /\ \A i \in 1 .. Len(h) : p[i] = h[i]
    <2>1. Len(c) \in Nat /\ Len(h) \in Nat /\ Len(u) \in Nat
      BY <1>2, <1>3, LenProperties
    <2>2. /\ Len(h \o u) = Len(h) + Len(u)
          /\ \A i \in 1 .. Len(h) + Len(u) :
                (h \o u)[i] = IF i <= Len(h) THEN h[i] ELSE u[i - Len(h)]
      BY <1>2, ConcatProperties
    <2>. QED
      BY <1>7, <2>1, <2>2
  <1>9. SubSeq(p, 1, Len(p) - Len(u)) = h
    <2>. DEFINE s == SubSeq(p, 1, Len(h))
    <2>1. \A i \in 1 .. Len(h) : p[i] \in Commands
      BY <1>2, <1>8, ElementOfSeq
    <2>2. s \in Seq(Commands) /\ Len(s) = Len(h) /\ \A i \in 1 .. Len(h) : s[i] = p[i]
      BY <1>8, <2>1
    <2>. HIDE DEF s
    <2>3. s = h
      BY <1>2, <1>8, <2>2, SeqEqual
    <2>4. Len(p) - Len(u) = Len(h)
      BY <1>8
    <2>. QED
      BY <2>3, <2>4 DEF s
  <1>10. IsPrefix(c, h)
    BY <1>2, <1>3, <1>6, PrefixIs
  <1>11. c \in Prefixes(p)
    <2>1. Len(c) \in 0 .. Len(p) /\ Len(c) <= Len(h) /\ \A i \in 1 .. Len(c) : c[i] = h[i]
      BY <1>6, <1>8 DEF Begins, Follows
    <2>. DEFINE s == SubSeq(p, 1, Len(c))
    <2>2. \A i \in 1 .. Len(c) : p[i] = c[i] /\ p[i] \in Commands
      BY <1>3, <1>8, <2>1, ElementOfSeq
    <2>3. s \in Seq(Commands) /\ Len(s) = Len(c) /\ \A i \in 1 .. Len(c) : s[i] = c[i]
      BY <1>8, <2>2
    <2>. HIDE DEF s
    <2>4. s = c
      BY <1>3, <2>3, SeqEqual
    <2>. QED
      BY <2>1, <2>4 DEF Prefixes, s
  <1>. QED
    BY <1>1, <1>9, <1>10, <1>11

\* The channel's variables are left alone by a step that leaves these alone.
LEMMA ChannelKept ==
    ASSUME UNCHANGED <<unsent, executed, mustExit>>
    PROVE  UNCHANGED Channel!vars
  BY DEF Channel!vars, Delivered

LEMMA ChannelAccepts ==
    ASSUME IInv, OrderInv, NEW p \in Queues, SendBatch(p)
    PROVE  Channel!Accept(p)
  <1>. DEFINE acc == [q \in Queues |-> Len(Program[q]) - Len(unsent[q])]
  <1>1. /\ OrderInv' /\ Len(unsent'[p]) < Len(unsent[p])
        /\ \A q \in Queues \ {p} : unsent'[q] = unsent[q]
    BY OrderSend
  <1>2. unsent[p] \in Seq(Commands) /\ Program[p] \in Seq(Commands)
    BY OrderFacts
  <1>3. unsent'[p] \in Seq(Commands)
    <2>1. unsent \in [Queues -> Seq(Commands)]
      BY DEF IInv, TypeOK, SenderTypeOK
    <2>2. PICK n \in 1 .. Len(unsent[p]) :
             unsent' = [unsent EXCEPT ![p] = SubSeq(@, n + 1, Len(@))]
      BY DEF SendBatch
    <2>3. unsent'[p] = SubSeq(unsent[p], n + 1, Len(unsent[p]))
      BY <2>1, <2>2
    <2>. QED
      BY <1>2, <2>3
  <1>4. Len(unsent[p]) \in Nat /\ Len(unsent'[p]) \in Nat /\ Len(Program[p]) \in Nat
    BY <1>2, <1>3, LenProperties
  <1>. DEFINE n == Len(Program[p]) - Len(unsent'[p])
  <1>5. n \in acc[p] + 1 .. Len(Program[p])
    <2>1. PICK i \in Nat, j \in Nat, k \in Nat :
             i = Len(unsent[p]) /\ j = Len(unsent'[p]) /\ k = Len(Program[p])
      BY <1>4
    <2>2. j < i /\ acc[p] = k - i /\ n = k - j
      BY <1>1, <2>1
    <2>3. k - j \in k - i + 1 .. k
      BY <2>2
    <2>. QED
      BY <2>1, <2>2, <2>3
  <1>6. acc' = [acc EXCEPT ![p] = n]
    BY <1>1
  <1>7. Delivered' = Delivered /\ mustExit' = mustExit
    BY DEF SendBatch, mcuVars, wakeVars, Delivered
  <1>. QED
    BY <1>5, <1>6, <1>7 DEF Channel!Accept

LEMMA ExecutedBegins ==
    ASSUME IInv, BlocksInv
    PROVE  executed \in Seq(Blocks) /\ built \in Seq(Blocks) /\ Begins(executed, built)
  <1>1. executed \in Seq(Blocks) /\ built \in Seq(Blocks)
    BY DEF IInv, TypeOK, HistoryTypeOK
  <1>2. /\ Len(executed) = mcuSeq - 1 /\ Len(built) = sendSeq - 1
        /\ mcuSeq <= sendSeq /\ Follows(executed, built)
    BY DEF BlocksInv, BuiltInv, ExecutedInv
  <1>. QED
    BY <1>1, <1>2, LinkFacts DEF Begins

LEMMA ChannelDelivers ==
    ASSUME IInv, BlocksInv, OrderInv, McuTake, BlocksInv'
    PROVE  Channel!Deliver
  <1>1. PICK b : b = Head(toMcu) /\ b \in Blocks
    BY HeadTailProperties DEF McuTake, IInv, TypeOK, LinkTypeOK
  <1>2. PICK x : x = Append(executed, b)
    OBVIOUS
  <1>3. executed' = x /\ UNCHANGED <<built, unsent, mustExit>>
    BY <1>1, <1>2 DEF McuTake, queueVars, sendVars, wakeVars
  <1>4. executed \in Seq(Blocks) /\ built \in Seq(Blocks) /\ Begins(executed, built)
    BY ExecutedBegins
  <1>5. x \in Seq(Blocks) /\ Begins(executed, x)
    <2>1. /\ x \in Seq(Blocks) /\ Len(x) = Len(executed) + 1
          /\ \A i \in 1 .. Len(executed) : x[i] = executed[i]
      BY <1>1, <1>2, <1>4, AppendProperties
    <2>2. Len(executed) \in Nat
      BY <1>4, LenProperties
    <2>. QED
      BY <2>1, <2>2 DEF Begins, Follows
  <1>6. Begins(x, built)
    <2>1. /\ Len(x) = mcuSeq' - 1 /\ Len(built) = sendSeq' - 1
          /\ mcuSeq' <= sendSeq' /\ Follows(x, built)
      BY <1>3 DEF BlocksInv, BuiltInv, ExecutedInv
    <2>2. mcuSeq' \in Nat /\ sendSeq' \in Nat
      BY LinkFacts DEF McuTake, queueVars, seqVars
    <2>3. PICK i \in Nat, j \in Nat : i = mcuSeq' /\ j = sendSeq'
      BY <2>2
    <2>4. Len(x) = i - 1 /\ Len(built) = j - 1 /\ i <= j
      BY <2>1, <2>3
    <2>5. Len(x) <= Len(built)
      BY <2>4
    <2>. QED
      BY <2>1, <2>5 DEF Begins
  <1>7. ASSUME NEW q \in Queues
        PROVE  /\ CommandsOf(q, x) \in Prefixes(Program[q])
               /\ IsPrefix(CommandsOf(q, x),
                           SubSeq(Program[q], 1, Len(Program[q]) - Len(unsent[q])))
               /\ IsPrefix(CommandsOf(q, executed), CommandsOf(q, x))
    <2>1. /\ CommandsOf(q, executed) \in Seq(Commands) /\ CommandsOf(q, x) \in Seq(Commands)
          /\ Begins(CommandsOf(q, executed), CommandsOf(q, x))
      BY <1>4, <1>5, CommandsBegin
    <2>2. IsPrefix(CommandsOf(q, executed), CommandsOf(q, x))
      BY <2>1, PrefixIs
    <2>. QED
      BY <1>5, <1>6, <2>2, Carried
  <1>8. Delivered' = [q \in Queues |-> CommandsOf(q, x)]
    BY <1>3 DEF Delivered
  <1>9. [q \in Queues |-> CommandsOf(q, x)] \in
           [Queues -> UNION {Prefixes(Program[q]) : q \in Queues}]
    BY <1>7
  <1>. QED
    BY <1>3, <1>7, <1>8, <1>9
       DEF Channel!Deliver, Delivered, Channel!IsPrefix, Channel!Prefixes, IsPrefix, Prefixes

LEMMA ChannelStep ==
    ASSUME IInv, BlocksInv, OrderInv, [Next]_vars, BlocksInv'
    PROVE  [Channel!Next]_(Channel!vars)
  <1>1. ASSUME NEW q \in Queues, SendBatch(q) PROVE Channel!Next
    BY <1>1, ChannelAccepts DEF Channel!Next
  <1>15. CASE RequestExit
    BY <1>15 DEF RequestExit, sendVars, mcuVars, Channel!Next, Channel!Close, Delivered
  <1>16. CASE McuTake
    BY <1>16, ChannelDelivers DEF Channel!Next
  <1>2. ASSUME NEW q \in Queues, KickBgThread(q) PROVE UNCHANGED Channel!vars
    <2>1. UNCHANGED <<unsent, executed, mustExit>>
      BY <1>2 DEF KickBgThread, queueVars, sendVars, mcuVars, wakeVars
    <2>. QED
      BY <2>1, ChannelKept
  <1>3. ASSUME NEW q \in Queues, MoveDue(q) PROVE UNCHANGED Channel!vars
    <2>1. UNCHANGED <<unsent, executed, mustExit>>
      BY <1>3 DEF MoveDue, queueVars, sendVars, mcuVars, wakeVars
    <2>. QED
      BY <2>1, ChannelKept
  <1>4. CASE StartBlock
    <2>1. UNCHANGED <<unsent, executed, mustExit>>
      BY <1>4 DEF StartBlock, queueVars, sendVars, mcuVars, wakeVars
    <2>. QED
      BY <2>1, ChannelKept
  <1>5. CASE WriteBlocks
    <2>1. UNCHANGED <<unsent, executed, mustExit>>
      BY <1>5 DEF WriteBlocks, queueVars, sendVars, mcuVars, wakeVars
    <2>. QED
      BY <2>1, ChannelKept
  <1>6. ASSUME NEW i \in 1 .. Len(pendingQueues), AddCommand(i) PROVE UNCHANGED Channel!vars
    <2>1. UNCHANGED <<unsent, executed, mustExit>>
      BY <1>6 DEF AddCommand, sendVars, mcuVars, wakeVars
    <2>. QED
      BY <2>1, ChannelKept
  <1>7. CASE StoreBlock
    <2>1. UNCHANGED <<unsent, executed, mustExit>>
      BY <1>7 DEF StoreBlock, queueVars, sendVars, mcuVars, wakeVars
    <2>. QED
      BY <2>1, ChannelKept
  <1>8. CASE CommandEvent
    <2>1. UNCHANGED <<unsent, executed, mustExit>>
      BY <1>8 DEF CommandEvent, queueVars, sendVars, mcuVars, wakeVars
    <2>. QED
      BY <2>1, ChannelKept
  <1>9. CASE KickEvent
    <2>1. UNCHANGED <<unsent, executed, mustExit>>
      BY <1>9 DEF KickEvent, queueVars, sendVars, mcuVars, wakeVars
    <2>. QED
      BY <2>1, ChannelKept
  <1>10. CASE RetransmitEvent
    <2>1. UNCHANGED <<unsent, executed, mustExit>>
      BY <1>10 DEF RetransmitEvent, queueVars, sendVars, mcuVars, wakeVars
    <2>. QED
      BY <2>1, ChannelKept
  <1>11. CASE HandleMessage
    <2>1. UNCHANGED <<unsent, executed, mustExit>>
      BY <1>11 DEF HandleMessage, queueVars, sendVars, mcuVars, wakeVars
    <2>. QED
      BY <2>1, ChannelKept
  <1>12. CASE BackgroundEnds
    <2>1. UNCHANGED <<unsent, executed, mustExit>>
      BY <1>12 DEF BackgroundEnds, queueVars, sendVars, mcuVars, wakeVars
    <2>. QED
      BY <2>1, ChannelKept
  <1>13. CASE PullMessage
    <2>1. UNCHANGED <<unsent, executed, mustExit>>
      BY <1>13 DEF PullMessage, queueVars, sendVars, mcuVars, wakeVars
    <2>. QED
      BY <2>1, ChannelKept
  <1>14. CASE PullNothing
    <2>1. UNCHANGED <<unsent, executed, mustExit>>
      BY <1>14 DEF PullNothing, queueVars, sendVars, mcuVars, wakeVars
    <2>. QED
      BY <2>1, ChannelKept
  <1>17. CASE McuAcknowledge
    <2>1. UNCHANGED <<unsent, executed, mustExit>>
      BY <1>17 DEF McuAcknowledge, queueVars, sendVars, mcuVars, wakeVars
    <2>. QED
      BY <2>1, ChannelKept
  <1>18. CASE McuNak
    <2>1. UNCHANGED <<unsent, executed, mustExit>>
      BY <1>18 DEF McuNak, queueVars, sendVars, mcuVars, wakeVars
    <2>. QED
      BY <2>1, ChannelKept
  <1>20. CASE LoseBlock
    <2>1. UNCHANGED <<unsent, executed, mustExit>>
      BY <1>20 DEF LoseBlock, queueVars, sendVars, mcuVars, wakeVars
    <2>. QED
      BY <2>1, ChannelKept
  <1>21. CASE LoseMessage
    <2>1. UNCHANGED <<unsent, executed, mustExit>>
      BY <1>21 DEF LoseMessage, queueVars, sendVars, mcuVars, wakeVars
    <2>. QED
      BY <2>1, ChannelKept
  <1>22. CASE Tick
    <2>1. UNCHANGED <<unsent, executed, mustExit>>
      BY <1>22 DEF Tick, queueVars, sendVars, mcuVars, wakeVars
    <2>. QED
      BY <2>1, ChannelKept
  <1>23. CASE UNCHANGED vars
    <2>1. UNCHANGED <<unsent, executed, mustExit>>
      BY <1>23 DEF vars, queueVars, sendVars, mcuVars, wakeVars
    <2>. QED
      BY <2>1, ChannelKept
  <1>. QED
    BY <1>1, <1>2, <1>3, <1>4, <1>5, <1>6, <1>7, <1>8, <1>9, <1>10, <1>11, <1>12, <1>13, <1>14, <1>15, <1>16, <1>17, <1>18, <1>20, <1>21, <1>22, <1>23
       DEF Next, BackgroundStep, CommandStep, PullerStep, McuStep, Quiet

LEMMA ChannelInit ==
    ASSUME Init
    PROVE  Channel!Init
  <1>1. unsent = Program /\ executed = <<>> /\ mustExit = FALSE
    BY DEF Init
  <1>2. ASSUME NEW q \in Queues
        PROVE  Len(Program[q]) - Len(unsent[q]) = 0 /\ CommandsOf(q, executed) = <<>>
    <2>1. Program[q] \in Seq(Commands)
      BY CommandsAssumption
    <2>2. Len(Program[q]) \in Nat
      BY <2>1, LenProperties
    <2>. QED
      BY <1>1, <2>2, CommandsOfNone
  <1>. QED
    BY <1>1, <1>2 DEF Channel!Init, Delivered

\* When the controller expects block 1 at first, the link implements a channel
\* that delivers the commands of each queue once and in the order they were
\* handed over, only those that were, and never takes one back: each step of the
\* three threads, the wire and the controller accepts, delivers, closes or is
\* none of the channel's.  That every command is delivered stays with TLC.
THEOREM ChannelIsSafe ==
    ASSUME McuStart = {1}
    PROVE  Spec => Channel!Safety
  <1>1. Init => IInv /\ BlocksInv /\ OrderInv /\ Channel!Init
    BY InitInv, InitBlocks, InitOrder, ChannelInit
  <1>2. IInv /\ BlocksInv /\ OrderInv /\ [Next]_vars => (IInv /\ BlocksInv /\ OrderInv)'
    BY NextInv, NextBlocks, OrderInvStep DEF LinkNext
  <1>3. IInv /\ BlocksInv /\ OrderInv /\ [Next]_vars => [Channel!Next]_(Channel!vars)
    BY NextBlocks, ChannelStep DEF LinkNext
  <1>. QED
    BY <1>1, <1>2, <1>3, PTL DEF Spec, Channel!Safety
=============================================================================
