------------------------------ MODULE QueueLemmas ------------------------------
(***************************************************************************)
(* Facts about queues, most of them about queues in which nothing stands   *)
(* twice: what appending, taking the head and removing an element do to    *)
(* them.  And the one fact about numbers that replaces induction.          *)
(***************************************************************************)
EXTENDS Integers, SequencesExt, SequenceTheorems, WellFoundedInduction, TLAPS

\* The range of a sequence is what stands at its places.
LEMMA QueueRange ==
    ASSUME NEW S, NEW s \in Seq(S)
    PROVE  /\ Range(s) = {s[i] : i \in 1 .. Len(s)}
           /\ Range(s) \subseteq S
           /\ s # <<>> => Len(s) \in Nat \ {0} /\ Head(s) = s[1] /\ Head(s) \in Range(s)
  BY DEF Range

\* Appending what is not there keeps a queue free of duplicates.
LEMMA QueueAppend ==
    ASSUME NEW S, NEW s \in Seq(S), IsInjective(s), NEW e \in S, e \notin Range(s)
    PROVE  /\ Append(s, e) \in Seq(S) /\ IsInjective(Append(s, e))
           /\ Range(Append(s, e)) = Range(s) \cup {e}
           /\ Append(s, e) # <<>>
           /\ s # <<>> => Head(Append(s, e)) = Head(s)
           /\ s = <<>> => Head(Append(s, e)) = e
  <1>1. Append(s, e) \in Seq(S)
    OBVIOUS
  <1>2. IsInjective(Append(s, e))
    BY QueueRange DEF IsInjective
  <1>3. Range(Append(s, e)) = Range(s) \cup {e}
    <2>1. \A x \in Range(Append(s, e)) : x \in Range(s) \cup {e}
      BY DEF Range
    <2>2. \A i \in 1 .. Len(s) : Append(s, e)[i] = s[i] /\ i \in DOMAIN Append(s, e)
      OBVIOUS
    <2>3. Append(s, e)[Len(s) + 1] = e /\ Len(s) + 1 \in DOMAIN Append(s, e)
      OBVIOUS
    <2>. QED
      BY <2>1, <2>2, <2>3 DEF Range
  <1>. QED
    BY <1>1, <1>2, <1>3

\* Without its head a queue holds what it held but for the head.
LEMMA QueueTail ==
    ASSUME NEW S, NEW s \in Seq(S), IsInjective(s), s # <<>>
    PROVE  /\ Tail(s) \in Seq(S) /\ IsInjective(Tail(s))
           /\ Range(Tail(s)) = Range(s) \ {Head(s)}
  <1>1. Tail(s) \in Seq(S) /\ Len(Tail(s)) = Len(s) - 1 /\ \A i \in 1 .. Len(s) - 1 : Tail(s)[i] = s[i + 1]
    OBVIOUS
  <1>2. IsInjective(Tail(s))
    BY <1>1 DEF IsInjective
  <1>3. Range(Tail(s)) \subseteq Range(s) \ {Head(s)}
    BY <1>1 DEF Range, IsInjective
  <1>4. \A i \in 2 .. Len(s) : s[i] = Tail(s)[i - 1] /\ i - 1 \in DOMAIN Tail(s)
    BY <1>1
  <1>5. Range(s) \ {Head(s)} \subseteq Range(Tail(s))
    <2>1. SUFFICES ASSUME NEW i \in 1 .. Len(s), s[i] # Head(s)
                   PROVE s[i] \in Range(Tail(s))
      BY QueueRange
    <2>2. i \in 2 .. Len(s)
      BY <2>1, s[1] = Head(s)
    <2>. QED
      BY <2>2, <1>4 DEF Range
  <1>. QED
    BY <1>1, <1>2, <1>3, <1>5

\* The last element stays the last until the queue is empty.
LEMMA QueueLast ==
    ASSUME NEW S, NEW s \in Seq(S), s # <<>>
    PROVE  /\ Tail(s) = <<>> => Last(s) = Head(s)
           /\ Tail(s) # <<>> => Last(Tail(s)) = Last(s)
  <1>1. /\ Tail(s) \in Seq(S) /\ Len(Tail(s)) = Len(s) - 1
        /\ \A i \in 1 .. Len(Tail(s)) : Tail(s)[i] = s[i + 1]
    BY HeadTailProperties
  <1>2. Len(s) \in Nat \ {0} /\ Head(s) = s[1]
    OBVIOUS
  <1>3. CASE Tail(s) = <<>>
    <2>1. Len(s) = 1
      <3>. DEFINE t == Tail(s)
      <3>1. t = <<>> => Len(t) = 0
        <4>. HIDE DEF t
        <4>. QED
          OBVIOUS
      <3>. QED
        BY <3>1, <1>1, <1>2, <1>3
    <2>. QED
      BY <2>1, <1>2, <1>3 DEF Last
  <1>4. CASE Tail(s) # <<>>
    <2>1. Len(Tail(s)) \in 1 .. Len(Tail(s))
      BY <1>1, <1>2, <1>4, EmptySeq
    <2>2. Tail(s)[Len(Tail(s))] = s[Len(s)]
      BY <2>1, <1>1, <1>2
    <2>. QED
      BY <2>2, <1>4 DEF Last
  <1>. QED
    BY <1>3, <1>4

\* Without its i-th element a sequence holds the others, in their order.
LEMMA SequenceRemoveAt ==
    ASSUME NEW S, NEW s \in Seq(S), NEW i \in 1 .. Len(s)
    PROVE  /\ RemoveAt(s, i) \in Seq(S) /\ Len(RemoveAt(s, i)) = Len(s) - 1
           /\ \A j \in 1 .. Len(s) - 1 : RemoveAt(s, i)[j] = IF j < i THEN s[j] ELSE s[j + 1]
  <1>. DEFINE t == RemoveAt(s, i)
              u == SubSeq(s, 1, i - 1)
              v == SubSeq(s, i + 1, Len(s))
  <1>1. u \in Seq(S) /\ Len(u) = i - 1 /\ \A j \in 1 .. i - 1 : u[j] = s[j]
    OBVIOUS
  <1>2. v \in Seq(S) /\ Len(v) = Len(s) - i /\ \A j \in 1 .. Len(s) - i : v[j] = s[i + j]
    OBVIOUS
  <1>3. t = u \o v
    BY DEF RemoveAt
  <1>4. i \in Nat /\ Len(s) \in Nat /\ 1 <= i /\ i <= Len(s)
    OBVIOUS
  <1>. HIDE DEF t, u, v
  <1>5. t \in Seq(S) /\ Len(t) = Len(u) + Len(v)
    BY <1>1, <1>2, <1>3, ConcatProperties
  <1>6. \A j \in 1 .. Len(u) + Len(v) : t[j] = IF j <= Len(u) THEN u[j] ELSE v[j - Len(u)]
    BY <1>1, <1>2, <1>3, ConcatProperties
  <1>7. Len(t) = Len(s) - 1
    BY <1>1, <1>2, <1>4, <1>5
  <1>8. ASSUME NEW j \in 1 .. Len(s) - 1
        PROVE  t[j] = IF j < i THEN s[j] ELSE s[j + 1]
    <2>1. CASE j < i
      <3>1. t[j] = u[j]
        BY <2>1, <1>1, <1>2, <1>4, <1>6
      <3>. QED
        BY <3>1, <2>1, <1>1, <1>4
    <2>2. CASE j >= i
      <3>1. t[j] = v[j - (i - 1)]
        <4>1. Len(u) = i - 1 /\ Len(v) = Len(s) - i
          BY <1>1, <1>2
        <4>2. \A k \in 1 .. (i - 1) + (Len(s) - i) : t[k] = IF k <= i - 1 THEN u[k] ELSE v[k - (i - 1)]
          BY <4>1, <1>6
        <4>3. j \in 1 .. (i - 1) + (Len(s) - i) /\ ~(j <= i - 1)
          BY <2>2, <1>4
        <4>. QED
          BY <4>2, <4>3
      <3>2. j - (i - 1) \in 1 .. Len(s) - i /\ i + (j - (i - 1)) = j + 1
        BY <2>2, <1>4
      <3>. QED
        BY <3>1, <3>2, <2>2, <1>2, <1>4
    <2>. QED
      BY <2>1, <2>2, <1>4
  <1>. QED
    BY <1>5, <1>7, <1>8 DEF t

\* Removing an element leaves the others, in their order.
LEMMA QueueRemove ==
    ASSUME NEW S, NEW s \in Seq(S), IsInjective(s), NEW e
    PROVE  /\ RemoveFirst(s, e) \in Seq(S) /\ IsInjective(RemoveFirst(s, e))
           /\ Range(RemoveFirst(s, e)) = Range(s) \ {e}
           /\ s # <<>> /\ Head(s) # e =>
                RemoveFirst(s, e) # <<>> /\ Head(RemoveFirst(s, e)) = Head(s)
  <1>1. CASE e \notin Range(s)
    <2>1. RemoveFirst(s, e) = s
      BY <1>1, QueueRange DEF RemoveFirst
    <2>. QED
      BY <2>1, <1>1
  <1>2. CASE e \in Range(s)
    <2>1. PICK i \in 1 .. Len(s) : s[i] = e
      BY <1>2, QueueRange
    <2>2. {j \in 1 .. Len(s) : s[j] = e} = {i}
      BY <2>1 DEF IsInjective
    <2>3. Min({i}) = i
      BY <2>1 DEF Min
    <2>. DEFINE t == RemoveAt(s, i)
    <2>4. RemoveFirst(s, e) = t
      BY <2>1, <2>2, <2>3 DEF RemoveFirst, SelectInSeq
    <2>. HIDE DEF t
    <2>5. t \in Seq(S) /\ Len(t) = Len(s) - 1
      BY <2>1, SequenceRemoveAt DEF t
    <2>6. \A j \in 1 .. Len(s) - 1 : t[j] = IF j < i THEN s[j] ELSE s[j + 1]
      BY <2>1, SequenceRemoveAt DEF t
    <2>7. IsInjective(t)
      <3>1. ASSUME NEW j \in 1 .. Len(s) - 1, NEW k \in 1 .. Len(s) - 1, t[j] = t[k]
            PROVE  j = k
        <4>. DEFINE from(l) == IF l < i THEN l ELSE l + 1
        <4>1. from(j) \in DOMAIN s /\ from(k) \in DOMAIN s
          BY <2>1
        <4>2. t[j] = s[from(j)] /\ t[k] = s[from(k)]
          BY <2>6
        <4>3. s[from(j)] = s[from(k)]
          BY <3>1, <4>2
        <4>4. from(j) = from(k)
          <5>. HIDE DEF from
          <5>. QED
            BY <4>1, <4>3 DEF IsInjective
        <4>. QED
          BY <4>4, <2>1
      <3>. QED
        BY <3>1, <2>5 DEF IsInjective
    <2>8. Range(t) \subseteq Range(s) \ {e}
      BY <2>1, <2>5, <2>6 DEF Range, IsInjective
    <2>9. \A j \in 1 .. Len(s) : j # i => \E k \in DOMAIN t : t[k] = s[j]
      <3>1. SUFFICES ASSUME NEW j \in 1 .. Len(s), j # i
                     PROVE \E k \in DOMAIN t : t[k] = s[j]
        OBVIOUS
      <3>2. CASE j < i
        <4>1. j \in DOMAIN t /\ t[j] = s[j]
          BY <3>2, <2>1, <2>5, <2>6
        <4>. QED
          BY <4>1
      <3>3. CASE j > i
        <4>1. j - 1 \in DOMAIN t /\ t[j - 1] = s[j]
          BY <3>3, <2>1, <2>5, <2>6
        <4>. QED
          BY <4>1
      <3>. QED
        BY <3>1, <3>2, <3>3, <2>1
    <2>10. Range(s) \ {e} \subseteq Range(t)
      BY <2>1, <2>9 DEF Range
    <2>11. s # <<>> /\ Head(s) # e => t # <<>> /\ Head(t) = Head(s)
      BY <2>1, <2>5, <2>6
    <2>. QED
      BY <2>4, <2>5, <2>7, <2>8, <2>10, <2>11
  <1>. QED
    BY <1>1, <1>2

\* One queue after another, if they share nothing.
LEMMA QueueConcat ==
    ASSUME NEW S, NEW s \in Seq(S), NEW t \in Seq(S), IsInjective(s), IsInjective(t),
           Range(s) \cap Range(t) = {}
    PROVE  /\ s \o t \in Seq(S) /\ IsInjective(s \o t)
           /\ Range(s \o t) = Range(s) \cup Range(t)
  <1>. DEFINE u == s \o t
  <1>1. u \in Seq(S) /\ Len(u) = Len(s) + Len(t)
    BY ConcatProperties
  <1>2. \A i \in 1 .. Len(s) + Len(t) : u[i] = IF i <= Len(s) THEN s[i] ELSE t[i - Len(s)]
    BY ConcatProperties
  <1>. HIDE DEF u
  <1>3. ASSUME NEW i \in 1 .. Len(u)
        PROVE  \/ i \in 1 .. Len(s) /\ u[i] = s[i] /\ u[i] \in Range(s)
               \/ i - Len(s) \in 1 .. Len(t) /\ u[i] = t[i - Len(s)] /\ u[i] \in Range(t)
    BY <1>1, <1>2 DEF Range
  <1>4. IsInjective(u)
    <2>1. ASSUME NEW i \in 1 .. Len(u), NEW j \in 1 .. Len(u), u[i] = u[j]
          PROVE  i = j
      <3>1. CASE u[i] \in Range(s)
        <4>1. i \in 1 .. Len(s) /\ j \in 1 .. Len(s) /\ s[i] = s[j]
          BY <3>1, <2>1, <1>3
        <4>. QED
          BY <4>1 DEF IsInjective
      <3>2. CASE u[i] \notin Range(s)
        <4>1. i - Len(s) \in 1 .. Len(t) /\ j - Len(s) \in 1 .. Len(t) /\ t[i - Len(s)] = t[j - Len(s)]
          BY <3>2, <2>1, <1>3
        <4>2. i - Len(s) = j - Len(s)
          BY <4>1 DEF IsInjective
        <4>. QED
          BY <4>2, <1>1
      <3>. QED
        BY <3>1, <3>2
    <2>. QED
      BY <2>1, <1>1 DEF IsInjective
  <1>5. Range(u) \subseteq Range(s) \cup Range(t)
    BY <1>1, <1>3 DEF Range
  <1>6. \A i \in 1 .. Len(s) : u[i] = s[i] /\ i \in DOMAIN u
    BY <1>1, <1>2
  <1>7. \A i \in 1 .. Len(t) : u[Len(s) + i] = t[i] /\ Len(s) + i \in DOMAIN u
    BY <1>1, <1>2
  <1>8. Range(s) \cup Range(t) \subseteq Range(u)
    BY <1>6, <1>7 DEF Range
  <1>. QED
    BY <1>1, <1>4, <1>5, <1>8 DEF u

-----------------------------------------------------------------------------
\* Appending to a sequence written out gives the longer one written out.
LEMMA AppendTuples ==
    /\ \A x : Append(<<>>, x) = <<x>>
    /\ \A x, y : Append(<<x>>, y) = <<x, y>>
    /\ \A x, y, z : Append(<<x, y>>, z) = <<x, y, z>>
    /\ \A x, y, z, w : Append(<<x, y, z>>, w) = <<x, y, z, w>>
  <1>1. ASSUME NEW x
        PROVE  Append(<<>>, x) = <<x>>
    <2>1. <<>> \in Seq({x}) /\ Len(<<>>) = 0
      OBVIOUS
    <2>2. <<x>> \in Seq({x}) /\ Len(<<x>>) = 1
      OBVIOUS
    <2>3. Append(<<>>, x) \in Seq({x}) /\ Len(Append(<<>>, x)) = 1
      BY <2>1, AppendProperties
    <2>4. Append(<<>>, x)[1] = x
      BY <2>1, AppendProperties
    <2>5. \A i \in 1 .. 1 : Append(<<>>, x)[i] = <<x>>[i]
      BY <2>4
    <2>. QED
      BY <2>2, <2>3, <2>5, SeqEqual
  <1>2. ASSUME NEW x, NEW y
        PROVE  Append(<<x>>, y) = <<x, y>>
    <2>1. <<x>> \in Seq({x, y}) /\ Len(<<x>>) = 1
      OBVIOUS
    <2>2. <<x, y>> \in Seq({x, y}) /\ Len(<<x, y>>) = 2
      OBVIOUS
    <2>3. Append(<<x>>, y) \in Seq({x, y}) /\ Len(Append(<<x>>, y)) = 2
      BY <2>1, AppendProperties
    <2>4. Append(<<x>>, y)[1] = x /\ Append(<<x>>, y)[2] = y
      BY <2>1, AppendProperties
    <2>5. \A i \in 1 .. 2 : Append(<<x>>, y)[i] = <<x, y>>[i]
      BY <2>4
    <2>. QED
      BY <2>2, <2>3, <2>5, SeqEqual
  <1>3. ASSUME NEW x, NEW y, NEW z
        PROVE  Append(<<x, y>>, z) = <<x, y, z>>
    <2>1. <<x, y>> \in Seq({x, y, z}) /\ Len(<<x, y>>) = 2
      OBVIOUS
    <2>2. <<x, y, z>> \in Seq({x, y, z}) /\ Len(<<x, y, z>>) = 3
      OBVIOUS
    <2>3. Append(<<x, y>>, z) \in Seq({x, y, z}) /\ Len(Append(<<x, y>>, z)) = 3
      BY <2>1, AppendProperties
    <2>4. Append(<<x, y>>, z)[1] = x /\ Append(<<x, y>>, z)[2] = y /\ Append(<<x, y>>, z)[3] = z
      BY <2>1, AppendProperties
    <2>5. \A i \in 1 .. 3 : Append(<<x, y>>, z)[i] = <<x, y, z>>[i]
      BY <2>4
    <2>. QED
      BY <2>2, <2>3, <2>5, SeqEqual
  <1>4. ASSUME NEW x, NEW y, NEW z, NEW w
        PROVE  Append(<<x, y, z>>, w) = <<x, y, z, w>>
    <2>1. <<x, y, z>> \in Seq({x, y, z, w}) /\ Len(<<x, y, z>>) = 3
      OBVIOUS
    <2>2. <<x, y, z, w>> \in Seq({x, y, z, w}) /\ Len(<<x, y, z, w>>) = 4
      OBVIOUS
    <2>3. Append(<<x, y, z>>, w) \in Seq({x, y, z, w}) /\ Len(Append(<<x, y, z>>, w)) = 4
      BY <2>1, AppendProperties
    <2>4. /\ Append(<<x, y, z>>, w)[1] = x
          /\ Append(<<x, y, z>>, w)[2] = y
          /\ Append(<<x, y, z>>, w)[3] = z
          /\ Append(<<x, y, z>>, w)[4] = w
      BY <2>1, AppendProperties
    <2>5. \A i \in 1 .. 4 : Append(<<x, y, z>>, w)[i] = <<x, y, z, w>>[i]
      BY <2>4
    <2>. QED
      BY <2>2, <2>3, <2>5, SeqEqual
  <1>. QED
    BY <1>1, <1>2, <1>3, <1>4

\* What is in a queue after its head is taken was there before.
LEMMA TailRange ==
    ASSUME NEW S, NEW q \in Seq(S), q # <<>>
    PROVE  Tail(q) \in Seq(S) /\ Range(Tail(q)) \subseteq Range(q) /\ Head(q) \in Range(q)
  <1>1. /\ Tail(q) \in Seq(S) /\ Len(Tail(q)) = Len(q) - 1 /\ Len(q) \in Nat \ {0}
        /\ \A i \in 1 .. Len(q) - 1 : Tail(q)[i] = q[i + 1]
    OBVIOUS
  <1>2. Range(Tail(q)) = {Tail(q)[i] : i \in 1 .. Len(Tail(q))}
    BY <1>1, QueueRange
  <1>3. Range(q) = {q[i] : i \in 1 .. Len(q)} /\ Head(q) \in Range(q)
    BY QueueRange
  <1>4. \A i \in 1 .. Len(Tail(q)) : Tail(q)[i] \in Range(q)
    BY <1>1, <1>3
  <1>. QED
    BY <1>1, <1>2, <1>3, <1>4

\* A set of natural numbers has a least one.
LEMMA LeastNatural ==
    ASSUME NEW T \in SUBSET Nat, T # {}
    PROVE  \E t \in T : \A u \in T : t <= u
  <1>. DEFINE R == OpToRel(<, Nat)
  <1>1. IsWellFoundedOn(R, Nat)
    BY NatLessThanWellFounded
  <1>2. \A x, y \in Nat : <<x, y>> \in R <=> x < y
    BY DEF OpToRel
  <1>. HIDE DEF R
  <1>3. PICK t \in T : \A u \in T : ~(<<u, t>> \in R)
    BY <1>1, WFMin
  <1>4. \A u \in T : ~(u < t)
    BY <1>2, <1>3, Zenon
  <1>. QED
    BY <1>4
=============================================================================
