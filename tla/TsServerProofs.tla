--------------------------- MODULE TsServerProofs ---------------------------
(***************************************************************************)
(* Theorems about TsServer and the operators of RequestQueue, for queues   *)
(* of any length, every number of requests and every set of kinds.         *)
(***************************************************************************)
EXTENDS TsServer, SequenceTheorems, FiniteSetTheorems, WellFoundedInduction, TLAPS

-----------------------------------------------------------------------------
(* What the operators of RequestQueue return, for queues of any length *)

(***************************************************************************)
(* enqueue()'s loop stops: there is a first position from which on the     *)
(* queue holds low-priority items only.                                    *)
(***************************************************************************)
LEMMA TailStartProperties ==
  ASSUME NEW S, NEW q \in Seq(Item(S))
  PROVE  /\ TailStart(q) \in 1..Len(q) + 1
         /\ \A j \in TailStart(q)..Len(q) : IsLow(q[j])
         /\ TailStart(q) > 1 => ~IsLow(q[TailStart(q) - 1])
<1> DEFINE T == {i \in 1..Len(q) + 1 : \A j \in i..Len(q) : IsLow(q[j])}
<1>1. Len(q) \in Nat
  BY LenProperties
<1>2. T \subseteq Nat
  BY <1>1
<1>3. Len(q) + 1 \in T
  BY <1>1
<1>4. PICK m \in T : \A i \in T : ~(<<i, m>> \in OpToRel(<, Nat))
  <2>1. T # {}
    BY <1>3
  <2> HIDE DEF T
  <2> QED
    BY <1>2, <2>1, NatLessThanWellFounded, WFMin
<1>5. \A i \in T : ~(i < m)
  <2>1. \A i \in T : <<i, m>> \in OpToRel(<, Nat) <=> i < m
    BY <1>2 DEF OpToRel
  <2> QED
    BY <1>4, <2>1
<1>6. m > 1 => ~IsLow(q[m - 1])
  <2> SUFFICES ASSUME m > 1, IsLow(q[m - 1])
               PROVE  FALSE
    OBVIOUS
  <2>1. m - 1 \in T
    BY <1>1
  <2> QED
    BY <1>1, <1>5, <2>1
<1> QED
  BY <1>4, <1>6 DEF TailStart

(***************************************************************************)
(* SequencesExt's InsertAt and RemoveAt, position by position.             *)
(***************************************************************************)
LEMMA InsertAtPositions ==
  ASSUME NEW S, NEW q \in Seq(S), NEW p \in 1..Len(q) + 1, NEW e \in S
  PROVE  /\ InsertAt(q, p, e) \in Seq(S)
         /\ Len(InsertAt(q, p, e)) = Len(q) + 1
         /\ \A i \in 1..Len(q) + 1 :
              InsertAt(q, p, e)[i] = IF i < p THEN q[i] ELSE IF i = p THEN e ELSE q[i - 1]
<1> DEFINE a == SubSeq(q, 1, p - 1)
           b == SubSeq(q, p, Len(q))
<1>1. Len(q) \in Nat /\ p \in Int /\ \A i \in 1..Len(q) : q[i] \in S
  BY LenProperties, ElementOfSeq
<1>2. a \in Seq(S) /\ Len(a) = p - 1 /\ \A i \in 1..p - 1 : a[i] = q[i]
  <2>1. \A i \in 1..p - 1 : q[i] \in S
    BY <1>1
  <2> QED
    BY <1>1, <2>1, SubSeqProperties
<1>3. b \in Seq(S) /\ Len(b) = Len(q) - p + 1 /\ \A i \in 1..Len(q) - p + 1 : b[i] = q[p + i - 1]
  <2>1. \A i \in p..Len(q) : q[i] \in S
    BY <1>1
  <2> QED
    BY <1>1, <2>1, SubSeqProperties
<1>4. <<e>> \in Seq(S) /\ Len(<<e>>) = 1 /\ <<e>>[1] = e
  OBVIOUS
<1> HIDE DEF a, b
<1>5. /\ a \o <<e>> \in Seq(S)
      /\ Len(a \o <<e>>) = p
      /\ \A i \in 1..p : (a \o <<e>>)[i] = IF i < p THEN q[i] ELSE e
  BY <1>1, <1>2, <1>4, ConcatProperties
<1>6. /\ (a \o <<e>>) \o b \in Seq(S)
      /\ Len((a \o <<e>>) \o b) = Len(q) + 1
      /\ \A i \in 1..Len(q) + 1 :
           ((a \o <<e>>) \o b)[i] = IF i <= p THEN (a \o <<e>>)[i] ELSE b[i - p]
  <2> DEFINE ae == a \o <<e>>
  <2>1. ae \in Seq(S) /\ Len(ae) = p
    BY <1>5
  <2> HIDE DEF ae
  <2>2. /\ ae \o b \in Seq(S)
        /\ Len(ae \o b) = Len(ae) + Len(b)
        /\ \A i \in 1..Len(ae) + Len(b) :
             (ae \o b)[i] = IF i <= Len(ae) THEN ae[i] ELSE b[i - Len(ae)]
    BY <1>3, <2>1, ConcatProperties
  <2>3. Len(ae) + Len(b) = Len(q) + 1
    BY <1>1, <1>3, <2>1
  <2> QED
    BY <2>1, <2>2, <2>3 DEF ae
<1>7. InsertAt(q, p, e) = (a \o <<e>>) \o b
  BY DEF InsertAt, a, b
<1> QED
  BY <1>1, <1>3, <1>5, <1>6, <1>7

LEMMA RemoveAtPositions ==
  ASSUME NEW S, NEW q \in Seq(S), NEW p \in 1..Len(q)
  PROVE  /\ RemoveAt(q, p) \in Seq(S)
         /\ Len(RemoveAt(q, p)) = Len(q) - 1
         /\ \A i \in 1..Len(q) - 1 : RemoveAt(q, p)[i] = IF i < p THEN q[i] ELSE q[i + 1]
<1> DEFINE a == SubSeq(q, 1, p - 1)
           b == SubSeq(q, p + 1, Len(q))
<1>1. Len(q) \in Nat /\ p \in Int /\ \A i \in 1..Len(q) : q[i] \in S
  BY LenProperties, ElementOfSeq
<1>2. a \in Seq(S) /\ Len(a) = p - 1 /\ \A i \in 1..p - 1 : a[i] = q[i]
  <2>1. \A i \in 1..p - 1 : q[i] \in S
    BY <1>1
  <2> QED
    BY <1>1, <2>1, SubSeqProperties
<1>3. b \in Seq(S) /\ Len(b) = Len(q) - p /\ \A i \in 1..Len(q) - p : b[i] = q[p + i]
  <2>1. \A i \in p + 1..Len(q) : q[i] \in S
    BY <1>1
  <2> QED
    BY <1>1, <2>1, SubSeqProperties
<1>4. RemoveAt(q, p) = a \o b
  BY DEF RemoveAt
<1> HIDE DEF a, b
<1>5. /\ a \o b \in Seq(S)
      /\ Len(a \o b) = Len(a) + Len(b)
      /\ \A i \in 1..Len(a) + Len(b) : (a \o b)[i] = IF i <= Len(a) THEN a[i] ELSE b[i - Len(a)]
  BY <1>2, <1>3, ConcatProperties
<1>6. Len(a) + Len(b) = Len(q) - 1
  BY <1>1, <1>2, <1>3
<1>7. ASSUME NEW i \in 1..Len(q) - 1
      PROVE  (a \o b)[i] = IF i < p THEN q[i] ELSE q[i + 1]
  <2>1. CASE i < p
    <3>1. i \in 1..Len(a) + Len(b) /\ i <= Len(a) /\ i \in 1..p - 1
      BY <1>1, <1>2, <1>6, <2>1
    <3>2. (a \o b)[i] = a[i]
      BY <1>5, <3>1
    <3> QED
      BY <1>2, <2>1, <3>1, <3>2
  <2>2. CASE ~(i < p)
    <3>1. /\ i \in 1..Len(a) + Len(b) /\ ~(i <= Len(a))
          /\ i - Len(a) \in 1..Len(q) - p /\ p + (i - Len(a)) = i + 1
      BY <1>1, <1>2, <1>6, <2>2
    <3>2. (a \o b)[i] = b[i - Len(a)]
      BY <1>5, <3>1
    <3>3. b[i - Len(a)] = q[p + (i - Len(a))]
      BY <1>3, <3>1
    <3> QED
      BY <2>2, <3>1, <3>2, <3>3
  <2> QED
    BY <2>1, <2>2
<1> QED
  BY <1>4, <1>5, <1>6, <1>7

(***************************************************************************)
(* Where enqueue() puts an item: everything it overtakes is low priority,  *)
(* and only a Normal item overtakes anything.                              *)
(***************************************************************************)
PlacedAt(e, q, item, p) ==
  /\ \A i \in 1..Len(q) + 1 : e[i] = IF i < p THEN q[i] ELSE IF i = p THEN item ELSE q[i - 1]
  /\ \A i \in p..Len(q) : IsLow(q[i])
  /\ p <= Len(q) => item.kind.queueingType = "Normal"
  /\ (item.kind.queueingType = "Normal" /\ p > 1) => ~IsLow(q[p - 1])

LEMMA EnqueuePositions ==
  ASSUME NEW S, NEW q \in Seq(Item(S)), NEW item \in Item(S)
  PROVE  /\ Enqueue(q, item) \in Seq(Item(S))
         /\ Len(Enqueue(q, item)) = Len(q) + 1
         /\ \E p \in 1..Len(q) + 1 : PlacedAt(Enqueue(q, item), q, item, p)
<1>1. Len(q) \in Nat
  BY LenProperties
<1>2. CASE item.kind.queueingType = "Normal"
  <2>1. Enqueue(q, item) = InsertAt(q, TailStart(q), item)
    BY <1>2 DEF Enqueue
  <2>2. /\ TailStart(q) \in 1..Len(q) + 1
        /\ \A j \in TailStart(q)..Len(q) : IsLow(q[j])
        /\ TailStart(q) > 1 => ~IsLow(q[TailStart(q) - 1])
    BY TailStartProperties
  <2>3. /\ Enqueue(q, item) \in Seq(Item(S))
        /\ Len(Enqueue(q, item)) = Len(q) + 1
        /\ \A i \in 1..Len(q) + 1 :
             Enqueue(q, item)[i] = IF i < TailStart(q) THEN q[i]
                                   ELSE IF i = TailStart(q) THEN item ELSE q[i - 1]
    <3> DEFINE t == TailStart(q)
               r == InsertAt(q, t, item)
    <3>1. t \in 1..Len(q) + 1
      BY <2>2
    <3> HIDE DEF t
    <3>2. /\ r \in Seq(Item(S))
          /\ Len(r) = Len(q) + 1
          /\ \A i \in 1..Len(q) + 1 : r[i] = IF i < t THEN q[i] ELSE IF i = t THEN item ELSE q[i - 1]
      BY <3>1, InsertAtPositions
    <3>3. Enqueue(q, item) = r
      BY <2>1 DEF t
    <3> HIDE DEF r
    <3> QED
      BY <3>2, <3>3 DEF t
  <2>4. PlacedAt(Enqueue(q, item), q, item, TailStart(q))
    BY <1>2, <2>2, <2>3 DEF PlacedAt
  <2> QED
    BY <2>2, <2>3, <2>4
<1>3. CASE item.kind.queueingType # "Normal"
  <2>1. Enqueue(q, item) = Append(q, item)
    BY <1>3 DEF Enqueue
  <2>2. /\ Enqueue(q, item) \in Seq(Item(S))
        /\ Len(Enqueue(q, item)) = Len(q) + 1
        /\ \A i \in 1..Len(q) + 1 :
             Enqueue(q, item)[i] = IF i < Len(q) + 1 THEN q[i]
                                   ELSE IF i = Len(q) + 1 THEN item ELSE q[i - 1]
    BY <1>1, <2>1, AppendProperties
  <2>3. Len(q) + 1 \in 1..Len(q) + 1 /\ Len(q) + 1 > Len(q) /\ Len(q) + 1..Len(q) = {}
    BY <1>1
  <2>4. PlacedAt(Enqueue(q, item), q, item, Len(q) + 1)
    BY <1>1, <1>3, <2>2, <2>3 DEF PlacedAt
  <2> QED
    BY <2>2, <2>3, <2>4
<1> QED
  BY <1>2, <1>3

(***************************************************************************)
(* The order of fences survives enqueue(): w is what was already written,  *)
(* q the queue, and the new item has the highest number of all.            *)
(***************************************************************************)
LEMMA EnqueueKeepsFenceOrder ==
  ASSUME NEW S \in SUBSET Nat, NEW w \in Seq(Item(S)), NEW q \in Seq(Item(S)), NEW item \in Item(S),
         FenceOrdered(w \o q),
         \A i \in 1..Len(w \o q) : (w \o q)[i].seq < item.seq
  PROVE  /\ FenceOrdered(w \o Enqueue(q, item))
         /\ \A i \in 1..Len(w \o Enqueue(q, item)) : (w \o Enqueue(q, item))[i].seq <= item.seq
<1> DEFINE old == w \o q
           e   == Enqueue(q, item)
           new == w \o e
<1>1. Len(w) \in Nat /\ Len(q) \in Nat
  BY LenProperties
<1>2. e \in Seq(Item(S)) /\ Len(e) = Len(q) + 1
  BY EnqueuePositions
<1>a. \E p \in 1..Len(q) + 1 : PlacedAt(e, q, item, p)
  BY EnqueuePositions
<1> HIDE DEF e
<1>b. PICK p \in 1..Len(q) + 1 : PlacedAt(e, q, item, p)
  BY <1>a
<1>3. /\ \A i \in 1..Len(q) + 1 : e[i] = IF i < p THEN q[i] ELSE IF i = p THEN item ELSE q[i - 1]
      /\ \A i \in p..Len(q) : IsLow(q[i])
      /\ p <= Len(q) => item.kind.queueingType = "Normal"
  BY <1>b DEF PlacedAt
<1>4. /\ old \in Seq(Item(S))
      /\ Len(old) = Len(w) + Len(q)
      /\ \A i \in 1..Len(w) + Len(q) : old[i] = IF i <= Len(w) THEN w[i] ELSE q[i - Len(w)]
  BY ConcatProperties
<1>5. /\ new \in Seq(Item(S))
      /\ Len(new) = Len(w) + Len(e)
      /\ \A i \in 1..Len(w) + Len(e) : new[i] = IF i <= Len(w) THEN w[i] ELSE e[i - Len(w)]
  BY <1>2, ConcatProperties
<1> DEFINE P == Len(w) + p
<1> HIDE DEF old, new
<1>6. P \in 1..Len(old) + 1 /\ P \in Nat /\ Len(new) = Len(old) + 1 /\ Len(old) \in Nat
  BY <1>1, <1>2, <1>4, <1>5
<1>7. \A i \in 1..Len(new) : new[i] = IF i < P THEN old[i] ELSE IF i = P THEN item ELSE old[i - 1]
  <2> SUFFICES ASSUME NEW i \in 1..Len(new)
               PROVE  new[i] = IF i < P THEN old[i] ELSE IF i = P THEN item ELSE old[i - 1]
    OBVIOUS
  <2>1. CASE i <= Len(w)
    BY <1>1, <1>2, <1>4, <1>5, <1>6, <2>1
  <2>2. CASE i > Len(w)
    <3>1. i - Len(w) \in 1..Len(q) + 1 /\ new[i] = e[i - Len(w)]
      BY <1>1, <1>2, <1>5, <2>2
    <3>2. CASE i < P
      <4>1. i - Len(w) < p /\ new[i] = q[i - Len(w)]
        BY <1>1, <1>3, <3>1, <3>2
      <4>2. old[i] = q[i - Len(w)]
        BY <1>1, <1>4, <1>6, <2>2, <3>2
      <4> QED
        BY <3>2, <4>1, <4>2
    <3>3. CASE i = P
      BY <1>1, <1>3, <3>1, <3>3
    <3>4. CASE i > P
      <4>1. new[i] = q[i - Len(w) - 1]
        BY <1>1, <1>3, <3>1, <3>4
      <4>2. i - 1 \in 1..Len(w) + Len(q) /\ ~(i - 1 <= Len(w)) /\ (i - 1) - Len(w) = i - Len(w) - 1
        BY <1>1, <1>2, <1>5, <3>4
      <4>3. old[i - 1] = q[i - Len(w) - 1]
        BY <1>4, <4>2
      <4> QED
        BY <1>6, <3>4, <4>1, <4>3
    <3> QED
      BY <1>1, <1>6, <3>2, <3>3, <3>4
  <2> QED
    BY <1>1, <2>1, <2>2
<1>8. \A i \in P..Len(old) : ~IsFence(old[i]) /\ ~IsFence(item)
  <2> SUFFICES ASSUME NEW i \in P..Len(old)
               PROVE  ~IsFence(old[i]) /\ ~IsFence(item)
    OBVIOUS
  <2>1. i - Len(w) \in p..Len(q) /\ old[i] = q[i - Len(w)]
    BY <1>1, <1>4
  <2>2. IsLow(q[i - Len(w)]) /\ item.kind.queueingType = "Normal"
    BY <1>1, <1>3, <2>1
  <2> QED
    BY <2>1, <2>2 DEF IsLow, IsFence
<1>9. \A i \in 1..Len(old) : old[i].seq \in Nat /\ old[i].seq < item.seq
  <2> SUFFICES ASSUME NEW i \in 1..Len(old)
               PROVE  old[i].seq \in Nat /\ old[i].seq < item.seq
    OBVIOUS
  <2>1. old[i] \in Item(S)
    BY <1>4, ElementOfSeq
  <2>2. old[i].seq < item.seq
    BY DEF old
  <2> QED
    BY <2>1, <2>2 DEF Item
<1> HIDE DEF P
<1>10. item.seq \in Nat
  BY DEF Item
<1> DEFINE Ordered(x, y) == (IsFence(x) \/ IsFence(y)) => x.seq < y.seq
<1>c. \A k, l \in 1..Len(old) : k < l => Ordered(old[k], old[l])
  BY DEF FenceOrdered, old
<1>d. ASSUME \A i, j \in 1..Len(new) : i < j => Ordered(new[i], new[j])
      PROVE  FenceOrdered(new)
  BY <1>d DEF FenceOrdered
<1>11. FenceOrdered(new)
  <2> SUFFICES ASSUME NEW i \in 1..Len(new), NEW j \in 1..Len(new), i < j
               PROVE  Ordered(new[i], new[j])
    <3> HIDE DEF Ordered
    <3> QED
      BY <1>d
  <2>1. CASE i < P /\ j < P
    <3>1. new[i] = old[i] /\ new[j] = old[j] /\ i \in 1..Len(old) /\ j \in 1..Len(old)
      BY <1>6, <1>7, <2>1
    <3> HIDE DEF Ordered
    <3> QED
      BY <1>c, <3>1
  <2>2. CASE i < P /\ j = P
    BY <1>6, <1>7, <1>9, <2>2
  <2>3. CASE i < P /\ j > P
    <3>1. new[i] = old[i] /\ new[j] = old[j - 1] /\ i \in 1..Len(old) /\ j - 1 \in 1..Len(old) /\ i < j - 1
      BY <1>6, <1>7, <2>3
    <3> HIDE DEF Ordered
    <3> QED
      BY <1>c, <3>1
  <2>4. CASE i = P
    <3>1. new[i] = item /\ new[j] = old[j - 1] /\ j - 1 \in P..Len(old)
      BY <1>6, <1>7, <2>4
    <3> QED
      BY <1>8, <3>1
  <2>5. CASE i > P
    <3>1. new[i] = old[i - 1] /\ new[j] = old[j - 1] /\ i - 1 \in P..Len(old) /\ j - 1 \in P..Len(old)
      BY <1>6, <1>7, <2>5
    <3> QED
      BY <1>8, <3>1
  <2> QED
    BY <1>6, <2>1, <2>2, <2>3, <2>4, <2>5
<1>12. \A i \in 1..Len(new) : new[i].seq <= item.seq
  <2> SUFFICES ASSUME NEW i \in 1..Len(new)
               PROVE  new[i].seq <= item.seq
    OBVIOUS
  <2>1. CASE i < P
    <3>1. new[i] = old[i] /\ i \in 1..Len(old)
      BY <1>6, <1>7, <2>1
    <3> QED
      BY <1>9, <1>10, <3>1
  <2>2. CASE i = P
    BY <1>6, <1>7, <1>10, <2>2
  <2>3. CASE i > P
    <3>1. new[i] = old[i - 1] /\ i - 1 \in 1..Len(old)
      BY <1>6, <1>7, <2>3
    <3>2. new[i].seq \in Nat /\ new[i].seq < item.seq
      BY <1>9, <3>1
    <3> QED
      BY <1>10, <3>2
  <2> QED
    BY <1>6, <2>1, <2>2, <2>3
<1> QED
  BY <1>11, <1>12 DEF new, e

(***************************************************************************)
(* tryDeletePendingRequest() takes one item out, or none, and leaves the   *)
(* others in their order.                                                  *)
(***************************************************************************)
LEMMA DeleteKeepsFenceOrder ==
  ASSUME NEW S \in SUBSET Nat, NEW w \in Seq(Item(S)), NEW q \in Seq(Item(S)), NEW s, NEW bound \in Nat,
         FenceOrdered(w \o q),
         \A i \in 1..Len(w \o q) : (w \o q)[i].seq < bound
  PROVE  /\ DeletePending(q, s) \in Seq(Item(S))
         /\ FenceOrdered(w \o DeletePending(q, s))
         /\ \A i \in 1..Len(w \o DeletePending(q, s)) : (w \o DeletePending(q, s))[i].seq < bound
<1>1. CASE ~Queued(q, s)
  BY <1>1 DEF DeletePending
<1>2. CASE Queued(q, s)
  <2> DEFINE p   == CHOOSE i \in 1..Len(q) : q[i].seq = s
             old == w \o q
             d   == RemoveAt(q, p)
             new == w \o d
  <2>1. DeletePending(q, s) = d
    BY <1>2 DEF DeletePending
  <2>2. p \in 1..Len(q)
    BY <1>2 DEF Queued
  <2>3. Len(w) \in Nat /\ Len(q) \in Nat
    BY LenProperties
  <2> HIDE DEF p
  <2>4. /\ d \in Seq(Item(S))
        /\ Len(d) = Len(q) - 1
        /\ \A i \in 1..Len(q) - 1 : d[i] = IF i < p THEN q[i] ELSE q[i + 1]
    BY <2>2, RemoveAtPositions
  <2>5. /\ old \in Seq(Item(S))
        /\ Len(old) = Len(w) + Len(q)
        /\ \A i \in 1..Len(w) + Len(q) : old[i] = IF i <= Len(w) THEN w[i] ELSE q[i - Len(w)]
    BY ConcatProperties
  <2> HIDE DEF d
  <2>6. /\ Len(new) = Len(w) + Len(d)
        /\ \A i \in 1..Len(w) + Len(d) : new[i] = IF i <= Len(w) THEN w[i] ELSE d[i - Len(w)]
    BY <2>4, ConcatProperties
  <2> DEFINE P == Len(w) + p
  <2> HIDE DEF old, new
  <2>7. \A i \in 1..Len(new) : new[i] = IF i < P THEN old[i] ELSE old[i + 1]
    <3> SUFFICES ASSUME NEW i \in 1..Len(new)
                 PROVE  new[i] = IF i < P THEN old[i] ELSE old[i + 1]
      OBVIOUS
    <3>1. CASE i <= Len(w)
      BY <2>2, <2>3, <2>4, <2>5, <2>6, <3>1
    <3>2. CASE i > Len(w)
      <4>1. i - Len(w) \in 1..Len(q) - 1 /\ new[i] = d[i - Len(w)] /\ i \in Nat
        BY <2>3, <2>4, <2>6, <3>2
      <4>2. CASE i < P
        <5>1. i - Len(w) < p /\ new[i] = q[i - Len(w)]
          BY <2>2, <2>3, <2>4, <4>1, <4>2
        <5>2. old[i] = q[i - Len(w)]
          <6>1. i \in 1..Len(w) + Len(q) /\ ~(i <= Len(w))
            BY <2>3, <3>2, <4>1
          <6> QED
            BY <2>5, <6>1
        <5> QED
          BY <4>2, <5>1, <5>2
      <4>3. CASE ~(i < P)
        <5>1. ~(i - Len(w) < p) /\ new[i] = q[i - Len(w) + 1]
          <6>1. ~(i - Len(w) < p)
            BY <2>2, <2>3, <4>1, <4>3
          <6> QED
            BY <2>4, <4>1, <6>1
        <5>2. i + 1 \in 1..Len(w) + Len(q) /\ ~(i + 1 <= Len(w)) /\ (i + 1) - Len(w) = i - Len(w) + 1
          BY <2>3, <3>2, <4>1
        <5>3. old[i + 1] = q[i - Len(w) + 1]
          BY <2>5, <5>2
        <5> QED
          BY <4>3, <5>1, <5>3
      <4> QED
        BY <4>2, <4>3
    <3> QED
      BY <2>3, <2>4, <2>6, <3>1, <3>2
  <2>8. Len(new) = Len(old) - 1 /\ Len(old) \in Nat /\ P \in 1..Len(old)
    BY <2>2, <2>3, <2>4, <2>5, <2>6
  <2>9. \A k, l \in 1..Len(old) : k < l /\ (IsFence(old[k]) \/ IsFence(old[l])) => old[k].seq < old[l].seq
    BY DEF FenceOrdered, old
  <2> DEFINE from(i) == IF i < P THEN i ELSE i + 1
  <2>10. \A i \in 1..Len(new) : from(i) \in 1..Len(old) /\ new[i] = old[from(i)]
    BY <2>7, <2>8
  <2>11. \A i, j \in 1..Len(new) : i < j => from(i) < from(j)
    BY <2>8
  <2> HIDE DEF from
  <2>12. FenceOrdered(new)
    <3> SUFFICES ASSUME NEW i \in 1..Len(new), NEW j \in 1..Len(new), i < j,
                        IsFence(new[i]) \/ IsFence(new[j])
                 PROVE  new[i].seq < new[j].seq
      BY DEF FenceOrdered
    <3>1. /\ from(i) \in 1..Len(old) /\ new[i] = old[from(i)]
          /\ from(j) \in 1..Len(old) /\ new[j] = old[from(j)]
          /\ from(i) < from(j)
      BY <2>10, <2>11
    <3>2. IsFence(old[from(i)]) \/ IsFence(old[from(j)])
      BY <3>1
    <3> QED
      BY <2>9, <3>1, <3>2
  <2>13. \A i \in 1..Len(new) : new[i].seq < bound
    BY <2>10 DEF old
  <2> QED
    BY <2>1, <2>4, <2>12, <2>13 DEF new
<1> QED
  BY <1>1, <1>2

(***************************************************************************)
(* The discipline survives enqueue(): a Normal item stands behind an item  *)
(* that is not low priority, whose fences serve it as well.                *)
(***************************************************************************)
LEMMA EnqueueKeepsDiscipline ==
  ASSUME NEW S \in SUBSET Nat, NEW q \in Seq(Item(S)), NEW item \in Item(S),
         Disciplined(q),
         \A i \in 1..Len(q) : q[i].seq < item.seq
  PROVE  Disciplined(Enqueue(q, item))
<1> DEFINE e == Enqueue(q, item)
<1>1. Len(q) \in Nat
  BY LenProperties
<1>2. Len(e) = Len(q) + 1
  BY EnqueuePositions
<1>3. PICK p \in 1..Len(q) + 1 : PlacedAt(e, q, item, p)
  BY EnqueuePositions
<1>4. /\ \A i \in 1..Len(q) + 1 : e[i] = IF i < p THEN q[i] ELSE IF i = p THEN item ELSE q[i - 1]
      /\ \A i \in p..Len(q) : IsLow(q[i])
      /\ p <= Len(q) => item.kind.queueingType = "Normal"
      /\ (item.kind.queueingType = "Normal" /\ p > 1) => ~IsLow(q[p - 1])
  BY <1>3 DEF PlacedAt
<1>5. \A i, j \in 1..Len(q) : i < j =>
        /\ IsLow(q[i]) = IsLow(q[j]) => q[i].seq < q[j].seq
        /\ IsLow(q[i]) /\ ~IsLow(q[j]) => \E k \in i + 1..j : IsFence(q[k])
  BY DEF Disciplined
<1> HIDE DEF e
<1> SUFFICES ASSUME NEW i \in 1..Len(q) + 1, NEW j \in 1..Len(q) + 1, i < j
             PROVE  /\ IsLow(e[i]) = IsLow(e[j]) => e[i].seq < e[j].seq
                    /\ IsLow(e[i]) /\ ~IsLow(e[j]) => \E k \in i + 1..j : IsFence(e[k])
  BY <1>2 DEF Disciplined, e
<1>6. CASE j < p
  <2>1. i \in 1..Len(q) /\ j \in 1..Len(q) /\ e[i] = q[i] /\ e[j] = q[j]
    BY <1>1, <1>4, <1>6
  <2>2. \A k \in i + 1..j : e[k] = q[k]
    BY <1>1, <1>4, <1>6
  <2> QED
    BY <1>5, <2>1, <2>2
<1>7. CASE j = p
  <2>1. i \in 1..Len(q) /\ e[i] = q[i] /\ e[j] = item
    BY <1>1, <1>4, <1>7
  <2>2. e[i].seq < e[j].seq
    BY <2>1
  <2>3. ASSUME IsLow(e[i]), ~IsLow(e[j])
        PROVE  \E k \in i + 1..j : IsFence(e[k])
    <3>1. CASE item.kind.queueingType = "Normal"
      <4>1. p - 1 \in 1..Len(q) /\ ~IsLow(q[p - 1]) /\ i # p - 1 /\ i < p - 1
        BY <1>1, <1>4, <1>7, <2>1, <2>3, <3>1
      <4>2. PICK k \in i + 1..p - 1 : IsFence(q[k])
        BY <1>5, <2>1, <2>3, <4>1
      <4>3. k \in i + 1..j /\ e[k] = q[k]
        BY <1>1, <1>4, <1>7, <4>2
      <4> QED
        BY <4>2, <4>3
    <3>2. CASE item.kind.queueingType # "Normal"
      <4>1. IsFence(e[j])
        BY <2>1, <2>3, <3>2 DEF Item, RequestKind, QueueTypes, IsLow, IsFence
      <4>2. j \in i + 1..j
        BY <1>1
      <4> QED
        BY <4>1, <4>2
    <3> QED
      BY <3>1, <3>2
  <2> QED
    BY <2>2, <2>3
<1>8. CASE j > p
  <2>1. /\ j - 1 \in 1..Len(q) /\ e[j] = q[j - 1]
        /\ j - 1 \in p..Len(q)
    BY <1>1, <1>4, <1>8
  <2>2. IsLow(e[j]) /\ p <= Len(q)
    BY <1>1, <1>4, <2>1
  <2>3. CASE i < p
    <3>1. i \in 1..Len(q) /\ e[i] = q[i] /\ i < j - 1
      BY <1>1, <1>4, <1>8, <2>3
    <3> QED
      BY <1>5, <2>1, <2>2, <3>1
  <2>4. CASE i = p
    <3>1. e[i] = item
      BY <1>1, <1>4, <2>4
    <3>2. ~IsLow(e[i])
      BY <1>4, <2>2, <3>1 DEF IsLow
    <3> QED
      BY <2>2, <3>2 DEF IsLow
  <2>5. CASE i > p
    <3>1. i - 1 \in 1..Len(q) /\ e[i] = q[i - 1] /\ i - 1 < j - 1 /\ i - 1 \in p..Len(q)
      BY <1>1, <1>4, <2>5
    <3>2. IsLow(e[i])
      BY <1>4, <3>1
    <3>3. q[i - 1].seq < q[j - 1].seq
      <4>1. IsLow(q[i - 1]) = IsLow(q[j - 1])
        BY <2>1, <2>2, <3>1, <3>2 DEF IsLow
      <4> QED
        BY <1>5, <2>1, <3>1, <4>1
    <3> QED
      BY <2>1, <2>2, <3>1, <3>3
  <2> QED
    BY <1>1, <2>3, <2>4, <2>5
<1> QED
  BY <1>1, <1>6, <1>7, <1>8

(***************************************************************************)
(* It survives the deletion of an item that is no fence ...                *)
(***************************************************************************)
LEMMA RemoveKeepsDiscipline ==
  ASSUME NEW S, NEW q \in Seq(Item(S)), NEW p \in 1..Len(q),
         Disciplined(q), ~IsFence(q[p])
  PROVE  Disciplined(RemoveAt(q, p))
<1> DEFINE d == RemoveAt(q, p)
           from(i) == IF i < p THEN i ELSE i + 1
<1>1. Len(q) \in Nat
  BY LenProperties
<1>2. /\ Len(d) = Len(q) - 1
      /\ \A i \in 1..Len(q) - 1 : d[i] = IF i < p THEN q[i] ELSE q[i + 1]
  BY RemoveAtPositions
<1> HIDE DEF d
<1>3. \A i \in 1..Len(d) : from(i) \in 1..Len(q) /\ d[i] = q[from(i)]
  BY <1>1, <1>2
<1>4. \A i, j \in 1..Len(d) : i < j => from(i) < from(j)
  BY <1>1, <1>2
<1>5. \A i, j \in 1..Len(d) : \A k \in from(i) + 1..from(j) :
        k # p => \E l \in i + 1..j : k = from(l)
  <2> SUFFICES ASSUME NEW i \in 1..Len(d), NEW j \in 1..Len(d), NEW k \in from(i) + 1..from(j), k # p
               PROVE  \E l \in i + 1..j : k = from(l)
    OBVIOUS
  <2>1. CASE k < p
    <3>1. k \in i + 1..j /\ k = from(k)
      BY <1>1, <1>2, <2>1
    <3> QED
      BY <3>1
  <2>2. CASE k > p
    <3>1. k - 1 \in i + 1..j /\ k = from(k - 1)
      BY <1>1, <1>2, <2>2
    <3> QED
      BY <3>1
  <2> QED
    BY <1>1, <1>2, <2>1, <2>2
<1>6. \A i, j \in 1..Len(q) : i < j =>
        /\ IsLow(q[i]) = IsLow(q[j]) => q[i].seq < q[j].seq
        /\ IsLow(q[i]) /\ ~IsLow(q[j]) => \E k \in i + 1..j : IsFence(q[k])
  BY DEF Disciplined
<1> SUFFICES ASSUME NEW i \in 1..Len(d), NEW j \in 1..Len(d), i < j
             PROVE  /\ IsLow(d[i]) = IsLow(d[j]) => d[i].seq < d[j].seq
                    /\ IsLow(d[i]) /\ ~IsLow(d[j]) => \E k \in i + 1..j : IsFence(d[k])
  BY DEF Disciplined, d
<1> HIDE DEF from
<1>7. /\ from(i) \in 1..Len(q) /\ d[i] = q[from(i)]
      /\ from(j) \in 1..Len(q) /\ d[j] = q[from(j)]
      /\ from(i) < from(j)
  BY <1>3, <1>4
<1>8. ASSUME IsLow(d[i]), ~IsLow(d[j])
      PROVE  \E k \in i + 1..j : IsFence(d[k])
  <2>1. PICK k \in from(i) + 1..from(j) : IsFence(q[k])
    BY <1>6, <1>7, <1>8
  <2>2. k # p
    BY <2>1
  <2>3. PICK l \in i + 1..j : k = from(l)
    BY <1>5, <2>1, <2>2
  <2>4. l \in 1..Len(d)
    BY <1>1, <1>2, <2>3
  <2>5. d[l] = q[k]
    BY <1>3, <2>3, <2>4
  <2> QED
    BY <2>1, <2>3, <2>5
<1> QED
  BY <1>6, <1>7, <1>8

(***************************************************************************)
(* ... and the departure of the front.                                     *)
(***************************************************************************)
LEMMA SendKeepsDiscipline ==
  ASSUME NEW S, NEW q \in Seq(Item(S)), NEW n \in 0..Len(q),
         Disciplined(q)
  PROVE  Disciplined(SubSeq(q, n + 1, Len(q)))
<1> DEFINE r == SubSeq(q, n + 1, Len(q))
<1>1. Len(q) \in Nat /\ \A i \in 1..Len(q) : q[i] \in Item(S)
  BY LenProperties, ElementOfSeq
<1>2. Len(r) = Len(q) - n /\ \A i \in 1..Len(q) - n : r[i] = q[n + i]
  <2>1. \A i \in n + 1..Len(q) : q[i] \in Item(S)
    BY <1>1
  <2> QED
    BY <1>1, <2>1, SubSeqProperties
<1> HIDE DEF r
<1>3. \A i, j \in 1..Len(q) : i < j =>
        /\ IsLow(q[i]) = IsLow(q[j]) => q[i].seq < q[j].seq
        /\ IsLow(q[i]) /\ ~IsLow(q[j]) => \E k \in i + 1..j : IsFence(q[k])
  BY DEF Disciplined
<1> SUFFICES ASSUME NEW i \in 1..Len(r), NEW j \in 1..Len(r), i < j
             PROVE  /\ IsLow(r[i]) = IsLow(r[j]) => r[i].seq < r[j].seq
                    /\ IsLow(r[i]) /\ ~IsLow(r[j]) => \E k \in i + 1..j : IsFence(r[k])
  BY DEF Disciplined, r
<1>4. /\ n + i \in 1..Len(q) /\ r[i] = q[n + i]
      /\ n + j \in 1..Len(q) /\ r[j] = q[n + j]
      /\ n + i < n + j
  BY <1>1, <1>2
<1>5. ASSUME IsLow(r[i]), ~IsLow(r[j])
      PROVE  \E k \in i + 1..j : IsFence(r[k])
  <2>1. PICK k \in n + i + 1..n + j : IsFence(q[k])
    <3>1. IsLow(q[n + i]) /\ ~IsLow(q[n + j])
      BY <1>4, <1>5
    <3> QED
      BY <1>3, <1>4, <3>1
  <2>2. k - n \in i + 1..j /\ k - n \in 1..Len(q) - n /\ n + (k - n) = k
    BY <1>1, <1>2, <2>1
  <2>3. r[k - n] = q[k]
    BY <1>2, <2>2
  <2> QED
    BY <2>1, <2>2, <2>3
<1> QED
  BY <1>3, <1>4, <1>5

-----------------------------------------------------------------------------
(* TsServer *)

(***************************************************************************)
(* sendNextRequests() stops: the queue has a first item that holds the     *)
(* others back, or none.                                                   *)
(***************************************************************************)
LEMMA SentCountProperties ==
  ASSUME NEW q \in Seq(Item(Seqs)), NEW pending, NEW cbs
  PROVE  /\ SentCount(q, pending, cbs) \in 0..Len(q)
         /\ pending # {} => SentCount(q, pending, cbs) = 0
         /\ pending = {} =>
              /\ \A i \in 1..SentCount(q, pending, cbs) - 1 : ~HoldsBack(q[i], cbs)
              /\ SentCount(q, pending, cbs) < Len(q) =>
                   /\ SentCount(q, pending, cbs) > 0
                   /\ HoldsBack(q[SentCount(q, pending, cbs)], cbs)
<1> DEFINE T == {i \in 1..Len(q) : HoldsBack(q[i], cbs)}
           Stops(n) == /\ \A i \in 1..n - 1 : ~HoldsBack(q[i], cbs)
                       /\ n < Len(q) => n > 0 /\ HoldsBack(q[n], cbs)
<1>1. Len(q) \in Nat
  BY LenProperties
<1>2. CASE pending # {}
  BY <1>1, <1>2 DEF SentCount
<1>3. CASE pending = {}
  <2>1. \E n \in 0..Len(q) : Stops(n)
    <3>1. CASE T = {}
      BY <1>1, <3>1
    <3>2. CASE T # {}
      <4>1. T \subseteq Nat
        BY <1>1
      <4>2. PICK m \in T : \A i \in T : ~(<<i, m>> \in OpToRel(<, Nat))
        <5> HIDE DEF T
        <5> QED
          BY <3>2, <4>1, NatLessThanWellFounded, WFMin
      <4>3. \A i \in T : ~(i < m)
        <5>1. \A i \in T : <<i, m>> \in OpToRel(<, Nat) <=> i < m
          BY <4>1 DEF OpToRel
        <5> QED
          BY <4>2, <5>1
      <4>4. \A i \in 1..m - 1 : ~HoldsBack(q[i], cbs)
        BY <1>1, <4>3
      <4> QED
        BY <1>1, <4>4
    <3> QED
      BY <3>1, <3>2
  <2>2. SentCount(q, pending, cbs) = CHOOSE n \in 0..Len(q) : Stops(n)
    BY <1>3 DEF SentCount
  <2> HIDE DEF Stops
  <2>3. SentCount(q, pending, cbs) \in 0..Len(q) /\ Stops(SentCount(q, pending, cbs))
    BY <2>1, <2>2
  <2> QED
    BY <1>3, <2>3 DEF Stops
<1> QED
  BY <1>2, <1>3

(***************************************************************************)
(* sendNextRequests() moves the front of the queue to the process and      *)
(* keeps the rest: nothing is lost, duplicated or reordered.  A write that *)
(* throws settles the promise whose callback it takes.                     *)
(***************************************************************************)
Promised == [Seqs -> {"none", "pending"} \cup Settled]

\* The promises of the failed writes are rejected.
Rejects(failed, cbs, out) ==
  /\ callbacks' = cbs \ failed
  /\ outcome' = [s \in Seqs |-> IF s \in failed THEN "error" ELSE out[s]]

LEMMA SendNextRequestsProperties ==
  ASSUME NEW q \in Seq(Item(Seqs)), NEW pending \in SUBSET Seqs, NEW cbs \in SUBSET Seqs,
         NEW out \in Promised, written \in Seq(Item(Seqs)),
         SendNextRequests(q, pending, cbs, out)
  PROVE  /\ queue' \in Seq(Item(Seqs))
         /\ written' \in Seq(Item(Seqs))
         /\ Len(written') >= Len(written)
         /\ written' \o queue' = written \o q
         /\ callbacks' \in SUBSET Seqs
         /\ pendingResponses' \in SUBSET Seqs
         /\ outcome' \in Promised
         /\ \E failed \in SUBSET cbs : Rejects(failed, cbs, out)
<1> DEFINE n    == SentCount(q, pending, cbs)
           sent == SubSeq(q, 1, n)
           rest == SubSeq(q, n + 1, Len(q))
           failed == FailedWrites(sent, cbs)
<1>1. Len(q) \in Nat /\ \A i \in 1..Len(q) : q[i] \in Item(Seqs)
  BY LenProperties, ElementOfSeq
<1>2. n \in 0..Len(q)
  BY SentCountProperties
<1> HIDE DEF n
<1>3. sent \in Seq(Item(Seqs)) /\ rest \in Seq(Item(Seqs))
  <2>1. \A i \in 1..n : q[i] \in Item(Seqs)
    BY <1>1, <1>2
  <2>2. \A i \in n + 1..Len(q) : q[i] \in Item(Seqs)
    BY <1>1, <1>2
  <2> QED
    BY <1>1, <1>2, <2>1, <2>2, SubSeqProperties
<1>4. sent \o rest = q
  <2>1. Len(sent) = n /\ \A i \in 1..n : sent[i] = q[i]
    <3>1. \A i \in 1..n : q[i] \in Item(Seqs)
      BY <1>1, <1>2
    <3> QED
      BY <1>2, <3>1, SubSeqProperties
  <2>2. Len(rest) = Len(q) - n /\ \A i \in 1..Len(q) - n : rest[i] = q[n + i]
    <3>1. \A i \in n + 1..Len(q) : q[i] \in Item(Seqs)
      BY <1>1, <1>2
    <3> QED
      BY <1>1, <1>2, <3>1, SubSeqProperties
  <2> HIDE DEF sent, rest
  <2>3. /\ sent \o rest \in Seq(Item(Seqs))
        /\ Len(sent \o rest) = Len(sent) + Len(rest)
        /\ \A i \in 1..Len(sent) + Len(rest) :
             (sent \o rest)[i] = IF i <= Len(sent) THEN sent[i] ELSE rest[i - Len(sent)]
    BY <1>3, ConcatProperties
  <2>4. Len(sent) + Len(rest) = Len(q)
    BY <1>1, <1>2, <2>1, <2>2
  <2>5. \A i \in 1..Len(q) : (sent \o rest)[i] = q[i]
    <3> SUFFICES ASSUME NEW i \in 1..Len(q)
                 PROVE  (sent \o rest)[i] = q[i]
      OBVIOUS
    <3>1. CASE i <= n
      BY <1>1, <1>2, <2>1, <2>3, <2>4, <3>1
    <3>2. CASE i > n
      <4>1. PICK k \in 1..Len(q) - n : i = n + k
        <5>1. i - n \in 1..Len(q) - n /\ i = n + (i - n)
          BY <1>1, <1>2, <3>2
        <5> QED
          BY <5>1
      <4>2. (sent \o rest)[i] = rest[k]
        <5>1. i \in 1..Len(sent) + Len(rest) /\ ~(i <= Len(sent)) /\ i - Len(sent) = k
          BY <1>1, <1>2, <2>1, <2>4, <3>2, <4>1
        <5> QED
          BY <2>3, <5>1
      <4>3. rest[k] = q[n + k]
        BY <2>2
      <4> QED
        BY <4>1, <4>2, <4>3
    <3>3. i <= n \/ i > n
      BY <1>1, <1>2
    <3> QED
      BY <3>1, <3>2, <3>3
  <2> QED
    BY <2>3, <2>4, <2>5, SeqEqual
<1>5. /\ queue' = rest
      /\ written' = written \o sent
      /\ pendingResponses' = pending \cup NowAwaited(sent, cbs)
      /\ callbacks' = cbs \ failed
      /\ outcome' = [s \in Seqs |-> IF s \in failed THEN "error" ELSE out[s]]
  BY DEF SendNextRequests, n
<1>6. failed \subseteq cbs /\ NowAwaited(sent, cbs) \subseteq Seqs
  BY DEF FailedWrites, NowAwaited
<1> HIDE DEF sent, rest, failed
<1>7. written' \o queue' = written \o q
  <2>1. (written \o sent) \o rest = written \o (sent \o rest)
    BY <1>3, ConcatAssociative
  <2> QED
    BY <1>4, <1>5, <2>1
<1>8. written' \in Seq(Item(Seqs)) /\ Len(written') >= Len(written)
  <2>1. Len(written) \in Nat /\ Len(sent) \in Nat
    BY <1>3, LenProperties
  <2> QED
    BY <1>3, <1>5, <2>1, ConcatProperties
<1>9. outcome' \in Promised
  BY <1>5 DEF Promised, Settled, Results
<1>10. failed \in SUBSET cbs /\ Rejects(failed, cbs, out)
  BY <1>5, <1>6 DEF Rejects
<1> QED
  BY <1>3, <1>5, <1>6, <1>7, <1>8, <1>9, <1>10

-----------------------------------------------------------------------------
(***************************************************************************)
(* The step theorems: one lemma per action, then the invariant.            *)
(***************************************************************************)
LEMMA FenceInvInit == Init => FenceInv
<1> SUFFICES ASSUME Init PROVE FenceInv
  OBVIOUS
<1>1. TypeOK
  <2>1. <<>> \in Seq(Item(Seqs)) /\ <<>> \in Seq(Messages) /\ Len(<<>>) = 0
    BY EmptySeq
  <2>2. sequenceNumber \in 0..MaxRequests
    BY BoundsAssumption DEF Init
  <2>3. outcome \in [Seqs -> {"none", "pending"} \cup Settled]
    BY DEF Init
  <2>4. /\ queue \in Seq(Item(Seqs)) /\ written \in Seq(Item(Seqs)) /\ stdout \in Seq(Messages)
        /\ nread \in 0..Len(written)
    BY <2>1 DEF Init
  <2>5. /\ callbacks \in SUBSET Seqs /\ pendingResponses \in SUBSET Seqs /\ working \in SUBSET Seqs
        /\ proc \in {"running", "exited"} /\ killed \in BOOLEAN /\ errored \in BOOLEAN
    BY DEF Init
  <2> QED
    BY <2>2, <2>3, <2>4, <2>5 DEF TypeOK
<1>2. written \o queue = <<>> /\ Len(written \o queue) = 0
  BY DEF Init
<1> QED
  BY <1>1, <1>2 DEF FenceInv, FenceOrder, FenceOrdered, NumbersGivenOut

LEMMA FenceInvStep == FenceInv /\ [Next]_vars => FenceInv'
<1> SUFFICES ASSUME FenceInv, [Next]_vars
             PROVE  FenceInv'
  OBVIOUS
<1> USE BoundsAssumption
<1> DEFINE log == written \o queue
<1>1. /\ Seqs \in SUBSET Nat
      /\ TypeOK /\ FenceOrdered(log)
      /\ sequenceNumber \in Nat
      /\ \A i \in 1..Len(log) : log[i].seq < sequenceNumber
      /\ queue \in Seq(Item(Seqs)) /\ written \in Seq(Item(Seqs))
      /\ outcome \in Promised
  BY DEF FenceInv, FenceOrder, NumbersGivenOut, TypeOK, Seqs, Promised
<1>2. ASSUME NEW kind \in Kinds, ExecuteImpl(kind)
      PROVE  FenceInv'
  <2> DEFINE s    == sequenceNumber
             item == [seq |-> s, kind |-> kind]
             q    == Enqueue(queue, item)
             cbs  == IF kind.expectsResponse THEN callbacks \cup {s} ELSE callbacks
             out  == IF kind.expectsResponse THEN [outcome EXCEPT ![s] = "pending"] ELSE outcome
  <2>1. s \in Seqs /\ item \in Item(Seqs)
    BY <1>1, <1>2, KindsAssumption DEF ExecuteImpl, TypeOK, Seqs, Item
  <2>2. q \in Seq(Item(Seqs))
    BY <1>1, <2>1, EnqueuePositions
  <2>3. FenceOrdered(written \o q) /\ \A i \in 1..Len(written \o q) : (written \o q)[i].seq <= s
    <3>1. item.seq = s
      OBVIOUS
    <3> HIDE DEF item, q
    <3> QED
      BY <1>1, <2>1, <3>1, EnqueueKeepsFenceOrder DEF q
  <2>4. cbs \in SUBSET Seqs /\ out \in Promised
    BY <1>1, <2>1 DEF TypeOK, Promised
  <2>5. SendNextRequests(q, pendingResponses, cbs, out)
    BY <1>2 DEF ExecuteImpl
  <2>6. /\ sequenceNumber' = sequenceNumber + 1
        /\ sequenceNumber < MaxRequests
        /\ UNCHANGED <<serverVars, healthVars>>
    BY <1>2 DEF ExecuteImpl
  <2> HIDE DEF q, cbs, out
  <2>7. /\ queue' \in Seq(Item(Seqs))
        /\ written' \in Seq(Item(Seqs))
        /\ Len(written') >= Len(written)
        /\ written' \o queue' = written \o q
        /\ callbacks' \in SUBSET Seqs
        /\ pendingResponses' \in SUBSET Seqs
        /\ outcome' \in Promised
    BY <1>1, <2>2, <2>4, <2>5, SendNextRequestsProperties DEF TypeOK
  <2>8. TypeOK'
    BY <1>1, <2>6, <2>7, LenProperties DEF TypeOK, Promised, serverVars, healthVars
  <2>9. FenceOrder'
    BY <2>3, <2>7 DEF FenceOrder
  <2>10. NumbersGivenOut'
    <3> SUFFICES ASSUME NEW i \in 1..Len(written \o q)
                 PROVE  (written \o q)[i].seq < sequenceNumber + 1
      BY <2>6, <2>7 DEF NumbersGivenOut
    <3>1. (written \o q)[i] \in Item(Seqs)
      BY <1>1, <2>2, ConcatProperties, ElementOfSeq
    <3>2. (written \o q)[i].seq \in Nat
      BY <1>1, <3>1 DEF Item
    <3>3. (written \o q)[i].seq <= sequenceNumber
      BY <2>3
    <3> QED
      BY <1>1, <3>2, <3>3
  <2> QED
    BY <2>8, <2>9, <2>10 DEF FenceInv
<1>3. ASSUME NEW s \in Seqs, TryCancelRequest(s)
      PROVE  FenceInv'
  <2>1. /\ queue' = DeletePending(queue, s)
        /\ callbacks' = callbacks \ {s}
        /\ pendingResponses' = StopAwaiting(s)
        /\ outcome' = SettledWith(s, "cancelled")
        /\ UNCHANGED <<sequenceNumber, written, serverVars, healthVars>>
    BY <1>3 DEF TryCancelRequest
  <2>2. /\ DeletePending(queue, s) \in Seq(Item(Seqs))
        /\ FenceOrdered(written \o DeletePending(queue, s))
        /\ \A i \in 1..Len(written \o DeletePending(queue, s)) :
             (written \o DeletePending(queue, s))[i].seq < sequenceNumber
    BY <1>1, DeleteKeepsFenceOrder
  <2>3. TypeOK'
    BY <1>1, <2>1, <2>2 DEF TypeOK, StopAwaiting, SettledWith, Settled, serverVars, healthVars
  <2> QED
    BY <2>1, <2>2, <2>3 DEF FenceInv, FenceOrder, NumbersGivenOut
<1>4. ASSUME NEW cbs \in SUBSET Seqs, NEW pending \in SUBSET Seqs, NEW out \in Promised,
             NEW message, Receive(message),
             SendNextRequests(queue, pending, cbs, out)
      PROVE  FenceInv'
  <2>1. /\ queue' \in Seq(Item(Seqs))
        /\ written' \in Seq(Item(Seqs))
        /\ Len(written') >= Len(written)
        /\ written' \o queue' = log
        /\ callbacks' \in SUBSET Seqs
        /\ pendingResponses' \in SUBSET Seqs
        /\ outcome' \in Promised
    BY <1>1, <1>4, SendNextRequestsProperties
  <2>2. stdout' \in Seq(Messages)
    BY <1>1, <1>4, HeadTailProperties DEF Receive, TypeOK
  <2>3. UNCHANGED <<sequenceNumber, nread, working, healthVars>>
    BY <1>4 DEF Receive
  <2>4. TypeOK'
    BY <1>1, <2>1, <2>2, <2>3, LenProperties DEF TypeOK, Promised, healthVars
  <2> QED
    BY <1>1, <2>1, <2>3, <2>4 DEF FenceInv, FenceOrder, NumbersGivenOut
<1>5. ASSUME NEW s \in Seqs, NEW result \in Results, ReceiveResponse(s, result)
      PROVE  FenceInv'
  <2>1. /\ callbacks \ {s} \in SUBSET Seqs
        /\ StopAwaiting(s) \in SUBSET Seqs
        /\ SettledWith(s, result) \in Promised
    BY <1>1 DEF TypeOK, StopAwaiting, SettledWith, Settled, Promised
  <2> QED
    BY <1>4, <1>5, <2>1 DEF ReceiveResponse
<1>6. ASSUME NEW s \in Seqs, ReceiveRequestCompleted(s)
      PROVE  FenceInv'
  <2>1. /\ callbacks \ {s} \in SUBSET Seqs
        /\ pendingResponses \in SUBSET Seqs
        /\ SettledWith(s, "completed") \in Promised
    BY <1>1 DEF TypeOK, SettledWith, Settled, Promised
  <2> QED
    BY <1>4, <1>6, <2>1 DEF ReceiveRequestCompleted
<1>7. ASSUME ReceiveEvent
      PROVE  FenceInv'
  BY <1>1, <1>4, <1>7 DEF ReceiveEvent, TypeOK
<1>8. ASSUME ProcessExit
      PROVE  FenceInv'
  <2>1. TypeOK'
    BY <1>1, <1>8 DEF ProcessExit, DestroyCallbacks, TypeOK, Settled, serverVars
  <2> QED
    BY <1>1, <1>8, <2>1 DEF ProcessExit, FenceInv, FenceOrder, NumbersGivenOut
<1>9. ASSUME ProcessError
      PROVE  FenceInv'
  <2>1. stdout' \in Seq(Messages)
    BY <1>1, <1>9, HeadTailProperties DEF ProcessError, TypeOK
  <2>2. TypeOK'
    BY <1>1, <1>9, <2>1 DEF ProcessError, DestroyCallbacks, TypeOK, Settled
  <2> QED
    BY <1>1, <1>9, <2>2 DEF ProcessError, FenceInv, FenceOrder, NumbersGivenOut
<1>10. ASSUME Kill
       PROVE  FenceInv'
  BY <1>1, <1>10 DEF Kill, TypeOK, clientVars, serverVars, FenceInv, FenceOrder, NumbersGivenOut
<1>11. ASSUME Server
       PROVE  FenceInv'
  <2>1. UNCHANGED <<clientVars, healthVars>>
    BY <1>11 DEF Server, ServerRead, ServerComplete, ServerEvent
  <2>2. stdout' \in Seq(Messages) /\ working' \in SUBSET Seqs /\ nread' \in 0..Len(written)
    <3>1. \A m \in Messages : Append(stdout, m) \in Seq(Messages)
      BY <1>1, AppendProperties DEF TypeOK
    <3>2. ASSUME NEW i \in 1..Len(written), ServerRead(i)
          PROVE  stdout' \in Seq(Messages) /\ working' \in SUBSET Seqs /\ nread' \in 0..Len(written)
      <4>1. written[i].seq \in Seqs
        <5>1. written[i] \in Item(Seqs)
          BY <1>1, ElementOfSeq
        <5> QED
          BY <5>1 DEF Item
      <4>2. \A r \in Results : Response(written[i].seq, r) \in Messages
        BY <4>1 DEF Messages
      <4>3. i \in 0..Len(written)
        BY <1>1, LenProperties
      <4> QED
        BY <1>1, <3>1, <3>2, <4>1, <4>2, <4>3 DEF ServerRead, TypeOK
    <3>3. ASSUME NEW s \in Seqs, ServerComplete(s)
          PROVE  stdout' \in Seq(Messages) /\ working' \in SUBSET Seqs /\ nread' \in 0..Len(written)
      BY <1>1, <3>1, <3>3 DEF ServerComplete, TypeOK, Messages
    <3>4. ASSUME ServerEvent
          PROVE  stdout' \in Seq(Messages) /\ working' \in SUBSET Seqs /\ nread' \in 0..Len(written)
      BY <1>1, <3>1, <3>4 DEF ServerEvent, TypeOK, Messages
    <3> QED
      BY <1>11, <3>2, <3>3, <3>4 DEF Server
  <2>3. TypeOK'
    BY <1>1, <2>1, <2>2 DEF TypeOK, clientVars, healthVars
  <2> QED
    BY <1>1, <2>1, <2>3 DEF clientVars, FenceInv, FenceOrder, NumbersGivenOut
<1>12. ASSUME UNCHANGED vars
       PROVE  FenceInv'
  BY <1>1, <1>12 DEF vars, clientVars, serverVars, healthVars, TypeOK, FenceInv, FenceOrder, NumbersGivenOut
<1> QED
  BY <1>2, <1>3, <1>5, <1>6, <1>7, <1>8, <1>9, <1>10, <1>11, <1>12 DEF Next, ReceiveMessage

(***************************************************************************)
(* Type correctness: no handler leaves the connection with a number that   *)
(* was not given out, a message that is none, or a position past the end   *)
(* of what was written.                                                    *)
(***************************************************************************)
THEOREM TypeCorrect == Spec => []TypeOK
<1>1. FenceInv => TypeOK
  BY DEF FenceInv
<1> QED
  BY <1>1, FenceInvInit, FenceInvStep, PTL DEF Spec

(***************************************************************************)
(* No request crosses an edit, for any number of requests, any mix of      *)
(* kinds and any interleaving of answers, cancellations and failures: the  *)
(* order in which tsserver reads its input agrees with the order of the    *)
(* calls wherever an edit is involved (RequestQueue and ProcBasedTsServer).*)
(***************************************************************************)
THEOREM FencesHold == Spec => []FenceOrder
<1>1. FenceInv => FenceOrder
  BY DEF FenceInv
<1> QED
  BY <1>1, FenceInvInit, FenceInvStep, PTL DEF Spec

(***************************************************************************)
(* The discipline of the queue through a step: enqueueing, deleting and    *)
(* sending keep it, as is shown of each above.  tryCancelRequest           *)
(* deletes no edit: the request that may be cancelled is none, and by      *)
(* FenceOrder no other item has its number.                                *)
(***************************************************************************)
LEMMA SendNextDisciplined ==
  ASSUME NEW q \in Seq(Item(Seqs)), Disciplined(q), NEW pending, NEW cbs, NEW out,
         SendNextRequests(q, pending, cbs, out)
  PROVE  QueueDiscipline'
<1> DEFINE n == SentCount(q, pending, cbs)
<1>1. n \in 0..Len(q)
  BY SentCountProperties
<1>2. queue' = SubSeq(q, n + 1, Len(q))
  BY DEF SendNextRequests
<1> HIDE DEF n
<1>3. Disciplined(SubSeq(q, n + 1, Len(q)))
  BY <1>1, SendKeepsDiscipline
<1> QED
  BY <1>2, <1>3 DEF QueueDiscipline

LEMMA CancelDeletesNoFence ==
  ASSUME FenceInv, NEW s \in Seqs, Cancellable(s),
         NEW p \in 1..Len(queue), queue[p].seq = s
  PROVE  ~IsFence(queue[p])
<1> DEFINE log == written \o queue
           P   == Len(written) + p
<1>1. queue \in Seq(Item(Seqs)) /\ written \in Seq(Item(Seqs)) /\ s \in Nat
  BY BoundsAssumption DEF FenceInv, TypeOK, Seqs
<1>2. /\ Len(written) \in Nat /\ Len(queue) \in Nat
      /\ Len(log) = Len(written) + Len(queue)
      /\ \A i \in 1..Len(written) + Len(queue) :
           log[i] = IF i <= Len(written) THEN written[i] ELSE queue[i - Len(written)]
  BY <1>1, LenProperties, ConcatProperties
<1>3. P \in 1..Len(log) /\ log[P] = queue[p]
  BY <1>2
<1>4. PICK i \in 1..Len(log) : log[i].seq = s /\ ~IsFence(log[i])
  BY DEF Cancellable
<1> HIDE DEF log, P
<1>5. \A k, l \in 1..Len(log) :
        k < l /\ (IsFence(log[k]) \/ IsFence(log[l])) => log[k].seq < log[l].seq
  BY DEF FenceInv, FenceOrder, FenceOrdered, log
<1> SUFFICES ASSUME IsFence(queue[p])
             PROVE  FALSE
  OBVIOUS
<1>6. i # P
  BY <1>3, <1>4
<1>7. i < P \/ P < i
  BY <1>2, <1>3, <1>6
<1>8. s < s
  BY <1>3, <1>4, <1>5, <1>7
<1> QED
  BY <1>1, <1>8

LEMMA DisciplineStep == FenceInv /\ QueueDiscipline /\ [Next]_vars => QueueDiscipline'
<1> SUFFICES ASSUME FenceInv, QueueDiscipline, [Next]_vars
             PROVE  QueueDiscipline'
  OBVIOUS
<1> USE BoundsAssumption
<1>1. /\ Seqs \in SUBSET Nat
      /\ queue \in Seq(Item(Seqs)) /\ written \in Seq(Item(Seqs))
      /\ sequenceNumber \in Nat
      /\ Disciplined(queue)
  BY DEF FenceInv, TypeOK, Seqs, QueueDiscipline
<1>2. ASSUME NEW kind \in Kinds, ExecuteImpl(kind)
      PROVE  QueueDiscipline'
  <2> DEFINE s    == sequenceNumber
             item == [seq |-> s, kind |-> kind]
             q    == Enqueue(queue, item)
  <2>1. item \in Item(Seqs)
    BY <1>1, <1>2, KindsAssumption DEF ExecuteImpl, Seqs, Item
  <2>2. \A i \in 1..Len(queue) : queue[i].seq < s
    <3> SUFFICES ASSUME NEW i \in 1..Len(queue)
                 PROVE  queue[i].seq < s
      OBVIOUS
    <3>1. /\ Len(written) \in Nat /\ Len(queue) \in Nat
          /\ Len(written \o queue) = Len(written) + Len(queue)
          /\ \A k \in 1..Len(written) + Len(queue) :
               (written \o queue)[k] = IF k <= Len(written) THEN written[k] ELSE queue[k - Len(written)]
      BY <1>1, LenProperties, ConcatProperties
    <3>2. /\ Len(written) + i \in 1..Len(written \o queue)
          /\ (written \o queue)[Len(written) + i] = queue[i]
      BY <3>1
    <3> QED
      BY <3>2 DEF FenceInv, NumbersGivenOut
  <2>3. item.seq = s
    OBVIOUS
  <2> HIDE DEF item
  <2>4. q \in Seq(Item(Seqs))
    BY <1>1, <2>1, EnqueuePositions
  <2>5. Disciplined(q)
    BY <1>1, <2>1, <2>2, <2>3, EnqueueKeepsDiscipline
  <2>6. \E cbs, out : SendNextRequests(q, pendingResponses, cbs, out)
    BY <1>2 DEF ExecuteImpl, item
  <2> HIDE DEF q
  <2> QED
    BY <2>4, <2>5, <2>6, SendNextDisciplined
<1>3. ASSUME NEW s \in Seqs, TryCancelRequest(s)
      PROVE  QueueDiscipline'
  <2>1. queue' = DeletePending(queue, s) /\ Cancellable(s)
    BY <1>3 DEF TryCancelRequest
  <2>2. CASE ~Queued(queue, s)
    BY <1>1, <2>1, <2>2 DEF DeletePending, QueueDiscipline
  <2>3. CASE Queued(queue, s)
    <3> DEFINE p == CHOOSE i \in 1..Len(queue) : queue[i].seq = s
    <3>1. p \in 1..Len(queue) /\ queue[p].seq = s
      BY <2>3 DEF Queued
    <3>2. queue' = RemoveAt(queue, p)
      BY <2>1, <2>3 DEF DeletePending
    <3> HIDE DEF p
    <3>3. ~IsFence(queue[p])
      BY <2>1, <3>1, CancelDeletesNoFence
    <3>4. Disciplined(RemoveAt(queue, p))
      BY <1>1, <3>1, <3>3, RemoveKeepsDiscipline
    <3> QED
      BY <3>2, <3>4 DEF QueueDiscipline
  <2> QED
    BY <2>2, <2>3
<1>4. ASSUME ReceiveMessage
      PROVE  QueueDiscipline'
  <2>1. \E pending, cbs, out : SendNextRequests(queue, pending, cbs, out)
    BY <1>4 DEF ReceiveMessage, ReceiveResponse, ReceiveRequestCompleted, ReceiveEvent
  <2> QED
    BY <1>1, <2>1, SendNextDisciplined
<1>5. ASSUME ProcessExit \/ ProcessError \/ Kill \/ Server \/ UNCHANGED vars
      PROVE  QueueDiscipline'
  <2>1. queue' = queue
    BY <1>5 DEF ProcessExit, ProcessError, Kill, Server, ServerRead, ServerComplete, ServerEvent,
                clientVars, vars
  <2> QED
    BY <1>1, <2>1 DEF QueueDiscipline
<1> QED
  BY <1>2, <1>3, <1>4, <1>5 DEF Next

(***************************************************************************)
(* Between two edits, normal requests are served before low-priority ones  *)
(* and each class in the order of the calls, whatever is answered,         *)
(* cancelled or fails meanwhile (RequestQueue.enqueue).                    *)
(***************************************************************************)
THEOREM DisciplineHolds == Spec => []QueueDiscipline
<1>1. Init => QueueDiscipline
  <2>1. Init => queue = <<>> /\ Len(queue) = 0
    BY DEF Init
  <2> QED
    BY <2>1 DEF QueueDiscipline, Disciplined
<1> QED
  BY <1>1, FenceInvInit, FenceInvStep, DisciplineStep, PTL DEF Spec

-----------------------------------------------------------------------------
(***************************************************************************)
(* No number is used twice, and what the server says or works on is a      *)
(* request that it has read: an answer is for one that is not              *)
(* asynchronous, a completion for one that is.                             *)
(***************************************************************************)
Distinct(q) == \A i, j \in 1..Len(q) : q[i].seq = q[j].seq => i = j

HasRead(s, async) == \E i \in 1..nread : written[i].seq = s /\ written[i].kind.isAsync = async

SaysWhatItRead ==
  /\ \A k \in 1..Len(stdout) :
       /\ stdout[k].type = "response" => HasRead(stdout[k].seq, FALSE)
       /\ stdout[k].type = "requestCompleted" => HasRead(stdout[k].seq, TRUE)
  /\ \A s \in working : HasRead(s, TRUE)

\* While the server is up, a request in the queue has its callback.
HaveCallbacks(q, cbs) == \A i \in 1..Len(q) : q[i].kind.expectsResponse => q[i].seq \in cbs

NothingStuck ==
  /\ Distinct(written \o queue)
  /\ SaysWhatItRead
  /\ Up => HaveCallbacks(queue, callbacks)
  /\ PendingIsOwed
  /\ NoStall

OwedInv == FenceInv /\ NothingStuck

LEMMA DistinctConcat ==
  ASSUME NEW S, NEW a \in Seq(Item(S)), NEW b \in Seq(Item(S))
  PROVE  Distinct(a \o b) <=> /\ Distinct(a)
                              /\ Distinct(b)
                              /\ \A i \in 1..Len(a), j \in 1..Len(b) : a[i].seq # b[j].seq
<1> DEFINE c == a \o b
<1>1. /\ Len(a) \in Nat /\ Len(b) \in Nat
      /\ Len(c) = Len(a) + Len(b)
      /\ \A i \in 1..Len(a) + Len(b) : c[i] = IF i <= Len(a) THEN a[i] ELSE b[i - Len(a)]
  BY LenProperties, ConcatProperties
<1> HIDE DEF c
<1>2. \A i \in 1..Len(a) : i \in 1..Len(c) /\ c[i] = a[i]
  BY <1>1
<1>3. ASSUME NEW j \in 1..Len(b)
      PROVE  Len(a) + j \in 1..Len(c) /\ c[Len(a) + j] = b[j]
  <2>1. /\ Len(a) + j \in 1..Len(a) + Len(b)
        /\ ~(Len(a) + j <= Len(a)) /\ Len(a) + j - Len(a) = j
    BY <1>1
  <2> QED
    BY <1>1, <2>1
<1>4. \A i \in 1..Len(c) : i \in 1..Len(a) \/ \E j \in 1..Len(b) : i = Len(a) + j
  <2> SUFFICES ASSUME NEW i \in 1..Len(c), i > Len(a)
               PROVE  \E j \in 1..Len(b) : i = Len(a) + j
    BY <1>1
  <2>1. i - Len(a) \in 1..Len(b) /\ i = Len(a) + (i - Len(a))
    BY <1>1
  <2> QED
    BY <2>1
<1>5. ASSUME Distinct(c)
      PROVE  /\ Distinct(a) /\ Distinct(b)
             /\ \A i \in 1..Len(a), j \in 1..Len(b) : a[i].seq # b[j].seq
  <2>1. Distinct(a)
    BY <1>2, <1>5 DEF Distinct
  <2>2. Distinct(b)
    <3> SUFFICES ASSUME NEW i \in 1..Len(b), NEW j \in 1..Len(b), b[i].seq = b[j].seq
                 PROVE  i = j
      BY DEF Distinct
    <3>1. Len(a) + i = Len(a) + j
      BY <1>3, <1>5 DEF Distinct
    <3> QED
      BY <1>1, <3>1
  <2>3. ASSUME NEW i \in 1..Len(a), NEW j \in 1..Len(b), a[i].seq = b[j].seq
        PROVE  FALSE
    <3>1. i = Len(a) + j
      BY <1>2, <1>3, <1>5, <2>3 DEF Distinct
    <3> QED
      BY <1>1, <3>1
  <2> QED
    BY <2>1, <2>2, <2>3
<1>6. ASSUME Distinct(a), Distinct(b), \A i \in 1..Len(a), j \in 1..Len(b) : a[i].seq # b[j].seq
      PROVE  Distinct(c)
  <2> SUFFICES ASSUME NEW i \in 1..Len(c), NEW j \in 1..Len(c), c[i].seq = c[j].seq
               PROVE  i = j
    BY DEF Distinct
  <2>1. CASE i \in 1..Len(a) /\ j \in 1..Len(a)
    BY <1>2, <1>6, <2>1 DEF Distinct
  <2>2. ASSUME NEW k \in 1..Len(b), NEW l \in 1..Len(b), i = Len(a) + k, j = Len(a) + l
        PROVE  i = j
    BY <1>3, <1>6, <2>2 DEF Distinct
  <2>3. ASSUME NEW l \in 1..Len(b), i \in 1..Len(a), j = Len(a) + l
        PROVE  FALSE
    <3>1. a[i].seq = b[l].seq
      BY <1>2, <1>3, <2>3
    <3> QED
      BY <1>6, <2>3, <3>1
  <2>4. ASSUME NEW k \in 1..Len(b), j \in 1..Len(a), i = Len(a) + k
        PROVE  FALSE
    <3>1. a[j].seq = b[k].seq
      BY <1>2, <1>3, <2>4
    <3> QED
      BY <1>6, <2>4, <3>1
  <2> QED
    BY <1>4, <2>1, <2>2, <2>3, <2>4
<1> QED
  BY <1>5, <1>6 DEF c

(***************************************************************************)
(* sendNextRequests() leaves a queue only behind a request that the server *)
(* owes an answer, and awaits only such requests.                          *)
(***************************************************************************)
LEMMA SendNextOwes ==
  ASSUME NEW q \in Seq(Item(Seqs)), NEW pending \in SUBSET Seqs, NEW cbs \in SUBSET Seqs, NEW out,
         written \in Seq(Item(Seqs)), nread \in 0..Len(written), nread' = nread,
         Distinct(q), HaveCallbacks(q, cbs),
         pending \subseteq cbs, pending \subseteq Owed',
         SendNextRequests(q, pending, cbs, out)
  PROVE  HaveCallbacks(queue', callbacks') /\ PendingIsOwed' /\ NoStall'
<1> DEFINE n    == SentCount(q, pending, cbs)
           sent == SubSeq(q, 1, n)
           rest == SubSeq(q, n + 1, Len(q))
           failed == FailedWrites(sent, cbs)
<1>1. /\ Len(q) \in Nat /\ Len(written) \in Nat
      /\ \A i \in 1..Len(q) : q[i] \in Item(Seqs)
      /\ \A i \in 1..Len(q) : q[i].seq \in Seqs
  <2>1. \A i \in 1..Len(q) : q[i] \in Item(Seqs)
    BY ElementOfSeq
  <2> QED
    BY <2>1, LenProperties DEF Item
<1>2. /\ n \in 0..Len(q)
      /\ pending # {} => n = 0
      /\ pending = {} /\ n < Len(q) => n > 0 /\ HoldsBack(q[n], cbs)
  BY SentCountProperties
<1>3. /\ queue' = rest
      /\ written' = written \o sent
      /\ pendingResponses' = pending \cup NowAwaited(sent, cbs)
      /\ callbacks' = cbs \ failed
  BY DEF SendNextRequests, n
<1> HIDE DEF n
<1>4. /\ sent \in Seq(Item(Seqs))
      /\ Len(sent) = n /\ \A i \in 1..n : sent[i] = q[i]
  <2>1. \A i \in 1..n : q[i] \in Item(Seqs)
    BY <1>1, <1>2
  <2> QED
    BY <1>2, <2>1, SubSeqProperties
<1>5. Len(rest) = Len(q) - n /\ \A i \in 1..Len(q) - n : rest[i] = q[n + i]
  <2>1. \A i \in n + 1..Len(q) : q[i] \in Item(Seqs)
    BY <1>1, <1>2
  <2> QED
    BY <1>1, <1>2, <2>1, SubSeqProperties
<1> HIDE DEF sent, rest
<1>6. failed = {s \in cbs : \E i \in 1..n : q[i].seq = s /\ ~q[i].kind.writable}
  BY <1>2, <1>4 DEF FailedWrites
<1>7. NowAwaited(sent, cbs) = {s \in Seqs : \E i \in 1..n : q[i].seq = s /\ HoldsBack(q[i], cbs)}
  BY <1>2, <1>4 DEF NowAwaited
<1> HIDE DEF failed
<1>8. HaveCallbacks(queue', callbacks')
  <2> SUFFICES ASSUME NEW i \in 1..Len(q) - n, q[n + i].kind.expectsResponse
               PROVE  q[n + i].seq \in cbs \ failed
    BY <1>3, <1>5 DEF HaveCallbacks
  <2>1. n + i \in 1..Len(q) /\ \A j \in 1..n : j \in 1..Len(q) /\ j # n + i
    BY <1>1, <1>2
  <2>2. q[n + i].seq \in cbs
    BY <2>1 DEF HaveCallbacks
  <2>3. q[n + i].seq \notin failed
    BY <1>6, <2>1 DEF Distinct
  <2> QED
    BY <2>2, <2>3
<1>9. ASSUME NEW i \in 1..n, HoldsBack(q[i], cbs)
      PROVE  q[i].seq \in Owed' /\ q[i].seq \in callbacks'
  <2>1. i \in 1..Len(q) /\ \A j \in 1..n : j \in 1..Len(q)
    BY <1>1, <1>2
  <2>2. q[i].seq \in cbs /\ Awaited(q[i])
    BY <1>9, <2>1 DEF HoldsBack, Awaited, HaveCallbacks
  <2>3. q[i].kind.writable
    BY <1>9, <2>2 DEF HoldsBack
  <2>4. q[i].seq \notin failed
    BY <1>6, <2>1, <2>3 DEF Distinct
  <2>5. /\ Len(written) + i \in nread' + 1..Len(written')
        /\ written'[Len(written) + i] = q[i]
    <3>1. /\ Len(written') = Len(written) + n
          /\ \A k \in 1..Len(written) + n :
               written'[k] = IF k <= Len(written) THEN written[k] ELSE sent[k - Len(written)]
      <4>1. sent \in Seq(Item(Seqs)) /\ Len(sent) = n
        BY <1>4
      <4>2. /\ Len(written \o sent) = Len(written) + Len(sent)
            /\ \A k \in 1..Len(written) + Len(sent) :
                 (written \o sent)[k] = IF k <= Len(written) THEN written[k] ELSE sent[k - Len(written)]
        BY <4>1, ConcatProperties
      <4> QED
        BY <1>3, <4>1, <4>2
    <3>2. /\ Len(written) + i \in 1..Len(written) + n /\ ~(Len(written) + i <= Len(written))
          /\ Len(written) + i - Len(written) = i
          /\ Len(written) + i \in nread + 1..Len(written) + n
      BY <1>1, <1>2
    <3> QED
      BY <1>4, <3>1, <3>2
  <2>6. Unread(q[i].seq)'
    BY <2>2, <2>3, <2>5 DEF Unread, Awaited
  <2> QED
    BY <1>1, <1>3, <2>1, <2>2, <2>4, <2>6 DEF Owed
<1>10. PendingIsOwed'
  <2> SUFFICES ASSUME NEW s \in pendingResponses'
               PROVE  s \in Owed' /\ s \in callbacks'
    BY DEF PendingIsOwed
  <2>1. CASE s \in pending
    <3>1. n = 0 /\ failed = {}
      BY <1>2, <1>6, <2>1
    <3> QED
      BY <1>3, <2>1, <3>1
  <2>2. CASE s \in NowAwaited(sent, cbs)
    BY <1>7, <1>9, <2>2
  <2> QED
    BY <1>3, <2>1, <2>2
<1>11. NoStall'
  <2> SUFFICES ASSUME queue' # <<>>
               PROVE  \E s : s \in Owed'
    BY DEF NoStall
  <2>1. CASE pending # {}
    BY <2>1
  <2>2. CASE pending = {} /\ n < Len(q)
    <3>1. n \in 1..n /\ HoldsBack(q[n], cbs)
      BY <1>2, <2>2
    <3> QED
      BY <1>9, <3>1
  <2>3. CASE n = Len(q)
    <3>1. Len(rest) = 0 /\ rest \in Seq(Item(Seqs))
      <4>1. \A i \in n + 1..Len(q) : q[i] \in Item(Seqs)
        BY <1>1, <1>2
      <4> QED
        BY <1>1, <1>2, <1>5, <2>3, <4>1, SubSeqProperties DEF rest
    <3> QED
      BY <1>3, <3>1, EmptySeq
  <2> QED
    BY <1>1, <1>2, <2>1, <2>2, <2>3
<1> QED
  BY <1>8, <1>10, <1>11

(***************************************************************************)
(* Enqueueing gives an unused number, deleting removes the only item of a  *)
(* number, so numbers stay distinct.                                       *)
(***************************************************************************)
LEMMA EnqueueKeepsDistinct ==
  ASSUME NEW S \in SUBSET Nat, NEW w \in Seq(Item(S)), NEW q \in Seq(Item(S)), NEW item \in Item(S),
         Distinct(w \o q),
         \A i \in 1..Len(w \o q) : (w \o q)[i].seq < item.seq
  PROVE  /\ Distinct(w \o Enqueue(q, item))
         /\ \A j \in 1..Len(Enqueue(q, item)) :
              Enqueue(q, item)[j] = item \/ \E i \in 1..Len(q) : Enqueue(q, item)[j] = q[i]
<1> DEFINE e == Enqueue(q, item)
<1>1. /\ Len(w) \in Nat /\ Len(q) \in Nat
      /\ Len(w \o q) = Len(w) + Len(q)
      /\ \A i \in 1..Len(w) + Len(q) : (w \o q)[i] = IF i <= Len(w) THEN w[i] ELSE q[i - Len(w)]
  BY LenProperties, ConcatProperties
<1>2. item.seq \in Nat /\ (\A i \in 1..Len(w) : w[i].seq \in Nat) /\ \A i \in 1..Len(q) : q[i].seq \in Nat
  <2>1. (\A i \in 1..Len(w) : w[i] \in Item(S)) /\ \A i \in 1..Len(q) : q[i] \in Item(S)
    BY ElementOfSeq
  <2> QED
    BY <2>1 DEF Item
<1>3. \A i \in 1..Len(w) : w[i].seq < item.seq
  <2>1. \A i \in 1..Len(w) : i \in 1..Len(w \o q) /\ (w \o q)[i] = w[i]
    BY <1>1
  <2> QED
    BY <2>1
<1>4. \A i \in 1..Len(q) : q[i].seq < item.seq
  <2>1. ASSUME NEW i \in 1..Len(q)
        PROVE  Len(w) + i \in 1..Len(w \o q) /\ (w \o q)[Len(w) + i] = q[i]
    <3>1. /\ Len(w) + i \in 1..Len(w) + Len(q)
          /\ ~(Len(w) + i <= Len(w)) /\ Len(w) + i - Len(w) = i
      BY <1>1
    <3> QED
      BY <1>1, <3>1
  <2> QED
    BY <2>1
<1>5. /\ Distinct(w) /\ Distinct(q)
      /\ \A i \in 1..Len(w), j \in 1..Len(q) : w[i].seq # q[j].seq
  BY DistinctConcat
<1>6. e \in Seq(Item(S)) /\ Len(e) = Len(q) + 1
  BY EnqueuePositions
<1>7. PICK p \in 1..Len(q) + 1 :
        \A i \in 1..Len(q) + 1 : e[i] = IF i < p THEN q[i] ELSE IF i = p THEN item ELSE q[i - 1]
  BY EnqueuePositions DEF PlacedAt
<1> HIDE DEF e
<1> DEFINE from(i) == IF i < p THEN i ELSE i - 1
<1>8. /\ e[p] = item
      /\ \A i \in 1..Len(e) : i # p => from(i) \in 1..Len(q) /\ e[i] = q[from(i)]
      /\ \A i, j \in 1..Len(e) : i # p /\ j # p /\ from(i) = from(j) => i = j
  BY <1>1, <1>6, <1>7
<1> HIDE DEF from
<1>9. Distinct(e)
  <2> SUFFICES ASSUME NEW i \in 1..Len(e), NEW j \in 1..Len(e), e[i].seq = e[j].seq
               PROVE  i = j
    BY DEF Distinct
  <2>1. CASE i # p /\ j # p
    BY <1>5, <1>8, <2>1 DEF Distinct
  <2>2. ASSUME NEW k \in 1..Len(e), k # p
        PROVE  e[k].seq # item.seq
    <3>1. e[k].seq < item.seq /\ e[k].seq \in Nat
      BY <1>2, <1>4, <1>8, <2>2
    <3> QED
      BY <1>2, <3>1
  <2> QED
    BY <1>8, <2>1, <2>2
<1>10. ASSUME NEW i \in 1..Len(w), NEW j \in 1..Len(e)
       PROVE  w[i].seq # e[j].seq
  <2>1. CASE j = p
    BY <1>2, <1>3, <1>8, <2>1
  <2>2. CASE j # p
    BY <1>5, <1>8, <2>2
  <2> QED
    BY <2>1, <2>2
<1>11. Distinct(w \o e)
  BY <1>5, <1>6, <1>9, <1>10, DistinctConcat
<1>12. \A j \in 1..Len(e) : e[j] = item \/ \E i \in 1..Len(q) : e[j] = q[i]
  BY <1>8
<1> QED
  BY <1>11, <1>12 DEF e

LEMMA DeleteKeepsDistinct ==
  ASSUME NEW S, NEW w \in Seq(Item(S)), NEW q \in Seq(Item(S)), NEW s,
         Distinct(w \o q)
  PROVE  /\ Distinct(w \o DeletePending(q, s))
         /\ \A j \in 1..Len(DeletePending(q, s)) :
              \E i \in 1..Len(q) : DeletePending(q, s)[j] = q[i] /\ q[i].seq # s
<1>1. CASE ~Queued(q, s)
  <2>1. DeletePending(q, s) = q /\ \A i \in 1..Len(q) : q[i].seq # s
    BY <1>1 DEF DeletePending, Queued
  <2> QED
    BY <2>1
<1>2. CASE Queued(q, s)
  <2> DEFINE p == CHOOSE i \in 1..Len(q) : q[i].seq = s
             d == RemoveAt(q, p)
             from(i) == IF i < p THEN i ELSE i + 1
  <2>1. DeletePending(q, s) = d
    BY <1>2 DEF DeletePending
  <2>2. p \in 1..Len(q) /\ q[p].seq = s
    BY <1>2 DEF Queued
  <2>3. Len(q) \in Nat
    BY LenProperties
  <2> HIDE DEF p
  <2>4. /\ d \in Seq(Item(S))
        /\ Len(d) = Len(q) - 1
        /\ \A i \in 1..Len(q) - 1 : d[i] = IF i < p THEN q[i] ELSE q[i + 1]
    BY <2>2, RemoveAtPositions
  <2> HIDE DEF d
  <2>5. /\ \A i \in 1..Len(d) : from(i) \in 1..Len(q) /\ from(i) # p /\ d[i] = q[from(i)]
        /\ \A i, j \in 1..Len(d) : from(i) = from(j) => i = j
    BY <2>2, <2>3, <2>4
  <2> HIDE DEF from
  <2>6. /\ Distinct(w) /\ Distinct(q)
        /\ \A i \in 1..Len(w), j \in 1..Len(q) : w[i].seq # q[j].seq
    BY DistinctConcat
  <2>7. Distinct(d)
    BY <2>5, <2>6 DEF Distinct
  <2>8. \A i \in 1..Len(w), j \in 1..Len(d) : w[i].seq # d[j].seq
    BY <2>5, <2>6
  <2>9. Distinct(w \o d)
    BY <2>4, <2>6, <2>7, <2>8, DistinctConcat
  <2>10. \A j \in 1..Len(d) : \E i \in 1..Len(q) : d[j] = q[i] /\ q[i].seq # s
    <3> SUFFICES ASSUME NEW j \in 1..Len(d)
                 PROVE  \E i \in 1..Len(q) : d[j] = q[i] /\ q[i].seq # s
      OBVIOUS
    <3>1. from(j) \in 1..Len(q) /\ from(j) # p /\ d[j] = q[from(j)]
      BY <2>5
    <3>2. q[from(j)].seq # s
      BY <2>2, <2>6, <3>1 DEF Distinct
    <3> QED
      BY <3>1, <3>2
  <2> QED
    BY <2>1, <2>9, <2>10
<1> QED
  BY <1>1, <1>2

(***************************************************************************)
(* What was written stays where it is: what the server has read remains    *)
(* read, and what it owes remains owed until its answer is received.       *)
(***************************************************************************)
WrittenGrows ==
  /\ Len(written') \in Nat /\ Len(written) <= Len(written')
  /\ \A i \in 1..Len(written) : written'[i] = written[i]

LEMMA SendGrows ==
  ASSUME NEW q \in Seq(Item(Seqs)), NEW pending, NEW cbs, NEW out,
         written \in Seq(Item(Seqs)),
         SendNextRequests(q, pending, cbs, out)
  PROVE  WrittenGrows
<1> DEFINE n    == SentCount(q, pending, cbs)
           sent == SubSeq(q, 1, n)
<1>1. n \in 0..Len(q) /\ Len(q) \in Nat /\ Len(written) \in Nat
  BY SentCountProperties, LenProperties
<1>2. written' = written \o sent
  BY DEF SendNextRequests
<1> HIDE DEF n
<1>3. sent \in Seq(Item(Seqs))
  <2>1. \A i \in 1..n : q[i] \in Item(Seqs)
    BY <1>1, ElementOfSeq
  <2> QED
    BY <1>1, <2>1, SubSeqProperties
<1> HIDE DEF sent
<1>4. /\ Len(sent) \in Nat
      /\ Len(written \o sent) = Len(written) + Len(sent)
      /\ \A i \in 1..Len(written) + Len(sent) :
           (written \o sent)[i] = IF i <= Len(written) THEN written[i] ELSE sent[i - Len(written)]
  BY <1>3, LenProperties, ConcatProperties
<1> QED
  BY <1>1, <1>2, <1>4 DEF WrittenGrows

\* HasRead of the next state, of a number that is not primed.
HasReadNext(s, async) == \E i \in 1..nread' : written'[i].seq = s /\ written'[i].kind.isAsync = async

LEMMA ReadKept ==
  ASSUME WrittenGrows, Len(written) \in Nat, nread \in 0..Len(written), nread' \in Nat, nread <= nread',
         NEW s, NEW async, HasRead(s, async)
  PROVE  HasReadNext(s, async)
<1>1. PICK i \in 1..nread : written[i].seq = s /\ written[i].kind.isAsync = async
  BY DEF HasRead
<1>2. i \in 1..nread' /\ written'[i] = written[i]
  BY DEF WrittenGrows
<1> QED
  BY <1>1, <1>2 DEF HasReadNext

LEMMA UnreadKept ==
  ASSUME WrittenGrows, Len(written) \in Nat, nread \in 0..Len(written), nread' = nread,
         NEW s, Unread(s)
  PROVE  Unread(s)'
<1>1. PICK i \in nread + 1..Len(written) :
        written[i].seq = s /\ written[i].kind.writable /\ Awaited(written[i])
  BY DEF Unread
<1>2. i \in nread' + 1..Len(written') /\ written'[i] = written[i]
  BY DEF WrittenGrows
<1> QED
  BY <1>1, <1>2 DEF Unread, Awaited

(***************************************************************************)
(* A request has been read or not, and is asynchronous or not.             *)
(***************************************************************************)
LEMMA OwedIsNotAsync ==
  ASSUME Distinct(written), Len(written) \in Nat, nread \in 0..Len(written), SaysWhatItRead,
         NEW s \in Owed
  PROVE  ~HasRead(s, TRUE)
<1> SUFFICES ASSUME HasRead(s, TRUE)
             PROVE  FALSE
  OBVIOUS
<1>1. PICK j \in 1..nread : written[j].seq = s /\ written[j].kind.isAsync = TRUE
  BY DEF HasRead
<1>2. CASE Unread(s)
  <2>1. PICK i \in nread + 1..Len(written) : written[i].seq = s /\ Awaited(written[i])
    BY <1>2 DEF Unread
  <2>2. i \in 1..Len(written) /\ j \in 1..Len(written) /\ i # j
    OBVIOUS
  <2> QED
    BY <1>1, <2>1, <2>2 DEF Distinct
<1>3. CASE Answered(s)
  <2>1. HasRead(s, FALSE)
    BY <1>3 DEF Answered, SaysWhatItRead
  <2>2. PICK i \in 1..nread : written[i].seq = s /\ written[i].kind.isAsync = FALSE
    BY <2>1 DEF HasRead
  <2>3. i \in 1..Len(written) /\ j \in 1..Len(written) /\ i # j
    BY <1>1, <2>2
  <2> QED
    BY <1>1, <2>2, <2>3 DEF Distinct
<1> QED
  BY <1>2, <1>3 DEF Owed

(***************************************************************************)
(* A message taken from the pipe, for the handlers of the reader: what is  *)
(* left is what was there behind it.                                       *)
(***************************************************************************)
LEMMA ReceiveTakesFirst ==
  ASSUME stdout \in Seq(Messages), NEW message, Receive(message)
  PROVE  /\ Len(stdout) \in Nat /\ Len(stdout') \in Nat
         /\ 1 \in 1..Len(stdout) /\ stdout[1] = message
         /\ \A k \in 1..Len(stdout') : k + 1 \in 1..Len(stdout) /\ stdout'[k] = stdout[k + 1]
         /\ \A k \in 1..Len(stdout) : k # 1 => k - 1 \in 1..Len(stdout') /\ stdout'[k - 1] = stdout[k]
<1>1. stdout # <<>> /\ Head(stdout) = message /\ stdout' = Tail(stdout)
  BY DEF Receive
<1>2. /\ stdout' \in Seq(Messages)
      /\ Len(stdout') = Len(stdout) - 1
      /\ \A k \in 1..Len(stdout') : stdout'[k] = stdout[k + 1]
  BY <1>1, HeadTailProperties
<1>3. Len(stdout) \in Nat /\ Len(stdout') \in Nat
  BY <1>2, LenProperties
<1>4. Head(stdout) = stdout[1]
  BY <1>1
<1>5. ASSUME NEW k \in 1..Len(stdout), k # 1
      PROVE  k - 1 \in 1..Len(stdout') /\ stdout'[k - 1] = stdout[k]
  <2>1. k - 1 \in 1..Len(stdout') /\ k - 1 + 1 = k
    BY <1>2, <1>3, <1>5
  <2> QED
    BY <1>2, <2>1
<1> QED
  BY <1>1, <1>2, <1>3, <1>4, <1>5

\* The conjuncts of OwedInv that a reader's handler keeps whatever it settles.
LEMMA ReceiveKeeps ==
  ASSUME OwedInv, NEW message, Receive(message),
         NEW pending \in SUBSET Seqs, NEW cbs \in SUBSET Seqs, NEW out \in Promised,
         SendNextRequests(queue, pending, cbs, out),
         Up => /\ HaveCallbacks(queue, cbs)
               /\ pending \subseteq cbs
               /\ pending \subseteq Owed
               /\ \A s \in pending : message.type = "response" => message.seq # s
  PROVE  NothingStuck'
<1>1. /\ queue \in Seq(Item(Seqs)) /\ written \in Seq(Item(Seqs))
      /\ stdout \in Seq(Messages) /\ nread \in 0..Len(written) /\ Len(written) \in Nat
  BY LenProperties DEF OwedInv, NothingStuck, FenceInv, TypeOK
<1>2. /\ UNCHANGED <<sequenceNumber, nread, working, healthVars>>
      /\ Up' = Up
  BY DEF Receive, healthVars, Up
<1>3. written' \o queue' = written \o queue
  BY <1>1, SendNextRequestsProperties
<1>4. WrittenGrows
  BY <1>1, SendGrows
<1>5. Distinct(queue)
  BY <1>1, DistinctConcat DEF OwedInv, NothingStuck
<1>6. /\ 1 \in 1..Len(stdout) /\ stdout[1] = message
      /\ \A k \in 1..Len(stdout') : k + 1 \in 1..Len(stdout) /\ stdout'[k] = stdout[k + 1]
      /\ \A k \in 1..Len(stdout) : k # 1 => k - 1 \in 1..Len(stdout') /\ stdout'[k - 1] = stdout[k]
  BY <1>1, ReceiveTakesFirst
<1>7. \A s, async : HasRead(s, async) => HasReadNext(s, async)
  <2>1. nread' \in Nat /\ nread <= nread'
    BY <1>1, <1>2
  <2> QED
    BY <1>1, <1>4, <2>1, ReadKept
<1>8. SaysWhatItRead'
  <2>1. ASSUME NEW k \in 1..Len(stdout')
        PROVE  /\ stdout'[k].type = "response" => HasReadNext(stdout'[k].seq, FALSE)
               /\ stdout'[k].type = "requestCompleted" => HasReadNext(stdout'[k].seq, TRUE)
    <3>1. k + 1 \in 1..Len(stdout) /\ stdout'[k] = stdout[k + 1]
      BY <1>6
    <3>2. /\ stdout[k + 1].type = "response" => HasRead(stdout[k + 1].seq, FALSE)
          /\ stdout[k + 1].type = "requestCompleted" => HasRead(stdout[k + 1].seq, TRUE)
      BY <3>1 DEF OwedInv, NothingStuck, SaysWhatItRead
    <3> QED
      BY <1>7, <3>1, <3>2
  <2>2. \A s \in working' : HasReadNext(s, TRUE)
    BY <1>2, <1>7 DEF OwedInv, NothingStuck, SaysWhatItRead
  <2> QED
    BY <2>1, <2>2 DEF SaysWhatItRead, HasRead, HasReadNext
<1>9. CASE Up
  <2>1. pending \subseteq Owed'
    <3> SUFFICES ASSUME NEW s \in pending
                 PROVE  Unread(s)' \/ Answered(s)'
      BY DEF Owed
    <3>1. s \in Owed
      BY <1>9
    <3>2. CASE Unread(s)
      BY <1>1, <1>2, <1>4, <3>2, UnreadKept
    <3>3. CASE Answered(s)
      <4>1. PICK k \in 1..Len(stdout) : stdout[k].type = "response" /\ stdout[k].seq = s
        BY <3>3 DEF Answered
      <4>2. k # 1
        BY <1>6, <1>9, <4>1
      <4>3. k - 1 \in 1..Len(stdout') /\ stdout'[k - 1] = stdout[k]
        BY <1>6, <4>2
      <4> QED
        BY <4>1, <4>3 DEF Answered
    <3> QED
      BY <3>1, <3>2, <3>3 DEF Owed
  <2>2. HaveCallbacks(queue', callbacks') /\ PendingIsOwed' /\ NoStall'
    BY <1>1, <1>2, <1>5, <1>9, <2>1, SendNextOwes
  <2> QED
    BY <1>3, <1>8, <2>2 DEF OwedInv, NothingStuck
<1>10. CASE ~Up
  <2>1. PendingIsOwed' /\ NoStall'
    BY <1>2, <1>10 DEF PendingIsOwed, NoStall
  <2> QED
    BY <1>2, <1>3, <1>8, <1>10, <2>1 DEF OwedInv, NothingStuck
<1> QED
  BY <1>9, <1>10

(***************************************************************************)
(* The step theorem: every request that waits is waited for by one that    *)
(* the server owes an answer.                                              *)
(***************************************************************************)
LEMMA OwedInvInit == Init => OwedInv
<1> SUFFICES ASSUME Init PROVE OwedInv
  OBVIOUS
<1>1. FenceInv
  BY FenceInvInit
<1>2. /\ Len(written \o queue) = 0 /\ Len(queue) = 0 /\ Len(stdout) = 0
      /\ queue = <<>> /\ working = {} /\ pendingResponses = {}
  BY DEF Init
<1> QED
  BY <1>1, <1>2 DEF OwedInv, NothingStuck, Distinct, SaysWhatItRead, HaveCallbacks, PendingIsOwed, NoStall

LEMMA ExecuteKeepsOwed ==
  ASSUME OwedInv, NEW kind \in Kinds, ExecuteImpl(kind)
  PROVE  NothingStuck'
<1> USE BoundsAssumption
<1> DEFINE s    == sequenceNumber
           item == [seq |-> s, kind |-> kind]
           q    == Enqueue(queue, item)
           cbs  == IF kind.expectsResponse THEN callbacks \cup {s} ELSE callbacks
           out  == IF kind.expectsResponse THEN [outcome EXCEPT ![s] = "pending"] ELSE outcome
<1>1. /\ Seqs \in SUBSET Nat
      /\ queue \in Seq(Item(Seqs)) /\ written \in Seq(Item(Seqs))
      /\ nread \in 0..Len(written) /\ Len(written) \in Nat
      /\ callbacks \in SUBSET Seqs /\ pendingResponses \in SUBSET Seqs /\ outcome \in Promised
      /\ sequenceNumber \in Nat
      /\ \A i \in 1..Len(written \o queue) : (written \o queue)[i].seq < sequenceNumber
  BY LenProperties DEF OwedInv, NothingStuck, FenceInv, TypeOK, NumbersGivenOut, Seqs, Promised
<1>2. s \in Seqs /\ item \in Item(Seqs)
  BY <1>1, KindsAssumption DEF ExecuteImpl, Seqs, Item
<1>3. cbs \in SUBSET Seqs /\ out \in Promised /\ callbacks \subseteq cbs
  BY <1>1, <1>2 DEF Promised
<1>4. SendNextRequests(q, pendingResponses, cbs, out)
  BY DEF ExecuteImpl
<1>5. /\ UNCHANGED <<nread, working, stdout>>
      /\ Up' = Up
  BY DEF ExecuteImpl, serverVars, healthVars, Up
<1>6. item.seq = s /\ item.kind = kind /\ (kind.expectsResponse => s \in cbs)
  OBVIOUS
<1> HIDE DEF item, cbs, out
<1>7. /\ Distinct(written \o q)
      /\ \A j \in 1..Len(q) : q[j] = item \/ \E i \in 1..Len(queue) : q[j] = queue[i]
  BY <1>1, <1>2, <1>6, EnqueueKeepsDistinct DEF OwedInv, NothingStuck
<1>8. q \in Seq(Item(Seqs))
  BY <1>1, <1>2, EnqueuePositions
<1> HIDE DEF q, s
<1>9. written' \o queue' = written \o q
  BY <1>1, <1>3, <1>4, <1>8, SendNextRequestsProperties
<1>10. WrittenGrows
  BY <1>1, <1>4, <1>8, SendGrows
<1>11. SaysWhatItRead'
  <2>1. \A t, async : HasRead(t, async) => HasReadNext(t, async)
    BY <1>1, <1>5, <1>10, ReadKept
  <2>2. ASSUME NEW k \in 1..Len(stdout)
        PROVE  /\ stdout[k].type = "response" => HasReadNext(stdout[k].seq, FALSE)
               /\ stdout[k].type = "requestCompleted" => HasReadNext(stdout[k].seq, TRUE)
    BY <2>1 DEF OwedInv, NothingStuck, SaysWhatItRead
  <2>3. \A t \in working : HasReadNext(t, TRUE)
    BY <2>1 DEF OwedInv, NothingStuck, SaysWhatItRead
  <2> QED
    BY <1>5, <2>2, <2>3 DEF SaysWhatItRead, HasRead, HasReadNext
<1>12. CASE Up
  <2>1. Distinct(q)
    BY <1>1, <1>7, <1>8, DistinctConcat
  <2>2. HaveCallbacks(q, cbs)
    BY <1>3, <1>6, <1>7, <1>12 DEF OwedInv, NothingStuck, HaveCallbacks
  <2>3. pendingResponses \subseteq cbs
    BY <1>3, <1>12 DEF OwedInv, NothingStuck, PendingIsOwed
  <2>4. pendingResponses \subseteq Owed'
    <3> SUFFICES ASSUME NEW t \in pendingResponses
                 PROVE  Unread(t)' \/ Answered(t)'
      BY <1>1 DEF Owed
    <3>1. Unread(t) \/ Answered(t)
      BY <1>12 DEF OwedInv, NothingStuck, PendingIsOwed, Owed
    <3>2. Unread(t) => Unread(t)'
      BY <1>1, <1>5, <1>10, UnreadKept
    <3>3. Answered(t) => Answered(t)'
      BY <1>5 DEF Answered
    <3> QED
      BY <3>1, <3>2, <3>3
  <2>5. HaveCallbacks(queue', callbacks') /\ PendingIsOwed' /\ NoStall'
    BY <1>1, <1>3, <1>4, <1>5, <1>8, <2>1, <2>2, <2>3, <2>4, SendNextOwes
  <2> QED
    BY <1>7, <1>9, <1>11, <2>5 DEF NothingStuck
<1>13. CASE ~Up
  <2>1. PendingIsOwed' /\ NoStall'
    BY <1>5, <1>13 DEF PendingIsOwed, NoStall
  <2> QED
    BY <1>5, <1>7, <1>9, <1>11, <1>13, <2>1 DEF NothingStuck
<1> QED
  BY <1>12, <1>13

\* A request that is cancelled leaves the queue with its callback, so what is
\* awaited and what has a callback still agree.
LEMMA CancelKeepsOwed ==
  ASSUME OwedInv, NEW s \in Seqs, TryCancelRequest(s)
  PROVE  NothingStuck'
<1>1. queue \in Seq(Item(Seqs)) /\ written \in Seq(Item(Seqs))
  BY DEF OwedInv, NothingStuck, FenceInv, TypeOK
<1>2. /\ queue' = DeletePending(queue, s)
      /\ callbacks' = callbacks \ {s}
      /\ pendingResponses' = StopAwaiting(s)
      /\ UNCHANGED <<written, nread, working, stdout, proc, killed, errored>>
  BY DEF TryCancelRequest, serverVars, healthVars
<1>3. /\ Distinct(written \o DeletePending(queue, s))
      /\ \A j \in 1..Len(DeletePending(queue, s)) :
           \E i \in 1..Len(queue) : DeletePending(queue, s)[j] = queue[i] /\ queue[i].seq # s
  BY <1>1, DeleteKeepsDistinct DEF OwedInv, NothingStuck
<1>4. Up' = Up /\ Owed' = Owed
  BY <1>2 DEF Up, Owed, Unread, Answered
<1>5. SaysWhatItRead'
  BY <1>2 DEF OwedInv, NothingStuck, SaysWhatItRead, HasRead
<1>6. Up' => HaveCallbacks(queue', callbacks')
  BY <1>2, <1>3, <1>4 DEF OwedInv, NothingStuck, HaveCallbacks
<1>7. PendingIsOwed'
  BY <1>2, <1>4 DEF OwedInv, NothingStuck, PendingIsOwed, StopAwaiting
<1>8. NoStall'
  <2>1. queue = <<>> => DeletePending(queue, s) = <<>>
    <3>1. queue = <<>> => Len(queue) = 0
      OBVIOUS
    <3> QED
      BY <3>1 DEF DeletePending, Queued
  <2> QED
    BY <1>2, <1>4, <2>1 DEF OwedInv, NothingStuck, NoStall
<1> QED
  BY <1>2, <1>3, <1>5, <1>6, <1>7, <1>8 DEF NothingStuck

\* The server answers what it reads, now or, if it is asynchronous, later.
LEMMA ServerKeepsOwed ==
  ASSUME OwedInv, Server
  PROVE  NothingStuck'
<1>1. /\ written \in Seq(Item(Seqs)) /\ stdout \in Seq(Messages)
      /\ nread \in 0..Len(written) /\ Len(written) \in Nat
  BY LenProperties DEF OwedInv, NothingStuck, FenceInv, TypeOK
<1>2. UNCHANGED <<queue, callbacks, pendingResponses, written>> /\ Up' = Up
  BY DEF Server, ServerRead, ServerComplete, ServerEvent, clientVars, healthVars, Up
<1>3. WrittenGrows
  BY <1>1, <1>2 DEF WrittenGrows
<1>4. ASSUME NEW m \in Messages, stdout' = Append(stdout, m)
      PROVE  /\ Len(stdout') = Len(stdout) + 1 /\ Len(stdout) \in Nat
             /\ stdout'[Len(stdout) + 1] = m
             /\ \A k \in 1..Len(stdout) : stdout'[k] = stdout[k]
  BY <1>1, <1>4, AppendProperties, LenProperties
\* Enough: what was owed is owed, and what is new in stdout and working was read.
<1>5. ASSUME nread' \in Nat, nread <= nread',
             Owed \subseteq Owed',
             \A s \in working' : s \in working \/ HasReadNext(s, TRUE),
             \/ stdout' = stdout
             \/ \E m \in Messages :
                  /\ stdout' = Append(stdout, m)
                  /\ m.type = "response" => HasReadNext(m.seq, FALSE)
                  /\ m.type = "requestCompleted" => HasReadNext(m.seq, TRUE)
      PROVE  NothingStuck'
  <2>1. \A s, async : HasRead(s, async) => HasReadNext(s, async)
    BY <1>1, <1>3, <1>5, ReadKept
  <2>2. \A s \in working' : HasReadNext(s, TRUE)
    BY <1>5, <2>1 DEF OwedInv, NothingStuck, SaysWhatItRead
  <2>3. ASSUME NEW k \in 1..Len(stdout')
        PROVE  /\ stdout'[k].type = "response" => HasReadNext(stdout'[k].seq, FALSE)
               /\ stdout'[k].type = "requestCompleted" => HasReadNext(stdout'[k].seq, TRUE)
    <3>1. CASE stdout' = stdout
      BY <2>1, <3>1 DEF OwedInv, NothingStuck, SaysWhatItRead
    <3>2. ASSUME NEW m \in Messages,
                 stdout' = Append(stdout, m),
                 m.type = "response" => HasReadNext(m.seq, FALSE),
                 m.type = "requestCompleted" => HasReadNext(m.seq, TRUE)
          PROVE  /\ stdout'[k].type = "response" => HasReadNext(stdout'[k].seq, FALSE)
                 /\ stdout'[k].type = "requestCompleted" => HasReadNext(stdout'[k].seq, TRUE)
      <4>1. k \in 1..Len(stdout) \/ k = Len(stdout) + 1
        BY <1>4, <3>2
      <4>2. CASE k = Len(stdout) + 1
        BY <1>4, <3>2, <4>2
      <4>3. CASE k \in 1..Len(stdout)
        <5>1. stdout'[k] = stdout[k]
          BY <1>4, <3>2, <4>3
        <5>2. /\ stdout[k].type = "response" => HasRead(stdout[k].seq, FALSE)
              /\ stdout[k].type = "requestCompleted" => HasRead(stdout[k].seq, TRUE)
          BY <4>3 DEF OwedInv, NothingStuck, SaysWhatItRead
        <5> QED
          BY <2>1, <5>1, <5>2
      <4> QED
        BY <4>1, <4>2, <4>3
    <3> QED
      BY <1>5, <3>1, <3>2
  <2>4. SaysWhatItRead'
    BY <2>2, <2>3 DEF SaysWhatItRead, HasRead, HasReadNext
  <2>5. PendingIsOwed' /\ NoStall'
    BY <1>2, <1>5 DEF OwedInv, NothingStuck, PendingIsOwed, NoStall
  <2> QED
    BY <1>2, <2>4, <2>5 DEF OwedInv, NothingStuck
<1>6. ASSUME NEW i \in 1..Len(written), ServerRead(i)
      PROVE  NothingStuck'
  <2> DEFINE s == written[i].seq
  <2>1. /\ i \in nread + 1..Len(written)
        /\ \A j \in nread + 1..i - 1 : ~written[j].kind.writable
        /\ nread' = i
    BY <1>6 DEF ServerRead, NextToRead
  <2>2. s \in Seqs /\ written[i].kind.isAsync \in BOOLEAN
    <3>1. written[i] \in Item(Seqs)
      BY <1>1, ElementOfSeq
    <3> QED
      BY <3>1 DEF Item, RequestKind
  <2>3. HasReadNext(s, written[i].kind.isAsync)
    <3>1. i \in 1..nread' /\ written'[i] = written[i]
      BY <1>2, <2>1
    <3> QED
      BY <3>1 DEF HasReadNext
  <2>4. \A r \in Results : Response(s, r) \in Messages /\ Response(s, r).type = "response"
                           /\ Response(s, r).seq = s
    BY <2>2 DEF Messages, Response
  <2>5. \/ /\ written[i].kind.isAsync
           /\ working' = working \cup {s} /\ stdout' = stdout
        \/ /\ ~written[i].kind.isAsync
           /\ working' = working
           /\ \/ \E r \in Results : stdout' = Append(stdout, Response(s, r))
              \/ ~written[i].kind.expectsResponse /\ stdout' = stdout
    BY <1>6 DEF ServerRead
  <2>6. \A k \in 1..Len(stdout) : k \in 1..Len(stdout') /\ stdout'[k] = stdout[k]
    <3>1. CASE stdout' = stdout
      BY <3>1
    <3>2. ASSUME NEW r \in Results, stdout' = Append(stdout, Response(s, r))
          PROVE  \A k \in 1..Len(stdout) : k \in 1..Len(stdout') /\ stdout'[k] = stdout[k]
      BY <1>4, <2>4, <3>2
    <3> QED
      BY <2>5, <3>1, <3>2
  <2>7. Owed \subseteq Owed'
    <3> SUFFICES ASSUME NEW t \in Owed
                 PROVE  Unread(t)' \/ Answered(t)'
      BY DEF Owed
    <3>1. CASE Answered(t)
      BY <2>6, <3>1 DEF Answered
    <3>2. CASE Unread(t)
      <4>1. PICK j \in nread + 1..Len(written) :
              written[j].seq = t /\ written[j].kind.writable /\ Awaited(written[j])
        BY <3>2 DEF Unread
      <4>2. CASE j = i
        <5>1. PICK r \in Results : stdout' = Append(stdout, Response(s, r))
          BY <2>5, <4>1, <4>2 DEF Awaited
        <5>2. Len(stdout) + 1 \in 1..Len(stdout') /\ stdout'[Len(stdout) + 1] = Response(s, r)
          BY <1>4, <2>4, <5>1
        <5> QED
          BY <2>4, <4>1, <4>2, <5>2 DEF Answered
      <4>3. CASE j # i
        <5>1. j \in nread' + 1..Len(written') /\ written'[j] = written[j]
          BY <1>1, <1>2, <2>1, <4>1, <4>3
        <5> QED
          BY <4>1, <5>1 DEF Unread, Awaited
      <4> QED
        BY <4>2, <4>3
    <3> QED
      BY <3>1, <3>2 DEF Owed
  <2>8. nread' \in Nat /\ nread <= nread'
    BY <1>1, <2>1
  <2>9. \A t \in working' : t \in working \/ HasReadNext(t, TRUE)
    BY <2>2, <2>3, <2>5
  <2>10. \/ stdout' = stdout
         \/ \E m \in Messages :
              /\ stdout' = Append(stdout, m)
              /\ m.type = "response" => HasReadNext(m.seq, FALSE)
              /\ m.type = "requestCompleted" => HasReadNext(m.seq, TRUE)
    <3>1. ASSUME NEW r \in Results, ~written[i].kind.isAsync, stdout' = Append(stdout, Response(s, r))
          PROVE  \E m \in Messages :
                   /\ stdout' = Append(stdout, m)
                   /\ m.type = "response" => HasReadNext(m.seq, FALSE)
                   /\ m.type = "requestCompleted" => HasReadNext(m.seq, TRUE)
      <4>1. HasReadNext(s, FALSE)
        BY <2>2, <2>3, <3>1
      <4> QED
        BY <2>4, <3>1, <4>1
    <3> QED
      BY <2>5, <3>1
  <2> QED
    BY <1>5, <2>7, <2>8, <2>9, <2>10
<1>7. ASSUME nread' = nread,
             \E m \in Messages :
               /\ stdout' = Append(stdout, m)
               /\ m.type # "response"
               /\ m.type = "requestCompleted" => HasReadNext(m.seq, TRUE),
             working' \subseteq working
      PROVE  NothingStuck'
  <2>1. PICK m \in Messages : stdout' = Append(stdout, m)
    BY <1>7
  <2>2. \A k \in 1..Len(stdout) : k \in 1..Len(stdout') /\ stdout'[k] = stdout[k]
    BY <1>4, <2>1
  <2>3. Owed \subseteq Owed'
    BY <1>2, <1>7, <2>2 DEF Owed, Unread, Answered
  <2>4. nread' \in Nat /\ nread <= nread'
    BY <1>1, <1>7
  <2> QED
    BY <1>5, <1>7, <2>3, <2>4
<1>8. ASSUME NEW s \in Seqs, ServerComplete(s)
      PROVE  NothingStuck'
  <2>1. /\ s \in working /\ working' = working \ {s} /\ nread' = nread
        /\ stdout' = Append(stdout, RequestCompleted(s))
    BY <1>8 DEF ServerComplete
  <2>2. HasReadNext(s, TRUE)
    <3>1. HasRead(s, TRUE)
      BY <2>1 DEF OwedInv, NothingStuck, SaysWhatItRead
    <3> QED
      BY <1>2, <2>1, <3>1 DEF HasRead, HasReadNext
  <2>3. /\ RequestCompleted(s) \in Messages /\ RequestCompleted(s).type = "requestCompleted"
        /\ RequestCompleted(s).seq = s
    BY DEF Messages, RequestCompleted
  <2> QED
    BY <1>7, <2>1, <2>2, <2>3
<1>9. ASSUME ServerEvent
      PROVE  NothingStuck'
  <2>1. working' = working /\ nread' = nread /\ stdout' = Append(stdout, Event)
    BY <1>9 DEF ServerEvent
  <2>2. Event \in Messages /\ Event.type = "event"
    BY DEF Messages, Event
  <2> QED
    BY <1>7, <2>1, <2>2
<1> QED
  BY <1>6, <1>8, <1>9 DEF Server

LEMMA OwedInvStep == OwedInv /\ [Next]_vars => OwedInv'
<1> SUFFICES ASSUME OwedInv, [Next]_vars
             PROVE  OwedInv'
  OBVIOUS
<1>1. FenceInv'
  BY FenceInvStep DEF OwedInv
<1>2. /\ queue \in Seq(Item(Seqs)) /\ written \in Seq(Item(Seqs)) /\ stdout \in Seq(Messages)
      /\ nread \in 0..Len(written) /\ Len(written) \in Nat
      /\ callbacks \in SUBSET Seqs /\ pendingResponses \in SUBSET Seqs /\ outcome \in Promised
  BY LenProperties DEF OwedInv, FenceInv, TypeOK, Promised
<1>3. /\ Distinct(written)
      /\ \A i \in 1..Len(written), j \in 1..Len(queue) : written[i].seq # queue[j].seq
  BY <1>2, DistinctConcat DEF OwedInv, NothingStuck
<1>4. ASSUME NEW s \in Seqs, NEW result \in Results, ReceiveResponse(s, result)
      PROVE  NothingStuck'
  <2> DEFINE m == Response(s, result)
  <2>1. /\ Receive(m)
        /\ SendNextRequests(queue, StopAwaiting(s), callbacks \ {s}, SettledWith(s, result))
        /\ m.type = "response" /\ m.seq = s
    BY <1>4 DEF ReceiveResponse, Response
  <2> HIDE DEF m
  <2>2. /\ StopAwaiting(s) \in SUBSET Seqs /\ callbacks \ {s} \in SUBSET Seqs
        /\ SettledWith(s, result) \in Promised
    BY <1>2 DEF StopAwaiting, SettledWith, Promised, Settled
  <2>3. HasRead(s, FALSE)
    <3>1. 1 \in 1..Len(stdout) /\ stdout[1] = m
      BY <1>2, <2>1, ReceiveTakesFirst
    <3> QED
      BY <2>1, <3>1 DEF OwedInv, NothingStuck, SaysWhatItRead
  <2>4. ASSUME Up
        PROVE  /\ HaveCallbacks(queue, callbacks \ {s})
               /\ StopAwaiting(s) \subseteq callbacks \ {s}
               /\ StopAwaiting(s) \subseteq Owed
    <3>1. \A j \in 1..Len(queue) : queue[j].seq # s
      BY <1>2, <1>3, <2>3 DEF HasRead
    <3>2. HaveCallbacks(queue, callbacks \ {s})
      BY <2>4, <3>1 DEF OwedInv, NothingStuck, HaveCallbacks
    <3> QED
      BY <2>4, <3>2 DEF OwedInv, NothingStuck, PendingIsOwed, StopAwaiting
  <2>5. Up => \A t \in StopAwaiting(s) : m.type = "response" => m.seq # t
    BY <2>1, <2>4
  <2> QED
    BY <2>1, <2>2, <2>4, <2>5, ReceiveKeeps
<1>5. ASSUME NEW s \in Seqs, ReceiveRequestCompleted(s)
      PROVE  NothingStuck'
  <2> DEFINE m == RequestCompleted(s)
  <2>1. /\ Receive(m)
        /\ SendNextRequests(queue, pendingResponses, callbacks \ {s}, SettledWith(s, "completed"))
        /\ m.type = "requestCompleted" /\ m.seq = s
    BY <1>5 DEF ReceiveRequestCompleted, RequestCompleted
  <2> HIDE DEF m
  <2>2. callbacks \ {s} \in SUBSET Seqs /\ SettledWith(s, "completed") \in Promised
    BY <1>2 DEF SettledWith, Promised, Settled
  <2>3. HasRead(s, TRUE)
    <3>1. 1 \in 1..Len(stdout) /\ stdout[1] = m
      BY <1>2, <2>1, ReceiveTakesFirst
    <3> QED
      BY <2>1, <3>1 DEF OwedInv, NothingStuck, SaysWhatItRead
  <2>4. ASSUME Up
        PROVE  /\ HaveCallbacks(queue, callbacks \ {s})
               /\ pendingResponses \subseteq callbacks \ {s}
               /\ pendingResponses \subseteq Owed
    <3>1. \A j \in 1..Len(queue) : queue[j].seq # s
      BY <1>2, <1>3, <2>3 DEF HasRead
    <3>2. HaveCallbacks(queue, callbacks \ {s})
      BY <2>4, <3>1 DEF OwedInv, NothingStuck, HaveCallbacks
    <3>3. s \notin Owed
      BY <1>2, <1>3, <2>3, OwedIsNotAsync DEF OwedInv, NothingStuck
    <3> QED
      BY <2>4, <3>2, <3>3 DEF OwedInv, NothingStuck, PendingIsOwed
  <2> QED
    BY <1>2, <2>1, <2>2, <2>4, ReceiveKeeps
<1>6. ASSUME ReceiveEvent
      PROVE  NothingStuck'
  <2>1. /\ Receive(Event)
        /\ SendNextRequests(queue, pendingResponses, callbacks, outcome)
        /\ Event.type = "event"
    BY <1>6 DEF ReceiveEvent, Event
  <2>2. Up => /\ HaveCallbacks(queue, callbacks)
              /\ pendingResponses \subseteq callbacks
              /\ pendingResponses \subseteq Owed
    BY DEF OwedInv, NothingStuck, PendingIsOwed
  <2> QED
    BY <1>2, <2>1, <2>2, ReceiveKeeps
<1>7. ASSUME ProcessExit \/ ProcessError \/ Kill
      PROVE  NothingStuck'
  <2>1. UNCHANGED <<queue, written, nread, working>> /\ ~Up'
    <3>1. CASE ProcessExit
      BY <3>1 DEF ProcessExit, serverVars, Up
    <3>2. CASE ProcessError
      BY <3>2 DEF ProcessError, Up
    <3>3. CASE Kill
      <4>1. UNCHANGED <<queue, written, nread, working>>
        BY <3>3 DEF Kill, clientVars, serverVars
      <4>2. killed'
        BY <3>3 DEF Kill
      <4> QED
        BY <4>1, <4>2 DEF Up
    <3> QED
      BY <1>7, <3>1, <3>2, <3>3
  <2>2. stdout' = stdout \/ (stdout # <<>> /\ stdout' = Tail(stdout))
    <3>1. CASE ProcessExit
      BY <3>1 DEF ProcessExit, serverVars
    <3>2. CASE ProcessError
      BY <3>2 DEF ProcessError
    <3>3. CASE Kill
      BY <3>3 DEF Kill, serverVars
    <3> QED
      BY <1>7, <3>1, <3>2, <3>3
  <2>3. \A k \in 1..Len(stdout') : \E l \in 1..Len(stdout) : stdout'[k] = stdout[l]
    <3>1. CASE stdout' = stdout
      BY <3>1
    <3>2. CASE stdout # <<>> /\ stdout' = Tail(stdout)
      <4>1. /\ Len(stdout') = Len(stdout) - 1 /\ Len(stdout) \in Nat
            /\ \A k \in 1..Len(stdout') : stdout'[k] = stdout[k + 1]
        BY <1>2, <3>2, HeadTailProperties, LenProperties
      <4>2. \A k \in 1..Len(stdout') : k + 1 \in 1..Len(stdout) /\ stdout'[k] = stdout[k + 1]
        BY <4>1
      <4> QED
        BY <4>2
    <3> QED
      BY <2>2, <3>1, <3>2
  <2>4. SaysWhatItRead'
    BY <2>1, <2>3 DEF OwedInv, NothingStuck, SaysWhatItRead, HasRead
  <2> QED
    BY <2>1, <2>4 DEF OwedInv, NothingStuck, PendingIsOwed, NoStall
<1>8. ASSUME UNCHANGED vars
      PROVE  NothingStuck'
  BY <1>8 DEF vars, clientVars, serverVars, healthVars, OwedInv, NothingStuck, SaysWhatItRead, HasRead,
              HaveCallbacks, PendingIsOwed, NoStall, Up, Owed, Unread, Answered
<1>9. NothingStuck'
  BY <1>4, <1>5, <1>6, <1>7, <1>8, ExecuteKeepsOwed, CancelKeepsOwed, ServerKeepsOwed
     DEF Next, ReceiveMessage
<1> QED
  BY <1>1, <1>9 DEF OwedInv

(***************************************************************************)
(* The client awaits only what the server still owes, so that no number    *)
(* stays in _pendingResponses for ever (dispatchResponse,                  *)
(* tryCancelRequest and fetchCallback).                                    *)
(***************************************************************************)
THEOREM AwaitedIsOwed == Spec => []PendingIsOwed
<1>1. OwedInv => PendingIsOwed
  BY DEF OwedInv, NothingStuck
<1> QED
  BY <1>1, OwedInvInit, OwedInvStep, PTL DEF Spec

(***************************************************************************)
(* While the server is up, a queue that is not empty has an answer coming  *)
(* that will send it, although a cancellation does not                     *)
(* (sendNextRequests, tryCancelRequest).                                   *)
(***************************************************************************)
THEOREM QueueNeverStalls == Spec => []NoStall
<1>1. OwedInv => NoStall
  BY DEF OwedInv, NothingStuck
<1> QED
  BY <1>1, OwedInvInit, OwedInvStep, PTL DEF Spec

-----------------------------------------------------------------------------
LEMMA PromiseInvInit == Init => PromiseInv
<1> SUFFICES ASSUME Init PROVE PromiseInv
  OBVIOUS
<1>1. TypeOK
  BY FenceInvInit DEF FenceInv
<1>2. /\ callbacks = {}
      /\ \A s \in Seqs : outcome[s] = "none"
  BY DEF Init
<1> QED
  BY <1>1, <1>2 DEF PromiseInv, PendingIffCallback

(***************************************************************************)
(* The types of the next state, from the proof of the fences.              *)
(***************************************************************************)
LEMMA TypeStep == FenceInv /\ [Next]_vars => TypeOK'
  BY FenceInvStep DEF FenceInv

(***************************************************************************)
(* What a step does to the promises: one is made by executeImpl, any may   *)
(* be settled, and the end of the connection cancels what is pending.      *)
(***************************************************************************)
PromiseStep ==
  /\ \A s \in Seqs :
       \/ outcome'[s] = outcome[s]
       \/ outcome[s] = "pending" /\ outcome'[s] \in Settled
       \/ /\ outcome[s] = "none" /\ outcome'[s] \in {"pending"} \cup Settled
          /\ s = sequenceNumber /\ sequenceNumber' = sequenceNumber + 1
  /\ ~Down /\ Down' => callbacks' = {} /\ outcome' = [s \in Seqs |-> IF s \in callbacks THEN "cancelled" ELSE outcome[s]]
  /\ Down => Down'
  /\ Observed /\ Down => outcome' = outcome

LEMMA PromiseInvStep == FenceInv /\ PromiseInv /\ [Next]_vars => PromiseInv' /\ PromiseStep
<1> SUFFICES ASSUME FenceInv, PromiseInv, [Next]_vars
             PROVE  PromiseInv' /\ PromiseStep
  OBVIOUS
<1> USE BoundsAssumption
<1>1. /\ TypeOK /\ TypeOK'
      /\ \A s \in Seqs : s \in callbacks <=> outcome[s] = "pending"
      /\ \A s \in Seqs : s >= sequenceNumber => outcome[s] = "none"
      /\ Observed /\ Down => callbacks = {}
      /\ outcome \in Promised /\ sequenceNumber \in Nat /\ Seqs \subseteq Nat
      /\ queue \in Seq(Item(Seqs)) /\ written \in Seq(Item(Seqs))
      /\ callbacks \in SUBSET Seqs /\ pendingResponses \in SUBSET Seqs
  <2>1. TypeOK /\ TypeOK'
    BY TypeStep DEF PromiseInv
  <2>2. Seqs \subseteq Nat
    BY DEF Seqs
  <2>3. /\ \A s \in Seqs : s \in callbacks <=> outcome[s] = "pending"
        /\ \A s \in Seqs : s >= sequenceNumber => outcome[s] = "none"
        /\ Observed /\ Down => callbacks = {}
    BY Zenon DEF PromiseInv, PendingIffCallback
  <2>4. /\ outcome \in Promised /\ sequenceNumber \in Nat
        /\ queue \in Seq(Item(Seqs)) /\ written \in Seq(Item(Seqs))
        /\ callbacks \in SUBSET Seqs /\ pendingResponses \in SUBSET Seqs
    BY <2>1 DEF TypeOK, Promised
  <2> QED
    BY <2>1, <2>2, <2>3, <2>4
<1>2. ASSUME NEW kind \in Kinds, ExecuteImpl(kind)
      PROVE  PromiseInv' /\ PromiseStep
  <2> DEFINE s    == sequenceNumber
             item == [seq |-> s, kind |-> kind]
             q    == Enqueue(queue, item)
             cbs  == IF kind.expectsResponse THEN callbacks \cup {s} ELSE callbacks
             out  == IF kind.expectsResponse THEN [outcome EXCEPT ![s] = "pending"] ELSE outcome
  <2>1. s \in Seqs /\ item \in Item(Seqs)
    BY <1>1, <1>2, KindsAssumption DEF ExecuteImpl, TypeOK, Seqs, Item
  <2>2. q \in Seq(Item(Seqs))
    BY <1>1, <2>1, EnqueuePositions
  <2>3. cbs \in SUBSET Seqs /\ out \in Promised
    BY <1>1, <2>1 DEF Promised
  <2>4. \A r \in Seqs : r \in cbs <=> out[r] = "pending"
    BY <1>1, <2>1 DEF Promised
  <2>5. SendNextRequests(q, pendingResponses, cbs, out)
    BY <1>2 DEF ExecuteImpl
  <2>6. /\ sequenceNumber' = s + 1
        /\ Down' = Down
        /\ ~(Observed /\ Down)
    BY <1>2 DEF ExecuteImpl, healthVars, Down, InUse
  <2>7. \A r \in Seqs : out[r] = outcome[r] \/ (r = s /\ out[r] = "pending" /\ outcome[r] = "none")
    BY <1>1, <2>1 DEF Promised
  <2>8. \A r \in Seqs : r \in cbs => r \in callbacks \/ r = s
    OBVIOUS
  <2> HIDE DEF item, q, cbs, out
  <2>9. /\ \A r \in Seqs : r \in callbacks' <=> outcome'[r] = "pending"
        /\ \A r \in Seqs : outcome'[r] = out[r] \/ (r \in cbs /\ outcome'[r] = "error")
    <3>1. PICK failed \in SUBSET cbs : Rejects(failed, cbs, out)
      BY <1>1, <2>2, <2>3, <2>5, SendNextRequestsProperties
    <3> QED
      BY <2>3, <2>4, <3>1 DEF Rejects
  <2>10. \A r \in Seqs : r >= sequenceNumber' => outcome'[r] = "none"
    BY <1>1, <2>1, <2>6, <2>7, <2>8, <2>9
  <2>11. PromiseInv'
    BY <1>1, <2>6, <2>9, <2>10 DEF PromiseInv, PendingIffCallback
  <2>12. \A r \in Seqs :
           \/ outcome'[r] = outcome[r]
           \/ outcome[r] = "pending" /\ outcome'[r] \in Settled
           \/ /\ outcome[r] = "none" /\ outcome'[r] \in {"pending"} \cup Settled
              /\ r = s
    BY <1>1, <2>1, <2>7, <2>8, <2>9 DEF Settled, Results
  <2> QED
    BY <2>6, <2>11, <2>12 DEF PromiseStep
<1>3. ASSUME NEW s \in Seqs, NEW result \in Settled
      PROVE  /\ callbacks \ {s} \in SUBSET Seqs
             /\ SettledWith(s, result) \in Promised
             /\ \A r \in Seqs : r \in callbacks \ {s} <=> SettledWith(s, result)[r] = "pending"
             /\ \A r \in Seqs : SettledWith(s, result)[r] = outcome[r] \/ (r \in callbacks /\ SettledWith(s, result)[r] \in Settled)
             /\ callbacks = {} => SettledWith(s, result) = outcome
  <2>1. CASE s \in callbacks
    BY <1>1, <2>1 DEF SettledWith, Promised, Settled, Results
  <2>2. CASE s \notin callbacks
    BY <1>1, <2>2 DEF SettledWith
  <2> QED
    BY <2>1, <2>2
<1>4. ASSUME NEW s \in Seqs, TryCancelRequest(s)
      PROVE  PromiseInv' /\ PromiseStep
  <2>1. /\ callbacks' = callbacks \ {s}
        /\ outcome' = SettledWith(s, "cancelled")
        /\ sequenceNumber' = sequenceNumber
        /\ Down' = Down
    BY <1>4 DEF TryCancelRequest, healthVars, Down
  <2>2. /\ \A r \in Seqs : r \in callbacks' <=> outcome'[r] = "pending"
        /\ \A r \in Seqs : outcome'[r] = outcome[r] \/ (r \in callbacks /\ outcome'[r] \in Settled)
        /\ callbacks = {} => outcome' = outcome
    BY <1>3, <2>1 DEF Settled
  <2> QED
    BY <1>1, <2>1, <2>2 DEF PromiseInv, PendingIffCallback, PromiseStep
<1>5. ASSUME NEW cbs \in SUBSET Seqs, NEW pending \in SUBSET Seqs, NEW out \in Promised,
             NEW message, Receive(message),
             SendNextRequests(queue, pending, cbs, out),
             cbs \subseteq callbacks,
             \A r \in Seqs : r \in cbs <=> out[r] = "pending",
             \A r \in Seqs : out[r] = outcome[r] \/ (r \in callbacks /\ out[r] \in Settled),
             callbacks = {} => out = outcome
      PROVE  PromiseInv' /\ PromiseStep
  <2>1. /\ \A r \in Seqs : r \in callbacks' <=> outcome'[r] = "pending"
        /\ \A r \in Seqs : outcome'[r] = out[r] \/ (r \in cbs /\ outcome'[r] = "error")
        /\ callbacks' \subseteq cbs
        /\ cbs = {} => outcome' = out
    <3>1. PICK failed \in SUBSET cbs : Rejects(failed, cbs, out)
      BY <1>1, <1>5, SendNextRequestsProperties
    <3> QED
      BY <1>5, <3>1 DEF Promised, Rejects
  <2>2. sequenceNumber' = sequenceNumber /\ Down' = Down
    BY <1>5 DEF Receive, healthVars, Down
  <2>3. \A r \in Seqs : outcome'[r] = outcome[r] \/ (r \in callbacks /\ outcome'[r] \in Settled)
    BY <1>5, <2>1 DEF Settled, Results
  <2>4. callbacks = {} => callbacks' = {} /\ outcome' = outcome
    BY <1>5, <2>1
  <2> QED
    BY <1>1, <2>1, <2>2, <2>3, <2>4 DEF PromiseInv, PendingIffCallback, PromiseStep
<1>6. ASSUME NEW s \in Seqs, NEW result \in Results, ReceiveResponse(s, result)
      PROVE  PromiseInv' /\ PromiseStep
  <2> DEFINE cbs == callbacks \ {s}
             out == SettledWith(s, result)
  <2>1. result \in Settled
    BY DEF Settled
  <2>2. /\ cbs \in SUBSET Seqs /\ out \in Promised
        /\ \A r \in Seqs : r \in cbs <=> out[r] = "pending"
        /\ \A r \in Seqs : out[r] = outcome[r] \/ (r \in callbacks /\ out[r] \in Settled)
        /\ callbacks = {} => out = outcome
    BY <1>3, <2>1
  <2>3. cbs \subseteq callbacks
    OBVIOUS
  <2>4. SendNextRequests(queue, StopAwaiting(s), cbs, out) /\ Receive(Response(s, result))
    BY <1>6 DEF ReceiveResponse
  <2>5. StopAwaiting(s) \in SUBSET Seqs
    BY <1>1 DEF StopAwaiting
  <2> HIDE DEF cbs, out
  <2> QED
    BY <1>5, <2>2, <2>3, <2>4, <2>5
<1>7. ASSUME NEW s \in Seqs, ReceiveRequestCompleted(s)
      PROVE  PromiseInv' /\ PromiseStep
  <2> DEFINE cbs == callbacks \ {s}
             out == SettledWith(s, "completed")
  <2>1. "completed" \in Settled
    BY DEF Settled
  <2>2. /\ cbs \in SUBSET Seqs /\ out \in Promised
        /\ \A r \in Seqs : r \in cbs <=> out[r] = "pending"
        /\ \A r \in Seqs : out[r] = outcome[r] \/ (r \in callbacks /\ out[r] \in Settled)
        /\ callbacks = {} => out = outcome
    BY <1>3, <2>1
  <2>3. cbs \subseteq callbacks
    OBVIOUS
  <2>4. SendNextRequests(queue, pendingResponses, cbs, out) /\ Receive(RequestCompleted(s))
    BY <1>7 DEF ReceiveRequestCompleted
  <2> HIDE DEF cbs, out
  <2> QED
    BY <1>1, <1>5, <2>2, <2>3, <2>4
<1>8. ASSUME ReceiveEvent
      PROVE  PromiseInv' /\ PromiseStep
  BY <1>1, <1>5, <1>8 DEF ReceiveEvent
<1>9. ASSUME ProcessExit \/ ProcessError
      PROVE  PromiseInv' /\ PromiseStep
  <2>1. /\ callbacks' = {}
        /\ outcome' = [r \in Seqs |-> IF r \in callbacks THEN "cancelled" ELSE outcome[r]]
        /\ sequenceNumber' = sequenceNumber
        /\ Down'
    BY <1>1, <1>9 DEF ProcessExit, ProcessError, DestroyCallbacks, Down
  <2>2. \A r \in Seqs : (outcome'[r] = outcome[r] /\ r \notin callbacks) \/ (r \in callbacks /\ outcome'[r] = "cancelled")
    BY <2>1
  <2>3. callbacks = {} => outcome' = outcome
    BY <1>1, <2>1 DEF Promised
  <2>4. PromiseInv'
    BY <1>1, <2>1, <2>2 DEF PromiseInv, PendingIffCallback
  <2> QED
    BY <1>1, <2>1, <2>2, <2>3, <2>4 DEF PromiseStep, Settled
<1>10. ASSUME Kill \/ Server \/ UNCHANGED vars
       PROVE  PromiseInv' /\ PromiseStep
  <2>1. UNCHANGED <<clientVars, proc, errored>>
    BY <1>10 DEF Kill, Server, ServerRead, ServerComplete, ServerEvent, healthVars, vars
  <2>2. UNCHANGED <<sequenceNumber, callbacks, outcome>> /\ Down' = Down
    BY <2>1 DEF clientVars, Down
  <2> QED
    BY <1>1, <2>2 DEF PromiseInv, PendingIffCallback, PromiseStep
<1> QED
  BY <1>2, <1>4, <1>6, <1>7, <1>8, <1>9, <1>10 DEF Next, ReceiveMessage

(***************************************************************************)
(* No promise loses its callback without being settled, and no callback    *)
(* outlives its promise, whichever of the answer, the cancellation, the    *)
(* failing write and the end of the process comes first.                   *)
(***************************************************************************)
THEOREM CallbacksMatchPromises == Spec => []PendingIffCallback
<1>1. PromiseInv => PendingIffCallback
  BY DEF PromiseInv
<1>2. Init => FenceInv /\ PromiseInv
  BY FenceInvInit, PromiseInvInit
<1>3. FenceInv /\ PromiseInv /\ [Next]_vars => FenceInv' /\ PromiseInv'
  BY FenceInvStep, PromiseInvStep
<1> QED
  BY <1>1, <1>2, <1>3, PTL DEF Spec

(***************************************************************************)
(* A connection whose owner stops using it once it exits or errors keeps   *)
(* the abstract promise to its callers: at most one promise per request,   *)
(* settled at most once, and none left open by the end of the connection.  *)
(***************************************************************************)
THEOREM ImplementsPromises == Observed => (Spec => PromisesSafety)
<1> SUFFICES ASSUME Observed
             PROVE  Spec => Abstract!Spec
  BY DEF PromisesSafety
<1>1. Init => Abstract!Init
  BY DEF Init, Abstract!Init, Down
<1>2. FenceInv /\ PromiseInv /\ [Next]_vars => [Abstract!Next]_(Abstract!vars)
  <2> SUFFICES ASSUME FenceInv, PromiseInv, [Next]_vars
               PROVE  Abstract!Next \/ (outcome' = outcome /\ Down' = Down)
    BY DEF Abstract!vars
  <2>1. PromiseStep /\ PromiseInv'
    BY PromiseInvStep
  <2>2. CASE Down
    BY <2>1, <2>2 DEF PromiseStep
  <2>3. CASE ~Down /\ Down'
    <3>1. outcome' = [s \in Seqs |-> IF s \in callbacks THEN "cancelled" ELSE outcome[s]]
      BY <2>1, <2>3 DEF PromiseStep
    <3>2. \A s \in Seqs : s \in callbacks <=> outcome[s] = "pending"
      BY DEF PromiseInv, PendingIffCallback
    <3>3. outcome' = [s \in Seqs |-> IF outcome[s] = "pending" THEN "cancelled" ELSE outcome[s]]
      BY <3>1, <3>2
    <3> QED
      BY <2>3, <3>3 DEF Abstract!Next, Abstract!GoDown
  <2>4. CASE ~Down /\ ~Down'
    <3>1. \A s \in Seqs : Abstract!Evolves(s)
      BY <2>1 DEF PromiseStep, Abstract!Evolves, Abstract!Settlements, Settled, Results
    <3>2. \A r, s \in Abstract!MadeNow : r = s
      BY <2>1 DEF PromiseStep, Abstract!MadeNow
    <3>3. outcome' \in [Seqs -> {"none", "pending"} \cup Abstract!Settlements]
      BY <2>1 DEF PromiseInv, TypeOK, Settled, Results, Abstract!Settlements
    <3>4. Down' = FALSE
      BY <2>4 DEF Down
    <3> QED
      BY <2>4, <3>1, <3>2, <3>3, <3>4 DEF Abstract!Next, Abstract!Turn
  <2> QED
    BY <2>2, <2>3, <2>4
<1>3. Init => FenceInv /\ PromiseInv
  BY FenceInvInit, PromiseInvInit
<1>4. FenceInv /\ PromiseInv /\ [Next]_vars => FenceInv' /\ PromiseInv'
  BY FenceInvStep, PromiseInvStep
<1> QED
  BY <1>1, <1>2, <1>3, <1>4, PTL DEF Spec, Abstract!Spec

-----------------------------------------------------------------------------
(***************************************************************************)
(* What PromisesKept rests on: a pending promise has its request in the    *)
(* queue, in the pipe or in the server's hands, or its answer in the pipe. *)
(***************************************************************************)
InQueue(s, q) == \E i \in 1..Len(q) : q[i].seq = s /\ q[i].kind.expectsResponse

InPipe(s) ==
  \E i \in nread + 1..Len(written) :
    written[i].seq = s /\ written[i].kind.writable /\ written[i].kind.expectsResponse

Ends(message, s) == message.type \in {"response", "requestCompleted"} /\ message.seq = s

Told(s) == \E k \in 1..Len(stdout) : Ends(stdout[k], s)

OnItsWay(s) == InQueue(s, queue) \/ InPipe(s) \/ s \in working \/ Told(s)

AllOnTheirWay == Up => \A s \in callbacks : OnItsWay(s)

LEMMA SendKeepsOnItsWay ==
  ASSUME NEW q \in Seq(Item(Seqs)), NEW pending, NEW cbs, NEW out,
         written \in Seq(Item(Seqs)), nread \in 0..Len(written), nread' = nread,
         SendNextRequests(q, pending, cbs, out),
         NEW s \in callbacks', InQueue(s, q) \/ InPipe(s)
  PROVE  InQueue(s, queue') \/ InPipe(s)'
<1> DEFINE n    == SentCount(q, pending, cbs)
           sent == SubSeq(q, 1, n)
           rest == SubSeq(q, n + 1, Len(q))
<1>1. n \in 0..Len(q) /\ Len(q) \in Nat /\ Len(written) \in Nat
  BY SentCountProperties, LenProperties
<1>2. /\ queue' = rest /\ written' = written \o sent
      /\ callbacks' = cbs \ FailedWrites(sent, cbs)
  BY DEF SendNextRequests
<1> HIDE DEF n
<1>3. \A i \in 1..Len(q) : q[i] \in Item(Seqs)
  BY ElementOfSeq
<1>4. sent \in Seq(Item(Seqs)) /\ Len(sent) = n /\ \A i \in 1..n : sent[i] = q[i]
  <2>1. \A i \in 1..n : q[i] \in Item(Seqs)
    BY <1>1, <1>3
  <2> QED
    BY <1>1, <2>1, SubSeqProperties
<1>5. Len(rest) = Len(q) - n /\ \A i \in 1..Len(q) - n : rest[i] = q[n + i]
  <2>1. \A i \in n + 1..Len(q) : q[i] \in Item(Seqs)
    BY <1>1, <1>3
  <2> QED
    BY <1>1, <2>1, SubSeqProperties
<1>6. /\ Len(written \o sent) = Len(written) + n
      /\ \A i \in 1..Len(written) + n :
           (written \o sent)[i] = IF i <= Len(written) THEN written[i] ELSE sent[i - Len(written)]
  BY <1>4, ConcatProperties
<1>7. \A i \in 1..n : sent[i].seq = s => sent[i].kind.writable
  BY <1>2, <1>4 DEF FailedWrites
<1> HIDE DEF sent, rest
<1>8. CASE InQueue(s, q)
  <2>1. PICK i \in 1..Len(q) : q[i].seq = s /\ q[i].kind.expectsResponse
    BY <1>8 DEF InQueue
  <2>2. CASE i <= n
    <3>1. i \in 1..n /\ sent[i] = q[i] /\ q[i].kind.writable
      BY <1>1, <1>4, <1>7, <2>1, <2>2
    <3>2. /\ Len(written) + i \in 1..Len(written) + n /\ ~(Len(written) + i <= Len(written))
          /\ Len(written) + i - Len(written) = i
      BY <1>1, <3>1
    <3>3. Len(written) + i \in nread' + 1..Len(written') /\ written'[Len(written) + i] = q[i]
      BY <1>1, <1>2, <1>6, <3>1, <3>2
    <3> QED
      BY <2>1, <3>1, <3>3 DEF InPipe
  <2>3. CASE i > n
    <3>1. i - n \in 1..Len(q) - n /\ n + (i - n) = i
      BY <1>1, <2>3
    <3>2. i - n \in 1..Len(queue') /\ queue'[i - n] = q[i]
      BY <1>2, <1>5, <3>1
    <3> QED
      BY <2>1, <3>2 DEF InQueue
  <2> QED
    BY <1>1, <2>2, <2>3
<1>9. CASE InPipe(s)
  <2>1. PICK i \in nread + 1..Len(written) :
          written[i].seq = s /\ written[i].kind.writable /\ written[i].kind.expectsResponse
    BY <1>9 DEF InPipe
  <2>2. i \in nread' + 1..Len(written') /\ written'[i] = written[i]
    BY <1>1, <1>2, <1>6
  <2> QED
    BY <2>1, <2>2 DEF InPipe
<1> QED
  BY <1>8, <1>9

\* A handler of the reader takes one message, and settles its promise.
LEMMA ReceiveKeepsOnItsWay ==
  ASSUME FenceInv, AllOnTheirWay, NEW message, Receive(message),
         NEW pending, NEW cbs \in SUBSET callbacks, NEW out,
         SendNextRequests(queue, pending, cbs, out),
         \A s \in cbs : ~Ends(message, s)
  PROVE  AllOnTheirWay'
<1> SUFFICES ASSUME Up', NEW s \in callbacks'
             PROVE  OnItsWay(s)'
  BY DEF AllOnTheirWay
<1>1. /\ queue \in Seq(Item(Seqs)) /\ written \in Seq(Item(Seqs)) /\ stdout \in Seq(Messages)
      /\ nread \in 0..Len(written)
  BY DEF FenceInv, TypeOK
<1>2. nread' = nread /\ working' = working /\ Up
  BY DEF Receive, healthVars, Up
<1>3. s \in cbs /\ s \in callbacks
  BY DEF SendNextRequests
<1>4. OnItsWay(s)
  BY <1>2, <1>3 DEF AllOnTheirWay
<1>5. CASE InQueue(s, queue) \/ InPipe(s)
  BY <1>1, <1>2, <1>5, SendKeepsOnItsWay DEF OnItsWay
<1>6. CASE s \in working
  BY <1>2, <1>6 DEF OnItsWay
<1>7. CASE Told(s)
  <2>1. PICK k \in 1..Len(stdout) : Ends(stdout[k], s)
    BY <1>7 DEF Told
  <2>2. stdout[1] = message
    BY <1>1, ReceiveTakesFirst
  <2>3. k # 1
    BY <1>3, <2>1, <2>2
  <2>4. k - 1 \in 1..Len(stdout') /\ stdout'[k - 1] = stdout[k]
    BY <1>1, <2>3, ReceiveTakesFirst
  <2> QED
    BY <2>1, <2>4 DEF OnItsWay, Told, Ends
<1> QED
  BY <1>4, <1>5, <1>6, <1>7 DEF OnItsWay

\* A request executed is queued behind a callback, and stays with the others.
LEMMA ExecuteKeepsOnItsWay ==
  ASSUME FenceInv, AllOnTheirWay, NEW kind \in Kinds, ExecuteImpl(kind)
  PROVE  AllOnTheirWay'
<1> SUFFICES ASSUME Up', NEW s \in callbacks'
             PROVE  OnItsWay(s)'
  BY DEF AllOnTheirWay
<1> DEFINE item == [seq |-> sequenceNumber, kind |-> kind]
           q    == Enqueue(queue, item)
           cbs  == IF kind.expectsResponse THEN callbacks \cup {sequenceNumber} ELSE callbacks
           out  == IF kind.expectsResponse THEN [outcome EXCEPT ![sequenceNumber] = "pending"] ELSE outcome
<1>1. /\ queue \in Seq(Item(Seqs)) /\ written \in Seq(Item(Seqs))
      /\ nread \in 0..Len(written) /\ sequenceNumber \in 0..MaxRequests - 1
  BY BoundsAssumption DEF FenceInv, TypeOK, ExecuteImpl
<1>2. /\ SendNextRequests(q, pendingResponses, cbs, out)
      /\ UNCHANGED <<nread, working, stdout>> /\ Up
  BY DEF ExecuteImpl, serverVars, healthVars, Up
<1>3. item \in Item(Seqs) /\ item.seq = sequenceNumber /\ item.kind = kind
  BY <1>1, KindsAssumption DEF Seqs, Item
<1>4. s \in cbs
  BY <1>2 DEF SendNextRequests
<1>5. (kind.expectsResponse /\ s = item.seq) \/ s \in callbacks
  BY <1>3, <1>4
<1> HIDE DEF item, out, cbs
<1>6. /\ Len(queue) \in Nat /\ q \in Seq(Item(Seqs)) /\ Len(q) = Len(queue) + 1
      /\ \E p \in 1..Len(queue) + 1 : PlacedAt(q, queue, item, p)
  BY <1>1, <1>3, EnqueuePositions, LenProperties
<1>7. PICK p \in 1..Len(queue) + 1 : PlacedAt(q, queue, item, p)
  BY <1>6
<1>8. q[p] = item /\ \A i \in 1..Len(queue) : \E j \in 1..Len(q) : q[j] = queue[i]
  <2>1. q[p] = item
    BY <1>6, <1>7 DEF PlacedAt
  <2>2. ASSUME NEW i \in 1..Len(queue)
        PROVE  \E j \in 1..Len(q) : q[j] = queue[i]
    <3>1. CASE i < p
      BY <1>6, <1>7, <3>1 DEF PlacedAt
    <3>2. CASE i >= p
      <4>1. i + 1 \in 1..Len(q) /\ ~(i + 1 < p) /\ i + 1 # p /\ i + 1 - 1 = i
        BY <1>6, <3>2
      <4>2. q[i + 1] = queue[i]
        BY <1>6, <1>7, <4>1 DEF PlacedAt
      <4> QED
        BY <4>1, <4>2
    <3> QED
      BY <1>6, <3>1, <3>2
  <2> QED
    BY <2>1, <2>2
<1> HIDE DEF q
<1>9. CASE kind.expectsResponse /\ s = item.seq
  <2>1. InQueue(s, q)
    BY <1>3, <1>6, <1>8, <1>9 DEF InQueue
  <2> QED
    BY <1>1, <1>2, <1>6, <2>1, SendKeepsOnItsWay DEF OnItsWay
<1>10. CASE s \in callbacks
  <2>1. OnItsWay(s)
    BY <1>2, <1>10 DEF AllOnTheirWay
  <2>2. InQueue(s, queue) => InQueue(s, q)
    BY <1>8 DEF InQueue
  <2>3. CASE InQueue(s, q) \/ InPipe(s)
    BY <1>1, <1>2, <1>6, <2>3, SendKeepsOnItsWay DEF OnItsWay
  <2>4. CASE s \in working \/ Told(s)
    BY <1>2, <2>4 DEF OnItsWay, Told
  <2> QED
    BY <2>1, <2>2, <2>3, <2>4 DEF OnItsWay
<1> QED
  BY <1>5, <1>9, <1>10

LEMMA CancelKeepsOnItsWay ==
  ASSUME FenceInv, AllOnTheirWay, NEW c \in Seqs, TryCancelRequest(c)
  PROVE  AllOnTheirWay'
<1> SUFFICES ASSUME Up', NEW s \in callbacks'
             PROVE  OnItsWay(s)'
  BY DEF AllOnTheirWay
<1>1. /\ queue' = DeletePending(queue, c) /\ s \in callbacks /\ s # c
      /\ UNCHANGED <<written, nread, working, stdout>> /\ Up
  BY DEF TryCancelRequest, serverVars, healthVars, Up
<1>2. OnItsWay(s)
  BY <1>1 DEF AllOnTheirWay
<1>3. CASE InQueue(s, queue)
  <2>1. PICK i \in 1..Len(queue) : queue[i].seq = s /\ queue[i].kind.expectsResponse
    BY <1>3 DEF InQueue
  <2>2. CASE ~Queued(queue, c)
    BY <1>1, <1>3, <2>2 DEF DeletePending, OnItsWay
  <2>3. CASE Queued(queue, c)
    <3> DEFINE p == CHOOSE j \in 1..Len(queue) : queue[j].seq = c
    <3>1. p \in 1..Len(queue) /\ queue[p].seq = c
      BY <2>3 DEF Queued
    <3>2. queue' = RemoveAt(queue, p)
      BY <1>1, <2>3 DEF DeletePending
    <3> HIDE DEF p
    <3>3. /\ Len(queue) \in Nat /\ Len(queue') = Len(queue) - 1
          /\ \A j \in 1..Len(queue) - 1 : queue'[j] = IF j < p THEN queue[j] ELSE queue[j + 1]
      <4>1. queue \in Seq(Item(Seqs))
        BY DEF FenceInv, TypeOK
      <4> QED
        BY <3>1, <3>2, <4>1, RemoveAtPositions, LenProperties
    <3>4. i # p
      BY <1>1, <2>1, <3>1
    <3>5. CASE i < p
      <4>1. i \in 1..Len(queue') /\ queue'[i] = queue[i]
        BY <3>1, <3>3, <3>5
      <4> QED
        BY <2>1, <4>1 DEF OnItsWay, InQueue
    <3>6. CASE i > p
      <4>1. i - 1 \in 1..Len(queue) - 1 /\ ~(i - 1 < p) /\ i - 1 + 1 = i
        BY <3>1, <3>3, <3>6
      <4>2. i - 1 \in 1..Len(queue') /\ queue'[i - 1] = queue[i]
        BY <3>3, <4>1
      <4> QED
        BY <2>1, <4>2 DEF OnItsWay, InQueue
    <3> QED
      BY <3>1, <3>3, <3>4, <3>5, <3>6
  <2> QED
    BY <2>2, <2>3
<1>4. CASE InPipe(s) \/ s \in working \/ Told(s)
  BY <1>1, <1>4 DEF OnItsWay, InPipe, Told
<1> QED
  BY <1>2, <1>3, <1>4 DEF OnItsWay

\* What the server says is appended to what it has said.
LEMMA SaysMore ==
  ASSUME stdout \in Seq(Messages), NEW m \in Messages, stdout' = Append(stdout, m)
  PROVE  /\ Len(stdout) \in Nat /\ Len(stdout') = Len(stdout) + 1
         /\ \A s : Told(s) => Told(s)'
         /\ \A s : Ends(m, s) => Told(s)'
<1>1. /\ Len(stdout) \in Nat /\ Len(stdout') = Len(stdout) + 1
      /\ stdout'[Len(stdout) + 1] = m
      /\ \A k \in 1..Len(stdout) : stdout'[k] = stdout[k]
  BY AppendProperties, LenProperties
<1>2. ASSUME NEW s, Told(s)
      PROVE  Told(s)'
  <2>1. PICK k \in 1..Len(stdout) : Ends(stdout[k], s)
    BY <1>2 DEF Told
  <2>2. k \in 1..Len(stdout') /\ stdout'[k] = stdout[k]
    BY <1>1
  <2> QED
    BY <2>1, <2>2 DEF Told, Ends
<1>3. ASSUME NEW s, Ends(m, s)
      PROVE  Told(s)'
  <2>1. Len(stdout) + 1 \in 1..Len(stdout')
    BY <1>1
  <2> QED
    BY <1>1, <1>3, <2>1 DEF Told, Ends
<1> QED
  BY <1>1, <1>2, <1>3

\* What the server may say.
LEMMA WhatTheServerSays ==
  /\ \A s \in Seqs, r \in Results : Response(s, r) \in Messages /\ Ends(Response(s, r), s)
  /\ \A s \in Seqs : RequestCompleted(s) \in Messages /\ Ends(RequestCompleted(s), s)
  /\ Event \in Messages /\ \A s : ~Ends(Event, s)
<1>1. \A s \in Seqs, r \in Results : Response(s, r) \in Messages
  BY DEF Messages
<1>2. \A s \in Seqs : RequestCompleted(s) \in Messages
  BY DEF Messages
<1>3. Event \in Messages /\ \A s : ~Ends(Event, s)
  BY DEF Messages, Event, Ends
<1>4. \A s, r : Ends(Response(s, r), s) /\ Ends(RequestCompleted(s), s)
  BY DEF Response, RequestCompleted, Ends
<1> QED
  BY <1>1, <1>2, <1>3, <1>4

LEMMA ServerKeepsOnItsWay ==
  ASSUME FenceInv, AllOnTheirWay, Server
  PROVE  AllOnTheirWay'
<1> SUFFICES ASSUME Up', NEW s \in callbacks'
             PROVE  OnItsWay(s)'
  BY DEF AllOnTheirWay
<1>1. /\ written \in Seq(Item(Seqs)) /\ stdout \in Seq(Messages)
      /\ nread \in 0..Len(written) /\ Len(written) \in Nat
  BY LenProperties DEF FenceInv, TypeOK
<1>2. UNCHANGED <<queue, callbacks, written>> /\ Up
  BY DEF Server, ServerRead, ServerComplete, ServerEvent, clientVars, healthVars, Up
<1>3. OnItsWay(s) /\ (InQueue(s, queue) => OnItsWay(s)')
  BY <1>2 DEF AllOnTheirWay, OnItsWay
<1>4. ASSUME NEW i \in 1..Len(written), ServerRead(i)
      PROVE  OnItsWay(s)'
  <2> DEFINE r == written[i].seq
  <2>1. /\ nread' = i /\ NextToRead(i) /\ r \in Seqs
        /\ \/ written[i].kind.isAsync /\ working' = working \cup {r} /\ stdout' = stdout
           \/ working' = working /\ \E res \in Results : stdout' = Append(stdout, Response(r, res))
           \/ ~written[i].kind.expectsResponse /\ working' = working /\ stdout' = stdout
    <3>1. written[i] \in Item(Seqs)
      BY <1>1, ElementOfSeq
    <3> QED
      BY <1>4, <3>1 DEF ServerRead, Item
  <2> HIDE DEF r
  <2>2. Told(s) => Told(s)'
    <3>1. stdout' = stdout => (Told(s) => Told(s)')
      BY DEF Told
    <3> QED
      BY <1>1, <2>1, <3>1, SaysMore, WhatTheServerSays
  <2>3. s \in working => s \in working'
    BY <2>1
  <2>4. CASE InPipe(s)
    <3>1. PICK j \in nread + 1..Len(written) :
            written[j].seq = s /\ written[j].kind.writable /\ written[j].kind.expectsResponse
      BY <2>4 DEF InPipe
    <3>2. ~(j < i)
      BY <1>1, <2>1, <3>1 DEF NextToRead
    <3>3. CASE j > i
      <4>1. j \in nread' + 1..Len(written')
        BY <1>1, <1>2, <2>1, <3>3
      <4> QED
        BY <1>2, <3>1, <4>1 DEF OnItsWay, InPipe
    <3>4. CASE j = i
      <4>1. r = s /\ written[i].kind.expectsResponse
        BY <3>1, <3>4 DEF r
      <4>2. CASE s \in working'
        BY <4>2 DEF OnItsWay
      <4>3. ASSUME NEW res \in Results, stdout' = Append(stdout, Response(r, res))
            PROVE  OnItsWay(s)'
        <5>1. Response(r, res) \in Messages /\ Ends(Response(r, res), s)
          BY <2>1, <4>1, WhatTheServerSays
        <5>2. Told(s)'
          BY <1>1, <4>3, <5>1, SaysMore
        <5> QED
          BY <5>2 DEF OnItsWay
      <4> QED
        BY <2>1, <4>1, <4>2, <4>3
    <3> QED
      BY <3>2, <3>3, <3>4
  <2> QED
    BY <1>3, <2>2, <2>3, <2>4 DEF OnItsWay
<1>5. ASSUME NEW c \in Seqs, ServerComplete(c)
      PROVE  OnItsWay(s)'
  <2>1. /\ stdout' = Append(stdout, RequestCompleted(c)) /\ working' = working \ {c} /\ nread' = nread
        /\ RequestCompleted(c) \in Messages /\ Ends(RequestCompleted(c), c)
    BY <1>5, WhatTheServerSays DEF ServerComplete
  <2>2. (Told(s) => Told(s)') /\ Told(c)'
    BY <1>1, <2>1, SaysMore
  <2>3. InPipe(s) => InPipe(s)'
    BY <1>2, <2>1 DEF InPipe
  <2>4. s \in working => s \in working' \/ s = c
    BY <2>1
  <2> QED
    BY <1>3, <2>2, <2>3, <2>4 DEF OnItsWay
<1>6. ASSUME ServerEvent
      PROVE  OnItsWay(s)'
  <2>1. stdout' = Append(stdout, Event) /\ working' = working /\ nread' = nread /\ Event \in Messages
    BY <1>6, WhatTheServerSays DEF ServerEvent
  <2>2. Told(s) => Told(s)'
    BY <1>1, <2>1, SaysMore
  <2>3. InPipe(s) => InPipe(s)'
    BY <1>2, <2>1 DEF InPipe
  <2> QED
    BY <1>3, <2>1, <2>2, <2>3 DEF OnItsWay
<1> QED
  BY <1>4, <1>5, <1>6 DEF Server

LEMMA OnItsWayStep == FenceInv /\ AllOnTheirWay /\ [Next]_vars => AllOnTheirWay'
<1> SUFFICES ASSUME FenceInv, AllOnTheirWay, [Next]_vars
             PROVE  AllOnTheirWay'
  OBVIOUS
<1>1. ASSUME NEW s \in Seqs, NEW r \in Results, ReceiveResponse(s, r)
      PROVE  AllOnTheirWay'
  <2>1. /\ Receive(Response(s, r)) /\ callbacks \ {s} \in SUBSET callbacks
        /\ SendNextRequests(queue, StopAwaiting(s), callbacks \ {s}, SettledWith(s, r))
        /\ \A t \in callbacks \ {s} : ~Ends(Response(s, r), t)
    BY <1>1 DEF ReceiveResponse, Ends, Response
  <2> QED
    BY <2>1, ReceiveKeepsOnItsWay
<1>2. ASSUME NEW s \in Seqs, ReceiveRequestCompleted(s)
      PROVE  AllOnTheirWay'
  <2>1. /\ Receive(RequestCompleted(s)) /\ callbacks \ {s} \in SUBSET callbacks
        /\ SendNextRequests(queue, pendingResponses, callbacks \ {s}, SettledWith(s, "completed"))
        /\ \A t \in callbacks \ {s} : ~Ends(RequestCompleted(s), t)
    BY <1>2 DEF ReceiveRequestCompleted, Ends, RequestCompleted
  <2> QED
    BY <2>1, ReceiveKeepsOnItsWay
<1>3. ASSUME ReceiveEvent
      PROVE  AllOnTheirWay'
  BY <1>3, WhatTheServerSays, ReceiveKeepsOnItsWay DEF ReceiveEvent
<1>4. ASSUME ProcessExit \/ ProcessError
      PROVE  AllOnTheirWay'
  BY <1>4 DEF ProcessExit, ProcessError, DestroyCallbacks, AllOnTheirWay
<1>5. ASSUME Kill
      PROVE  AllOnTheirWay'
  <2>1. killed'
    BY <1>5 DEF Kill
  <2> QED
    BY <2>1 DEF AllOnTheirWay, Up
<1>6. ASSUME UNCHANGED vars
      PROVE  AllOnTheirWay'
  BY <1>6 DEF vars, clientVars, serverVars, healthVars, AllOnTheirWay, Up, OnItsWay, InQueue, InPipe, Told
<1> QED
  BY <1>1, <1>2, <1>3, <1>4, <1>5, <1>6, ExecuteKeepsOnItsWay, CancelKeepsOnItsWay, ServerKeepsOnItsWay
     DEF Next, ReceiveMessage

(***************************************************************************)
(* As long as a promise is pending on a server that is up, there is a      *)
(* message to be read, a request for the server to read, or one that it    *)
(* works on: the client never waits for nothing, whatever was queued,      *)
(* cancelled, answered or refused in between (server.ts).                  *)
(***************************************************************************)
CanServe ==
  \/ stdout # <<>> \/ working # {}
  \/ \E i \in nread + 1..Len(written) : written[i].kind.writable

THEOREM PendingIsServed == Spec => [](Up /\ (\E s \in Seqs : outcome[s] = "pending") => CanServe)
<1>1. Init => AllOnTheirWay
  BY DEF Init, AllOnTheirWay
<1>2. ASSUME OwedInv, PromiseInv, AllOnTheirWay, Up, NEW s \in Seqs, outcome[s] = "pending"
      PROVE  CanServe
  <2>1. OnItsWay(s)
    BY <1>2 DEF AllOnTheirWay, PromiseInv, PendingIffCallback
  <2>2. \A t : Told(t) \/ Answered(t) => stdout # <<>>
    BY DEF Told, Answered
  <2>3. \A t : InPipe(t) \/ Unread(t) => CanServe
    BY DEF InPipe, Unread, CanServe
  <2>4. CASE InQueue(s, queue)
    <3>1. queue # <<>>
      BY <2>4 DEF InQueue
    <3>2. Owed # {}
      BY <1>2, <3>1 DEF OwedInv, NothingStuck, NoStall
    <3> QED
      BY <2>2, <2>3, <3>2 DEF Owed, CanServe
  <2> QED
    BY <2>1, <2>2, <2>3, <2>4 DEF OnItsWay, CanServe
<1>3. OwedInv /\ PromiseInv /\ AllOnTheirWay =>
        (Up /\ (\E s \in Seqs : outcome[s] = "pending") => CanServe)
  BY <1>2
<1>4. OwedInv => FenceInv
  BY DEF OwedInv
<1> QED
  BY <1>1, <1>3, <1>4, OwedInvInit, OwedInvStep, PromiseInvInit, PromiseInvStep, OnItsWayStep, PTL DEF Spec

(***************************************************************************)
(* And it does not wait for ever: each message that is read and each       *)
(* request that is read or completed leaves less to be done, though        *)
(* reading a message may send what is in the queue.                        *)
(***************************************************************************)
ToRead   == Len(written) - nread
WorkLeft == 4 * Len(queue) + 3 * ToRead + 2 * Cardinality(working) + Len(stdout)

Serves ==
  \/ ReceiveMessage
  \/ \E i \in 1..Len(written) : ServerRead(i)
  \/ \E s \in Seqs : ServerComplete(s)

\* Sending moves items from the queue to the pipe; reading takes one and leaves what is cheaper.
LEMMA CostsLess ==
  ASSUME NEW q \in Nat, NEW r \in Nat, NEW c \in Nat, NEW o \in Nat,
         NEW q2 \in Nat, NEW r2 \in Nat, NEW c2 \in Nat, NEW o2 \in Nat,
         \/ q2 <= q /\ r2 + q2 = r + q /\ c2 = c /\ o2 = o - 1
         \/ q2 = q /\ r2 + 1 <= r /\ 2 * c2 + o2 <= 2 * c + o + 2
  PROVE  /\ 4 * q2 + 3 * r2 + 2 * c2 + o2 < 4 * q + 3 * r + 2 * c + o
         /\ 4 * q2 + 3 * r2 + 2 * c2 + o2 \in Nat
<1>1. CASE q2 <= q /\ r2 + q2 = r + q /\ c2 = c /\ o2 = o - 1
  <2>1. 3 * r2 + 3 * q2 = 3 * r + 3 * q
    BY <1>1
  <2> QED
    BY <1>1, <2>1
<1>2. CASE q2 = q /\ r2 + 1 <= r /\ 2 * c2 + o2 <= 2 * c + o + 2
  <2>1. 3 * r2 + 3 <= 3 * r
    BY <1>2
  <2> QED
    BY <1>2, <2>1
<1> QED
  BY <1>1, <1>2

LEMMA ServingLeavesLess ==
  ASSUME FenceInv, Serves
  PROVE  WorkLeft' < WorkLeft /\ WorkLeft' \in Nat
<1>1. /\ queue \in Seq(Item(Seqs)) /\ written \in Seq(Item(Seqs)) /\ stdout \in Seq(Messages)
      /\ nread \in 0..Len(written) /\ callbacks \in SUBSET Seqs /\ pendingResponses \in SUBSET Seqs
      /\ outcome \in Promised
      /\ Len(queue) \in Nat /\ Len(written) \in Nat /\ Len(stdout) \in Nat
  BY LenProperties DEF FenceInv, TypeOK, Promised
<1>2. IsFiniteSet(working) /\ Cardinality(working) \in Nat
  <2>1. IsFiniteSet(Seqs)
    BY BoundsAssumption, FS_Interval DEF Seqs
  <2> QED
    BY <2>1, FS_Subset, FS_CardinalityType DEF FenceInv, TypeOK
<1>3. ASSUME NEW message, Receive(message), NEW pending \in SUBSET Seqs, NEW cbs \in SUBSET Seqs,
             NEW out \in Promised, SendNextRequests(queue, pending, cbs, out)
      PROVE  WorkLeft' < WorkLeft /\ WorkLeft' \in Nat
  <2>1. /\ queue' \in Seq(Item(Seqs)) /\ written' \in Seq(Item(Seqs))
        /\ Len(written') >= Len(written) /\ written' \o queue' = written \o queue
    BY <1>1, <1>3, SendNextRequestsProperties
  <2>2. /\ Len(queue') \in Nat /\ Len(written') \in Nat
        /\ Len(written') + Len(queue') = Len(written) + Len(queue)
    BY <1>1, <2>1, LenProperties, ConcatProperties
  <2>3. Len(stdout') = Len(stdout) - 1 /\ Len(stdout') \in Nat
    <3>1. stdout # <<>> /\ stdout' = Tail(stdout)
      BY <1>3 DEF Receive
    <3>2. stdout' \in Seq(Messages) /\ Len(stdout') = Len(stdout) - 1
      BY <1>1, <3>1, HeadTailProperties
    <3> QED
      BY <3>2, LenProperties
  <2>4. nread' = nread /\ Cardinality(working') = Cardinality(working)
    BY <1>3 DEF Receive
  <2>5. /\ ToRead \in Nat /\ ToRead' \in Nat /\ Len(queue') <= Len(queue)
        /\ ToRead' + Len(queue') = ToRead + Len(queue)
    BY <1>1, <2>1, <2>2, <2>4 DEF ToRead
  <2>6. Cardinality(working)' = Cardinality(working)
    BY <2>4
  <2> DEFINE q == Len(queue)
             r == ToRead
             c == Cardinality(working)
             o == Len(stdout)
  <2>7. /\ q \in Nat /\ r \in Nat /\ c \in Nat /\ o \in Nat
        /\ q' \in Nat /\ r' \in Nat /\ c' \in Nat /\ o' \in Nat
        /\ q' <= q /\ r' + q' = r + q /\ c' = c /\ o' = o - 1
    BY <1>1, <1>2, <2>2, <2>3, <2>5, <2>6
  <2>8. WorkLeft = 4 * q + 3 * r + 2 * c + o /\ WorkLeft' = 4 * q' + 3 * r' + 2 * c' + o'
    BY DEF WorkLeft
  <2> HIDE DEF q, r, c, o
  <2> QED
    BY <2>7, <2>8, CostsLess
<1>4. ASSUME NEW s \in Seqs, NEW r \in Results, ReceiveResponse(s, r)
      PROVE  WorkLeft' < WorkLeft /\ WorkLeft' \in Nat
  <2>1. /\ StopAwaiting(s) \in SUBSET Seqs /\ callbacks \ {s} \in SUBSET Seqs
        /\ SettledWith(s, r) \in Promised
    BY <1>1 DEF StopAwaiting, SettledWith, Promised, Settled
  <2> QED
    BY <1>3, <1>4, <2>1 DEF ReceiveResponse
<1>5. ASSUME NEW s \in Seqs, ReceiveRequestCompleted(s)
      PROVE  WorkLeft' < WorkLeft /\ WorkLeft' \in Nat
  <2>1. callbacks \ {s} \in SUBSET Seqs /\ SettledWith(s, "completed") \in Promised
    BY <1>1 DEF SettledWith, Promised, Settled
  <2> QED
    BY <1>1, <1>3, <1>5, <2>1 DEF ReceiveRequestCompleted
<1>6. ASSUME ReceiveEvent
      PROVE  WorkLeft' < WorkLeft /\ WorkLeft' \in Nat
  BY <1>1, <1>3, <1>6 DEF ReceiveEvent
<1>7. ASSUME NEW i \in 1..Len(written), ServerRead(i)
      PROVE  WorkLeft' < WorkLeft /\ WorkLeft' \in Nat
  <2>1. /\ UNCHANGED <<queue, written>> /\ nread' = i /\ nread + 1 <= i
        /\ \/ working' = working \cup {written[i].seq} /\ stdout' = stdout
           \/ working' = working /\ \E r \in Results : stdout' = Append(stdout, Response(written[i].seq, r))
           \/ working' = working /\ stdout' = stdout
    BY <1>1, <1>7 DEF ServerRead, NextToRead, clientVars
  <2>2. /\ Cardinality(working \cup {written[i].seq}) \in Nat
        /\ Cardinality(working \cup {written[i].seq}) <= Cardinality(working) + 1
    <3>1. CASE written[i].seq \in working
      <4>1. Cardinality(working \cup {written[i].seq}) = Cardinality(working)
        <5>1. working \cup {written[i].seq} = working
          BY <3>1
        <5> QED
          BY <5>1, Zenon
      <4> QED
        BY <1>2, <4>1
    <3>2. CASE written[i].seq \notin working
      <4>1. Cardinality(working \cup {written[i].seq}) = Cardinality(working) + 1
        BY <1>2, <3>2, FS_AddElement
      <4> QED
        BY <1>2, <4>1
    <3> QED
      BY <3>1, <3>2
  <2>3. written[i].seq \in Seqs
    <3>1. written[i] \in Item(Seqs)
      BY <1>1, ElementOfSeq
    <3> QED
      BY <3>1 DEF Item
  <2>4. \A r \in Results : Len(Append(stdout, Response(written[i].seq, r))) = Len(stdout) + 1
    BY <1>1, <2>3, WhatTheServerSays, AppendProperties
  <2>5. /\ 2 * Cardinality(working') + Len(stdout') <= 2 * Cardinality(working) + Len(stdout) + 2
        /\ Len(stdout') \in Nat /\ Cardinality(working') \in Nat
    <3>1. CASE working' = working \cup {written[i].seq} /\ stdout' = stdout
      BY <1>1, <1>2, <2>2, <3>1
    <3>2. ASSUME working' = working, NEW r \in Results,
                 stdout' = Append(stdout, Response(written[i].seq, r))
          PROVE  /\ 2 * Cardinality(working') + Len(stdout') <= 2 * Cardinality(working) + Len(stdout) + 2
                 /\ Len(stdout') \in Nat /\ Cardinality(working') \in Nat
      <4>1. Len(stdout') = Len(stdout) + 1 /\ Cardinality(working') = Cardinality(working)
        BY <2>4, <3>2
      <4> QED
        BY <1>1, <1>2, <4>1
    <3>3. CASE working' = working /\ stdout' = stdout
      BY <1>1, <1>2, <3>3
    <3> QED
      BY <2>1, <3>1, <3>2, <3>3
  <2>6. ToRead \in Nat /\ ToRead' \in Nat /\ ToRead' + 1 <= ToRead /\ Len(queue') = Len(queue)
    BY <1>1, <2>1 DEF ToRead
  <2> DEFINE q == Len(queue)
             r == ToRead
             c == Cardinality(working)
             o == Len(stdout)
  <2>7. /\ q \in Nat /\ r \in Nat /\ c \in Nat /\ o \in Nat
        /\ q' \in Nat /\ r' \in Nat /\ c' \in Nat /\ o' \in Nat
        /\ q' = q /\ r' + 1 <= r /\ 2 * c' + o' <= 2 * c + o + 2
    BY <1>1, <1>2, <2>5, <2>6
  <2>8. WorkLeft = 4 * q + 3 * r + 2 * c + o /\ WorkLeft' = 4 * q' + 3 * r' + 2 * c' + o'
    BY DEF WorkLeft
  <2> HIDE DEF q, r, c, o
  <2> QED
    BY <2>7, <2>8, CostsLess
<1>8. ASSUME NEW s \in Seqs, ServerComplete(s)
      PROVE  WorkLeft' < WorkLeft /\ WorkLeft' \in Nat
  <2>1. /\ UNCHANGED <<queue, written, nread>> /\ s \in working /\ working' = working \ {s}
        /\ stdout' = Append(stdout, RequestCompleted(s))
    BY <1>8 DEF ServerComplete, clientVars
  <2>2. Cardinality(working') = Cardinality(working) - 1 /\ Cardinality(working') \in Nat
    BY <1>2, <2>1, FS_RemoveElement, FS_CardinalityType
  <2>3. Len(stdout') = Len(stdout) + 1
    BY <1>1, <2>1, WhatTheServerSays, AppendProperties
  <2>4. ToRead \in Nat /\ ToRead' = ToRead /\ Len(queue') = Len(queue)
    BY <1>1, <2>1 DEF ToRead
  <2> QED
    BY <1>1, <1>2, <2>2, <2>3, <2>4 DEF WorkLeft
<1> QED
  BY <1>4, <1>5, <1>6, <1>7, <1>8 DEF Serves, ReceiveMessage

THEOREM ServiceAdvances == Spec => [][Serves => WorkLeft' < WorkLeft /\ WorkLeft' \in Nat]_vars
<1>1. FenceInv /\ [Next]_vars => [Serves => WorkLeft' < WorkLeft /\ WorkLeft' \in Nat]_vars
  BY ServingLeavesLess
<1> QED
  BY <1>1, FenceInvInit, FenceInvStep, PTL DEF Spec

-----------------------------------------------------------------------------
(***************************************************************************)
(* An edit that was executed is never dropped: it stays in the queue until *)
(* it is written, though requests around it are cancelled out of the queue *)
(* (tryCancelRequest).  With FencesHold, what the server reads before a    *)
(* request is every edit executed before it and none executed after it.    *)
(***************************************************************************)
Log == written \o queue

EditsStay ==
  \A i \in 1..Len(Log) : IsFence(Log[i]) => \E j \in 1..Len(Log') : Log'[j] = Log[i]

LEMMA LogElements ==
  ASSUME NEW w \in Seq(Item(Seqs)), NEW q \in Seq(Item(Seqs))
  PROVE  /\ Len(w) \in Nat /\ Len(q) \in Nat /\ Len(w \o q) = Len(w) + Len(q)
         /\ \A i \in 1..Len(w \o q) : \/ i \in 1..Len(w) /\ (w \o q)[i] = w[i]
                                     \/ \E k \in 1..Len(q) : (w \o q)[i] = q[k]
         /\ \A i \in 1..Len(w) : \E j \in 1..Len(w \o q) : (w \o q)[j] = w[i]
         /\ \A i \in 1..Len(q) : \E j \in 1..Len(w \o q) : (w \o q)[j] = q[i]
<1>1. /\ Len(w) \in Nat /\ Len(q) \in Nat /\ Len(w \o q) = Len(w) + Len(q)
      /\ \A i \in 1..Len(w) + Len(q) :
           (w \o q)[i] = IF i <= Len(w) THEN w[i] ELSE q[i - Len(w)]
  BY LenProperties, ConcatProperties
<1>2. ASSUME NEW i \in 1..Len(w) PROVE \E j \in 1..Len(w \o q) : (w \o q)[j] = w[i]
  <2>1. i \in 1..Len(w \o q) /\ (w \o q)[i] = w[i]
    BY <1>1
  <2> QED
    BY <2>1
<1>3. ASSUME NEW i \in 1..Len(q) PROVE \E j \in 1..Len(w \o q) : (w \o q)[j] = q[i]
  <2>1. /\ Len(w) + i \in 1..Len(w) + Len(q) /\ ~(Len(w) + i <= Len(w))
        /\ Len(w) + i - Len(w) = i
    BY <1>1
  <2>2. (w \o q)[Len(w) + i] = q[i]
    BY <1>1, <2>1
  <2> QED
    BY <1>1, <2>1, <2>2
<1>4. ASSUME NEW i \in 1..Len(w \o q)
      PROVE  (i \in 1..Len(w) /\ (w \o q)[i] = w[i]) \/ \E k \in 1..Len(q) : (w \o q)[i] = q[k]
  <2>1. CASE i <= Len(w)
    BY <1>1, <2>1
  <2>2. CASE ~(i <= Len(w))
    <3>1. i - Len(w) \in 1..Len(q) /\ (w \o q)[i] = q[i - Len(w)]
      BY <1>1, <2>2
    <3> QED
      BY <3>1
  <2> QED
    BY <2>1, <2>2
<1> QED
  BY <1>1, <1>2, <1>3, <1>4

THEOREM EditsAreKept == Spec => [][EditsStay]_vars
<1>1. ASSUME FenceInv, [Next]_vars
      PROVE  [EditsStay]_vars
  <2>1. queue \in Seq(Item(Seqs)) /\ written \in Seq(Item(Seqs)) /\ pendingResponses \in SUBSET Seqs
        /\ callbacks \in SUBSET Seqs /\ outcome \in Promised
    BY <1>1 DEF FenceInv, TypeOK, Promised
  <2>2. Log' = Log => EditsStay
    BY DEF EditsStay
  <2>3. ASSUME NEW pending \in SUBSET Seqs, NEW cbs \in SUBSET Seqs, NEW out \in Promised,
               SendNextRequests(queue, pending, cbs, out)
        PROVE  EditsStay
    BY <2>1, <2>2, <2>3, SendNextRequestsProperties DEF Log
  <2>4. ASSUME ReceiveMessage
        PROVE  EditsStay
    <3>1. ASSUME NEW s \in Seqs, NEW r \in Results, ReceiveResponse(s, r)
          PROVE  EditsStay
      <4>1. /\ StopAwaiting(s) \in SUBSET Seqs /\ callbacks \ {s} \in SUBSET Seqs
            /\ SettledWith(s, r) \in Promised
        BY <2>1 DEF StopAwaiting, SettledWith, Promised, Settled
      <4> QED
        BY <2>3, <3>1, <4>1 DEF ReceiveResponse
    <3>2. ASSUME NEW s \in Seqs, ReceiveRequestCompleted(s)
          PROVE  EditsStay
      <4>1. callbacks \ {s} \in SUBSET Seqs /\ SettledWith(s, "completed") \in Promised
        BY <2>1 DEF SettledWith, Promised, Settled
      <4> QED
        BY <2>1, <2>3, <3>2, <4>1 DEF ReceiveRequestCompleted
    <3> QED
      BY <2>1, <2>3, <2>4, <3>1, <3>2 DEF ReceiveMessage, ReceiveEvent
  <2>5. ASSUME NEW kind \in Kinds, ExecuteImpl(kind)
        PROVE  EditsStay
    <3> DEFINE item == [seq |-> sequenceNumber, kind |-> kind]
               q    == Enqueue(queue, item)
               cbs  == IF kind.expectsResponse THEN callbacks \cup {sequenceNumber} ELSE callbacks
               out  == IF kind.expectsResponse
                       THEN [outcome EXCEPT ![sequenceNumber] = "pending"] ELSE outcome
    <3>1. sequenceNumber \in Seqs
      BY <1>1, <2>5, BoundsAssumption DEF FenceInv, TypeOK, ExecuteImpl, Seqs
    <3>2. item \in Item(Seqs) /\ cbs \in SUBSET Seqs /\ out \in Promised
      BY <2>1, <3>1, KindsAssumption DEF Item, Promised
    <3>3. SendNextRequests(q, pendingResponses, cbs, out)
      BY <2>5 DEF ExecuteImpl
    <3> HIDE DEF item, cbs, out
    <3>4. /\ q \in Seq(Item(Seqs)) /\ Len(q) = Len(queue) + 1
          /\ \E p \in 1..Len(queue) + 1 : PlacedAt(q, queue, item, p)
      BY <2>1, <3>2, EnqueuePositions
    <3>5. \A i \in 1..Len(queue) : \E j \in 1..Len(q) : q[j] = queue[i]
      <4>1. PICK p \in 1..Len(queue) + 1 : PlacedAt(q, queue, item, p)
        BY <3>4
      <4> SUFFICES ASSUME NEW i \in 1..Len(queue) PROVE \E j \in 1..Len(q) : q[j] = queue[i]
        OBVIOUS
      <4>2. Len(queue) \in Nat
        BY <2>1, LenProperties
      <4>3. CASE i < p
        BY <3>4, <4>1, <4>2, <4>3 DEF PlacedAt
      <4>4. CASE i >= p
        <5>1. i + 1 \in 1..Len(q) /\ ~(i + 1 < p) /\ i + 1 # p /\ i + 1 - 1 = i
          BY <3>4, <4>2, <4>4
        <5>2. q[i + 1] = queue[i]
          BY <3>4, <4>1, <4>2, <5>1 DEF PlacedAt
        <5> QED
          BY <5>1, <5>2
      <4> QED
        BY <4>2, <4>3, <4>4
    <3> HIDE DEF q
    <3>6. Log' = written \o q
      BY <2>1, <3>2, <3>3, <3>4, SendNextRequestsProperties DEF Log
    <3>7. ASSUME NEW i \in 1..Len(Log)
          PROVE  \E j \in 1..Len(written \o q) : (written \o q)[j] = Log[i]
      <4>1. (i \in 1..Len(written) /\ Log[i] = written[i]) \/ \E k \in 1..Len(queue) : Log[i] = queue[k]
        BY <2>1, LogElements DEF Log
      <4>2. CASE i \in 1..Len(written) /\ Log[i] = written[i]
        BY <2>1, <3>4, <4>2, LogElements
      <4>3. ASSUME NEW k \in 1..Len(queue), Log[i] = queue[k]
            PROVE  \E j \in 1..Len(written \o q) : (written \o q)[j] = Log[i]
        <5>1. PICK l \in 1..Len(q) : q[l] = queue[k]
          BY <3>5
        <5>2. PICK j \in 1..Len(written \o q) : (written \o q)[j] = q[l]
          BY <2>1, <3>4, LogElements
        <5> QED
          BY <4>3, <5>1, <5>2
      <4> QED
        BY <4>1, <4>2, <4>3
    <3> QED
      BY <3>6, <3>7 DEF EditsStay
  <2>6. ASSUME NEW s \in Seqs, TryCancelRequest(s)
        PROVE  EditsStay
    <3>1. written' = written /\ queue' = DeletePending(queue, s) /\ Cancellable(s)
      BY <2>6 DEF TryCancelRequest
    <3>2. CASE ~Queued(queue, s)
      BY <2>2, <3>1, <3>2 DEF DeletePending, Log
    <3>3. CASE Queued(queue, s)
      <4> DEFINE p == CHOOSE j \in 1..Len(queue) : queue[j].seq = s
      <4>1. p \in 1..Len(queue) /\ queue[p].seq = s
        BY <3>3 DEF Queued
      <4>2. queue' = RemoveAt(queue, p)
        BY <3>1, <3>3 DEF DeletePending
      <4> HIDE DEF p
      <4>3. /\ Len(queue) \in Nat /\ queue' \in Seq(Item(Seqs)) /\ Len(queue') = Len(queue) - 1
            /\ \A j \in 1..Len(queue) - 1 : queue'[j] = IF j < p THEN queue[j] ELSE queue[j + 1]
        BY <2>1, <4>1, <4>2, RemoveAtPositions, LenProperties
      <4>4. ~IsFence(queue[p])
        BY <1>1, <3>1, <4>1, CancelDeletesNoFence
      <4>5. ASSUME NEW i \in 1..Len(queue), i # p
            PROVE  \E j \in 1..Len(queue') : queue'[j] = queue[i]
        <5>1. CASE i < p
          <6>1. i \in 1..Len(queue') /\ queue'[i] = queue[i]
            BY <4>1, <4>3, <5>1
          <6> QED
            BY <6>1
        <5>2. CASE i > p
          <6>1. i - 1 \in 1..Len(queue) - 1 /\ ~(i - 1 < p) /\ i - 1 + 1 = i
            BY <4>1, <4>3, <5>2
          <6>2. i - 1 \in 1..Len(queue') /\ queue'[i - 1] = queue[i]
            BY <4>3, <6>1
          <6> QED
            BY <6>2
        <5> QED
          BY <4>1, <4>3, <4>5, <5>1, <5>2
      <4>6. ASSUME NEW i \in 1..Len(Log), IsFence(Log[i])
            PROVE  \E j \in 1..Len(Log') : Log'[j] = Log[i]
        <5>1. (i \in 1..Len(written) /\ Log[i] = written[i]) \/ \E k \in 1..Len(queue) : Log[i] = queue[k]
          BY <2>1, LogElements DEF Log
        <5>2. Log' = written \o queue'
          BY <3>1 DEF Log
        <5>3. CASE i \in 1..Len(written) /\ Log[i] = written[i]
          BY <2>1, <4>3, <5>2, <5>3, LogElements
        <5>4. ASSUME NEW k \in 1..Len(queue), Log[i] = queue[k]
              PROVE  \E j \in 1..Len(Log') : Log'[j] = Log[i]
          <6>1. k # p
            BY <4>4, <4>6, <5>4
          <6>2. PICK j \in 1..Len(queue') : queue'[j] = queue[k]
            BY <4>5, <6>1
          <6>3. PICK l \in 1..Len(written \o queue') : (written \o queue')[l] = queue'[j]
            BY <2>1, <4>3, LogElements
          <6> QED
            BY <5>2, <5>4, <6>2, <6>3
        <5> QED
          BY <5>1, <5>3, <5>4
      <4> QED
        BY <4>6 DEF EditsStay
    <3> QED
      BY <3>2, <3>3
  <2>7. ASSUME ProcessExit \/ ProcessError \/ Kill \/ Server
        PROVE  EditsStay
    <3>1. UNCHANGED <<queue, written>>
      BY <2>7 DEF ProcessExit, ProcessError, Kill, Server, ServerRead, ServerComplete, ServerEvent, clientVars
    <3> QED
      BY <2>2, <3>1 DEF Log
  <2> QED
    BY <1>1, <2>4, <2>5, <2>6, <2>7 DEF Next
<1>2. FenceInv /\ [Next]_vars => [EditsStay]_vars
  BY <1>1
<1> QED
  BY <1>2, FenceInvInit, FenceInvStep, PTL DEF Spec
=============================================================================
