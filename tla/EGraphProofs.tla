---------------------------- MODULE EGraphProofs ----------------------------
(***************************************************************************)
(* Proofs about EGraph, for any identities, operators and facts.           *)
(*                                                                         *)
(* The invariant says of every node for which an id was made, up to what   *)
(* is known to be equal: memo has it with its class, or it is pending; its *)
(* children have it as a parent; its class has its data, or it is to be    *)
(* analysed again.  And what is in memo, among parents or on a work list   *)
(* is such a node in its class, which makes every merge right.             *)
(***************************************************************************)
EXTENDS EGraph, FiniteSetTheorems, TLAPS

\* With leaders L: the node n is in the class of i, O being the origin of each id.
Holds(L, O, n, i) ==
  \E p \in DOMAIN O : L[p] = L[i] /\ Canon(L, O[p]) = Canon(L, n)

\* The entry e says that the node n is in the class of i.
Says(L, e, n, i) == Canon(L, e.node) = Canon(L, n) /\ L[e.class] = L[i]

\* M has it so.
InMemo(L, M, n, i) == Canon(L, n) \in DOMAIN M /\ L[M[Canon(L, n)]] = L[i]

\* A node is in memo with its class, or it is pending.
Covered ==
  \A i \in Made : \/ InMemo(leader, memo, origin[i], i)
                   \/ \E e \in pending : Says(leader, e, origin[i], i)

\* A node is among the parents of its children.
Known ==
  \A i \in Made : \A k \in Children(origin[i]) :
    \E e \in classes[leader[k]].parents : Says(leader, e, origin[i], i)

\* Entries and memo are right.
EntriesRight ==
  /\ \A e \in pending : Holds(leader, origin, e.node, e.class)
  /\ \A e \in reanalyze : Holds(leader, origin, e.node, e.class)
  /\ \A c \in DOMAIN classes : \A e \in classes[c].parents :
       Holds(leader, origin, e.node, e.class)

MemoHolds == \A m \in DOMAIN memo : Holds(leader, origin, m, memo[m])

\* What is in order since the last rebuild.
Settled ==
  ~dirty =>
    /\ \A e \in pending : InMemo(leader, memo, e.node, e.class)
    /\ reanalyze = {}
    /\ \A c \in DOMAIN classes : \A n \in classes[c].nodes : Canon(leader, n) = n

\* The data of a class are those of its nodes, or a node is to be analysed again.
DataThere ==
  \A i \in Made : Make(origin[i]) \subseteq classes[leader[i]].data
                  \/ \E e \in reanalyze : Says(leader, e, origin[i], i)

DataFromNodes ==
  \A c \in DOMAIN classes : classes[c].data \subseteq
    UNION {Make(origin[i]) : i \in {j \in Made : leader[j] = c}}

IInv == /\ TypeOK /\ Covered /\ Known /\ EntriesRight /\ MemoHolds /\ Settled
        /\ NodesKept /\ DataThere /\ DataFromNodes

-----------------------------------------------------------------------------
(* Nodes and their canonical forms *)

LEMMA NodeIs ==
  ASSUME NEW S, NEW n \in NodesOver(S)
  PROVE  /\ n.op \in Ops /\ n.args \in [1..Arity[n.op] -> S]
         /\ n = [op |-> n.op, args |-> n.args]
         /\ DOMAIN n.args = 1..Arity[n.op]
         /\ Children(n) \subseteq S
<1>1. PICK o \in Ops : n \in [op : {o}, args : [1..Arity[o] -> S]]
  BY DEF NodesOver
<1>2. n.op = o /\ n.args \in [1..Arity[o] -> S] /\ n = [op |-> n.op, args |-> n.args]
  BY <1>1
<1> QED
  BY <1>2 DEF Children

LEMMA IsNode ==
  ASSUME NEW S, NEW o \in Ops, NEW a \in [1..Arity[o] -> S]
  PROVE  [op |-> o, args |-> a] \in NodesOver(S)
<1>1. [op |-> o, args |-> a] \in [op : {o}, args : [1..Arity[o] -> S]]
  OBVIOUS
<1> QED
  BY <1>1 DEF NodesOver

LEMMA NodesGrow ==
  ASSUME NEW S, NEW T, S \subseteq T
  PROVE  NodesOver(S) \subseteq NodesOver(T)
<1> SUFFICES ASSUME NEW n \in NodesOver(S) PROVE n \in NodesOver(T)
  OBVIOUS
<1>1. n.op \in Ops /\ n.args \in [1..Arity[n.op] -> T] /\ n = [op |-> n.op, args |-> n.args]
  BY NodeIs
<1> QED
  BY <1>1, IsNode

LEMMA CanonOver ==
  ASSUME NEW S, NEW T, NEW f \in [S -> T], NEW n \in NodesOver(S)
  PROVE  Canon(f, n) \in NodesOver(T)
<1>1. n.op \in Ops /\ n.args \in [1..Arity[n.op] -> S] /\ DOMAIN n.args = 1..Arity[n.op]
  BY NodeIs
<1>2. [k \in DOMAIN n.args |-> f[n.args[k]]] \in [1..Arity[n.op] -> T]
  BY <1>1
<1> QED
  BY <1>1, <1>2, IsNode DEF Canon

LEMMA CanonTwice ==
  ASSUME NEW S, NEW f \in [S -> S], \A i \in S : f[f[i]] = f[i], NEW n \in NodesOver(S)
  PROVE  Canon(f, Canon(f, n)) = Canon(f, n)
<1>1. n.args \in [1..Arity[n.op] -> S] /\ DOMAIN n.args = 1..Arity[n.op]
  BY NodeIs
<1>2. \A k \in DOMAIN n.args : n.args[k] \in S /\ f[f[n.args[k]]] = f[n.args[k]]
  BY <1>1
<1> DEFINE g == [k \in DOMAIN n.args |-> f[n.args[k]]]
<1>3. [k \in DOMAIN g |-> f[g[k]]] = g
  BY <1>2
<1> QED
  BY <1>3 DEF Canon

\* Leaders that follow from earlier ones keep what is equal.
LEMMA CanonAfter ==
  ASSUME NEW S, NEW f \in [S -> S], NEW g, NEW h, \A i \in S : g[i] = h[f[i]],
         NEW n \in NodesOver(S), NEW m \in NodesOver(S), Canon(f, n) = Canon(f, m)
  PROVE  Canon(g, n) = Canon(g, m)
<1>1. n.args \in [1..Arity[n.op] -> S] /\ DOMAIN n.args = 1..Arity[n.op]
  BY NodeIs
<1>2. m.args \in [1..Arity[m.op] -> S] /\ DOMAIN m.args = 1..Arity[m.op]
  BY NodeIs
<1>3. n.op = m.op /\ [k \in DOMAIN n.args |-> f[n.args[k]]] = [k \in DOMAIN m.args |-> f[m.args[k]]]
  BY DEF Canon
<1>4. DOMAIN n.args = DOMAIN m.args
  BY <1>1, <1>2, <1>3
<1>5. \A k \in DOMAIN n.args : f[n.args[k]] = f[m.args[k]]
  BY <1>3, <1>4
<1>6. \A k \in DOMAIN n.args : g[n.args[k]] = g[m.args[k]]
  BY <1>1, <1>2, <1>4, <1>5, ZenonT(40)
<1> QED
  BY <1>3, <1>4, <1>6 DEF Canon

LEMMA CanonSame ==
  ASSUME NEW f, NEW g, NEW n, \A k \in Children(n) : f[k] = g[k]
  PROVE  Canon(f, n) = Canon(g, n)
<1>1. \A k \in DOMAIN n.args : f[n.args[k]] = g[n.args[k]]
  BY DEF Children
<1> QED
  BY <1>1 DEF Canon

\* The children of the canonical form are the leaders of the children.
LEMMA CanonChildren ==
  ASSUME NEW f, NEW n
  PROVE  Children(Canon(f, n)) = {f[k] : k \in Children(n)}
  BY DEF Canon, Children

\* What a node makes depends on its canonical form only.
LEMMA MakeCanon ==
  ASSUME TypeOK, NEW n \in NodesOver(Made), NEW m \in NodesOver(Made),
         Canon(leader, n) = Canon(leader, m)
  PROVE  Make(n) = Make(m)
<1>1. n.op = m.op
  BY DEF Canon
<1>2. {leader[k] : k \in Children(n)} = {leader[k] : k \in Children(m)}
  BY CanonChildren
<1>3. \A s \in NodesOver(Made) :
        UNION {classes[leader[k]].data : k \in Children(s)}
          = UNION {classes[c].data : c \in {leader[k] : k \in Children(s)}}
  OBVIOUS
<1> QED
  BY <1>1, <1>2, <1>3 DEF Make

-----------------------------------------------------------------------------
(* Two classes are merged *)

MergeStep(a, b, rest) ==
  /\ a \in DOMAIN classes /\ b \in DOMAIN classes /\ a # b
  /\ rest \subseteq pending
  /\ Merge(a, b, rest)
  /\ origin' = origin

LEMMA MergeLeaders ==
  ASSUME TypeOK, NEW a, NEW b, NEW rest, MergeStep(a, b, rest)
  PROVE  /\ a \in Made /\ b \in Made /\ leader[a] = a /\ leader[b] = b
         /\ Made' = Made /\ leader' \in [Made -> Made]
         /\ \A i \in Made : leader'[i] = IF leader[i] = b THEN a ELSE leader[i]
         /\ \A i \in Made : leader'[leader'[i]] = leader'[i]
         /\ DOMAIN classes' = {i \in Made : leader'[i] = i}
         /\ DOMAIN classes' = DOMAIN classes \ {b}
<1>1. a \in Made /\ b \in Made /\ leader[a] = a /\ leader[b] = b
  BY DEF TypeOK, MergeStep
<1>2. leader' = [i \in Made |-> IF leader[i] = b THEN a ELSE leader[i]]
  BY DEF MergeStep, Merge
<1>3. Made' = Made
  BY <1>2 DEF Made
<1>4. leader' \in [Made -> Made]
  BY <1>1, <1>2 DEF TypeOK
<1>5. \A i \in Made : leader'[i] = IF leader[i] = b THEN a ELSE leader[i]
  BY <1>2
<1>6. \A i \in Made : leader[i] \in Made /\ leader[leader[i]] = leader[i]
  BY DEF TypeOK
<1>7. \A i \in Made : leader'[leader'[i]] = leader'[i]
  BY <1>1, <1>5, <1>6 DEF MergeStep
<1>8. DOMAIN classes' = DOMAIN classes \ {b}
  BY DEF MergeStep, Merge
<1>9. DOMAIN classes' = {i \in Made : leader'[i] = i}
  <2>1. DOMAIN classes = {i \in Made : leader[i] = i}
    BY DEF TypeOK
  <2> QED
    BY <2>1, <1>8, <1>1, <1>5, <1>6 DEF MergeStep
<1> QED
  BY <1>1, <1>3, <1>4, <1>5, <1>7, <1>8, <1>9

\* What was equal stays so, and a node with no child in b keeps its form.
LEMMA MergeForms ==
  ASSUME TypeOK, NEW a, NEW b, NEW rest, MergeStep(a, b, rest)
  PROVE  /\ \A i, j \in Made : leader[i] = leader[j] => leader'[i] = leader'[j]
         /\ \A n, m \in NodesOver(Made) :
              Canon(leader, n) = Canon(leader, m) => Canon(leader', n) = Canon(leader', m)
         /\ \A n \in NodesOver(Made) :
              (\A k \in Children(n) : leader[k] # b) => Canon(leader', n) = Canon(leader, n)
         /\ \A n \in NodesOver(Made) :
              Canon(leader', Canon(leader, n)) = Canon(leader', n)
<1> DEFINE h == [i \in Made |-> IF i = b THEN a ELSE i]
<1>1. leader \in [Made -> Made] /\ \A i \in Made : leader[leader[i]] = leader[i]
  BY DEF TypeOK
<1>2. \A i \in Made : leader'[i] = h[leader[i]]
  BY <1>1, MergeLeaders
<1>3. \A i, j \in Made : leader[i] = leader[j] => leader'[i] = leader'[j]
  BY <1>2
<1>4. \A n, m \in NodesOver(Made) :
        Canon(leader, n) = Canon(leader, m) => Canon(leader', n) = Canon(leader', m)
  <2> HIDE DEF h
  <2> QED
    BY <1>1, <1>2, CanonAfter
<1>5. ASSUME NEW n \in NodesOver(Made), \A k \in Children(n) : leader[k] # b
      PROVE  Canon(leader', n) = Canon(leader, n)
  <2>1. Children(n) \subseteq Made
    BY NodeIs
  <2>2. \A k \in Children(n) : leader'[k] = leader[k]
    BY <1>5, <2>1, MergeLeaders
  <2> QED
    BY <2>2, CanonSame
<1>6. ASSUME NEW n \in NodesOver(Made)
      PROVE  Canon(leader', Canon(leader, n)) = Canon(leader', n)
  <2>1. Canon(leader, n) \in NodesOver(Made)
    BY <1>1, CanonOver
  <2>2. Canon(leader, Canon(leader, n)) = Canon(leader, n)
    BY <1>1, CanonTwice
  <2> QED
    BY <1>4, <2>1, <2>2
<1> QED
  BY <1>3, <1>4, <1>5, <1>6

LEMMA MergeClasses ==
  ASSUME NEW a, NEW b, NEW rest, MergeStep(a, b, rest)
  PROVE  /\ classes'[a].nodes = classes[a].nodes \cup classes[b].nodes
         /\ classes'[a].parents = classes[a].parents \cup classes[b].parents
         /\ classes'[a].data = classes[a].data \cup classes[b].data
         /\ pending' = rest \cup classes[b].parents
         /\ reanalyze' = reanalyze \cup Reanalyze(a, b)
         /\ dirty' = TRUE /\ origin' = origin
  BY DEF MergeStep, Merge, Merged

LEMMA MergeOthers ==
  ASSUME NEW a, NEW b, NEW rest, MergeStep(a, b, rest),
         NEW c \in DOMAIN classes, c # a, c # b
  PROVE  classes'[c] = classes[c]
  BY DEF MergeStep, Merge

LEMMA MergeType ==
  ASSUME TypeOK, NEW a, NEW b, NEW rest, MergeStep(a, b, rest),
         memo' \in [DOMAIN memo' -> Made], DOMAIN memo' \subseteq NodesOver(Made),
         UNCHANGED <<classesByOp, phase>>
  PROVE  TypeOK'
<1>1. Made' = Made /\ leader' \in [Made -> Made]
  BY MergeLeaders
<1>2. DOMAIN classes' = {i \in Made : leader'[i] = i}
  BY MergeLeaders
<1>3. \A i \in Made : leader'[leader'[i]] = leader'[i]
  BY MergeLeaders
<1> DEFINE C == [nodes : SUBSET NodesOver(Made), parents : SUBSET EntriesOver(Made),
                 data : SUBSET Facts]
<1>4. \A c \in DOMAIN classes : classes[c] \in C
  BY DEF TypeOK
<1>5. classes' \in [DOMAIN classes' -> C]
  <2>1. classes' = [c \in DOMAIN classes \ {b} |->
                      IF c = a THEN Merged(classes[a], classes[b]) ELSE classes[c]]
    BY DEF MergeStep, Merge
  <2>2. a \in DOMAIN classes /\ b \in DOMAIN classes
    BY DEF MergeStep
  <2>3. Merged(classes[a], classes[b]) \in C
    BY <1>4, <2>2 DEF Merged
  <2> HIDE DEF C
  <2> QED
    BY <1>4, <2>1, <2>3
<1>6. pending' \subseteq EntriesOver(Made) /\ reanalyze' \subseteq EntriesOver(Made)
  <2>1. a \in DOMAIN classes /\ b \in DOMAIN classes /\ rest \subseteq pending
    BY DEF MergeStep
  <2>2. classes[a].parents \subseteq EntriesOver(Made) /\ classes[b].parents \subseteq EntriesOver(Made)
    BY <1>4, <2>1
  <2>3. Reanalyze(a, b) \subseteq EntriesOver(Made)
    BY <2>2 DEF Reanalyze
  <2>4. pending' = rest \cup classes[b].parents /\ reanalyze' = reanalyze \cup Reanalyze(a, b)
    BY MergeClasses, ZenonT(40)
  <2>5. pending \subseteq EntriesOver(Made) /\ reanalyze \subseteq EntriesOver(Made)
    BY DEF TypeOK
  <2> QED
    BY <2>1, <2>2, <2>3, <2>4, <2>5
<1>7. dirty' \in BOOLEAN /\ origin' = origin
  BY MergeClasses
<1> HIDE DEF C
<1> QED
  BY <1>1, <1>2, <1>3, <1>5, <1>6, <1>7 DEF TypeOK, C

\* What the code does to memo in the same step: nodes stay covered, and what is in memo is
\* right, by the leaders before.
MemoStep(rest) ==
  /\ memo' \in [DOMAIN memo' -> Made] /\ DOMAIN memo' \subseteq NodesOver(Made)
  /\ \A m \in DOMAIN memo' : Holds(leader, origin, m, memo'[m])
  /\ \A i \in Made :
       \/ /\ Canon(leader, origin[i]) \in DOMAIN memo'
          /\ leader'[memo'[Canon(leader, origin[i])]] = leader'[i]
       \/ \E e \in rest : Says(leader, e, origin[i], i)

LEMMA Typed ==
  ASSUME TypeOK
  PROVE  /\ \A i \in Made : origin[i] \in NodesOver(Made) /\ leader[i] \in Made
                            /\ leader[i] \in DOMAIN classes
         /\ \A e \in pending \cup reanalyze : e.node \in NodesOver(Made) /\ e.class \in Made
         /\ \A c \in DOMAIN classes :
              /\ c \in Made /\ leader[c] = c
              /\ classes[c].nodes \subseteq NodesOver(Made) /\ classes[c].data \subseteq Facts
              /\ \A e \in classes[c].parents : e.node \in NodesOver(Made) /\ e.class \in Made
         /\ \A m \in DOMAIN memo : m \in NodesOver(Made) /\ memo[m] \in Made
         /\ leader \in [Made -> Made] /\ \A i \in Made : leader[leader[i]] = leader[i]
<1>1. \A i \in Made : origin[i] \in NodesOver(Made) /\ leader[i] \in Made
                      /\ leader[i] \in DOMAIN classes
  BY DEF TypeOK
<1>2. \A e \in EntriesOver(Made) : e.node \in NodesOver(Made) /\ e.class \in Made
  BY DEF EntriesOver
<1>3. \A c \in DOMAIN classes :
        /\ c \in Made /\ leader[c] = c
        /\ classes[c].nodes \subseteq NodesOver(Made) /\ classes[c].data \subseteq Facts
        /\ classes[c].parents \subseteq EntriesOver(Made)
  BY DEF TypeOK
<1>4. \A m \in DOMAIN memo : m \in NodesOver(Made) /\ memo[m] \in Made
  BY DEF TypeOK
<1>5. pending \subseteq EntriesOver(Made) /\ reanalyze \subseteq EntriesOver(Made)
  BY DEF TypeOK
<1>6. leader \in [Made -> Made] /\ \A i \in Made : leader[leader[i]] = leader[i]
  BY DEF TypeOK
<1> QED
  BY <1>1, <1>2, <1>3, <1>4, <1>5, <1>6

LEMMA MergeCovered ==
  ASSUME TypeOK, Known, NEW a, NEW b, NEW rest, MergeStep(a, b, rest), MemoStep(rest)
  PROVE  Covered'
<1>0. origin' = origin /\ pending' = rest \cup classes[b].parents
  BY MergeClasses, ZenonT(40)
<1>7. Made' = Made
  BY MergeLeaders
<1>1. origin' = origin /\ Made' = Made /\ pending' = rest \cup classes[b].parents
  BY <1>0, <1>7
<1>2. b \in DOMAIN classes /\ rest \subseteq pending
  BY DEF MergeStep
<1> SUFFICES ASSUME NEW i \in Made
             PROVE  \/ InMemo(leader', memo', origin[i], i)
                    \/ \E e \in pending' : Says(leader', e, origin[i], i)
  BY <1>1 DEF Covered
<1>3. origin[i] \in NodesOver(Made) /\ Children(origin[i]) \subseteq Made
  BY Typed, NodeIs
<1>4. ASSUME NEW e, e.node \in NodesOver(Made), e.class \in Made, Says(leader, e, origin[i], i)
      PROVE  Says(leader', e, origin[i], i)
  BY <1>3, <1>4, MergeForms DEF Says
<1>5. CASE \E k \in Children(origin[i]) : leader[k] = b
  <2>1. PICK e \in classes[b].parents : Says(leader, e, origin[i], i)
    BY <1>5 DEF Known
  <2>2. e.node \in NodesOver(Made) /\ e.class \in Made
    BY <2>1, <1>2, Typed
  <2> QED
    BY <2>1, <2>2, <1>1, <1>4
<1>6. CASE \A k \in Children(origin[i]) : leader[k] # b
  <2>1. Canon(leader', origin[i]) = Canon(leader, origin[i])
    BY <1>3, <1>6, MergeForms
  <2>2. CASE \E e \in rest : Says(leader, e, origin[i], i)
    <3>1. PICK e \in rest : Says(leader, e, origin[i], i)
      BY <2>2
    <3>2. e.node \in NodesOver(Made) /\ e.class \in Made
      BY <3>1, <1>2, Typed
    <3> QED
      BY <3>1, <3>2, <1>1, <1>4
  <2>3. CASE /\ Canon(leader, origin[i]) \in DOMAIN memo'
             /\ leader'[memo'[Canon(leader, origin[i])]] = leader'[i]
    BY <2>1, <2>3 DEF InMemo
  <2> QED
    BY <2>2, <2>3 DEF MemoStep
<1> QED
  BY <1>5, <1>6

LEMMA MergeKnown ==
  ASSUME TypeOK, Known, NEW a, NEW b, NEW rest, MergeStep(a, b, rest)
  PROVE  Known'
<1>1. origin' = origin /\ Made' = Made
  BY MergeClasses, MergeLeaders
<1> SUFFICES ASSUME NEW i \in Made, NEW k \in Children(origin[i])
             PROVE  \E e \in classes'[leader'[k]].parents : Says(leader', e, origin[i], i)
  BY <1>1 DEF Known
<1>2. origin[i] \in NodesOver(Made) /\ k \in Made
  BY Typed, NodeIs
<1>3. PICK e \in classes[leader[k]].parents : Says(leader, e, origin[i], i)
  BY DEF Known
<1>4. leader[k] \in DOMAIN classes /\ e.node \in NodesOver(Made) /\ e.class \in Made
  BY <1>2, <1>3, Typed
<1>5. Says(leader', e, origin[i], i)
  BY <1>2, <1>3, <1>4, MergeForms DEF Says
<1>6. leader'[k] = IF leader[k] = b THEN a ELSE leader[k]
  BY <1>2, MergeLeaders
<1>7. classes'[a].parents = classes[a].parents \cup classes[b].parents
  BY MergeClasses
<1>9. \A c \in DOMAIN classes : c # a /\ c # b => classes'[c] = classes[c]
  BY MergeOthers
<1>8. e \in classes'[leader'[k]].parents
  <2>1. CASE leader[k] = b
    BY <2>1, <1>3, <1>6, <1>7
  <2>2. CASE leader[k] = a /\ leader[k] # b
    BY <2>2, <1>3, <1>6, <1>7
  <2>3. CASE leader[k] # a /\ leader[k] # b
    <3>1. classes'[leader[k]] = classes[leader[k]]
      BY <2>3, <1>4, <1>9
    <3> QED
      BY <3>1, <2>3, <1>3, <1>6
  <2> QED
    BY <2>1, <2>2, <2>3
<1> QED
  BY <1>5, <1>8

\* A node that a class holds it still holds.
LEMMA MergeHolds ==
  ASSUME TypeOK, NEW a, NEW b, NEW rest, MergeStep(a, b, rest),
         NEW n \in NodesOver(Made), NEW i \in Made, Holds(leader, origin, n, i)
  PROVE  Holds(leader', origin', n, i)
<1>1. DOMAIN origin = Made
  BY DEF TypeOK
<1>2. PICK p \in Made : leader[p] = leader[i] /\ Canon(leader, origin[p]) = Canon(leader, n)
  BY <1>1 DEF Holds
<1>3. origin[p] \in NodesOver(Made) /\ origin' = origin
  BY Typed, MergeClasses
<1>4. leader'[p] = leader'[i] /\ Canon(leader', origin[p]) = Canon(leader', n)
  BY <1>2, <1>3, MergeForms
<1> QED
  BY <1>1, <1>3, <1>4 DEF Holds

LEMMA MergeEntries ==
  ASSUME TypeOK, EntriesRight, NEW a, NEW b, NEW rest, MergeStep(a, b, rest), MemoStep(rest)
  PROVE  EntriesRight' /\ MemoHolds'
<1>1. a \in DOMAIN classes /\ b \in DOMAIN classes /\ rest \subseteq pending
  BY DEF MergeStep
<1>2. \A c \in DOMAIN classes : \A e \in classes[c].parents :
        Holds(leader', origin', e.node, e.class)
  BY Typed, MergeHolds DEF EntriesRight
<1>3. \A e \in pending \cup reanalyze : Holds(leader', origin', e.node, e.class)
  BY Typed, MergeHolds DEF EntriesRight
<1>4. pending' = rest \cup classes[b].parents /\ reanalyze' = reanalyze \cup Reanalyze(a, b)
  BY MergeClasses, ZenonT(40)
<1>10. classes'[a].parents = classes[a].parents \cup classes[b].parents
  BY MergeClasses
<1>11. \A c \in DOMAIN classes : c # a /\ c # b => classes'[c] = classes[c]
  BY MergeOthers
<1>5. \A e \in pending' : Holds(leader', origin', e.node, e.class)
  BY <1>1, <1>2, <1>3, <1>4
<1>6. Reanalyze(a, b) \subseteq classes[a].parents \cup classes[b].parents
  BY DEF Reanalyze
<1>7. \A e \in reanalyze' : Holds(leader', origin', e.node, e.class)
  BY <1>1, <1>2, <1>3, <1>4, <1>6
<1>8. \A c \in DOMAIN classes' : \A e \in classes'[c].parents :
        Holds(leader', origin', e.node, e.class)
  <2>1. DOMAIN classes' = DOMAIN classes \ {b}
    BY MergeLeaders
  <2> SUFFICES ASSUME NEW c \in DOMAIN classes, c # b
               PROVE  \A e \in classes'[c].parents : Holds(leader', origin', e.node, e.class)
    BY <2>1
  <2>2. CASE c = a
    BY <2>2, <1>1, <1>2, <1>10
  <2>3. CASE c # a
    BY <2>3, <1>2, <1>11
  <2> QED
    BY <2>2, <2>3
<1>9. \A m \in DOMAIN memo' : Holds(leader', origin', m, memo'[m])
  <2> SUFFICES ASSUME NEW m \in DOMAIN memo' PROVE Holds(leader', origin', m, memo'[m])
    OBVIOUS
  <2>1. m \in NodesOver(Made) /\ memo'[m] \in Made /\ Holds(leader, origin, m, memo'[m])
    BY DEF MemoStep
  <2> QED
    BY <2>1, MergeHolds
<1> QED
  BY <1>5, <1>7, <1>8, <1>9 DEF EntriesRight, MemoHolds

LEMMA MergeNodesKept ==
  ASSUME TypeOK, NodesKept, NEW a, NEW b, NEW rest, MergeStep(a, b, rest)
  PROVE  NodesKept'
<1>1. origin' = origin
  BY MergeClasses
<1>2. Made' = Made /\ DOMAIN classes' = DOMAIN classes \ {b}
  BY MergeLeaders
<1>3. a \in DOMAIN classes /\ b \in DOMAIN classes /\ a # b
  BY DEF MergeStep
<1>4. \A i \in Made : leader'[i] = IF leader[i] = b THEN a ELSE leader[i]
  BY MergeLeaders
<1> DEFINE Of(c) == {Canon(leader, n) : n \in classes[c].nodes}
           Nodes(c) == {Canon(leader, origin[i]) : i \in {j \in Made : leader[j] = c}}
\* The forms after the merge are those of the forms before.
<1>5. ASSUME NEW c \in DOMAIN classes
      PROVE  {Canon(leader', n) : n \in classes[c].nodes} = {Canon(leader', m) : m \in Of(c)}
  <2>1. \A n \in classes[c].nodes : Canon(leader', Canon(leader, n)) = Canon(leader', n)
    BY Typed, MergeForms
  <2> QED
    BY <2>1
<1>6. ASSUME NEW S, S \subseteq Made
      PROVE  {Canon(leader', origin[i]) : i \in S}
               = {Canon(leader', m) : m \in {Canon(leader, origin[i]) : i \in S}}
  <2>1. \A i \in S : Canon(leader', Canon(leader, origin[i])) = Canon(leader', origin[i])
    BY <1>6, Typed, MergeForms
  <2> QED
    BY <2>1
<1>7. \A c \in DOMAIN classes : Of(c) = Nodes(c)
  BY DEF NodesKept
<1>8. ASSUME NEW c \in DOMAIN classes
      PROVE  {Canon(leader', n) : n \in classes[c].nodes}
               = {Canon(leader', origin[i]) : i \in {j \in Made : leader[j] = c}}
  <2>1. {Canon(leader', origin[i]) : i \in {j \in Made : leader[j] = c}}
          = {Canon(leader', m) : m \in Nodes(c)}
    BY <1>6
  <2> HIDE DEF Of, Nodes
  <2> QED
    BY <2>1, <1>5, <1>7
<1> SUFFICES ASSUME NEW c \in DOMAIN classes, c # b
             PROVE  {Canon(leader', n) : n \in classes'[c].nodes}
                      = {Canon(leader', origin[i]) : i \in {j \in Made : leader'[j] = c}}
  BY <1>1, <1>2 DEF NodesKept
<1>9. CASE c = a
  <2>1. classes'[a].nodes = classes[a].nodes \cup classes[b].nodes
    BY MergeClasses
  <2>2. {j \in Made : leader'[j] = a} = {j \in Made : leader[j] = a} \cup {j \in Made : leader[j] = b}
    BY <1>4
  <2>3. {Canon(leader', n) : n \in classes'[a].nodes}
          = {Canon(leader', n) : n \in classes[a].nodes} \cup {Canon(leader', n) : n \in classes[b].nodes}
    BY <2>1
  <2>4. {Canon(leader', origin[i]) : i \in {j \in Made : leader'[j] = a}}
          = {Canon(leader', origin[i]) : i \in {j \in Made : leader[j] = a}}
            \cup {Canon(leader', origin[i]) : i \in {j \in Made : leader[j] = b}}
    BY <2>2
  <2> QED
    BY <1>3, <1>8, <1>9, <2>3, <2>4
<1>10. CASE c # a
  <2>1. classes'[c] = classes[c]
    BY <1>10, MergeOthers
  <2>2. {j \in Made : leader'[j] = c} = {j \in Made : leader[j] = c}
    BY <1>4, <1>10
  <2> QED
    BY <1>8, <2>1, <2>2
<1> QED
  BY <1>9, <1>10

\* Data grow, so nodes make more; they make the same if the data of a child's class do not
\* change.
LEMMA MergeMake ==
  ASSUME TypeOK, NEW a, NEW b, NEW rest, MergeStep(a, b, rest), NEW n \in NodesOver(Made)
  PROVE  /\ Make(n) \subseteq Make(n)'
         /\ (\A k \in Children(n) :
               /\ leader[k] = a => classes[b].data \subseteq classes[a].data
               /\ leader[k] = b => classes[a].data \subseteq classes[b].data)
            => Make(n)' = Make(n)
<1>1. Children(n) \subseteq Made /\ a # b
  BY NodeIs DEF MergeStep
<1>2. \A i \in Made : leader'[i] = IF leader[i] = b THEN a ELSE leader[i]
  BY MergeLeaders
<1>3. classes'[a].data = classes[a].data \cup classes[b].data
  BY MergeClasses, ZenonT(40)
<1>4. \A c \in DOMAIN classes : c # a /\ c # b => classes'[c] = classes[c]
  BY MergeOthers
<1>5. \A k \in Children(n) : leader[k] \in DOMAIN classes
  BY <1>1, Typed
<1>6. ASSUME NEW k \in Children(n)
      PROVE  /\ classes[leader[k]].data \subseteq classes'[leader'[k]].data
             /\ (/\ leader[k] = a => classes[b].data \subseteq classes[a].data
                 /\ leader[k] = b => classes[a].data \subseteq classes[b].data)
                => classes'[leader'[k]].data = classes[leader[k]].data
  <2>1. CASE leader[k] = a
    BY <2>1, <1>1, <1>2, <1>3
  <2>2. CASE leader[k] = b
    BY <2>2, <1>1, <1>2, <1>3
  <2>3. CASE leader[k] # a /\ leader[k] # b
    <3>1. classes'[leader[k]] = classes[leader[k]]
      BY <2>3, <1>4, <1>5
    <3> QED
      BY <3>1, <2>3, <1>1, <1>2
  <2> QED
    BY <2>1, <2>2, <2>3
<1>7. Make(n)' = FactsOf[n.op] \cup UNION {classes'[leader'[k]].data : k \in Children(n)}
  BY DEF Make
<1>8. Make(n) = FactsOf[n.op] \cup UNION {classes[leader[k]].data : k \in Children(n)}
  BY DEF Make
<1>9. Make(n) \subseteq Make(n)'
  BY <1>6, <1>7, <1>8
<1>10. ASSUME \A k \in Children(n) : classes'[leader'[k]].data = classes[leader[k]].data
       PROVE  Make(n)' = Make(n)
  BY <1>7, <1>8, <1>10
<1> QED
  BY <1>6, <1>9, <1>10

LEMMA MergeDataThere ==
  ASSUME TypeOK, Known, DataThere, NEW a, NEW b, NEW rest, MergeStep(a, b, rest)
  PROVE  DataThere'
<1>1. origin' = origin /\ reanalyze' = reanalyze \cup Reanalyze(a, b)
  BY MergeClasses
<1>2. Made' = Made
  BY MergeLeaders
<1>3. a \in DOMAIN classes /\ b \in DOMAIN classes
  BY DEF MergeStep
<1> SUFFICES ASSUME NEW i \in Made
             PROVE  \/ Make(origin[i])' \subseteq classes'[leader'[i]].data
                    \/ \E e \in reanalyze' : Says(leader', e, origin[i], i)
  BY <1>1, <1>2 DEF DataThere
<1>4. origin[i] \in NodesOver(Made) /\ leader[i] \in DOMAIN classes
  BY Typed
<1>5. ASSUME NEW e, e.node \in NodesOver(Made), e.class \in Made, Says(leader, e, origin[i], i)
      PROVE  Says(leader', e, origin[i], i)
  BY <1>4, <1>5, MergeForms DEF Says
<1>6. ASSUME NEW k \in Children(origin[i]), NEW c \in {a, b}, leader[k] = c,
             classes[c].parents \subseteq Reanalyze(a, b)
      PROVE  \E e \in reanalyze' : Says(leader', e, origin[i], i)
  <2>1. PICK e \in classes[c].parents : Says(leader, e, origin[i], i)
    BY <1>6 DEF Known
  <2>2. e.node \in NodesOver(Made) /\ e.class \in Made
    BY <2>1, <1>3, Typed
  <2> QED
    BY <2>1, <2>2, <1>1, <1>5, <1>6
<1>7. CASE \E k \in Children(origin[i]) :
             leader[k] = a /\ ~(classes[b].data \subseteq classes[a].data)
  BY <1>6, <1>7 DEF Reanalyze
<1>8. CASE \E k \in Children(origin[i]) :
             leader[k] = b /\ ~(classes[a].data \subseteq classes[b].data)
  BY <1>6, <1>8 DEF Reanalyze
<1>9. CASE \A k \in Children(origin[i]) :
             /\ leader[k] = a => classes[b].data \subseteq classes[a].data
             /\ leader[k] = b => classes[a].data \subseteq classes[b].data
  <2>1. Make(origin[i])' = Make(origin[i])
    BY <1>1, <1>4, <1>9, MergeMake DEF Make
  <2>2. CASE \E e \in reanalyze : Says(leader, e, origin[i], i)
    <3>1. PICK e \in reanalyze : Says(leader, e, origin[i], i)
      BY <2>2
    <3>2. e.node \in NodesOver(Made) /\ e.class \in Made
      BY <3>1, Typed
    <3> QED
      BY <3>1, <3>2, <1>1, <1>5
  <2>3. CASE Make(origin[i]) \subseteq classes[leader[i]].data
    <3>1. classes[leader[i]].data \subseteq classes'[leader'[i]].data
      <4>1. leader'[i] = IF leader[i] = b THEN a ELSE leader[i]
        BY MergeLeaders
      <4>2. classes'[a].data = classes[a].data \cup classes[b].data
        BY MergeClasses, ZenonT(40)
      <4>3. CASE leader[i] \in {a, b}
        BY <4>1, <4>2, <4>3
      <4>4. CASE leader[i] # a /\ leader[i] # b
        <5>1. classes'[leader[i]] = classes[leader[i]]
          BY <4>4, <1>4, MergeOthers
        <5> QED
          BY <5>1, <4>1, <4>4
      <4> QED
        BY <4>3, <4>4
    <3> QED
      BY <3>1, <2>1, <2>3
  <2> QED
    BY <2>2, <2>3 DEF DataThere
<1> QED
  BY <1>7, <1>8, <1>9

LEMMA MergeDataFrom ==
  ASSUME TypeOK, DataFromNodes, NEW a, NEW b, NEW rest, MergeStep(a, b, rest)
  PROVE  DataFromNodes'
<1>1. origin' = origin /\ classes'[a].data = classes[a].data \cup classes[b].data
  BY MergeClasses, ZenonT(40)
<1>2. Made' = Made /\ DOMAIN classes' = DOMAIN classes \ {b}
  BY MergeLeaders
<1>3. a \in DOMAIN classes /\ b \in DOMAIN classes
  BY DEF MergeStep
<1>4. \A i \in Made : leader'[i] = IF leader[i] = b THEN a ELSE leader[i]
  BY MergeLeaders
<1> DEFINE M(i) == FactsOf[origin[i].op]
                     \cup UNION {classes'[leader'[k]].data : k \in Children(origin[i])}
<1>5. \A i \in Made : Make(origin[i]) \subseteq M(i)
  <2>1. \A i \in Made : Make(origin[i]) \subseteq Make(origin[i])'
    BY <1>1, Typed, MergeMake DEF Make
  <2> QED
    BY <1>1, <2>1 DEF Make
<1>6. \A c \in DOMAIN classes : \A d \in classes[c].data :
        \E i \in Made : leader[i] = c /\ d \in M(i)
  <2> HIDE DEF M
  <2> QED
    BY <1>5 DEF DataFromNodes
<1>7. ASSUME NEW c \in DOMAIN classes, c # b, NEW d \in classes'[c].data
      PROVE  \E i \in Made : leader'[i] = c /\ d \in M(i)
  <2> HIDE DEF M
  <2>1. CASE c = a
    BY <2>1, <1>1, <1>3, <1>4, <1>6, <1>7
  <2>2. CASE c # a
    <3>1. classes'[c] = classes[c]
      BY <2>2, <1>7, MergeOthers
    <3> QED
      BY <3>1, <2>2, <1>4, <1>6, <1>7
  <2> QED
    BY <2>1, <2>2
<1>8. \A i \in Made : Make(origin[i])' = M(i)
  BY <1>1 DEF Make
<1> HIDE DEF M
<1>9. ASSUME NEW c \in DOMAIN classes'
      PROVE  classes'[c].data \subseteq UNION {M(i) : i \in {j \in Made : leader'[j] = c}}
  BY <1>2, <1>7
<1>10. \A c \in DOMAIN classes' :
         UNION {M(i) : i \in {j \in Made : leader'[j] = c}}
           = UNION {Make(origin[i])' : i \in {j \in Made : leader'[j] = c}}
  BY <1>8
<1> QED
  BY <1>1, <1>2, <1>9, <1>10 DEF DataFromNodes, M, Make

\* Merging two classes keeps the invariant, whatever else the step does to memo as long as
\* nodes stay covered.
LEMMA MergeKeeps ==
  ASSUME IInv, NEW a, NEW b, NEW rest, MergeStep(a, b, rest), MemoStep(rest),
         UNCHANGED <<classesByOp, phase>>
  PROVE  IInv'
<1>1. TypeOK'
  BY MergeType DEF IInv, MemoStep
<1>2. Covered' /\ Known'
  BY MergeCovered, MergeKnown DEF IInv
<1>3. EntriesRight' /\ MemoHolds'
  BY MergeEntries DEF IInv
<1>4. NodesKept'
  BY MergeNodesKept DEF IInv
<1>5. DataThere'
  BY MergeDataThere DEF IInv
<1>6. DataFromNodes'
  BY MergeDataFrom DEF IInv
<1>7. Settled'
  <2>1. dirty' = TRUE
    BY MergeClasses
  <2> QED
    BY <2>1 DEF Settled
<1> QED
  BY <1>1, <1>2, <1>3, <1>4, <1>5, <1>6, <1>7 DEF IInv

-----------------------------------------------------------------------------
(* The steps *)

LEMMA UnionKeeps ==
  ASSUME IInv, NEW i \in Made, NEW j \in Made, Union(i, j)
  PROVE  IInv'
<1>1. TypeOK /\ Covered /\ MemoHolds
  BY DEF IInv
<1>2. leader[i] \in DOMAIN classes /\ leader[j] \in DOMAIN classes /\ leader[i] # leader[j]
  BY <1>1, Typed DEF Union
<1>3. UNCHANGED <<memo, classesByOp, phase, origin>>
  BY DEF Union
<1>4. ASSUME NEW a \in DOMAIN classes, NEW b \in DOMAIN classes, a # b, Merge(a, b, pending)
      PROVE  IInv'
  <2>1. MergeStep(a, b, pending)
    BY <1>3, <1>4 DEF MergeStep
  <2>2. MemoStep(pending)
    <3>1. memo' \in [DOMAIN memo' -> Made] /\ DOMAIN memo' \subseteq NodesOver(Made)
      BY <1>1, <1>3 DEF TypeOK
    <3>2. \A m \in DOMAIN memo' : Holds(leader, origin, m, memo'[m])
      BY <1>1, <1>3 DEF MemoHolds
    <3>3. ASSUME NEW k \in Made, InMemo(leader, memo, origin[k], k)
          PROVE  /\ Canon(leader, origin[k]) \in DOMAIN memo'
                 /\ leader'[memo'[Canon(leader, origin[k])]] = leader'[k]
      <4>1. \A p, q \in Made : leader[p] = leader[q] => leader'[p] = leader'[q]
        BY <1>1, <2>1, MergeForms
      <4>2. Canon(leader, origin[k]) \in DOMAIN memo
            /\ leader[memo[Canon(leader, origin[k])]] = leader[k]
        BY <3>3 DEF InMemo
      <4>3. memo[Canon(leader, origin[k])] \in Made
        BY <1>1, <4>2, Typed
      <4> QED
        BY <1>3, <4>1, <4>2, <4>3
    <3> QED
      BY <1>1, <3>1, <3>2, <3>3 DEF MemoStep, Covered
  <2> QED
    BY <1>3, <2>1, <2>2, MergeKeeps
<1> QED
  BY <1>2, <1>4 DEF Union

\* What memo has after a turn of the first loop, by the leaders before it.
LEMMA ProcessUnionMemo ==
  ASSUME IInv, NEW e \in pending, ProcessUnion(e)
  PROVE  LET n == Canon(leader, e.node)
         IN  /\ n \in NodesOver(Made) /\ e.class \in Made /\ Canon(leader, n) = n
             /\ DOMAIN memo' = DOMAIN memo \cup {n}
             /\ memo'[n] = e.class
             /\ \A m \in DOMAIN memo : m # n => memo'[m] = memo[m]
             /\ memo' \in [DOMAIN memo' -> Made] /\ DOMAIN memo' \subseteq NodesOver(Made)
             /\ \A m \in DOMAIN memo' : Holds(leader, origin, m, memo'[m])
<1> DEFINE n == Canon(leader, e.node)
<1>1. TypeOK /\ EntriesRight /\ MemoHolds
  BY DEF IInv
<1>2. e.node \in NodesOver(Made) /\ e.class \in Made
  BY <1>1, Typed
<1>3. leader \in [Made -> Made] /\ \A i \in Made : leader[leader[i]] = leader[i]
  BY DEF TypeOK, IInv
<1>4. n \in NodesOver(Made)
  BY <1>2, <1>3, CanonOver
<1>5. Canon(leader, n) = n
  BY <1>2, <1>3, CanonTwice
<1>6. memo' = Put(memo, n, e.class)
  BY DEF ProcessUnion
<1>7. Holds(leader, origin, e.node, e.class)
  BY <1>1 DEF EntriesRight
<1>8. Holds(leader, origin, n, e.class)
  BY <1>5, <1>7 DEF Holds
<1> HIDE DEF n
<1>9. /\ DOMAIN memo' = DOMAIN memo \cup {n} /\ memo'[n] = e.class
      /\ \A m \in DOMAIN memo : m # n => memo'[m] = memo[m]
  BY <1>6 DEF Put
<1>10. memo' \in [DOMAIN memo' -> Made]
  <2>1. \A m \in DOMAIN memo' : memo'[m] \in Made
    BY <1>1, <1>2, <1>9, Typed
  <2>2. memo' = [m \in DOMAIN memo' |-> memo'[m]]
    BY <1>6 DEF Put
  <2> QED
    BY <2>1, <2>2
<1>11. DOMAIN memo' \subseteq NodesOver(Made)
  BY <1>1, <1>4, <1>9 DEF TypeOK
<1>12. \A m \in DOMAIN memo' : Holds(leader, origin, m, memo'[m])
  BY <1>1, <1>8, <1>9 DEF MemoHolds
<1> QED
  BY <1>2, <1>4, <1>5, <1>9, <1>10, <1>11, <1>12 DEF n

LEMMA ProcessUnionMerges ==
  ASSUME IInv, NEW e \in pending, ProcessUnion(e),
         Canon(leader, e.node) \in DOMAIN memo,
         leader[memo[Canon(leader, e.node)]] # leader[e.class]
  PROVE  IInv'
<1> DEFINE n == Canon(leader, e.node)
<1>1. TypeOK /\ Covered
  BY DEF IInv
<1>2. /\ n \in DOMAIN memo /\ leader[memo[n]] # leader[e.class]
      /\ n \in DOMAIN memo' /\ memo'[n] = e.class /\ e.class \in Made
      /\ memo' \in [DOMAIN memo' -> Made] /\ DOMAIN memo' \subseteq NodesOver(Made)
  BY ProcessUnionMemo
<1>3. \A m \in DOMAIN memo : m \in DOMAIN memo' /\ (m # n => memo'[m] = memo[m])
  BY ProcessUnionMemo
<1>4. \A m \in DOMAIN memo' : Holds(leader, origin, m, memo'[m])
  BY ProcessUnionMemo
<1>6. \/ Merge(leader[memo[n]], leader[e.class], pending \ {e})
      \/ Merge(leader[e.class], leader[memo[n]], pending \ {e})
  BY <1>2 DEF ProcessUnion
<1>7. UNCHANGED <<classesByOp, phase, origin>>
  BY DEF ProcessUnion
<1>8. memo[n] \in Made /\ leader[memo[n]] \in DOMAIN classes /\ leader[e.class] \in DOMAIN classes
  BY <1>1, <1>2, Typed
<1>9. \A i \in Made : \/ InMemo(leader, memo, origin[i], i)
                         \/ (Canon(leader, origin[i]) = n /\ leader[i] = leader[e.class])
                         \/ \E d \in pending \ {e} : Says(leader, d, origin[i], i)
  <2> TAKE i \in Made
  <2>1. CASE InMemo(leader, memo, origin[i], i)
    BY <2>1
  <2>2. CASE \E d \in pending : Says(leader, d, origin[i], i)
    <3>1. PICK d \in pending : Says(leader, d, origin[i], i)
      BY <2>2
    <3>2. CASE d = e
      <4>1. Says(leader, e, origin[i], i)
        BY <3>1, <3>2
      <4> QED
        BY <4>1 DEF Says
    <3>3. CASE d # e
      BY <3>1, <3>3
    <3> QED
      BY <3>2, <3>3
  <2> QED
    BY <1>1, <2>1, <2>2 DEF Covered
<1> HIDE DEF n
<1>10. ASSUME NEW a \in DOMAIN classes, NEW b \in DOMAIN classes, a # b,
              {a, b} = {leader[memo[n]], leader[e.class]}, Merge(a, b, pending \ {e})
       PROVE  IInv'
  <2>1. MergeStep(a, b, pending \ {e})
    BY <1>7, <1>10 DEF MergeStep
  <2>2. \A i \in Made : leader'[i] = IF leader[i] = b THEN a ELSE leader[i]
    BY <1>1, <2>1, MergeLeaders
  <2>3. \A p, q \in Made : leader[p] = leader[q] => leader'[p] = leader'[q]
    BY <1>1, <2>1, MergeForms
  <2>4. ASSUME NEW i \in Made, InMemo(leader, memo, origin[i], i)
        PROVE  /\ Canon(leader, origin[i]) \in DOMAIN memo'
               /\ leader'[memo'[Canon(leader, origin[i])]] = leader'[i]
    <3>1. Canon(leader, origin[i]) \in DOMAIN memo
          /\ leader[memo[Canon(leader, origin[i])]] = leader[i]
      BY <2>4 DEF InMemo
    <3>2. CASE Canon(leader, origin[i]) = n
      <4>1. leader[i] = leader[memo[n]]
        BY <3>1, <3>2
      <4>2. leader'[i] = a /\ leader'[e.class] = a
        BY <4>1, <2>2, <1>2, <1>10
      <4> QED
        BY <4>2, <3>2, <1>2
    <3>3. CASE Canon(leader, origin[i]) # n
      <4>1. memo'[Canon(leader, origin[i])] = memo[Canon(leader, origin[i])]
        BY <3>1, <3>3, <1>3
      <4>2. memo[Canon(leader, origin[i])] \in Made
        BY <3>1, <1>1, Typed
      <4> QED
        BY <4>1, <4>2, <3>1, <2>3, <1>3
    <3> QED
      BY <3>2, <3>3
  <2>5. ASSUME NEW i \in Made, Canon(leader, origin[i]) = n, leader[i] = leader[e.class]
        PROVE  /\ Canon(leader, origin[i]) \in DOMAIN memo'
               /\ leader'[memo'[Canon(leader, origin[i])]] = leader'[i]
    BY <2>5, <2>3, <1>2
  <2>6. MemoStep(pending \ {e})
    BY <1>2, <1>4, <1>9, <2>4, <2>5 DEF MemoStep
  <2> QED
    BY <1>7, <2>1, <2>6, MergeKeeps
<1> QED
  BY <1>2, <1>6, <1>8, <1>10

LEMMA ProcessUnionDoesNotMerge ==
  ASSUME IInv, NEW e \in pending, ProcessUnion(e),
         ~(/\ Canon(leader, e.node) \in DOMAIN memo
           /\ leader[memo[Canon(leader, e.node)]] # leader[e.class])
  PROVE  IInv'
<1> DEFINE n == Canon(leader, e.node)
<1>1. /\ TypeOK /\ Covered /\ Known /\ EntriesRight /\ MemoHolds /\ Settled
      /\ NodesKept /\ DataThere /\ DataFromNodes
  BY DEF IInv
<1>2. /\ n \in DOMAIN memo' /\ memo'[n] = e.class
      /\ memo' \in [DOMAIN memo' -> Made] /\ DOMAIN memo' \subseteq NodesOver(Made)
  BY ProcessUnionMemo
<1>3. \A m \in DOMAIN memo : m \in DOMAIN memo' /\ (m # n => memo'[m] = memo[m])
  BY ProcessUnionMemo
<1>4. \A m \in DOMAIN memo' : Holds(leader, origin, m, memo'[m])
  BY ProcessUnionMemo
<1>5. UNCHANGED <<leader, classes, reanalyze, dirty, classesByOp, phase, origin>>
      /\ pending' = pending \ {e}
  BY DEF ProcessUnion
<1>6. n \in DOMAIN memo => leader[memo[n]] = leader[e.class]
  OBVIOUS
<1>7. \A x, i : Says(leader, e, x, i) => InMemo(leader, memo', x, i)
  BY <1>2 DEF Says, InMemo
<1> HIDE DEF n
<1>8. ASSUME NEW x, NEW i, InMemo(leader, memo, x, i)
      PROVE  InMemo(leader, memo', x, i)
  <2>1. Canon(leader, x) \in DOMAIN memo /\ leader[memo[Canon(leader, x)]] = leader[i]
    BY <1>8 DEF InMemo
  <2>2. CASE Canon(leader, x) = n
    BY <2>1, <2>2, <1>2, <1>6 DEF InMemo
  <2>3. CASE Canon(leader, x) # n
    BY <2>1, <2>3, <1>3 DEF InMemo
  <2> QED
    BY <2>2, <2>3
<1>9. Made' = Made
  BY <1>5 DEF Made
<1>10. TypeOK'
  <2>1. pending' \subseteq EntriesOver(Made)
    BY <1>1, <1>5 DEF TypeOK
  <2> QED
    BY <1>1, <1>2, <1>5, <1>9, <2>1 DEF TypeOK
<1>11. Covered'
  <2> SUFFICES ASSUME NEW i \in Made
               PROVE  \/ InMemo(leader, memo', origin[i], i)
                      \/ \E d \in pending \ {e} : Says(leader, d, origin[i], i)
    BY <1>5, <1>9 DEF Covered
  <2> QED
    BY <1>1, <1>7, <1>8 DEF Covered
<1>12. Known' /\ NodesKept' /\ DataThere' /\ DataFromNodes'
  <2>1. Known'
    BY <1>1, <1>5, <1>9 DEF Known
  <2>2. NodesKept'
    BY <1>1, <1>5, <1>9 DEF NodesKept
  <2>3. DataThere'
    BY <1>1, <1>5, <1>9 DEF DataThere, Make
  <2>4. DataFromNodes'
    BY <1>1, <1>5, <1>9 DEF DataFromNodes, Make
  <2> QED
    BY <2>1, <2>2, <2>3, <2>4
<1>13. EntriesRight' /\ MemoHolds'
  BY <1>1, <1>4, <1>5 DEF EntriesRight, MemoHolds
<1>14. Settled'
  BY <1>1, <1>5, <1>8 DEF Settled
<1> QED
  BY <1>10, <1>11, <1>12, <1>13, <1>14 DEF IInv

LEMMA MakeFacts ==
  ASSUME TypeOK, NEW n \in NodesOver(Made)
  PROVE  Make(n) \subseteq Facts
<1>1. n.op \in Ops /\ Children(n) \subseteq Made
  BY NodeIs
<1>2. \A k \in Children(n) : classes[leader[k]].data \subseteq Facts
  BY <1>1, Typed
<1> QED
  BY <1>1, <1>2, FactsAssumption DEF Make

\* A turn of the second loop changes the data of one class.
LEMMA ProcessAnalysisClasses ==
  ASSUME TypeOK, NEW e \in reanalyze, ProcessAnalysis(e)
  PROVE  /\ e.node \in NodesOver(Made) /\ e.class \in Made /\ leader[e.class] \in DOMAIN classes
         /\ DOMAIN classes' = DOMAIN classes
         /\ \A c \in DOMAIN classes :
              /\ classes'[c].nodes = classes[c].nodes /\ classes'[c].parents = classes[c].parents
              /\ classes'[c].data = IF c = leader[e.class] THEN classes[c].data \cup Make(e.node)
                                                           ELSE classes[c].data
         /\ TypeOK'
<1> DEFINE c == leader[e.class]
           C == [nodes : SUBSET NodesOver(Made), parents : SUBSET EntriesOver(Made),
                 data : SUBSET Facts]
<1>1. e.node \in NodesOver(Made) /\ e.class \in Made /\ c \in DOMAIN classes
  BY Typed
<1>2. \A d \in DOMAIN classes : classes[d] \in C
  BY DEF TypeOK
<1>3. classes' = [classes EXCEPT ![c].data = @ \cup Make(e.node)]
  BY DEF ProcessAnalysis
<1> HIDE DEF c
<1>4. DOMAIN classes' = DOMAIN classes
  BY <1>3
<1>5. ASSUME NEW d \in DOMAIN classes
      PROVE  /\ classes'[d].nodes = classes[d].nodes /\ classes'[d].parents = classes[d].parents
             /\ classes'[d].data = IF d = c THEN classes[d].data \cup Make(e.node)
                                            ELSE classes[d].data
             /\ classes'[d] \in C
  <2>1. classes[d] \in C /\ Make(e.node) \subseteq Facts
    BY <1>1, <1>2, MakeFacts
  <2>2. CASE d = c
    <3>1. classes'[d] = [classes[d] EXCEPT !.data = @ \cup Make(e.node)]
      BY <2>2, <1>3
    <3> QED
      BY <3>1, <2>1, <2>2
  <2>3. CASE d # c
    BY <2>1, <2>3, <1>3
  <2> QED
    BY <2>2, <2>3
<1>6. classes' \in [DOMAIN classes -> C]
  <2>1. classes' = [d \in DOMAIN classes |-> classes'[d]]
    BY <1>3
  <2> HIDE DEF C
  <2> QED
    BY <2>1, <1>5
<1>7. UNCHANGED <<leader, memo, pending, classesByOp, phase, origin, dirty>>
  BY DEF ProcessAnalysis
<1>8. Made' = Made
  BY <1>7 DEF Made
<1>9. reanalyze' \subseteq EntriesOver(Made)
  <2>1. reanalyze \subseteq EntriesOver(Made) /\ classes[c].parents \subseteq EntriesOver(Made)
    BY <1>1, <1>2 DEF TypeOK
  <2>2. reanalyze' \subseteq reanalyze \cup classes[c].parents
    BY DEF ProcessAnalysis, c
  <2> QED
    BY <2>1, <2>2
<1>10. TypeOK'
  BY <1>4, <1>6, <1>7, <1>8, <1>9 DEF TypeOK
<1> QED
  BY <1>1, <1>4, <1>5, <1>10 DEF c

LEMMA ProcessAnalysisKeeps ==
  ASSUME IInv, NEW e \in reanalyze, ProcessAnalysis(e)
  PROVE  IInv'
<1> DEFINE c == leader[e.class]
           M(i) == FactsOf[origin[i].op]
                     \cup UNION {classes'[leader[k]].data : k \in Children(origin[i])}
<1>1. /\ TypeOK /\ Covered /\ Known /\ EntriesRight /\ MemoHolds /\ Settled
      /\ NodesKept /\ DataThere /\ DataFromNodes
  BY DEF IInv
<1>2. e.node \in NodesOver(Made) /\ e.class \in Made /\ c \in DOMAIN classes /\ TypeOK'
  BY <1>1, ProcessAnalysisClasses
<1>3. DOMAIN classes' = DOMAIN classes
  BY <1>1, ProcessAnalysisClasses
<1>4. \A d \in DOMAIN classes :
        classes'[d].nodes = classes[d].nodes /\ classes'[d].parents = classes[d].parents
  BY <1>1, ProcessAnalysisClasses
<1>5. \A d \in DOMAIN classes :
        classes'[d].data = IF d = c THEN classes[d].data \cup Make(e.node) ELSE classes[d].data
  BY <1>1, ProcessAnalysisClasses
<1>6. UNCHANGED <<leader, memo, pending, classesByOp, phase, origin, dirty>>
  BY DEF ProcessAnalysis
<1>7. reanalyze' = (reanalyze \ {e}) \cup
        (IF Make(e.node) \subseteq classes[c].data THEN {} ELSE classes[c].parents)
  BY DEF ProcessAnalysis
<1>8. Made' = Made
  BY <1>6 DEF Made
<1>9. Covered' /\ MemoHolds'
  BY <1>1, <1>6, <1>8 DEF Covered, MemoHolds
<1>10. \A i \in Made : \A k \in Children(origin[i]) : leader[k] \in DOMAIN classes
  BY <1>1, Typed, NodeIs
<1>11. Known'
  BY <1>1, <1>4, <1>6, <1>8, <1>10 DEF Known
<1>12. EntriesRight'
  BY <1>1, <1>2, <1>3, <1>4, <1>6, <1>7 DEF EntriesRight
<1>13. NodesKept'
  BY <1>1, <1>3, <1>4, <1>6, <1>8 DEF NodesKept
<1>14. Settled'
  <2>1. dirty
    BY <1>1 DEF Settled
  <2> QED
    BY <2>1, <1>6 DEF Settled
<1>15. ASSUME NEW i \in Made, \A k \in Children(origin[i]) :
                                classes'[leader[k]].data = classes[leader[k]].data
       PROVE  M(i) = Make(origin[i])
  BY <1>15 DEF Make
<1>16. \A i \in Made : Make(origin[i]) \subseteq M(i)
  <2>1. \A d \in DOMAIN classes : classes[d].data \subseteq classes'[d].data
    BY <1>5
  <2>2. \A i \in Made : \A k \in Children(origin[i]) :
          classes[leader[k]].data \subseteq classes'[leader[k]].data
    BY <2>1, <1>10
  <2> QED
    BY <2>2 DEF Make
<1>17. DataThere'
  <2> SUFFICES ASSUME NEW i \in Made
               PROVE  \/ M(i) \subseteq classes'[leader[i]].data
                      \/ \E d \in reanalyze' : Says(leader, d, origin[i], i)
    BY <1>6, <1>8 DEF DataThere, Make
  <2> HIDE DEF M
  <2>1. CASE \E k \in Children(origin[i]) :
               leader[k] = c /\ ~(Make(e.node) \subseteq classes[c].data)
    <3>1. \E d \in classes[c].parents : Says(leader, d, origin[i], i)
      BY <1>1, <2>1 DEF Known
    <3> QED
      BY <3>1, <2>1, <1>7
  <2>2. CASE \A k \in Children(origin[i]) :
               leader[k] = c => Make(e.node) \subseteq classes[c].data
    <3>1. \A k \in Children(origin[i]) : classes'[leader[k]].data = classes[leader[k]].data
      BY <2>2, <1>5, <1>10
    <3>2. M(i) = Make(origin[i])
      BY <3>1, <1>15
    <3>3. origin[i] \in NodesOver(Made) /\ leader[i] \in DOMAIN classes
      BY <1>1, Typed
    <3>4. classes[leader[i]].data \subseteq classes'[leader[i]].data
      BY <3>3, <1>5
    <3>5. CASE Make(origin[i]) \subseteq classes[leader[i]].data
      BY <3>2, <3>4, <3>5
    <3>6. CASE \E d \in reanalyze : Says(leader, d, origin[i], i)
      <4>1. PICK d \in reanalyze : Says(leader, d, origin[i], i)
        BY <3>6
      <4>2. CASE d # e
        BY <4>1, <4>2, <1>7
      <4>3. CASE d = e
        <5>1. Canon(leader, e.node) = Canon(leader, origin[i]) /\ leader[i] = c
          BY <4>1, <4>3 DEF Says
        <5>2. Make(e.node) = Make(origin[i])
          BY <5>1, <3>3, <1>1, <1>2, MakeCanon
        <5> QED
          BY <5>1, <5>2, <3>2, <1>2, <1>5
      <4> QED
        BY <4>2, <4>3
    <3> QED
      BY <1>1, <3>5, <3>6 DEF DataThere
  <2> QED
    BY <2>1, <2>2
<1>18. DataFromNodes'
  <2> SUFFICES ASSUME NEW d \in DOMAIN classes, NEW f \in classes'[d].data
               PROVE  \E i \in Made : leader[i] = d /\ f \in M(i)
    BY <1>3, <1>6, <1>8 DEF DataFromNodes, Make
  <2> HIDE DEF M
  <2>1. CASE f \in classes[d].data
    <3>1. \E i \in Made : leader[i] = d /\ f \in Make(origin[i])
      BY <2>1, <1>1 DEF DataFromNodes
    <3> QED
      BY <3>1, <1>16
  <2>2. CASE f \notin classes[d].data
    <3>1. d = c /\ f \in Make(e.node)
      BY <2>2, <1>5
    <3>2. Holds(leader, origin, e.node, e.class)
      BY <1>1 DEF EntriesRight
    <3>3. DOMAIN origin = Made
      BY <1>1 DEF TypeOK
    <3>4. PICK p \in Made : leader[p] = c /\ Canon(leader, origin[p]) = Canon(leader, e.node)
      BY <3>2, <3>3 DEF Holds
    <3>5. Make(e.node) = Make(origin[p])
      BY <3>4, <1>1, <1>2, Typed, MakeCanon
    <3> QED
      BY <3>1, <3>4, <3>5, <1>16
  <2> QED
    BY <2>1, <2>2
<1> QED
  BY <1>2, <1>9, <1>11, <1>12, <1>13, <1>14, <1>17, <1>18 DEF IInv

LEMMA RebuildClassesKeeps ==
  ASSUME IInv, RebuildClasses
  PROVE  IInv'
<1> DEFINE nodes == [c \in DOMAIN classes |-> {Canon(leader, n) : n \in classes[c].nodes}]
           C == [nodes : SUBSET NodesOver(Made), parents : SUBSET EntriesOver(Made),
                 data : SUBSET Facts]
<1>1. /\ TypeOK /\ Covered /\ Known /\ EntriesRight /\ MemoHolds
      /\ NodesKept /\ DataThere /\ DataFromNodes
  BY DEF IInv
<1>2. UNCHANGED <<leader, memo, pending, reanalyze, origin>> /\ pending = {} /\ reanalyze = {}
      /\ dirty' = FALSE /\ phase' = "idle"
  BY DEF RebuildClasses
<1>3. classes' = [c \in DOMAIN classes |-> [classes[c] EXCEPT !.nodes = nodes[c]]]
  BY DEF RebuildClasses
<1>4. Made' = Made
  BY <1>2 DEF Made
<1>5. DOMAIN classes' = DOMAIN classes
  BY <1>3
<1>6. \A c \in DOMAIN classes : classes[c] \in C
  BY <1>1 DEF TypeOK
<1>7. ASSUME NEW c \in DOMAIN classes
      PROVE  /\ classes'[c].nodes = {Canon(leader, n) : n \in classes[c].nodes}
             /\ classes'[c].parents = classes[c].parents /\ classes'[c].data = classes[c].data
             /\ classes'[c] \in C
  <2>1. classes'[c] = [classes[c] EXCEPT !.nodes = nodes[c]] /\ classes[c] \in C
    BY <1>3, <1>6
  <2>2. \A n \in classes[c].nodes : Canon(leader, n) \in NodesOver(Made)
    BY <1>1, Typed, CanonOver
  <2>3. nodes[c] = {Canon(leader, n) : n \in classes[c].nodes} /\ nodes[c] \subseteq NodesOver(Made)
    BY <2>2
  <2> HIDE DEF nodes
  <2> QED
    BY <2>1, <2>3
<1>8. classes' \in [DOMAIN classes -> C]
  <2>1. classes' = [c \in DOMAIN classes |-> classes'[c]]
    BY <1>3
  <2> HIDE DEF C
  <2> QED
    BY <2>1, <1>7
<1>9. classesByOp' \in [Ops -> SUBSET Made]
  <2>1. DOMAIN classes \subseteq Made
    BY <1>1 DEF TypeOK
  <2>2. classesByOp' = [o \in Ops |-> {c \in DOMAIN classes : \E n \in nodes[c] : n.op = o}]
    BY DEF RebuildClasses
  <2> HIDE DEF nodes
  <2> QED
    BY <2>1, <2>2
<1>10. TypeOK'
  BY <1>1, <1>2, <1>4, <1>5, <1>8, <1>9 DEF TypeOK
<1>11. Covered' /\ MemoHolds'
  BY <1>1, <1>2, <1>4 DEF Covered, MemoHolds
<1>12. \A i \in Made : leader[i] \in DOMAIN classes
         /\ \A k \in Children(origin[i]) : leader[k] \in DOMAIN classes
  BY <1>1, Typed, NodeIs
<1>13. Known'
  BY <1>1, <1>2, <1>4, <1>7, <1>12 DEF Known
<1>14. EntriesRight'
  BY <1>1, <1>2, <1>5, <1>7 DEF EntriesRight
<1>15. \A c \in DOMAIN classes : \A n \in classes[c].nodes :
         Canon(leader, Canon(leader, n)) = Canon(leader, n)
  BY <1>1, Typed, CanonTwice
<1>16. Settled'
  BY <1>2, <1>5, <1>7, <1>15 DEF Settled
<1>17. NodesKept'
  <2>1. ASSUME NEW c \in DOMAIN classes
        PROVE  {Canon(leader, n) : n \in classes'[c].nodes} = {Canon(leader, n) : n \in classes[c].nodes}
    BY <1>7, <1>15
  <2> QED
    BY <2>1, <1>1, <1>2, <1>4, <1>5 DEF NodesKept
<1>18. ASSUME NEW i \in Made
       PROVE  Make(origin[i]) = FactsOf[origin[i].op]
                \cup UNION {classes'[leader[k]].data : k \in Children(origin[i])}
  <2>1. \A k \in Children(origin[i]) : classes'[leader[k]].data = classes[leader[k]].data
    BY <1>7, <1>12
  <2> QED
    BY <2>1 DEF Make
<1> DEFINE M(i) == FactsOf[origin[i].op]
                     \cup UNION {classes'[leader[k]].data : k \in Children(origin[i])}
<1>19. \A i \in Made : M(i) = Make(origin[i])
  BY <1>18
<1>20. DataThere'
  <2> SUFFICES ASSUME NEW i \in Made PROVE M(i) \subseteq classes'[leader[i]].data
    BY <1>2, <1>4 DEF DataThere, Make
  <2> HIDE DEF M
  <2> QED
    BY <1>1, <1>2, <1>7, <1>12, <1>19 DEF DataThere
<1>21. DataFromNodes'
  <2> SUFFICES ASSUME NEW c \in DOMAIN classes, NEW f \in classes'[c].data
               PROVE  \E i \in Made : leader[i] = c /\ f \in M(i)
    BY <1>2, <1>4, <1>5 DEF DataFromNodes, Make
  <2> HIDE DEF M
  <2>1. \E i \in Made : leader[i] = c /\ f \in Make(origin[i])
    BY <1>1, <1>7 DEF DataFromNodes
  <2> QED
    BY <2>1, <1>19
<1> QED
  BY <1>10, <1>11, <1>13, <1>14, <1>16, <1>17, <1>20, <1>21 DEF IInv

\* Nothing of the invariant is about rebuilding or the classes by operator.
LEMMA RebuildKeeps ==
  ASSUME IInv, UNCHANGED <<leader, memo, classes, pending, reanalyze, classesByOp, origin, dirty>>,
         phase' \in {"idle", "rebuilding", "panicked"}
  PROVE  IInv'
<1>1. Made' = Made
  BY DEF Made
<1>2. TypeOK'
  BY <1>1 DEF IInv, TypeOK
<1>3. Covered' /\ Known' /\ MemoHolds' /\ Settled'
  BY <1>1 DEF IInv, Covered, Known, MemoHolds, Settled
<1>4. EntriesRight' /\ NodesKept'
  BY <1>1 DEF IInv, EntriesRight, NodesKept
<1>5. DataThere' /\ DataFromNodes'
  BY <1>1 DEF IInv, DataThere, DataFromNodes, Make
<1> QED
  BY <1>2, <1>3, <1>4, <1>5 DEF IInv

-----------------------------------------------------------------------------
(* A node is added *)

AddStep(n, id) ==
  /\ n \in NodesOver(Made) /\ Canon(leader, n) = n /\ Children(n) \subseteq DOMAIN classes
  /\ id \in Ids /\ id \notin Made
  /\ n \notin DOMAIN memo
  /\ leader' = Put(leader, id, id)
  /\ classes' = Put(WithParent(n, id), id, [nodes |-> {n}, parents |-> {}, data |-> Make(n)])
  /\ pending' = pending \cup {[node |-> n, class |-> id]}
  /\ memo' = Put(memo, n, id)
  /\ origin' = Put(origin, id, n)
  /\ UNCHANGED <<reanalyze, classesByOp, phase, dirty>>

LEMMA AddIsStep ==
  ASSUME TypeOK, NEW given \in NodesOver(Made), Add(given)
  PROVE  \E n, id : AddStep(n, id)
<1> DEFINE n  == Canon(leader, given)
           id == CHOOSE i \in Ids : i \notin Made
<1>1. id \in Ids /\ id \notin Made
  <2>1. \E i \in Ids : i \notin Made
    BY DEF Add
  <2> QED
    BY <2>1
<1>2. n \in NodesOver(Made) /\ Canon(leader, n) = n
  BY Typed, CanonOver, CanonTwice
<1>3. Children(n) = {leader[k] : k \in Children(given)} /\ Children(given) \subseteq Made
  BY CanonChildren, NodeIs
<1>4. Children(n) \subseteq DOMAIN classes
  BY <1>3, Typed
<1>5. /\ n \notin DOMAIN memo
      /\ leader' = Put(leader, id, id)
      /\ classes' = Put(WithParent(n, id), id, [nodes |-> {n}, parents |-> {}, data |-> Make(n)])
      /\ pending' = pending \cup {[node |-> n, class |-> id]}
      /\ memo' = Put(memo, n, id)
      /\ origin' = Put(origin, id, n)
      /\ UNCHANGED <<reanalyze, classesByOp, phase, dirty>>
  BY DEF Add
<1>6. AddStep(n, id)
  <2> HIDE DEF n, id
  <2> QED
    BY <1>1, <1>2, <1>4, <1>5 DEF AddStep
<1> QED
  BY <1>6

LEMMA AddMaps ==
  ASSUME TypeOK, NEW n, NEW id, AddStep(n, id)
  PROVE  /\ Made' = Made \cup {id} /\ id \notin Made
         /\ leader'[id] = id /\ \A i \in Made : leader'[i] = leader[i]
         /\ DOMAIN origin = Made /\ DOMAIN origin' = Made \cup {id}
         /\ origin'[id] = n /\ \A i \in Made : origin'[i] = origin[i]
         /\ DOMAIN memo' = DOMAIN memo \cup {n} /\ n \notin DOMAIN memo
         /\ memo'[n] = id /\ \A m \in DOMAIN memo : memo'[m] = memo[m]
         /\ pending' = pending \cup {[node |-> n, class |-> id]}
         /\ reanalyze' = reanalyze /\ dirty' = dirty
<1>1. DOMAIN origin = Made
  BY DEF TypeOK
<1>2. Made' = Made \cup {id} /\ leader'[id] = id /\ \A i \in Made : leader'[i] = leader[i]
  BY DEF AddStep, Put, Made
<1>3. DOMAIN origin' = Made \cup {id} /\ origin'[id] = n /\ \A i \in Made : origin'[i] = origin[i]
  BY <1>1 DEF AddStep, Put
<1>4. /\ DOMAIN memo' = DOMAIN memo \cup {n} /\ memo'[n] = id
      /\ \A m \in DOMAIN memo : memo'[m] = memo[m]
  BY DEF AddStep, Put
<1> QED
  BY <1>1, <1>2, <1>3, <1>4 DEF AddStep

LEMMA AddForms ==
  ASSUME TypeOK, NEW n, NEW id, AddStep(n, id)
  PROVE  /\ n \in NodesOver(Made) /\ Canon(leader', n) = n
         /\ \A m \in NodesOver(Made) : Canon(leader', m) = Canon(leader, m)
<1>1. n \in NodesOver(Made) /\ Canon(leader, n) = n
  BY DEF AddStep
<1>2. \A i \in Made : leader'[i] = leader[i]
  BY AddMaps
<1>3. \A m \in NodesOver(Made) : Canon(leader', m) = Canon(leader, m)
  <2> TAKE m \in NodesOver(Made)
  <2>1. \A k \in Children(m) : leader'[k] = leader[k]
    BY <1>2, NodeIs
  <2> QED
    BY <2>1, CanonSame
<1> QED
  BY <1>1, <1>3

LEMMA AddClasses ==
  ASSUME TypeOK, NEW n, NEW id, AddStep(n, id)
  PROVE  /\ DOMAIN classes' = DOMAIN classes \cup {id} /\ id \notin DOMAIN classes
         /\ classes'[id].nodes = {n} /\ classes'[id].parents = {} /\ classes'[id].data = Make(n)
         /\ Children(n) \subseteq DOMAIN classes
         /\ \A c \in DOMAIN classes :
              /\ classes'[c].nodes = classes[c].nodes /\ classes'[c].data = classes[c].data
              /\ classes'[c].parents = classes[c].parents \cup
                   (IF c \in Children(n) THEN {[node |-> n, class |-> id]} ELSE {})
<1> DEFINE new == [nodes |-> {n}, parents |-> {}, data |-> Make(n)]
           C == [nodes : SUBSET NodesOver(Made), parents : SUBSET EntriesOver(Made),
                 data : SUBSET Facts]
<1>1. classes' = Put(WithParent(n, id), id, new)
  BY DEF AddStep
<1>2. Children(n) \subseteq DOMAIN classes /\ id \notin DOMAIN classes
  BY DEF AddStep, TypeOK
<1>3. DOMAIN WithParent(n, id) = DOMAIN classes
  BY DEF WithParent
<1>4. DOMAIN classes' = DOMAIN classes \cup {id} /\ classes'[id] = new
      /\ \A c \in DOMAIN classes : classes'[c] = WithParent(n, id)[c]
  <2> HIDE DEF new
  <2> QED
    BY <1>1, <1>2, <1>3 DEF Put
<1>5. ASSUME NEW c \in DOMAIN classes
      PROVE  /\ classes'[c].nodes = classes[c].nodes /\ classes'[c].data = classes[c].data
             /\ classes'[c].parents = classes[c].parents \cup
                  (IF c \in Children(n) THEN {[node |-> n, class |-> id]} ELSE {})
  <2>1. classes[c] \in C
    BY DEF TypeOK
  <2>2. classes'[c] = IF c \in Children(n)
                        THEN [classes[c] EXCEPT !.parents = @ \cup {[node |-> n, class |-> id]}]
                        ELSE classes[c]
    BY <1>4 DEF WithParent
  <2>3. CASE c \in Children(n)
    BY <2>1, <2>2, <2>3
  <2>4. CASE c \notin Children(n)
    BY <2>2, <2>4
  <2> QED
    BY <2>3, <2>4
<1> QED
  BY <1>2, <1>4, <1>5

LEMMA EntriesGrow ==
  ASSUME NEW S, NEW T, S \subseteq T
  PROVE  EntriesOver(S) \subseteq EntriesOver(T)
<1>1. NodesOver(S) \subseteq NodesOver(T)
  BY NodesGrow
<1> QED
  BY <1>1 DEF EntriesOver

LEMMA AddType ==
  ASSUME TypeOK, NEW n, NEW id, AddStep(n, id)
  PROVE  TypeOK'
<1> DEFINE M == Made \cup {id}
           C == [nodes : SUBSET NodesOver(Made), parents : SUBSET EntriesOver(Made),
                 data : SUBSET Facts]
           D == [nodes : SUBSET NodesOver(M), parents : SUBSET EntriesOver(M),
                 data : SUBSET Facts]
<1>0. /\ Made' = Made \cup {id} /\ id \notin Made
      /\ leader'[id] = id /\ \A i \in Made : leader'[i] = leader[i]
      /\ origin'[id] = n /\ \A i \in Made : origin'[i] = origin[i]
      /\ DOMAIN memo' = DOMAIN memo \cup {n}
      /\ memo'[n] = id /\ \A m \in DOMAIN memo : memo'[m] = memo[m]
      /\ pending' = pending \cup {[node |-> n, class |-> id]}
      /\ reanalyze' = reanalyze
      /\ DOMAIN classes' = DOMAIN classes \cup {id}
  BY AddMaps, AddClasses
<1>13. /\ \A i \in Made : origin[i] \in NodesOver(Made) /\ leader[i] \in Made
                           /\ leader[leader[i]] = leader[i]
       /\ \A m \in DOMAIN memo : m \in NodesOver(Made) /\ memo[m] \in Made
       /\ pending \subseteq EntriesOver(Made) /\ reanalyze \subseteq EntriesOver(Made)
       /\ DOMAIN classes = {i \in Made : leader[i] = i}
  BY Typed DEF TypeOK
<1>1. NodesOver(Made) \subseteq NodesOver(M) /\ EntriesOver(Made) \subseteq EntriesOver(M)
  BY NodesGrow, EntriesGrow
<1>2. id \in Ids /\ n \in NodesOver(M) /\ Make(n) \subseteq Facts /\ Made' = M
  BY <1>1, AddMaps, MakeFacts DEF AddStep
<1>3. leader' \in [M -> M]
  BY DEF AddStep, Put, TypeOK, Made
<1>4. \A i \in M : leader'[leader'[i]] = leader'[i]
  BY <1>0, <1>13
<1>5. DOMAIN classes' = {i \in M : leader'[i] = i}
  BY <1>0, <1>13
<1>6. memo' \in [DOMAIN memo' -> M] /\ DOMAIN memo' \subseteq NodesOver(M)
  <2>1. \A m \in DOMAIN memo' : memo'[m] \in M /\ m \in NodesOver(M)
    BY <1>0, <1>1, <1>2, <1>13
  <2>2. memo' = [m \in DOMAIN memo' |-> memo'[m]]
    BY DEF AddStep, Put
  <2> QED
    BY <2>1, <2>2
<1>7. [node |-> n, class |-> id] \in EntriesOver(M)
  BY <1>2 DEF EntriesOver
<1>8. classes' \in [DOMAIN classes' -> D]
  <2>1. classes' = [c \in DOMAIN classes' |-> classes'[c]]
    BY DEF AddStep, Put
  <2>2. ASSUME NEW c \in DOMAIN classes PROVE classes'[c] \in D
    <3>1. classes[c] \in C
      BY DEF TypeOK
    <3>2. classes'[c] = IF c \in Children(n)
                          THEN [classes[c] EXCEPT !.parents = @ \cup {[node |-> n, class |-> id]}]
                          ELSE classes[c]
      <4>1. classes' = Put(WithParent(n, id), id, [nodes |-> {n}, parents |-> {}, data |-> Make(n)])
            /\ id \notin DOMAIN classes
        BY AddClasses DEF AddStep
      <4> QED
        BY <4>1 DEF Put, WithParent
    <3>3. CASE c \in Children(n)
      <4>1. classes[c].parents \cup {[node |-> n, class |-> id]} \in SUBSET EntriesOver(M)
        BY <3>1, <1>1, <1>7
      <4>2. classes[c].nodes \in SUBSET NodesOver(M) /\ classes[c].data \in SUBSET Facts
        BY <3>1, <1>1
      <4>3. classes'[c] = [nodes |-> classes[c].nodes, data |-> classes[c].data,
                           parents |-> classes[c].parents \cup {[node |-> n, class |-> id]}]
        BY <3>1, <3>2, <3>3
      <4> HIDE DEF M, C
      <4> QED
        BY <4>1, <4>2, <4>3
    <3>4. CASE c \notin Children(n)
      BY <3>1, <3>2, <3>4, <1>1
    <3> QED
      BY <3>3, <3>4
  <2>3. classes'[id] \in D
    <3>1. classes'[id] = [nodes |-> {n}, parents |-> {}, data |-> Make(n)]
      BY DEF AddStep, Put
    <3> QED
      BY <3>1, <1>2
  <2>4. \A c \in DOMAIN classes' : classes'[c] \in D
    BY <1>0, <2>2, <2>3
  <2> HIDE DEF D
  <2> QED
    BY <2>1, <2>4
<1>9. pending' \subseteq EntriesOver(M) /\ reanalyze' \subseteq EntriesOver(M)
  BY <1>0, <1>1, <1>7, <1>13
<1>10. classesByOp' \in [Ops -> SUBSET M] /\ phase' \in {"idle", "rebuilding", "panicked"} /\ dirty' \in BOOLEAN
  BY DEF TypeOK, AddStep
<1>11. origin' \in [M -> NodesOver(M)]
  <2>1. \A i \in M : origin'[i] \in NodesOver(M)
    BY <1>0, <1>1, <1>2, <1>13
  <2>2. origin' = [i \in M |-> origin'[i]]
    BY DEF AddStep, Put, TypeOK
  <2> QED
    BY <2>1, <2>2
<1>12. M \subseteq Ids
  BY <1>2 DEF TypeOK
<1> HIDE DEF M, D
<1> QED
  BY <1>2, <1>3, <1>4, <1>5, <1>6, <1>8, <1>9, <1>10, <1>11, <1>12 DEF TypeOK, D

\* What was said of the nodes that were there stays true, and the new one is in its class.
LEMMA AddSays ==
  ASSUME TypeOK, NEW n, NEW id, AddStep(n, id)
  PROVE  /\ \A e, i : e.node \in NodesOver(Made) /\ e.class \in Made /\ i \in Made
                       /\ Says(leader, e, origin[i], i) => Says(leader', e, origin'[i], i)
         /\ \A x \in NodesOver(Made), i \in Made :
              InMemo(leader, memo, x, i) => InMemo(leader', memo', x, i)
         /\ \A x \in NodesOver(Made), i \in Made :
              Holds(leader, origin, x, i) => Holds(leader', origin', x, i)
         /\ InMemo(leader', memo', n, id) /\ Holds(leader', origin', n, id)
<1>1. /\ leader'[id] = id /\ id \notin Made /\ \A i \in Made : leader'[i] = leader[i]
      /\ DOMAIN origin = Made /\ DOMAIN origin' = Made \cup {id}
      /\ origin'[id] = n /\ \A i \in Made : origin'[i] = origin[i]
      /\ DOMAIN memo' = DOMAIN memo \cup {n} /\ n \notin DOMAIN memo
      /\ memo'[n] = id /\ \A m \in DOMAIN memo : memo'[m] = memo[m]
  BY AddMaps
<1>2. Canon(leader', n) = n /\ \A m \in NodesOver(Made) : Canon(leader', m) = Canon(leader, m)
  BY AddForms
<1>3. /\ \A i \in Made : origin[i] \in NodesOver(Made)
      /\ \A m \in DOMAIN memo : memo[m] \in Made
  BY Typed
<1>4. ASSUME NEW e, NEW i \in Made, e.node \in NodesOver(Made), e.class \in Made,
             Says(leader, e, origin[i], i)
      PROVE  Says(leader', e, origin'[i], i)
  BY <1>1, <1>2, <1>3, <1>4 DEF Says
<1>5. ASSUME NEW x \in NodesOver(Made), NEW i \in Made, InMemo(leader, memo, x, i)
      PROVE  InMemo(leader', memo', x, i)
  BY <1>1, <1>2, <1>3, <1>5 DEF InMemo
<1>6. ASSUME NEW x \in NodesOver(Made), NEW i \in Made, Holds(leader, origin, x, i)
      PROVE  Holds(leader', origin', x, i)
  <2>1. PICK p \in Made : leader[p] = leader[i] /\ Canon(leader, origin[p]) = Canon(leader, x)
    BY <1>1, <1>6 DEF Holds
  <2>2. leader'[p] = leader'[i] /\ Canon(leader', origin'[p]) = Canon(leader', x)
    BY <2>1, <1>1, <1>2, <1>3
  <2> QED
    BY <2>2, <1>1 DEF Holds
<1>7. InMemo(leader', memo', n, id)
  BY <1>1, <1>2 DEF InMemo
<1>8. Holds(leader', origin', n, id)
  BY <1>1 DEF Holds
<1> QED
  BY <1>4, <1>5, <1>6, <1>7, <1>8

LEMMA AddCovered ==
  ASSUME IInv, NEW n, NEW id, AddStep(n, id)
  PROVE  Covered' /\ Known' /\ EntriesRight' /\ MemoHolds'
<1>1. TypeOK /\ Covered /\ Known /\ EntriesRight /\ MemoHolds
  BY DEF IInv
<1>2. /\ Made' = Made \cup {id} /\ id \notin Made
      /\ leader'[id] = id /\ \A i \in Made : leader'[i] = leader[i]
      /\ origin'[id] = n /\ \A i \in Made : origin'[i] = origin[i]
      /\ DOMAIN memo' = DOMAIN memo \cup {n} /\ memo'[n] = id
      /\ \A m \in DOMAIN memo : memo'[m] = memo[m]
      /\ pending' = pending \cup {[node |-> n, class |-> id]} /\ reanalyze' = reanalyze
  BY <1>1, AddMaps
<1>3. /\ DOMAIN classes' = DOMAIN classes \cup {id} /\ classes'[id].parents = {}
      /\ Children(n) \subseteq DOMAIN classes
      /\ \A c \in DOMAIN classes : classes'[c].parents = classes[c].parents \cup
            (IF c \in Children(n) THEN {[node |-> n, class |-> id]} ELSE {})
  BY <1>1, AddClasses
<1>4. /\ \A i \in Made : origin[i] \in NodesOver(Made) /\ leader[i] \in DOMAIN classes
      /\ \A e \in pending \cup reanalyze : e.node \in NodesOver(Made) /\ e.class \in Made
      /\ \A c \in DOMAIN classes : c \in Made /\ leader[c] = c /\
           \A e \in classes[c].parents : e.node \in NodesOver(Made) /\ e.class \in Made
      /\ \A m \in DOMAIN memo : m \in NodesOver(Made) /\ memo[m] \in Made
  BY <1>1, Typed
<1>5. \A i \in Made : \A k \in Children(origin[i]) : k \in Made
  BY <1>4, NodeIs
<1>6. /\ \A e, i : e.node \in NodesOver(Made) /\ e.class \in Made /\ i \in Made
                    /\ Says(leader, e, origin[i], i) => Says(leader', e, origin'[i], i)
      /\ \A x \in NodesOver(Made), i \in Made :
           InMemo(leader, memo, x, i) => InMemo(leader', memo', x, i)
      /\ \A x \in NodesOver(Made), i \in Made :
           Holds(leader, origin, x, i) => Holds(leader', origin', x, i)
      /\ InMemo(leader', memo', n, id) /\ Holds(leader', origin', n, id)
  BY <1>1, AddSays
<1>7. Covered'
  <2> SUFFICES ASSUME NEW i \in Made \cup {id}
               PROVE  \/ InMemo(leader', memo', origin'[i], i)
                      \/ \E e \in pending' : Says(leader', e, origin'[i], i)
    BY <1>2 DEF Covered
  <2>1. CASE i = id
    BY <2>1, <1>2, <1>6
  <2>2. CASE i \in Made /\ InMemo(leader, memo, origin[i], i)
    BY <2>2, <1>2, <1>4, <1>6
  <2>3. CASE i \in Made /\ \E e \in pending : Says(leader, e, origin[i], i)
    BY <2>3, <1>2, <1>4, <1>6
  <2> QED
    BY <1>1, <2>1, <2>2, <2>3 DEF Covered
<1>8. Known'
  <2> SUFFICES ASSUME NEW i \in Made \cup {id}, NEW k \in Children(origin'[i])
               PROVE  \E e \in classes'[leader'[k]].parents : Says(leader', e, origin'[i], i)
    BY <1>2 DEF Known
  <2>1. CASE i = id
    <3>1. k \in DOMAIN classes /\ leader'[k] = k
      BY <2>1, <1>2, <1>3, <1>4
    <3>2. [node |-> n, class |-> id] \in classes'[leader'[k]].parents
      BY <3>1, <2>1, <1>2, <1>3
    <3>3. Says(leader', [node |-> n, class |-> id], origin'[i], i)
      BY <2>1, <1>2 DEF Says
    <3> QED
      BY <3>2, <3>3
  <2>2. CASE i \in Made
    <3>1. k \in Children(origin[i]) /\ k \in Made /\ leader'[k] = leader[k]
      BY <2>2, <1>2, <1>5
    <3>2. PICK e \in classes[leader[k]].parents : Says(leader, e, origin[i], i)
      BY <3>1, <2>2, <1>1 DEF Known
    <3>3. e \in classes'[leader[k]].parents /\ e.node \in NodesOver(Made) /\ e.class \in Made
      BY <3>1, <3>2, <1>3, <1>4
    <3>4. Says(leader', e, origin'[i], i)
      BY <3>2, <3>3, <2>2, <1>6
    <3> QED
      BY <3>1, <3>3, <3>4
  <2> QED
    BY <2>1, <2>2
<1>9. EntriesRight'
  <2>1. \A e \in pending' : Holds(leader', origin', e.node, e.class)
    BY <1>1, <1>2, <1>4, <1>6 DEF EntriesRight
  <2>2. \A e \in reanalyze' : Holds(leader', origin', e.node, e.class)
    BY <1>1, <1>2, <1>4, <1>6 DEF EntriesRight
  <2>3. \A c \in DOMAIN classes' : \A e \in classes'[c].parents : Holds(leader', origin', e.node, e.class)
    BY <1>1, <1>3, <1>4, <1>6 DEF EntriesRight
  <2> QED
    BY <2>1, <2>2, <2>3 DEF EntriesRight
<1>10. MemoHolds'
  BY <1>1, <1>2, <1>4, <1>6 DEF MemoHolds
<1> QED
  BY <1>7, <1>8, <1>9, <1>10

LEMMA AddKeeps ==
  ASSUME IInv, NEW n, NEW id, AddStep(n, id)
  PROVE  IInv'
<1>1. TypeOK /\ Settled /\ NodesKept /\ DataThere /\ DataFromNodes
  BY DEF IInv
<1>2. /\ Made' = Made \cup {id} /\ id \notin Made
      /\ leader'[id] = id /\ \A i \in Made : leader'[i] = leader[i]
      /\ origin'[id] = n /\ \A i \in Made : origin'[i] = origin[i]
      /\ pending' = pending \cup {[node |-> n, class |-> id]}
      /\ reanalyze' = reanalyze /\ dirty' = dirty
  BY <1>1, AddMaps
<1>3. /\ DOMAIN classes' = DOMAIN classes \cup {id} /\ id \notin DOMAIN classes
      /\ classes'[id].nodes = {n} /\ classes'[id].data = Make(n)
      /\ \A c \in DOMAIN classes :
           classes'[c].nodes = classes[c].nodes /\ classes'[c].data = classes[c].data
  BY <1>1, AddClasses
<1>4. /\ \A i \in Made : origin[i] \in NodesOver(Made) /\ leader[i] \in Made
                          /\ leader[i] \in DOMAIN classes
      /\ \A e \in pending \cup reanalyze : e.node \in NodesOver(Made) /\ e.class \in Made
      /\ \A c \in DOMAIN classes : c \in Made /\ classes[c].nodes \subseteq NodesOver(Made)
  BY <1>1, Typed
<1>5. n \in NodesOver(Made) /\ Canon(leader', n) = n
      /\ \A m \in NodesOver(Made) : Canon(leader', m) = Canon(leader, m)
  BY <1>1, AddForms
<1>6. /\ \A e, i : e.node \in NodesOver(Made) /\ e.class \in Made /\ i \in Made
                    /\ Says(leader, e, origin[i], i) => Says(leader', e, origin'[i], i)
      /\ \A x \in NodesOver(Made), i \in Made :
           InMemo(leader, memo, x, i) => InMemo(leader', memo', x, i)
      /\ InMemo(leader', memo', n, id)
  BY <1>1, AddSays
<1>7. Settled'
  <2> SUFFICES ASSUME ~dirty
               PROVE  /\ \A e \in pending' : InMemo(leader', memo', e.node, e.class)
                      /\ reanalyze' = {}
                      /\ \A c \in DOMAIN classes' : \A m \in classes'[c].nodes : Canon(leader', m) = m
    BY <1>2 DEF Settled
  <2>1. \A e \in pending' : InMemo(leader', memo', e.node, e.class)
    BY <1>1, <1>2, <1>4, <1>6 DEF Settled
  <2>2. \A c \in DOMAIN classes' : \A m \in classes'[c].nodes : Canon(leader', m) = m
    BY <1>1, <1>3, <1>4, <1>5 DEF Settled
  <2> QED
    BY <1>1, <1>2, <2>1, <2>2 DEF Settled
<1>8. NodesKept'
  <2> SUFFICES ASSUME NEW c \in DOMAIN classes \cup {id}
               PROVE  {Canon(leader', m) : m \in classes'[c].nodes}
                        = {Canon(leader', origin'[i]) : i \in {j \in Made \cup {id} : leader'[j] = c}}
    BY <1>2, <1>3 DEF NodesKept
  <2>1. CASE c = id
    <3>1. {j \in Made \cup {id} : leader'[j] = c} = {id}
      BY <2>1, <1>2, <1>4
    <3> QED
      BY <3>1, <2>1, <1>2, <1>3
  <2>2. CASE c \in DOMAIN classes
    <3>1. {j \in Made \cup {id} : leader'[j] = c} = {j \in Made : leader[j] = c}
      BY <2>2, <1>2, <1>3
    <3>2. {Canon(leader', m) : m \in classes'[c].nodes} = {Canon(leader, m) : m \in classes[c].nodes}
      BY <2>2, <1>3, <1>4, <1>5
    <3>3. {Canon(leader', origin'[i]) : i \in {j \in Made : leader[j] = c}}
            = {Canon(leader, origin[i]) : i \in {j \in Made : leader[j] = c}}
      BY <1>2, <1>4, <1>5
    <3> QED
      BY <3>1, <3>2, <3>3, <2>2, <1>1 DEF NodesKept
  <2> QED
    BY <2>1, <2>2
<1> DEFINE M(x) == FactsOf[x.op] \cup UNION {classes'[leader'[k]].data : k \in Children(x)}
<1>9. ASSUME NEW x \in NodesOver(Made)
      PROVE  M(x) = Make(x)
  <2>1. Children(x) \subseteq Made
    BY NodeIs
  <2>2. \A k \in Children(x) : classes'[leader'[k]].data = classes[leader[k]].data
    BY <2>1, <1>2, <1>3, <1>4
  <2> QED
    BY <2>2 DEF Make
<1>10. DataThere'
  <2> SUFFICES ASSUME NEW i \in Made \cup {id}
               PROVE  \/ M(origin'[i]) \subseteq classes'[leader'[i]].data
                      \/ \E e \in reanalyze' : Says(leader', e, origin'[i], i)
    BY <1>2 DEF DataThere, Make
  <2> HIDE DEF M
  <2>1. CASE i = id
    BY <2>1, <1>2, <1>3, <1>5, <1>9
  <2>2. CASE i \in Made
    <3>1. M(origin'[i]) = Make(origin[i]) /\ classes'[leader'[i]].data = classes[leader[i]].data
      BY <2>2, <1>2, <1>3, <1>4, <1>9
    <3> QED
      BY <3>1, <2>2, <1>1, <1>2, <1>4, <1>6 DEF DataThere
  <2> QED
    BY <2>1, <2>2
<1>11. DataFromNodes'
  <2> SUFFICES ASSUME NEW c \in DOMAIN classes \cup {id}, NEW f \in classes'[c].data
               PROVE  \E i \in Made \cup {id} : leader'[i] = c /\ f \in M(origin'[i])
    BY <1>2, <1>3 DEF DataFromNodes, Make
  <2> HIDE DEF M
  <2>1. CASE c = id
    BY <2>1, <1>2, <1>3, <1>5, <1>9
  <2>2. CASE c \in DOMAIN classes
    <3>1. \E i \in Made : leader[i] = c /\ f \in Make(origin[i])
      BY <2>2, <1>1, <1>3 DEF DataFromNodes
    <3> QED
      BY <3>1, <1>2, <1>4, <1>9
  <2> QED
    BY <2>1, <2>2
<1>12. TypeOK' /\ Covered' /\ Known' /\ EntriesRight' /\ MemoHolds'
  BY <1>1, AddType, AddCovered
<1> QED
  BY <1>7, <1>8, <1>10, <1>11, <1>12 DEF IInv

-----------------------------------------------------------------------------
(* The invariant, and what follows from it *)

LEMMA InitHolds == Init => IInv
<1> SUFFICES ASSUME Init PROVE IInv
  OBVIOUS
<1>1. /\ DOMAIN leader = {} /\ DOMAIN memo = {} /\ DOMAIN classes = {} /\ DOMAIN origin = {}
      /\ leader \in [{} -> {}] /\ memo \in [{} -> {}]
      /\ classes \in [{} -> {}] /\ origin \in [{} -> {}]
  BY DEF Init, Empty
<1>2. Made = {}
  BY <1>1 DEF Made
<1>3. pending = {} /\ reanalyze = {} /\ phase = "idle" /\ dirty = FALSE
  BY DEF Init
<1>4. classesByOp \in [Ops -> SUBSET Made]
  BY DEF Init
<1>5. TypeOK
  BY <1>1, <1>2, <1>3, <1>4 DEF TypeOK
<1>6. Covered /\ Known /\ MemoHolds
  BY <1>1, <1>2 DEF Covered, Known, MemoHolds
<1>7. EntriesRight /\ Settled
  BY <1>1, <1>3 DEF EntriesRight, Settled
<1>8. NodesKept /\ DataThere /\ DataFromNodes
  BY <1>1, <1>2 DEF NodesKept, DataThere, DataFromNodes
<1> QED
  BY <1>5, <1>6, <1>7, <1>8 DEF IInv

LEMMA StepKeeps ==
  ASSUME IInv, [Next]_vars
  PROVE  IInv'
<1>1. ASSUME NEW given \in NodesOver(Made), Add(given)
      PROVE  IInv'
  <2>1. PICK n, id : AddStep(n, id)
    BY <1>1, AddIsStep DEF IInv
  <2> QED
    BY <2>1, AddKeeps
<1>2. ASSUME NEW i \in Made, NEW j \in Made, Union(i, j)
      PROVE  IInv'
  BY <1>2, UnionKeeps
<1>3. CASE Rebuild
  BY <1>3, RebuildKeeps DEF Rebuild
<1>4. ASSUME NEW e \in pending, ProcessUnion(e)
      PROVE  IInv'
  BY <1>4, ProcessUnionMerges, ProcessUnionDoesNotMerge
<1>5. ASSUME NEW e \in reanalyze, ProcessAnalysis(e)
      PROVE  IInv'
  BY <1>5, ProcessAnalysisKeeps
<1>6. CASE RebuildClasses
  BY <1>6, RebuildClassesKeeps
<1>7. CASE UNCHANGED vars
  <2>1. phase \in {"idle", "rebuilding", "panicked"}
    BY DEF IInv, TypeOK
  <2> QED
    BY <1>7, <2>1, RebuildKeeps DEF vars
<1> QED
  BY <1>1, <1>2, <1>3, <1>4, <1>5, <1>6, <1>7 DEF Next, User, RebuildStep

LEMMA Invariant == Spec => []IInv
<1>1. IInv /\ [Next]_vars => IInv'
  BY StepKeeps
<1> QED
  BY InitHolds, <1>1, PTL DEF Spec

LEMMA AllInMemo ==
  ASSUME IInv, ~dirty, NEW i \in Made
  PROVE  InMemo(leader, memo, origin[i], i)
<1>1. /\ Covered /\ Settled
  BY DEF IInv
<1>2. CASE \E e \in pending : Says(leader, e, origin[i], i)
  <2>1. PICK e \in pending : Says(leader, e, origin[i], i)
    BY <1>2
  <2>2. InMemo(leader, memo, e.node, e.class)
    BY <1>1, <2>1 DEF Settled
  <2> QED
    BY <2>1, <2>2 DEF Says, InMemo
<1> QED
  BY <1>1, <1>2 DEF Covered

\* The types are right, and every id stands for a class that exists.
THEOREM TypeCorrect == Spec => []TypeOK
<1>1. IInv => TypeOK
  BY DEF IInv
<1> QED
  BY Invariant, <1>1, PTL

\* After rebuild(), equal operators on equal classes are in one class.
THEOREM RebuiltIsCongruent == Spec => []Congruent
<1>1. ASSUME IInv PROVE Congruent
  BY <1>1, AllInMemo DEF Congruent, InMemo
<1> QED
  BY Invariant, <1>1, PTL

\* After rebuild(), check_memo() finds memo right: lookup() misses no node.
THEOREM MemoIsRight == Spec => []MemoRight
<1>1. ASSUME IInv, ~dirty, NEW c \in DOMAIN classes, NEW n \in classes[c].nodes
      PROVE  n \in DOMAIN memo /\ leader[memo[n]] = c
  <2>1. Canon(leader, n) = n
    BY <1>1 DEF IInv, Settled
  <2>2. Canon(leader, n) \in {Canon(leader, origin[i]) : i \in {j \in Made : leader[j] = c}}
    BY <1>1 DEF IInv, NodesKept
  <2>3. PICK i \in Made : leader[i] = c /\ Canon(leader, origin[i]) = n
    BY <2>1, <2>2
  <2>4. InMemo(leader, memo, origin[i], i)
    BY <1>1, AllInMemo
  <2> QED
    BY <2>3, <2>4 DEF InMemo
<1>2. IInv => MemoRight
  BY <1>1 DEF MemoRight
<1> QED
  BY Invariant, <1>2, PTL

\* No node is lost or strays, at any time.
THEOREM NodesAreKept == Spec => []NodesKept
<1>1. IInv => NodesKept
  BY DEF IInv
<1> QED
  BY Invariant, <1>1, PTL

\* After rebuild(), the data of a class are those that its nodes make.
THEOREM AnalysisIsRight == Spec => []AnalysisRight
<1>1. ASSUME IInv, ~dirty, NEW c \in DOMAIN classes
      PROVE  classes[c].data = UNION {Make(n) : n \in classes[c].nodes}
  <2>1. /\ TypeOK /\ Settled /\ NodesKept /\ DataThere /\ DataFromNodes
    BY <1>1 DEF IInv
  <2>2. \A i \in Made : Make(origin[i]) \subseteq classes[leader[i]].data
    BY <1>1, <2>1 DEF Settled, DataThere
  <2>3. \A n \in classes[c].nodes : n \in NodesOver(Made)
    BY <2>1, Typed
  <2>4. \A i \in Made : origin[i] \in NodesOver(Made)
    BY <2>1, Typed
  <2>5. {Canon(leader, n) : n \in classes[c].nodes}
          = {Canon(leader, origin[i]) : i \in {j \in Made : leader[j] = c}}
    BY <2>1 DEF NodesKept
  <2>6. ASSUME NEW n \in classes[c].nodes
        PROVE  \E i \in Made : leader[i] = c /\ Make(n) = Make(origin[i])
    <3>1. PICK i \in Made : leader[i] = c /\ Canon(leader, n) = Canon(leader, origin[i])
      BY <2>5
    <3> QED
      BY <3>1, <2>1, <2>3, <2>4, MakeCanon
  <2>7. ASSUME NEW i \in Made, leader[i] = c
        PROVE  \E n \in classes[c].nodes : Make(n) = Make(origin[i])
    <3>1. PICK n \in classes[c].nodes : Canon(leader, n) = Canon(leader, origin[i])
      BY <2>5, <2>7
    <3> QED
      BY <3>1, <2>1, <2>3, <2>4, MakeCanon
  <2>8. \A f \in classes[c].data : \E i \in Made : leader[i] = c /\ f \in Make(origin[i])
    BY <2>1 DEF DataFromNodes
  <2> QED
    BY <2>2, <2>6, <2>7, <2>8
<1>2. IInv => AnalysisRight
  BY <1>1 DEF AnalysisRight
<1> QED
  BY Invariant, <1>2, PTL

-----------------------------------------------------------------------------
(* The refinement of Congruence *)

LEMMA AbstractIs ==
  /\ Abstract!Made = Made
  /\ \A S : Abstract!Nodes(S) = NodesOver(S)
  /\ \A n : Abstract!Over(n) = Canon(leader, n)
BY DEF Abstract!Made, Made, Abstract!Nodes, NodesOver, Abstract!Over, Canon

\* A merge of the classes of two ids joins them.
LEMMA MergeJoins ==
  ASSUME NEW i \in Made, NEW j \in Made, leader[i] # leader[j], NEW rest,
         Merge(leader[i], leader[j], rest) \/ Merge(leader[j], leader[i], rest),
         origin' = origin, phase' = phase
  PROVE  Abstract!Join(i, j)
<1>1. /\ Merge(leader[i], leader[j], rest) => leader' = Abstract!Joined(i, j)
      /\ Merge(leader[j], leader[i], rest) => leader' = Abstract!Joined(j, i)
  BY AbstractIs DEF Merge, Abstract!Joined
<1>2. dirty' = TRUE
  BY DEF Merge
<1> QED
  BY <1>1, <1>2 DEF Abstract!Join

\* A new node is included as one: unless a rebuild is due it is really new.
LEMMA AddIncludes ==
  ASSUME IInv, NEW given \in NodesOver(Made), Add(given)
  PROVE  \E i \in Ids \ Made, n \in NodesOver(Made) : Abstract!Include(i, n)
<1>1. TypeOK
  BY DEF IInv
<1>2. PICK n, id : AddStep(n, id)
  BY <1>1, AddIsStep
<1>3. /\ n \in NodesOver(Made) /\ Canon(leader, n) = n /\ id \in Ids \ Made /\ n \notin DOMAIN memo
      /\ leader' = Put(leader, id, id) /\ origin' = Put(origin, id, n)
      /\ phase' = phase /\ dirty' = dirty
  BY <1>2 DEF AddStep
<1>4. phase = "idle"
  BY DEF Add
<1>5. ~dirty => \A j \in Made : Canon(leader, origin[j]) # Canon(leader, n)
  BY <1>3, AllInMemo DEF InMemo
<1>6. DOMAIN leader = Made /\ DOMAIN origin = Made
  BY <1>1 DEF Made, TypeOK
<1>7. /\ leader' = [j \in Made \cup {id} |-> IF j = id THEN id ELSE leader[j]]
      /\ origin' = [j \in Made \cup {id} |-> IF j = id THEN n ELSE origin[j]]
  BY <1>3, <1>6 DEF Put
<1>8. Abstract!Include(id, n)
  BY <1>3, <1>4, <1>5, <1>7, AbstractIs DEF Abstract!Include
<1> QED
  BY <1>3, <1>8

\* When memo and work list agree on a node, it is in both classes and so are its children.
LEMMA ProcessUnionDerives ==
  ASSUME IInv, NEW e \in pending, ProcessUnion(e), Canon(leader, e.node) \in DOMAIN memo,
         leader[memo[Canon(leader, e.node)]] # leader[e.class]
  PROVE  \E i, j \in Made : Abstract!Derive(i, j)
<1> DEFINE n == Canon(leader, e.node)
<1>1. /\ n \in DOMAIN memo /\ leader[memo[n]] # leader[e.class]
      /\ \/ Merge(leader[memo[n]], leader[e.class], pending \ {e})
         \/ Merge(leader[e.class], leader[memo[n]], pending \ {e})
      /\ phase = "rebuilding" /\ phase' = phase /\ origin' = origin
  BY DEF ProcessUnion
<1>2. TypeOK /\ EntriesRight /\ MemoHolds
  BY DEF IInv
<1>3. Canon(leader, n) = n /\ DOMAIN origin = Made
  BY <1>2, Typed, CanonTwice DEF TypeOK
<1>4. PICK p \in Made : leader[p] = leader[e.class] /\ Canon(leader, origin[p]) = n
  BY <1>2, <1>3 DEF EntriesRight, Holds
<1>5. PICK q \in Made : leader[q] = leader[memo[n]] /\ Canon(leader, origin[q]) = n
  BY <1>1, <1>2, <1>3 DEF MemoHolds, Holds
<1> HIDE DEF n
<1>6. Abstract!Join(p, q)
  BY <1>1, <1>4, <1>5, MergeJoins
<1> QED
  BY <1>1, <1>4, <1>5, <1>6, AbstractIs DEF Abstract!Derive

\* An e-graph implements Congruence: rebuild() joins two classes only if they have a node in
\* common, and when it ends all that follows is known, whatever is on the work lists on the way.
THEOREM ImplementsCongruence == Spec => KnowsWhatFollows
<1> SUFFICES Spec => Abstract!Spec
  BY DEF KnowsWhatFollows
<1>1. Init => Abstract!Init
  BY DEF Init, Empty, Abstract!Init
<1>2. ASSUME IInv, [Next]_vars
      PROVE  [Abstract!Next]_(Abstract!vars)
  <2>1. ASSUME NEW given \in NodesOver(Made), Add(given)
        PROVE  Abstract!Next
    BY <1>2, <2>1, AddIncludes, AbstractIs DEF Abstract!Next
  <2>2. ASSUME NEW i \in Made, NEW j \in Made, Union(i, j)
        PROVE  Abstract!Next
    <3>1. Abstract!Tell(i, j)
      BY <2>2, MergeJoins DEF Union, Abstract!Tell
    <3> QED
      BY <3>1, AbstractIs DEF Abstract!Next
  <2>3. CASE Rebuild
    BY <2>3 DEF Rebuild, Abstract!Next, Abstract!Begin
  <2>4. ASSUME NEW e \in pending, ProcessUnion(e)
        PROVE  Abstract!Next \/ UNCHANGED Abstract!vars
    <3> DEFINE n == Canon(leader, e.node)
    <3>1. CASE n \in DOMAIN memo /\ leader[memo[n]] # leader[e.class]
      BY <1>2, <2>4, <3>1, ProcessUnionDerives, AbstractIs DEF Abstract!Next
    <3>2. CASE ~(n \in DOMAIN memo /\ leader[memo[n]] # leader[e.class])
      BY <2>4, <3>2 DEF ProcessUnion, Abstract!vars
    <3> QED
      BY <3>1, <3>2
  <2>5. CASE RebuildClasses
    <3>1. phase = "rebuilding" /\ pending = {} /\ phase' = "idle" /\ dirty' = FALSE
          /\ leader' = leader /\ origin' = origin
      BY <2>5 DEF RebuildClasses
    <3>2. \A i \in Made : InMemo(leader, memo, origin[i], i)
      BY <1>2, <3>1 DEF IInv, Covered
    <3>3. Abstract!Congruent
      BY <3>2, AbstractIs DEF Abstract!Congruent, InMemo
    <3> QED
      BY <3>1, <3>3 DEF Abstract!Next, Abstract!Finish
  <2>6. CASE (\E e \in reanalyze : ProcessAnalysis(e)) \/ UNCHANGED vars
    <3>1. UNCHANGED <<leader, origin, phase, dirty>>
      BY <2>6 DEF ProcessAnalysis, vars
    <3> QED
      BY <3>1 DEF Abstract!vars
  <2> QED
    BY <1>2, <2>1, <2>2, <2>3, <2>4, <2>5, <2>6 DEF Next, User, RebuildStep
<1> QED
  BY <1>1, <1>2, Invariant, PTL DEF Spec, Abstract!Spec

-----------------------------------------------------------------------------
(* What the nodes mean *)

Knowledge == INSTANCE CongruenceProofs
               WITH term <- origin, class <- leader, rebuilding <- phase # "idle",
                    complete <- ~dirty

\* A meaning: a value for each id, so that equal operators on equal values have equal values.
Models(value) ==
  \A i, j \in Made :
    /\ origin[i].op = origin[j].op /\ DOMAIN origin[i].args = DOMAIN origin[j].args
    /\ \A k \in DOMAIN origin[i].args : value[origin[i].args[k]] = value[origin[j].args[k]]
    => value[i] = value[j]

\* Callers of union() unite only what is equal in it.
UnionsTrue(value) == \A i, j \in Made : Union(i, j) => value[i] = value[j]

\* An e-graph is sound: in every meaning in which what union() was told is true, all that
\* find() takes for equal is equal, whatever rebuild() does and whenever it is looked at.
THEOREM FindIsSound ==
  ASSUME NEW CONSTANT value
  PROVE  Spec /\ []Models(value) /\ [][UnionsTrue(value)]_vars
           => [](\A i, j \in Made : leader[i] = leader[j] => value[i] = value[j])
<1>1. Abstract!Init => Knowledge!Init
  BY DEF Abstract!Init, Knowledge!Init
<1>2. /\ Knowledge!Made = Abstract!Made
      /\ \A S : Knowledge!Nodes(S) = Abstract!Nodes(S)
      /\ \A n : Knowledge!Over(n) = Abstract!Over(n)
  BY DEF Abstract!Made, Knowledge!Made, Abstract!Nodes, Knowledge!Nodes, Abstract!Over,
         Knowledge!Over
<1>3. /\ \A i, n : Abstract!Include(i, n) => Knowledge!Include(i, n)
      /\ \A i, j : Abstract!Tell(i, j) <=> Knowledge!Tell(i, j)
      /\ \A i, j : Abstract!Derive(i, j) => Knowledge!Derive(i, j)
      /\ Abstract!Begin => Knowledge!Begin
      /\ Abstract!Finish => Knowledge!Finish
  BY <1>2 DEF Abstract!Include, Knowledge!Include, Abstract!Tell, Knowledge!Tell,
              Abstract!Derive, Knowledge!Derive, Abstract!Join, Knowledge!Join,
              Abstract!Joined, Knowledge!Joined, Abstract!Begin, Knowledge!Begin,
              Abstract!Finish, Knowledge!Finish, Abstract!Congruent, Knowledge!Congruent
<1>4. [Abstract!Next]_(Abstract!vars) => [Knowledge!Next]_(Knowledge!vars)
  <2>1. ASSUME NEW i \in Ids \ Abstract!Made, NEW n \in Abstract!Nodes(Abstract!Made),
               Abstract!Include(i, n)
        PROVE  Knowledge!Next
    <3>1. Knowledge!Include(i, n) /\ i \in Ids \ Knowledge!Made
          /\ n \in Knowledge!Nodes(Knowledge!Made)
      BY <1>2, <1>3, <2>1
    <3> QED
      BY <3>1 DEF Knowledge!Next
  <2>2. ASSUME NEW i \in Abstract!Made, NEW j \in Abstract!Made,
               Abstract!Tell(i, j) \/ Abstract!Derive(i, j)
        PROVE  Knowledge!Next
    <3>1. (Knowledge!Tell(i, j) \/ Knowledge!Derive(i, j))
          /\ i \in Knowledge!Made /\ j \in Knowledge!Made
      BY <1>2, <1>3, <2>2
    <3> QED
      BY <3>1 DEF Knowledge!Next
  <2>3. Abstract!Begin \/ Abstract!Finish => Knowledge!Next
    BY <1>3 DEF Knowledge!Next
  <2>4. Abstract!Next => Knowledge!Next
    BY <2>1, <2>2, <2>3 DEF Abstract!Next
  <2> QED
    BY <2>4 DEF Abstract!vars, Knowledge!vars
<1>5. Models(value) => Knowledge!Models(value)
  BY DEF Models, Knowledge!Models, Made, Knowledge!Made
<1>6. IInv /\ [Next]_vars /\ [UnionsTrue(value)]_vars
        => [Knowledge!ToldTrue(value)]_(Knowledge!vars)
  <2> SUFFICES ASSUME IInv, [Next]_vars, [UnionsTrue(value)]_vars,
                      NEW i \in Made, NEW j \in Made, Abstract!Tell(i, j)
               PROVE  \E p, q \in Made : Abstract!Tell(p, q) /\ value[p] = value[q]
    BY <1>2, <1>3, AbstractIs DEF Knowledge!ToldTrue
  <2>1. /\ phase = "idle" /\ phase' = phase /\ leader[i] # leader[j]
        /\ leader' \in {Abstract!Joined(i, j), Abstract!Joined(j, i)}
    BY DEF Abstract!Tell, Abstract!Join
  <2>2. DOMAIN leader' = Made /\ leader' # leader
    <3>1. /\ DOMAIN Abstract!Joined(i, j) = Made /\ DOMAIN Abstract!Joined(j, i) = Made
          /\ Abstract!Joined(i, j)[j] # leader[j] /\ Abstract!Joined(j, i)[i] # leader[i]
      BY <2>1, AbstractIs DEF Abstract!Joined
    <3> QED
      BY <2>1, <3>1
  <2>3. PICK p \in Made, q \in Made : Union(p, q)
    <3>1. ASSUME NEW given \in NodesOver(Made), Add(given)
          PROVE  FALSE
      BY <2>2, <3>1, AddIsStep, AddMaps DEF IInv, Made
    <3>2. ~Rebuild /\ ~RebuildStep /\ ~UNCHANGED vars
      BY <2>1, <2>2 DEF Rebuild, RebuildStep, ProcessUnion, ProcessAnalysis, RebuildClasses, vars
    <3> QED
      BY <3>1, <3>2 DEF Next, User
  <2>4. value[p] = value[q]
    BY <2>2, <2>3 DEF UnionsTrue, vars
  <2>5. Abstract!Tell(p, q)
    BY <2>3, MergeJoins DEF Union, Abstract!Tell
  <2> QED
    BY <2>4, <2>5
<1>7. Knowledge!True(value) => \A i, j \in Made : leader[i] = leader[j] => value[i] = value[j]
  BY DEF Knowledge!True, Made, Knowledge!Made
<1>8. Knowledge!Spec /\ []Knowledge!Models(value)
        /\ [][Knowledge!ToldTrue(value)]_(Knowledge!vars) => []Knowledge!True(value)
  BY Knowledge!KnowsOnlyWhatFollows
<1> QED
  BY <1>1, <1>4, <1>5, <1>6, <1>7, <1>8, Invariant, ImplementsCongruence, PTL
     DEF Spec, KnowsWhatFollows, Abstract!Spec, Knowledge!Spec

-----------------------------------------------------------------------------
(* The end of rebuild() *)

\* Only so much was ever made and is on the lists.
FiniteInv ==
  /\ IsFiniteSet(Made) /\ IsFiniteSet(pending) /\ IsFiniteSet(reanalyze)
  /\ \A c \in DOMAIN classes : IsFiniteSet(classes[c].parents)

\* What rebuild() uses up: classes, facts that they may still get, and work.
Missing == {x \in (DOMAIN classes) \X Facts : x[2] \notin classes[x[1]].data}

ClassesLeft == Cardinality(DOMAIN classes)
FactsLeft   == Cardinality(Missing)
WorkLeft    == Cardinality(pending) + Cardinality(reanalyze)

\* The three get smaller, the first counting most.
Advances ==
  \/ ClassesLeft' < ClassesLeft
  \/ ClassesLeft' = ClassesLeft /\ FactsLeft' < FactsLeft
  \/ ClassesLeft' = ClassesLeft /\ FactsLeft' = FactsLeft /\ WorkLeft' < WorkLeft

LEMMA MergeFinite ==
  ASSUME TypeOK, FiniteInv, NEW a, NEW b, NEW rest, MergeStep(a, b, rest)
  PROVE  FiniteInv' /\ ClassesLeft' < ClassesLeft
<1>1. /\ a \in DOMAIN classes /\ b \in DOMAIN classes /\ a # b /\ rest \subseteq pending
      /\ Made' = Made /\ DOMAIN classes' = DOMAIN classes \ {b}
  BY MergeLeaders DEF MergeStep
<1>2. IsFiniteSet(classes[a].parents) /\ IsFiniteSet(classes[b].parents)
  BY <1>1 DEF FiniteInv
<1>3. IsFiniteSet(rest)
  BY <1>1, FS_Subset DEF FiniteInv
<1>4. IsFiniteSet(classes[a].parents \cup classes[b].parents)
  BY <1>2, FS_Union
<1>5. IsFiniteSet(pending')
  <2>1. pending' = rest \cup classes[b].parents
    BY DEF MergeStep, Merge
  <2> QED
    BY <1>2, <1>3, <2>1, FS_Union
<1>6. IsFiniteSet(Reanalyze(a, b))
  <2>1. Reanalyze(a, b) \subseteq classes[a].parents \cup classes[b].parents
    BY DEF Reanalyze
  <2> QED
    BY <1>4, <2>1, FS_Subset
<1>7. IsFiniteSet(reanalyze')
  <2>1. reanalyze' = reanalyze \cup Reanalyze(a, b) /\ IsFiniteSet(reanalyze)
    BY MergeClasses DEF FiniteInv
  <2> QED
    BY <1>6, <2>1, FS_Union
<1>8. \A c \in DOMAIN classes' : IsFiniteSet(classes'[c].parents)
  <2> TAKE c \in DOMAIN classes'
  <2>1. CASE c = a
    BY <1>4, <2>1, MergeClasses
  <2>2. CASE c # a
    BY <1>1, <2>2, MergeOthers DEF FiniteInv
  <2> QED
    BY <2>1, <2>2
<1>9. ClassesLeft' < ClassesLeft
  <2>1. IsFiniteSet(DOMAIN classes)
    BY FS_Subset DEF FiniteInv, TypeOK
  <2>2. Cardinality(DOMAIN classes \ {b}) = Cardinality(DOMAIN classes) - 1
    BY <1>1, <2>1, FS_RemoveElement
  <2> QED
    BY <1>1, <2>1, <2>2, FS_CardinalityType DEF ClassesLeft
<1> QED
  BY <1>1, <1>5, <1>7, <1>8, <1>9 DEF FiniteInv

LEMMA AddFinite ==
  ASSUME TypeOK, FiniteInv, NEW n, NEW id, AddStep(n, id)
  PROVE  FiniteInv'
<1>1. IsFiniteSet(Made') /\ IsFiniteSet(pending') /\ IsFiniteSet(reanalyze')
  <2>1. /\ Made' = Made \cup {id} /\ pending' = pending \cup {[node |-> n, class |-> id]}
        /\ reanalyze' = reanalyze
    BY AddMaps
  <2>2. IsFiniteSet(Made) /\ IsFiniteSet(pending) /\ IsFiniteSet(reanalyze)
    BY DEF FiniteInv
  <2>3. IsFiniteSet(Made \cup {id})
    BY <2>2, FS_AddElement
  <2>4. IsFiniteSet(pending \cup {[node |-> n, class |-> id]})
    BY <2>2, FS_AddElement
  <2> QED
    BY <2>1, <2>2, <2>3, <2>4
<1>2. /\ DOMAIN classes' = DOMAIN classes \cup {id} /\ classes'[id].parents = {}
      /\ \A c \in DOMAIN classes : classes'[c].parents = classes[c].parents \cup
           (IF c \in Children(n) THEN {[node |-> n, class |-> id]} ELSE {})
  BY AddClasses
<1>3. ASSUME NEW c \in DOMAIN classes'
      PROVE  IsFiniteSet(classes'[c].parents)
  <2>1. CASE c = id
    BY <1>2, <2>1, FS_EmptySet
  <2>2. CASE c # id
    <3>1. /\ c \in DOMAIN classes
          /\ classes'[c].parents = classes[c].parents \cup
               (IF c \in Children(n) THEN {[node |-> n, class |-> id]} ELSE {})
      BY <1>2, <2>2
    <3>2. IsFiniteSet(classes[c].parents)
      BY <3>1 DEF FiniteInv
    <3>3. CASE c \in Children(n)
      <4>1. IsFiniteSet(classes[c].parents \cup {[node |-> n, class |-> id]})
        BY <3>2, FS_AddElement
      <4> QED
        BY <3>1, <3>3, <4>1
    <3>4. CASE c \notin Children(n)
      BY <3>1, <3>2, <3>4
    <3> QED
      BY <3>3, <3>4
  <2> QED
    BY <2>1, <2>2
<1> QED
  BY <1>1, <1>3 DEF FiniteInv

\* An entry of the first list is worked off, or two classes become one.
LEMMA ProcessUnionAdvances ==
  ASSUME IInv, FiniteInv, NEW e \in pending, ProcessUnion(e)
  PROVE  FiniteInv' /\ Advances
<1> DEFINE n == Canon(leader, e.node)
<1>1. TypeOK /\ e.class \in Made /\ (n \in DOMAIN memo => memo[n] \in Made)
  BY Typed DEF IInv
<1>2. CASE n \in DOMAIN memo /\ leader[memo[n]] # leader[e.class]
  <2>1. /\ leader[memo[n]] \in DOMAIN classes /\ leader[e.class] \in DOMAIN classes
    BY <1>1, <1>2, Typed
  <2>2. \/ MergeStep(leader[memo[n]], leader[e.class], pending \ {e})
        \/ MergeStep(leader[e.class], leader[memo[n]], pending \ {e})
    BY <1>2, <2>1 DEF ProcessUnion, MergeStep
  <2> HIDE DEF n
  <2> QED
    BY <1>1, <2>2, MergeFinite DEF Advances
<1>3. CASE ~(n \in DOMAIN memo /\ leader[memo[n]] # leader[e.class])
  <2>1. /\ pending' = pending \ {e} /\ leader' = leader
        /\ classes' = classes /\ reanalyze' = reanalyze
    BY <1>3 DEF ProcessUnion
  <2>2. IsFiniteSet(pending') /\ Cardinality(pending') = Cardinality(pending) - 1
    BY <2>1, FS_RemoveElement DEF FiniteInv
  <2>3. FiniteInv'
    BY <2>1, <2>2 DEF FiniteInv, Made
  <2>4. Cardinality(pending) \in Nat /\ Cardinality(reanalyze) \in Nat
    BY FS_CardinalityType DEF FiniteInv
  <2>5. ClassesLeft' = ClassesLeft /\ FactsLeft' = FactsLeft
    BY <2>1 DEF ClassesLeft, FactsLeft, Missing
  <2>6. WorkLeft' < WorkLeft
    BY <2>1, <2>2, <2>4 DEF WorkLeft
  <2> QED
    BY <2>3, <2>5, <2>6 DEF Advances
<1> QED
  BY <1>2, <1>3

\* A class gets facts that it had not, or an entry of the second list is worked off.
LEMMA ProcessAnalysisAdvances ==
  ASSUME IsFiniteSet(Facts), IInv, FiniteInv, NEW e \in reanalyze, ProcessAnalysis(e)
  PROVE  FiniteInv' /\ Advances
<1> DEFINE c == leader[e.class]
<1>1. TypeOK /\ pending = {} /\ leader' = leader /\ pending' = pending
      /\ reanalyze' = (reanalyze \ {e}) \cup
           (IF Make(e.node) \subseteq classes[c].data THEN {} ELSE classes[c].parents)
  BY DEF IInv, ProcessAnalysis
<1>2. /\ e.node \in NodesOver(Made) /\ c \in DOMAIN classes
      /\ DOMAIN classes' = DOMAIN classes
      /\ \A d \in DOMAIN classes :
           /\ classes'[d].parents = classes[d].parents
           /\ classes'[d].data = IF d = c THEN classes[d].data \cup Make(e.node)
                                          ELSE classes[d].data
  BY <1>1, ProcessAnalysisClasses
<1>3. IsFiniteSet(reanalyze \ {e}) /\ Cardinality(reanalyze \ {e}) = Cardinality(reanalyze) - 1
  BY FS_RemoveElement DEF FiniteInv
<1>4. IsFiniteSet(DOMAIN classes) /\ IsFiniteSet(Missing)
  <2>1. IsFiniteSet(DOMAIN classes)
    BY <1>1, FS_Subset DEF FiniteInv, TypeOK
  <2>2. IsFiniteSet((DOMAIN classes) \X Facts)
    BY <2>1, FS_Product
  <2> QED
    BY <2>1, <2>2, FS_Subset DEF Missing
<1> HIDE DEF c
<1>5. IsFiniteSet(reanalyze')
  <2>1. IsFiniteSet(classes[c].parents)
    BY <1>2 DEF FiniteInv
  <2>2. IsFiniteSet((reanalyze \ {e}) \cup classes[c].parents)
    BY <1>3, <2>1, FS_Union
  <2>3. reanalyze' \subseteq (reanalyze \ {e}) \cup classes[c].parents
    BY <1>1
  <2> QED
    BY <2>2, <2>3, FS_Subset
<1>6. FiniteInv'
  BY <1>1, <1>2, <1>5 DEF FiniteInv, Made
<1>7. ClassesLeft' = ClassesLeft
  BY <1>2 DEF ClassesLeft
<1>8. \A d \in DOMAIN classes, f \in Facts :
        <<d, f>> \in Missing' <=> <<d, f>> \in Missing /\ (d = c => f \notin Make(e.node))
  <2>1. \A d, f : <<d, f>> \in Missing' <=>
          d \in DOMAIN classes /\ f \in Facts /\ f \notin classes'[d].data
    BY <1>2 DEF Missing
  <2>2. \A d, f : <<d, f>> \in Missing <=>
          d \in DOMAIN classes /\ f \in Facts /\ f \notin classes[d].data
    BY DEF Missing
  <2>3. ASSUME NEW d \in DOMAIN classes, NEW f \in Facts
        PROVE  f \notin classes'[d].data
                 <=> f \notin classes[d].data /\ (d = c => f \notin Make(e.node))
    <3>1. classes'[d].data = IF d = c THEN classes[d].data \cup Make(e.node)
                                      ELSE classes[d].data
      BY <1>2
    <3> QED
      BY <3>1
  <2> TAKE d \in DOMAIN classes, f \in Facts
  <2>4. /\ <<d, f>> \in Missing' <=> f \notin classes'[d].data
        /\ <<d, f>> \in Missing <=> f \notin classes[d].data
    BY <2>1, <2>2
  <2> QED
    BY <2>3, <2>4
<1>9. CASE Make(e.node) \subseteq classes[c].data
  <2>1. \A d \in DOMAIN classes : classes'[d].data = classes[d].data
    BY <1>2, <1>9
  <2>2. Missing' = Missing
    BY <1>2, <2>1 DEF Missing
  <2>3. reanalyze' = reanalyze \ {e}
    BY <1>1, <1>9
  <2>4. Cardinality(pending) \in Nat /\ Cardinality(reanalyze) \in Nat
    BY FS_CardinalityType DEF FiniteInv
  <2>5. WorkLeft = Cardinality(pending) + Cardinality(reanalyze)
        /\ WorkLeft' = Cardinality(pending) + Cardinality(reanalyze \ {e})
    BY <1>1, <2>3 DEF WorkLeft
  <2>6. WorkLeft' < WorkLeft
    BY <1>3, <2>4, <2>5
  <2> QED
    BY <1>6, <1>7, <2>2, <2>6 DEF Advances, FactsLeft
<1>10. CASE ~(Make(e.node) \subseteq classes[c].data)
  <2>1. PICK f : f \in Make(e.node) /\ f \notin classes[c].data
    BY <1>10
  <2>2. f \in Facts
    BY <1>1, <1>2, <2>1, MakeFacts
  <2>3. <<c, f>> \in Missing /\ <<c, f>> \notin Missing'
    <3>1. <<c, f>> \in Missing
      BY <1>2, <2>1, <2>2 DEF Missing
    <3> QED
      BY <1>2, <1>8, <2>1, <2>2, <3>1
  <2>4. Missing' \subseteq Missing
    <3>1. \A x \in Missing' : x[1] \in DOMAIN classes /\ x[2] \in Facts /\ x = <<x[1], x[2]>>
      BY <1>2 DEF Missing
    <3> QED
      BY <1>8, <3>1
  <2>5. FactsLeft' < FactsLeft
    <3>1. /\ IsFiniteSet(Missing') /\ Cardinality(Missing') <= Cardinality(Missing)
          /\ Cardinality(Missing) # Cardinality(Missing')
      BY <1>4, <2>3, <2>4, FS_Subset
    <3> QED
      BY <1>4, <3>1, FS_CardinalityType DEF FactsLeft
  <2> QED
    BY <1>6, <1>7, <2>5 DEF Advances
<1> QED
  BY <1>9, <1>10

\* A rebuild that did not panic when it began returns or, with each turn of its loops, leaves
\* less to do: fewer classes, or fewer facts that a class may still get, or fewer entries.  So
\* it never panics on the way and does not go on for ever, for any finite set of facts.
THEOREM RebuildAdvances ==
  ASSUME IsFiniteSet(Facts)
  PROVE  Spec => [][phase = "rebuilding" => Advances \/ phase' = "idle"]_vars
<1>1. Init => FiniteInv
  BY FS_EmptySet DEF Init, Empty, FiniteInv, Made
<1>2. ASSUME IInv, FiniteInv, [Next]_vars
      PROVE  FiniteInv' /\ [phase = "rebuilding" => Advances \/ phase' = "idle"]_vars
  <2>1. TypeOK
    BY <1>2 DEF IInv
  <2>2. ASSUME NEW given \in NodesOver(Made), Add(given)
        PROVE  FiniteInv' /\ phase = "idle"
    BY <1>2, <2>1, <2>2, AddIsStep, AddFinite DEF Add
  <2>3. ASSUME NEW i \in Made, NEW j \in Made, Union(i, j)
        PROVE  FiniteInv' /\ phase = "idle"
    <3>1. leader[i] \in DOMAIN classes /\ leader[j] \in DOMAIN classes
      BY <2>1, Typed
    <3>2. MergeStep(leader[i], leader[j], pending) \/ MergeStep(leader[j], leader[i], pending)
      BY <2>3, <3>1 DEF Union, MergeStep
    <3> QED
      BY <1>2, <2>1, <2>3, <3>2, MergeFinite DEF Union
  <2>4. ASSUME NEW e \in pending, ProcessUnion(e)
        PROVE  FiniteInv' /\ Advances
    BY <1>2, <2>4, ProcessUnionAdvances
  <2>5. ASSUME NEW e \in reanalyze, ProcessAnalysis(e)
        PROVE  FiniteInv' /\ Advances
    BY <1>2, <2>5, ProcessAnalysisAdvances
  <2>6. CASE RebuildClasses
    <3>1. /\ leader' = leader /\ pending' = pending /\ reanalyze' = reanalyze /\ phase' = "idle"
          /\ DOMAIN classes' = DOMAIN classes
          /\ \A c \in DOMAIN classes : classes'[c].parents = classes[c].parents
      <4>1. \A c \in DOMAIN classes :
              classes[c] \in [nodes : SUBSET NodesOver(Made), parents : SUBSET EntriesOver(Made),
                              data : SUBSET Facts]
        BY <2>1 DEF TypeOK
      <4> QED
        BY <2>6, <4>1 DEF RebuildClasses
    <3> QED
      BY <1>2, <3>1 DEF FiniteInv, Made
  <2>7. CASE Rebuild \/ UNCHANGED vars
    BY <1>2, <2>7 DEF Rebuild, vars, FiniteInv, Made
  <2>8. FiniteInv' /\ (phase = "rebuilding" /\ ~UNCHANGED vars => Advances \/ phase' = "idle")
    BY <1>2, <2>2, <2>3, <2>4, <2>5, <2>6, <2>7 DEF Next, User, RebuildStep, Rebuild, RebuildClasses
  <2> QED
    BY <2>8
<1>3. IInv /\ FiniteInv /\ [Next]_vars => FiniteInv' /\ [phase = "rebuilding" => Advances \/ phase' = "idle"]_vars
  BY <1>2
<1> QED
  BY <1>1, <1>3, Invariant, PTL DEF Spec

\* Without an analysis (that of type (), which finds no facts) the assertion of
\* process_unions() holds: no rebuild panics, whatever is added and united before it.
THEOREM NoFactsNoPanic ==
  ASSUME Facts = {}
  PROVE  Spec => []AnalysisDrained
<1> DEFINE Idle == reanalyze = {} /\ AnalysisDrained
<1>1. Init => Idle
  BY DEF Init, AnalysisDrained
<1>2. ASSUME IInv, Idle, [Next]_vars
      PROVE  Idle'
  <2>1. TypeOK
    BY <1>2 DEF IInv
  <2>2. \A c \in DOMAIN classes : classes[c].data = {}
    <3>1. \A c \in DOMAIN classes : classes[c] \in [nodes : SUBSET NodesOver(Made),
                       parents : SUBSET EntriesOver(Made), data : SUBSET Facts]
      BY <2>1 DEF TypeOK
    <3> QED
      BY <3>1
  <2>3. ASSUME NEW a \in DOMAIN classes, NEW b \in DOMAIN classes, NEW rest, Merge(a, b, rest)
        PROVE  reanalyze' = {}
    BY <1>2, <2>2, <2>3 DEF Merge, Reanalyze
  <2>4. ASSUME NEW given \in NodesOver(Made), Add(given)
        PROVE  Idle'
    BY <1>2, <2>4 DEF Add, AnalysisDrained
  <2>5. ASSUME NEW i \in Made, NEW j \in Made, Union(i, j)
        PROVE  Idle'
    <3>1. leader[i] \in DOMAIN classes /\ leader[j] \in DOMAIN classes
      BY <2>1, Typed
    <3> QED
      BY <2>3, <2>5, <3>1 DEF Union, AnalysisDrained
  <2>6. ASSUME NEW e \in pending, ProcessUnion(e)
        PROVE  Idle'
    <3> DEFINE n == Canon(leader, e.node)
    <3>1. phase' = "rebuilding"
      BY <2>6 DEF ProcessUnion
    <3>2. CASE n \in DOMAIN memo /\ leader[memo[n]] # leader[e.class]
      <4>1. leader[memo[n]] \in DOMAIN classes /\ leader[e.class] \in DOMAIN classes
        BY <2>1, <3>2, Typed DEF TypeOK, EntriesOver
      <4> QED
        BY <2>3, <2>6, <3>1, <3>2, <4>1 DEF ProcessUnion, AnalysisDrained
    <3>3. CASE ~(n \in DOMAIN memo /\ leader[memo[n]] # leader[e.class])
      BY <1>2, <2>6, <3>1, <3>3 DEF ProcessUnion, AnalysisDrained
    <3> QED
      BY <3>2, <3>3
  <2>7. CASE RebuildClasses \/ Rebuild \/ UNCHANGED vars
    BY <1>2, <2>7 DEF RebuildClasses, Rebuild, vars, AnalysisDrained
  <2> QED
    BY <1>2, <2>4, <2>5, <2>6, <2>7 DEF Next, User, RebuildStep
<1>3. IInv /\ Idle /\ [Next]_vars => Idle'
  BY <1>2
<1> HIDE DEF Idle
<1>4. Idle => AnalysisDrained
  BY DEF Idle
<1> QED
  BY <1>1, <1>3, <1>4, Invariant, PTL DEF Spec
=============================================================================
