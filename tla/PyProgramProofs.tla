--------------------------- MODULE PyProgramProofs ---------------------------
(***************************************************************************)
(* Theorems about PyProgram, for all files, texts and imports.             *)
(***************************************************************************)
EXTENDS PyProgram, SequenceTheorems, FiniteSetTheorems, TLAPS

-----------------------------------------------------------------------------
(* Sequences *)

LEMMA ToSetIsRange ==
  ASSUME NEW T, NEW s \in Seq(T)
  PROVE  /\ ToSet(s) \subseteq T
         /\ \A x : x \in ToSet(s) <=> \E n \in 1..Len(s) : s[n] = x
  BY DEF ToSet

LEMMA OrdersAreSequences ==
  ASSUME NEW S, IsFiniteSet(S), NEW s \in Orders(S)
  PROVE  /\ s \in Seq(S)
         /\ \A m, n \in DOMAIN s : s[m] = s[n] => m = n
         /\ ToSet(s) = S
<1>1. Cardinality(S) \in Nat
  BY FS_CardinalityType
<1>2. s \in [1..Cardinality(S) -> S] /\ IsInjective(s) /\ ToSet(s) = S
  BY DEF Orders
<1>3. s \in Seq(S)
  BY <1>1, <1>2
<1> QED
  BY <1>2, <1>3 DEF IsInjective

LEMMA RemoveAtElements ==
  ASSUME NEW T, NEW s \in Seq(T), NEW n \in 1..Len(s)
  PROVE  /\ RemoveAt(s, n) \in Seq(T)
         /\ Len(RemoveAt(s, n)) = Len(s) - 1
         /\ \A m \in 1..(Len(s) - 1) :
              RemoveAt(s, n)[m] = IF m < n THEN s[m] ELSE s[m + 1]
<1> DEFINE u == SubSeq(s, 1, n - 1)
           v == SubSeq(s, n + 1, Len(s))
<1>1. Len(s) \in Nat /\ n \in Nat /\ n >= 1 /\ n <= Len(s)
  OBVIOUS
<1>2. u \in Seq(T) /\ Len(u) = n - 1 /\ \A m \in 1..(n - 1) : u[m] = s[m]
  BY <1>1
<1>3. v \in Seq(T) /\ Len(v) = Len(s) - n /\ \A m \in 1..(Len(s) - n) : v[m] = s[m + n]
  BY <1>1
<1> HIDE DEF u, v
<1>4. u \o v \in Seq(T) /\ Len(u \o v) = Len(s) - 1
  <2>1. u \o v \in Seq(T) /\ Len(u \o v) = Len(u) + Len(v)
    BY <1>2, <1>3, ConcatProperties
  <2>2. Len(u) + Len(v) = Len(s) - 1
    BY <1>1, <1>2, <1>3
  <2> QED
    BY <2>1, <2>2
<1>5. \A m \in 1..(Len(s) - 1) : (u \o v)[m] = IF m <= Len(u) THEN u[m] ELSE v[m - Len(u)]
  BY <1>1, <1>2, <1>3
<1>6. ASSUME NEW m \in 1..(Len(s) - 1)
      PROVE  (u \o v)[m] = IF m < n THEN s[m] ELSE s[m + 1]
  <2>1. CASE m < n
    BY <2>1, <1>1, <1>2, <1>5
  <2>2. CASE ~(m < n)
    <3>1. m - Len(u) \in 1..(Len(s) - n) /\ (m - Len(u)) + n = m + 1
      BY <2>2, <1>1, <1>2
    <3> QED
      BY <3>1, <2>2, <1>1, <1>2, <1>3, <1>5
  <2> QED
    BY <2>1, <2>2
<1>7. RemoveAt(s, n) = u \o v
  BY DEF RemoveAt, u, v
<1> QED
  BY <1>4, <1>6, <1>7

\* What is left when an element is removed that is in the sequence once.
LEMMA RemoveAtSet ==
  ASSUME NEW T, NEW s \in Seq(T), NEW n \in 1..Len(s),
         \A l, m \in 1..Len(s) : s[l] = s[m] => l = m
  PROVE  ToSet(RemoveAt(s, n)) = ToSet(s) \ {s[n]}
<1> DEFINE r == RemoveAt(s, n)
<1>0. Len(s) \in Nat /\ n \in Nat
  OBVIOUS
<1>1. r \in Seq(T) /\ Len(r) = Len(s) - 1
      /\ \A m \in 1..(Len(s) - 1) : r[m] = IF m < n THEN s[m] ELSE s[m + 1]
  BY RemoveAtElements
<1> HIDE DEF r
<1>2. ASSUME NEW x \in ToSet(r)
      PROVE  x \in ToSet(s) \ {s[n]}
  <2>1. PICK m \in 1..(Len(s) - 1) : r[m] = x
    BY <1>1, ToSetIsRange
  <2>2. CASE m < n
    <3>1. m \in 1..Len(s) /\ s[m] = x /\ m # n
      BY <1>0, <1>1, <2>1, <2>2
    <3> QED
      BY <3>1, ToSetIsRange
  <2>3. CASE ~(m < n)
    <3>1. m + 1 \in 1..Len(s) /\ s[m + 1] = x /\ m + 1 # n
      BY <1>0, <1>1, <2>1, <2>3
    <3> QED
      BY <3>1, ToSetIsRange
  <2> QED
    BY <2>2, <2>3
<1>3. ASSUME NEW x \in ToSet(s) \ {s[n]}
      PROVE  x \in ToSet(r)
  <2>1. PICK m \in 1..Len(s) : s[m] = x
    BY ToSetIsRange
  <2>2. m # n
    BY <2>1
  <2>3. CASE m < n
    <3>1. m \in 1..Len(r) /\ r[m] = x
      BY <1>0, <1>1, <2>1, <2>3
    <3> QED
      BY <3>1, <1>1, ToSetIsRange
  <2>4. CASE m > n
    <3>1. m - 1 \in 1..(Len(s) - 1) /\ ~(m - 1 < n) /\ (m - 1) + 1 = m
      BY <1>0, <2>4
    <3>2. m - 1 \in 1..Len(r) /\ r[m - 1] = x
      BY <3>1, <1>1, <2>1
    <3> QED
      BY <3>2, <1>1, ToSetIsRange
  <2> QED
    BY <1>0, <2>2, <2>3, <2>4
<1> QED
  BY <1>2, <1>3 DEF r

-----------------------------------------------------------------------------
(* The closure of a set under the edges of a graph *)

IsGraph(edges) == \A i \in DOMAIN edges : edges[i] \subseteq DOMAIN edges

LEMMA ClosureIsLeast ==
  ASSUME NEW edges, IsGraph(edges), NEW S, S \subseteq DOMAIN edges
  PROVE  /\ S \subseteq Closure(edges, S)
         /\ Closure(edges, S) \subseteq DOMAIN edges
         /\ IsClosed(edges, Closure(edges, S))
         /\ \A T \in SUBSET DOMAIN edges :
              S \subseteq T /\ IsClosed(edges, T) => Closure(edges, S) \subseteq T
<1>1. ASSUME NEW i \in Closure(edges, S), NEW j \in edges[i]
      PROVE  j \in Closure(edges, S)
  BY <1>1 DEF Closure, IsClosed, IsGraph
<1> QED
  BY <1>1 DEF Closure, IsClosed

\* What imports a file, directly or not, itself among it.
ImportersAreObjects(o) == \A i \in DOMAIN o : o[i].importedBy \subseteq DOMAIN o

LEMMA AboveIsLeast ==
  ASSUME NEW o, ImportersAreObjects(o), NEW i \in DOMAIN o
  PROVE  /\ i \in Above(o, i)
         /\ Above(o, i) \subseteq DOMAIN o
         /\ \A j \in Above(o, i) : o[j].importedBy \subseteq Above(o, i)
         /\ \A T \in SUBSET DOMAIN o :
              i \in T /\ (\A j \in T : o[j].importedBy \subseteq T) => Above(o, i) \subseteq T
<1> DEFINE edges == [j \in DOMAIN o |-> o[j].importedBy]
<1>1. IsGraph(edges) /\ DOMAIN edges = DOMAIN o /\ {i} \subseteq DOMAIN edges
  BY DEF IsGraph, ImportersAreObjects
<1>2. \A j \in DOMAIN o : edges[j] = o[j].importedBy
  OBVIOUS
<1>3. Above(o, i) = Closure(edges, {i})
  BY DEF Above
<1> HIDE DEF edges
<1>4. /\ {i} \subseteq Closure(edges, {i})
      /\ Closure(edges, {i}) \subseteq DOMAIN edges
      /\ IsClosed(edges, Closure(edges, {i}))
      /\ \A T \in SUBSET DOMAIN edges :
           {i} \subseteq T /\ IsClosed(edges, T) => Closure(edges, {i}) \subseteq T
  BY <1>1, ClosureIsLeast
<1>5. \A j \in Above(o, i) : o[j].importedBy \subseteq Above(o, i)
  BY <1>1, <1>2, <1>3, <1>4 DEF IsClosed
<1>6. ASSUME NEW T \in SUBSET DOMAIN o, i \in T, \A j \in T : o[j].importedBy \subseteq T
      PROVE  Above(o, i) \subseteq T
  <2>1. IsClosed(edges, T)
    BY <1>2, <1>6 DEF IsClosed
  <2> QED
    BY <2>1, <1>1, <1>3, <1>4, <1>6
<1> QED
  BY <1>1, <1>3, <1>4, <1>5, <1>6

LEMMA AboveIsTransitive ==
  ASSUME NEW o, ImportersAreObjects(o), NEW i \in DOMAIN o, NEW j \in Above(o, i)
  PROVE  Above(o, j) \subseteq Above(o, i)
<1>1. j \in DOMAIN o /\ Above(o, i) \in SUBSET DOMAIN o
  BY AboveIsLeast
<1>2. \A k \in Above(o, i) : o[k].importedBy \subseteq Above(o, i)
  BY AboveIsLeast
<1> QED
  BY <1>1, <1>2, AboveIsLeast

LEMMA AboveShrinks ==
  ASSUME NEW o, ImportersAreObjects(o), NEW p, DOMAIN p = DOMAIN o,
         \A j \in DOMAIN o : p[j].importedBy \subseteq o[j].importedBy,
         NEW i \in DOMAIN o
  PROVE  Above(p, i) \subseteq Above(o, i)
<1>1. ImportersAreObjects(p)
  BY DEF ImportersAreObjects
<1>2. /\ i \in Above(o, i) /\ Above(o, i) \in SUBSET DOMAIN p
      /\ \A j \in Above(o, i) : p[j].importedBy \subseteq Above(o, i)
  BY AboveIsLeast
<1>3. \A T \in SUBSET DOMAIN p :
        i \in T /\ (\A j \in T : p[j].importedBy \subseteq T) => Above(p, i) \subseteq T
  BY <1>1, AboveIsLeast
<1> QED
  BY <1>2, <1>3

LEMMA AboveIsSame ==
  ASSUME NEW o, ImportersAreObjects(o), NEW p, DOMAIN p = DOMAIN o,
         \A j \in DOMAIN o : p[j].importedBy = o[j].importedBy,
         NEW i \in DOMAIN o
  PROVE  Above(p, i) = Above(o, i)
<1>1. ImportersAreObjects(p)
  BY DEF ImportersAreObjects
<1>2. Above(p, i) \subseteq Above(o, i)
  BY AboveShrinks
<1>3. Above(o, i) \subseteq Above(p, i)
  BY <1>1, AboveShrinks
<1> QED
  BY <1>2, <1>3

\* Files that are tracked or open are what others are needed for.
IsRoot(o, i) == o[i].tracked \/ IsOpen(o[i])

HasRoot(o, i) == \E j \in Above(o, i) : IsRoot(o, j)

LEMMA NeededHasRoot ==
  ASSUME NEW o, ImportersAreObjects(o), NEW i \in DOMAIN o
  PROVE  IsFileNeeded(o, i) <=> ~o[i].deleted /\ HasRoot(o, i)
<1>1. i \in Above(o, i)
  BY AboveIsLeast
<1> QED
  BY <1>1 DEF IsFileNeeded, HasRoot, IsRoot

\* A file from which no root is reached can be taken from the importers of any file: what
\* had a root has it still.
LEMMA RootsAreKept ==
  ASSUME NEW o, ImportersAreObjects(o), NEW p, DOMAIN p = DOMAIN o, NEW i \in DOMAIN o,
         \A j \in DOMAIN o : /\ p[j].importedBy \subseteq o[j].importedBy
                             /\ o[j].importedBy \subseteq p[j].importedBy \cup {i},
         \A j \in DOMAIN o : IsRoot(p, j) <=> IsRoot(o, j),
         ~HasRoot(o, i), NEW k \in DOMAIN o
  PROVE  HasRoot(p, k) <=> HasRoot(o, k)
<1>1. ImportersAreObjects(p)
  BY DEF ImportersAreObjects
<1>2. HasRoot(p, k) => HasRoot(o, k)
  BY AboveShrinks, AboveIsLeast DEF HasRoot
<1>3. ASSUME HasRoot(o, k) PROVE HasRoot(p, k)
  <2>1. PICK r \in Above(o, k) : IsRoot(o, r)
    BY <1>3 DEF HasRoot
  <2> DEFINE T == Above(p, k) \cup Above(o, i)
  <2>2. /\ k \in Above(p, k) /\ Above(p, k) \subseteq DOMAIN o
        /\ \A j \in Above(p, k) : p[j].importedBy \subseteq Above(p, k)
    BY <1>1, AboveIsLeast
  <2>3. /\ i \in Above(o, i) /\ Above(o, i) \subseteq DOMAIN o
        /\ \A j \in Above(o, i) : o[j].importedBy \subseteq Above(o, i)
    BY AboveIsLeast
  <2>4. T \in SUBSET DOMAIN o /\ k \in T /\ \A j \in T : o[j].importedBy \subseteq T
    BY <2>2, <2>3
  <2>5. Above(o, k) \subseteq T
    <3>1. \A U \in SUBSET DOMAIN o :
            k \in U /\ (\A j \in U : o[j].importedBy \subseteq U) => Above(o, k) \subseteq U
      BY AboveIsLeast
    <3> HIDE DEF T
    <3> QED
      BY <2>4, <3>1
  <2>6. r \notin Above(o, i) /\ r \in DOMAIN o
    BY <2>1, <2>4, <2>5 DEF HasRoot
  <2> QED
    BY <2>1, <2>5, <2>6 DEF HasRoot
<1> QED
  BY <1>2, <1>3

-----------------------------------------------------------------------------
(* Types *)

Texts == AllTexts \cup {NoTree, Empty}

Seens == UNION {[S -> Texts] : S \in SUBSET Paths}

ObjectIds == Paths \X Ages

Objects ==
  [tracked : BOOLEAN, doc : AllTexts \cup {Closed}, dirty : BOOLEAN, check : BOOLEAN,
   parsed : Texts, hash : Texts, found : SUBSET Paths, deleted : BOOLEAN,
   imports : SUBSET ObjectIds, importedBy : SUBSET ObjectIds,
   diags : {"none", "old", "current"}, seen : Seens]

Turns ==
  [at : {"idle", "pass", "check", "remove"}, n : Nat \ {0}, file : ObjectIds \cup {<<>>},
   todo : SUBSET Paths, seen : Seens, left : SUBSET ObjectIds,
   then : {"rest", "pass", "report"}, opened : SUBSET ObjectIds, before : SUBSET ObjectIds,
   gone : BOOLEAN, more : BOOLEAN]

InfoType(o) ==
  /\ DOMAIN o \subseteq ObjectIds
  /\ o \in [DOMAIN o -> Objects]
  /\ \A i \in DOMAIN o : o[i].imports \subseteq DOMAIN o /\ o[i].importedBy \subseteq DOMAIN o

ListType(o, l) ==
  /\ l \in Seq(DOMAIN o)
  /\ \A m, n \in 1..Len(l) : PathOf(l[m]) = PathOf(l[n]) => m = n

TurnType ==
  /\ turn \in Turns
  /\ turn.at = "idle" => turn = Idle
  /\ turn.at = "check" => turn.file \in InList
  /\ turn.at = "remove" => turn.left \subseteq DOMAIN info /\ turn.n <= Len(list) + 1
  /\ turn.at = "remove" /\ turn.left # {} => turn.file \in DOMAIN info \ InList

Types ==
  /\ disk \in [Paths -> AllTexts \cup {Absent}]
  /\ events \in [Paths -> {"none", "change", "rename"}]
  /\ InfoType(info) /\ ListType(info, list)
  /\ listing = Unread \/ listing \subseteq Paths
  /\ timer \in BOOLEAN /\ update \in BOOLEAN
  /\ shown \subseteq Paths /\ unmarked \subseteq Paths /\ hurried \subseteq Paths
  /\ failed \subseteq {"importedBy", "filesLeft"}
  /\ TurnType

-----------------------------------------------------------------------------
(* What the operators on the objects do *)

LEMMA NewObjectIsTyped ==
  ASSUME NEW tracked \in BOOLEAN
  PROVE  Object(tracked) \in Objects
<1>1. <<>> \in [{} -> Texts]
  OBVIOUS
<1>2. <<>> \in Seens
  BY <1>1 DEF Seens
<1>3. NoTree \in Texts
  BY DEF Texts
<1> QED
  BY <1>2, <1>3 DEF Object, Objects

\* New objects are others than those there are.
LEMMA NewObjects ==
  ASSUME InfoType(info), NEW S \in SUBSET Paths, HasRoom(S), NEW tracked \in BOOLEAN
  PROVE  LET o == InfoWith(S, tracked) IN
         /\ \A f \in S : NewId(f) \in ObjectIds \ DOMAIN info /\ PathOf(NewId(f)) = f
         /\ DOMAIN o = DOMAIN info \cup {NewId(f) : f \in S}
         /\ \A i \in DOMAIN info : o[i] = info[i]
         /\ \A i \in DOMAIN o \ DOMAIN info : o[i] = Object(tracked)
         /\ InfoType(o)
<1> DEFINE o == InfoWith(S, tracked)
<1>1. ASSUME NEW f \in S
      PROVE  NewId(f) \in ObjectIds \ DOMAIN info /\ PathOf(NewId(f)) = f
  <2> DEFINE a == CHOOSE a \in Ages : <<f, a>> \notin DOMAIN info
  <2>1. a \in Ages /\ <<f, a>> \notin DOMAIN info
    BY DEF HasRoom
  <2>2. NewId(f) = <<f, a>>
    BY DEF NewId
  <2> HIDE DEF a
  <2> QED
    BY <2>1, <2>2 DEF ObjectIds, PathOf
<1>2. /\ DOMAIN o = DOMAIN info \cup {NewId(f) : f \in S}
      /\ \A i \in DOMAIN info : o[i] = info[i]
      /\ \A i \in DOMAIN o \ DOMAIN info : o[i] = Object(tracked)
  BY DEF InfoWith
<1>3. Object(tracked) \in Objects /\ Object(tracked).imports = {} /\ Object(tracked).importedBy = {}
  BY NewObjectIsTyped DEF Object
<1>4. \A i \in DOMAIN o : o[i] \in Objects
  BY <1>2, <1>3 DEF InfoType
<1>5. o \in [DOMAIN o -> Objects]
  BY <1>4 DEF InfoWith
<1>6. \A i \in DOMAIN o : o[i].imports \subseteq DOMAIN o /\ o[i].importedBy \subseteq DOMAIN o
  BY <1>2, <1>3 DEF InfoType
<1>7. DOMAIN o \subseteq ObjectIds
  BY <1>1, <1>2 DEF InfoType
<1> QED
  BY <1>1, <1>2, <1>5, <1>6, <1>7 DEF InfoType

LEMMA NewList ==
  ASSUME InfoType(info), ListType(info, list), NEW S \in SUBSET Paths, HasRoom(S),
         S \cap PathsOf(InList) = {}, NEW order \in Orders(S), NEW tracked \in BOOLEAN
  PROVE  LET o == InfoWith(S, tracked)
             l == ListWith(order)
         IN  /\ ListType(o, l)
             /\ Len(l) >= Len(list) /\ \A m \in 1..Len(list) : l[m] = list[m]
             /\ ToSet(l) = InList \cup {NewId(f) : f \in S}
<1> DEFINE o == InfoWith(S, tracked)
           t == [n \in DOMAIN order |-> NewId(order[n])]
           l == list \o t
<1>0. /\ \A f \in S : NewId(f) \in ObjectIds \ DOMAIN info /\ PathOf(NewId(f)) = f
      /\ DOMAIN o = DOMAIN info \cup {NewId(f) : f \in S}
  BY NewObjects
<1>1. IsFiniteSet(S)
  BY TextsAssumption, FS_Subset
<1>2. /\ order \in Seq(S)
      /\ \A m, n \in DOMAIN order : order[m] = order[n] => m = n
      /\ ToSet(order) = S
  BY <1>1, OrdersAreSequences
<1>3. list \in Seq(DOMAIN o)
  BY <1>0 DEF ListType
<1>4. t \in Seq(DOMAIN o) /\ Len(t) = Len(order) /\ DOMAIN order = 1..Len(order)
  BY <1>0, <1>2
<1>5. \A n \in 1..Len(t) : order[n] \in S /\ t[n] = NewId(order[n]) /\ PathOf(t[n]) = order[n]
  BY <1>0, <1>2, <1>4
<1>6. \A f \in S : \E n \in 1..Len(t) : t[n] = NewId(f)
  BY <1>2, <1>4, <1>5 DEF ToSet
<1> HIDE DEF o, t
<1>7. /\ l \in Seq(DOMAIN o) /\ Len(l) = Len(list) + Len(t)
      /\ \A n \in 1..(Len(list) + Len(t)) :
           l[n] = IF n <= Len(list) THEN list[n] ELSE t[n - Len(list)]
  BY <1>3, <1>4, ConcatProperties
<1>8. Len(list) \in Nat /\ Len(t) \in Nat
  BY <1>3, <1>4
<1> HIDE DEF l
<1>9. \A n \in 1..Len(list) : l[n] = list[n] /\ list[n] \in InList
  BY <1>7, <1>8, <1>3, ToSetIsRange DEF InList
<1>10. \A n \in 1..Len(l) : n > Len(list) =>
         n - Len(list) \in 1..Len(t) /\ l[n] = t[n - Len(list)]
  BY <1>7, <1>8
<1>11. ToSet(l) = InList \cup {NewId(f) : f \in S}
  <2>1. ASSUME NEW x \in ToSet(l)
        PROVE  x \in InList \cup {NewId(f) : f \in S}
    <3>1. PICK n \in 1..Len(l) : l[n] = x
      BY <1>7, ToSetIsRange
    <3>2. CASE n <= Len(list)
      BY <3>1, <3>2, <1>8, <1>9
    <3>3. CASE n > Len(list)
      BY <3>1, <3>3, <1>10, <1>5
    <3> QED
      BY <3>2, <3>3, <1>8
  <2>2. ASSUME NEW x \in InList
        PROVE  x \in ToSet(l)
    <3>1. PICK n \in 1..Len(list) : list[n] = x
      BY <1>3, ToSetIsRange DEF InList
    <3>2. n \in 1..Len(l) /\ l[n] = x
      BY <3>1, <1>7, <1>8, <1>9
    <3> QED
      BY <3>2, <1>7, ToSetIsRange
  <2>3. ASSUME NEW f \in S
        PROVE  NewId(f) \in ToSet(l)
    <3>1. PICK n \in 1..Len(t) : t[n] = NewId(f)
      BY <1>6
    <3>2. n + Len(list) \in 1..Len(l) /\ n + Len(list) > Len(list) /\ (n + Len(list)) - Len(list) = n
      BY <1>7, <1>8
    <3>3. l[n + Len(list)] = NewId(f)
      BY <3>1, <3>2, <1>10
    <3> QED
      BY <3>2, <3>3, <1>7, ToSetIsRange
  <2> QED
    BY <2>1, <2>2, <2>3
<1>12. ASSUME NEW m \in 1..Len(l), NEW n \in 1..Len(l), PathOf(l[m]) = PathOf(l[n])
       PROVE  m = n
  <2>1. CASE m <= Len(list) /\ n <= Len(list)
    BY <2>1, <1>8, <1>9, <1>12 DEF ListType
  <2>2. CASE m > Len(list) /\ n > Len(list)
    <3>1. order[m - Len(list)] = order[n - Len(list)]
      BY <2>2, <1>5, <1>10, <1>12
    <3>2. m - Len(list) = n - Len(list)
      BY <3>1, <2>2, <1>2, <1>4, <1>10
    <3> QED
      BY <3>2, <1>8
  <2>3. ASSUME NEW x \in 1..Len(list), NEW y \in 1..Len(l), y > Len(list)
        PROVE  PathOf(l[x]) # PathOf(l[y])
    <3>1. PathOf(l[x]) \in PathsOf(InList)
      BY <1>9 DEF PathsOf
    <3>2. PathOf(l[y]) \in S
      BY <2>3, <1>5, <1>10
    <3> QED
      BY <3>1, <3>2
  <2> QED
    BY <2>1, <2>2, <2>3, <1>8, <1>12
<1>13. ListType(o, l)
  BY <1>7, <1>12 DEF ListType
<1> QED
  BY <1>7, <1>8, <1>9, <1>11, <1>13 DEF l, t, o, ListWith

\* What is done object by object and leaves the graph of imports as it is.
SameGraph(o, p) ==
  /\ DOMAIN p = DOMAIN o
  /\ \A i \in DOMAIN o : /\ p[i].imports = o[i].imports /\ p[i].importedBy = o[i].importedBy
                        /\ p[i].deleted = o[i].deleted

LEMMA SameGraphIsTyped ==
  ASSUME NEW o, InfoType(o), NEW p, SameGraph(o, p), p \in [DOMAIN o -> Objects]
  PROVE  InfoType(p) /\ \A l : ListType(o, l) => ListType(p, l)
<1>1. DOMAIN p = DOMAIN o
  BY DEF SameGraph
<1>2. InfoType(p)
  BY <1>1 DEF InfoType, SameGraph
<1>3. \A l : ListType(o, l) => ListType(p, l)
  BY <1>1 DEF ListType
<1> QED
  BY <1>2, <1>3

\* Marks are all that differs.
SameButMarks(x, y) ==
  /\ y.tracked = x.tracked /\ y.doc = x.doc /\ y.parsed = x.parsed /\ y.hash = x.hash
  /\ y.found = x.found /\ y.deleted = x.deleted /\ y.imports = x.imports
  /\ y.importedBy = x.importedBy /\ y.diags = x.diags /\ y.seen = x.seen

LEMMA MarkIsTyped ==
  ASSUME NEW x \in Objects, NEW b \in BOOLEAN
  PROVE  /\ [x EXCEPT !.check = b] \in Objects
         /\ SameButMarks(x, [x EXCEPT !.check = b])
         /\ [x EXCEPT !.check = b].check = b /\ [x EXCEPT !.check = b].dirty = x.dirty
         /\ MarkDirty(x) \in Objects
         /\ SameButMarks(x, MarkDirty(x))
         /\ MarkDirty(x).check /\ MarkDirty(x).dirty
  BY DEF Objects, SameButMarks, MarkDirty

LEMMA MarkAboveEffect ==
  ASSUME NEW o, o \in [DOMAIN o -> Objects], NEW S
  PROVE  LET p == MarkAbove(o, S) IN
         /\ DOMAIN p = DOMAIN o /\ p \in [DOMAIN o -> Objects] /\ SameGraph(o, p)
         /\ \A j \in DOMAIN o :
              /\ SameButMarks(o[j], p[j])
              /\ p[j].dirty = o[j].dirty
              /\ p[j].check <=> o[j].check \/ \E i \in S : j \in Above(o, i)
<1> DEFINE above == UNION {Above(o, i) : i \in S}
           p == MarkAbove(o, S)
<1>1. DOMAIN p = DOMAIN o /\ \A j \in DOMAIN o : p[j] = [o[j] EXCEPT !.check = @ \/ j \in above]
  BY DEF MarkAbove
<1>2. \A j : j \in above <=> \E i \in S : j \in Above(o, i)
  OBVIOUS
<1> HIDE DEF above
<1>3. ASSUME NEW j \in DOMAIN o
      PROVE  /\ p[j] \in Objects /\ SameButMarks(o[j], p[j])
             /\ p[j].dirty = o[j].dirty
             /\ p[j].check <=> o[j].check \/ j \in above
  <2> DEFINE b == o[j].check \/ j \in above
  <2>1. o[j] \in Objects /\ b \in BOOLEAN
    OBVIOUS
  <2>2. p[j] = [o[j] EXCEPT !.check = b]
    BY <1>1
  <2>3. p[j] \in Objects /\ SameButMarks(o[j], p[j]) /\ p[j].dirty = o[j].dirty /\ p[j].check = b
    <3> HIDE DEF b, p
    <3> QED
      BY <2>1, <2>2, MarkIsTyped
  <2> QED
    BY <2>3
<1>4. p \in [DOMAIN o -> Objects]
  BY <1>1, <1>3 DEF MarkAbove
<1> QED
  BY <1>1, <1>2, <1>3, <1>4 DEF SameGraph, SameButMarks

LEMMA MarkFilesDirtyEffect ==
  ASSUME NEW o, InfoType(o), NEW S \in SUBSET DOMAIN o
  PROVE  LET p == MarkFilesDirty(o, S) IN
         /\ DOMAIN p = DOMAIN o /\ p \in [DOMAIN o -> Objects] /\ SameGraph(o, p)
         /\ \A j \in DOMAIN o :
              /\ SameButMarks(o[j], p[j])
              /\ p[j].dirty <=> o[j].dirty \/ j \in S
              /\ p[j].check <=> o[j].check \/ \E i \in S : j \in Above(o, i)
<1> DEFINE q == [k \in DOMAIN o |-> IF k \in S THEN MarkDirty(o[k]) ELSE o[k]]
           p == MarkAbove(q, S)
<1>1. p = MarkFilesDirty(o, S)
  BY DEF MarkFilesDirty
<1>2. DOMAIN q = DOMAIN o /\ \A k \in DOMAIN o : q[k] = IF k \in S THEN MarkDirty(o[k]) ELSE o[k]
  OBVIOUS
<1>3. ASSUME NEW k \in DOMAIN o
      PROVE  /\ q[k] \in Objects /\ SameButMarks(o[k], q[k])
             /\ q[k].dirty <=> o[k].dirty \/ k \in S
             /\ q[k].check <=> o[k].check \/ k \in S
  <2>0. o[k] \in Objects
    BY DEF InfoType
  <2>1. CASE k \in S
    BY <2>0, <2>1, <1>2, MarkIsTyped
  <2>2. CASE k \notin S
    BY <2>0, <2>2, <1>2 DEF SameButMarks
  <2> QED
    BY <2>1, <2>2
<1>4. q \in [DOMAIN q -> Objects]
  BY <1>2, <1>3
<1> HIDE DEF q
<1>5. /\ DOMAIN p = DOMAIN q /\ p \in [DOMAIN q -> Objects] /\ SameGraph(q, p)
      /\ \A j \in DOMAIN q :
           /\ SameButMarks(q[j], p[j])
           /\ p[j].dirty = q[j].dirty
           /\ p[j].check <=> q[j].check \/ \E i \in S : j \in Above(q, i)
  BY <1>4, MarkAboveEffect
<1> HIDE DEF p
<1>6. \A j \in DOMAIN o : SameButMarks(o[j], p[j])
  BY <1>2, <1>3, <1>5 DEF SameButMarks
<1>7. SameGraph(o, p)
  BY <1>2, <1>5, <1>6 DEF SameGraph, SameButMarks
<1>8. ASSUME NEW i \in S
      PROVE  i \in Above(o, i) /\ Above(q, i) = Above(o, i)
  <2>1. ImportersAreObjects(o) /\ i \in DOMAIN o
    BY DEF ImportersAreObjects, InfoType
  <2>2. \A j \in DOMAIN o : q[j].importedBy = o[j].importedBy
    BY <1>3 DEF SameButMarks
  <2> QED
    BY <1>2, <2>1, <2>2, AboveIsLeast, AboveIsSame
<1>9. /\ DOMAIN p = DOMAIN o /\ p \in [DOMAIN o -> Objects]
      /\ \A j \in DOMAIN o :
           /\ p[j].dirty <=> o[j].dirty \/ j \in S
           /\ p[j].check <=> o[j].check \/ \E i \in S : j \in Above(o, i)
  BY <1>2, <1>3, <1>5, <1>8
<1> QED
  BY <1>1, <1>6, <1>7, <1>9

\* Collecting keeps what is in the list and what that refers to.
LEMMA CollectEffect ==
  ASSUME NEW o, InfoType(o), ListType(o, list)
  PROVE  LET p == Collect(o) IN
         /\ DOMAIN p \subseteq DOMAIN o /\ InList \subseteq DOMAIN p
         /\ \A i \in DOMAIN p : p[i] = o[i]
         /\ InfoType(p) /\ ListType(p, list)
<1> DEFINE edges == [j \in DOMAIN o |-> o[j].imports \cup o[j].importedBy]
           reached == Closure(edges, InList)
           p == [i \in reached |-> o[i]]
<1>1. p = Collect(o)
  BY DEF Collect
<1>2. DOMAIN edges = DOMAIN o /\ (\A j \in DOMAIN o : edges[j] = o[j].imports \cup o[j].importedBy)
      /\ IsGraph(edges)
  BY DEF InfoType, IsGraph
<1>3. InList \subseteq DOMAIN edges
  BY <1>2, ToSetIsRange DEF ListType, InList
<1> HIDE DEF edges
<1>4. InList \subseteq reached /\ reached \subseteq DOMAIN edges /\ IsClosed(edges, reached)
  BY <1>2, <1>3, ClosureIsLeast
<1> HIDE DEF reached
<1>5. DOMAIN p = reached /\ \A i \in reached : p[i] = o[i]
  OBVIOUS
<1>6. p \in [DOMAIN p -> Objects] /\ DOMAIN p \subseteq ObjectIds
  BY <1>2, <1>4 DEF InfoType
<1> HIDE DEF p
<1>7. \A i \in DOMAIN p : p[i].imports \subseteq DOMAIN p /\ p[i].importedBy \subseteq DOMAIN p
  BY <1>2, <1>4, <1>5 DEF IsClosed
<1>8. InfoType(p)
  BY <1>6, <1>7 DEF InfoType
<1>9. ListType(p, list)
  <2>1. list \in Seq(DOMAIN o) /\ \A n \in 1..Len(list) : list[n] \in InList
    BY ToSetIsRange DEF ListType, InList
  <2>2. list \in Seq(DOMAIN p)
    BY <2>1, <1>4, <1>5
  <2> QED
    BY <2>2 DEF ListType
<1> QED
  BY <1>1, <1>2, <1>4, <1>5, <1>8, <1>9

LEMMA ClearedEffect ==
  ASSUME InfoType(info), NEW S
  PROVE  LET p == Cleared(S) IN
         /\ DOMAIN p = DOMAIN info /\ p \in [DOMAIN info -> Objects] /\ SameGraph(info, p)
         /\ \A j \in DOMAIN info :
              /\ p[j].tracked = info[j].tracked /\ p[j].doc = info[j].doc
              /\ p[j].dirty = info[j].dirty /\ p[j].check = info[j].check
              /\ p[j].parsed = info[j].parsed /\ p[j].hash = info[j].hash
              /\ p[j].found = info[j].found /\ p[j].seen = info[j].seen
              /\ p[j].diags = IF j \in S THEN "none" ELSE info[j].diags
<1> DEFINE p == Cleared(S)
<1>1. DOMAIN p = DOMAIN info
      /\ \A j \in DOMAIN info : p[j] = IF j \in S THEN [info[j] EXCEPT !.diags = "none"] ELSE info[j]
  BY DEF Cleared
<1>3. \A j \in DOMAIN info : info[j] \in Objects
  BY DEF InfoType
<1>5. ASSUME NEW j \in DOMAIN info
      PROVE  /\ p[j] \in Objects /\ p[j].tracked = info[j].tracked /\ p[j].doc = info[j].doc
             /\ p[j].dirty = info[j].dirty /\ p[j].check = info[j].check
             /\ p[j].parsed = info[j].parsed /\ p[j].hash = info[j].hash
             /\ p[j].found = info[j].found /\ p[j].seen = info[j].seen
             /\ p[j].deleted = info[j].deleted /\ p[j].imports = info[j].imports
             /\ p[j].importedBy = info[j].importedBy
             /\ p[j].diags = IF j \in S THEN "none" ELSE info[j].diags
  <2> HIDE DEF p
  <2>1. CASE j \in S
    <3>1. p[j] = [info[j] EXCEPT !.diags = "none"] /\ info[j] \in Objects
      BY <2>1, <1>1, <1>3
    <3> QED
      BY <2>1, <3>1 DEF Objects
  <2>2. CASE j \notin S
    BY <2>2, <1>1, <1>3
  <2> QED
    BY <2>1, <2>2
<1>4. p \in [DOMAIN info -> Objects]
  BY <1>1, <1>5 DEF Cleared
<1> HIDE DEF p
<1>6. SameGraph(info, p)
  BY <1>1, <1>5 DEF SameGraph
<1> QED
  BY <1>1, <1>4, <1>5, <1>6 DEF p

-----------------------------------------------------------------------------
(* Reading a file and taking up what it imports *)

Bound(i, order) ==
  StopTrackingIfGone(UpdateSourceFileImports(
    Read(InfoWith(ToBeAdded(i), FALSE), i), i, ListWith(order)), i)

DiskType == disk \in [Paths -> AllTexts \cup {Absent}]

ListingType == listing = Unread \/ listing \subseteq Paths

LEMMA TextIsTyped ==
  ASSUME DiskType, ListingType, InfoType(info), NEW i \in DOMAIN info
  PROVE  /\ TextOf(i) \in AllTexts \cup {Empty} /\ TextOf(i) # NoTree
         /\ FoundBy(i) \subseteq Paths
         /\ IsGone(i) => FoundBy(i) = {}
<1>1. i \in Paths \X Ages /\ info[i] \in Objects
  BY DEF InfoType, ObjectIds
<1>2. PathOf(i) \in Paths
  BY <1>1 DEF PathOf
<1>3. info[i].doc \in AllTexts \cup {Closed} /\ disk[PathOf(i)] \in AllTexts \cup {Absent}
  BY <1>1, <1>2 DEF Objects, DiskType
<1>4. TextOf(i) \in AllTexts \cup {Empty}
  BY <1>3 DEF TextOf, IsOpen, IsGone
<1>5. TextOf(i) # NoTree
  BY <1>4, TextsAssumption
<1>6. ImportsOf[TextOf(i)] \subseteq Paths
  BY <1>4, TextsAssumption
<1>7. IsGone(i) => TextOf(i) = Empty
  BY DEF IsGone, TextOf
<1> QED
  BY <1>4, <1>5, <1>6, <1>7, TextsAssumption DEF FoundBy

LEMMA ReadEffect ==
  ASSUME DiskType, ListingType, InfoType(info), NEW i \in DOMAIN info,
         NEW o, o \in [DOMAIN o -> Objects], i \in DOMAIN o, o[i] = info[i]
  PROVE  LET r == Read(o, i) IN
         /\ DOMAIN r = DOMAIN o /\ r \in [DOMAIN o -> Objects]
         /\ \A k \in DOMAIN o \ {i} : r[k] = o[k]
         /\ r[i].tracked = o[i].tracked /\ r[i].doc = o[i].doc /\ r[i].imports = o[i].imports
         /\ r[i].importedBy = o[i].importedBy /\ r[i].seen = o[i].seen
         /\ r[i].parsed = TextOf(i) /\ ~r[i].dirty /\ r[i].check /\ r[i].found = FoundBy(i)
         /\ r[i].deleted = IsGone(i)
         /\ r[i].hash = (IF IsOpen(info[i]) \/ IsGone(i) THEN o[i].hash ELSE TextOf(i))
         /\ r[i].diags = (IF o[i].diags = "current" THEN "old" ELSE o[i].diags)
<1> DEFINE hash == IF IsOpen(info[i]) \/ IsGone(i) THEN o[i].hash ELSE TextOf(i)
           diags == IF o[i].diags = "current" THEN "old" ELSE o[i].diags
           text == TextOf(i)
           found == FoundBy(i)
           gone == IsGone(i)
           x == [o[i] EXCEPT !.parsed = text, !.dirty = FALSE, !.check = TRUE,
                             !.found = found, !.hash = hash,
                             !.deleted = gone, !.diags = diags]
<1>1. o[i] \in Objects
  OBVIOUS
<1>2. text \in Texts /\ found \subseteq Paths /\ gone \in BOOLEAN
  BY TextIsTyped DEF IsGone, Texts
<1>3. hash \in Texts /\ diags \in {"none", "old", "current"}
  BY <1>1, <1>2 DEF Objects
<1>4. Read(o, i) = [o EXCEPT ![i] = x]
  BY DEF Read
<1>5. (IF IsOpen(info[i]) \/ IsGone(i) THEN o[i].hash ELSE TextOf(i)) = hash
      /\ (IF o[i].diags = "current" THEN "old" ELSE o[i].diags) = diags
      /\ TextOf(i) = text /\ FoundBy(i) = found /\ IsGone(i) = gone
  OBVIOUS
<1> HIDE DEF hash, diags, text, found, gone
<1>6. /\ x \in Objects /\ x.tracked = o[i].tracked /\ x.doc = o[i].doc /\ x.imports = o[i].imports
      /\ x.importedBy = o[i].importedBy /\ x.seen = o[i].seen /\ x.parsed = text
      /\ ~x.dirty /\ x.check /\ x.found = found /\ x.deleted = gone /\ x.hash = hash
      /\ x.diags = diags
  BY <1>1, <1>2, <1>3 DEF Objects
<1> HIDE DEF x
<1>7. DOMAIN [o EXCEPT ![i] = x] = DOMAIN o /\ [o EXCEPT ![i] = x] \in [DOMAIN o -> Objects]
      /\ [o EXCEPT ![i] = x][i] = x /\ \A k \in DOMAIN o \ {i} : [o EXCEPT ![i] = x][k] = o[k]
  BY <1>6
<1> QED
  BY <1>4, <1>5, <1>6, <1>7

\* What becomes of the ends of the imports of an object k when i is read.
ImportersAfter(o, i, l, k) ==
  IF k \in info[i].imports /\ PathOf(k) \notin FoundBy(i)
  THEN {j \in o[k].importedBy : PathOf(j) # PathOf(i)}
  ELSE IF k \in NewImporter(o, i, l) THEN o[k].importedBy \cup {i} ELSE o[k].importedBy

ImportsAfter(o, i, l, k) ==
  IF k = i THEN {j \in ToSet(l) : PathOf(j) \in FoundBy(i)} ELSE o[k].imports

LEMMA UpdateImportsEffect ==
  ASSUME NEW o, InfoType(o), NEW i \in DOMAIN o, NEW l, ListType(o, l),
         NEW u, u = UpdateSourceFileImports(o, i, l)
  PROVE  /\ InfoType(u) /\ DOMAIN u = DOMAIN o
         /\ \A k \in DOMAIN o :
              /\ u[k].tracked = o[k].tracked /\ u[k].doc = o[k].doc /\ u[k].dirty = o[k].dirty
              /\ u[k].check = o[k].check /\ u[k].parsed = o[k].parsed /\ u[k].hash = o[k].hash
              /\ u[k].found = o[k].found /\ u[k].deleted = o[k].deleted
              /\ u[k].diags = o[k].diags /\ u[k].seen = o[k].seen
              /\ u[k].imports = ImportsAfter(o, i, l, k)
              /\ u[k].importedBy = ImportersAfter(o, i, l, k)
<1> DEFINE by(k) == ImportersAfter(o, i, l, k)
           of(k) == ImportsAfter(o, i, l, k)
<1>1. /\ DOMAIN u = DOMAIN o
      /\ u = [k \in DOMAIN o |-> [o[k] EXCEPT !.importedBy = by(k), !.imports = of(k)]]
  BY DEF UpdateSourceFileImports, ImportersAfter, ImportsAfter
<1>2. ToSet(l) \subseteq DOMAIN o
  BY ToSetIsRange DEF ListType
<1>3. \A k \in DOMAIN o : by(k) \subseteq DOMAIN o /\ of(k) \subseteq DOMAIN o
  BY <1>2 DEF InfoType, ImportersAfter, ImportsAfter
<1>5. ASSUME NEW k \in DOMAIN o
      PROVE  /\ u[k] \in Objects /\ u[k].imports = of(k) /\ u[k].importedBy = by(k)
             /\ u[k].tracked = o[k].tracked /\ u[k].doc = o[k].doc /\ u[k].dirty = o[k].dirty
             /\ u[k].check = o[k].check /\ u[k].parsed = o[k].parsed /\ u[k].hash = o[k].hash
             /\ u[k].found = o[k].found /\ u[k].deleted = o[k].deleted
             /\ u[k].diags = o[k].diags /\ u[k].seen = o[k].seen
  <2>1. o[k] \in Objects /\ by(k) \in SUBSET ObjectIds /\ of(k) \in SUBSET ObjectIds
    BY <1>3 DEF InfoType
  <2>2. u[k] = [o[k] EXCEPT !.importedBy = by(k), !.imports = of(k)]
    BY <1>1
  <2> DEFINE B == by(k)
             I == of(k)
             y == [o[k] EXCEPT !.importedBy = B, !.imports = I]
  <2>3. u[k] = y
    BY <2>2
  <2>4. /\ y \in Objects
        /\ y.tracked = o[k].tracked /\ y.doc = o[k].doc /\ y.dirty = o[k].dirty
        /\ y.check = o[k].check /\ y.parsed = o[k].parsed /\ y.hash = o[k].hash
        /\ y.found = o[k].found /\ y.deleted = o[k].deleted /\ y.diags = o[k].diags
        /\ y.seen = o[k].seen /\ y.imports = I /\ y.importedBy = B
    <3>1. B \in SUBSET ObjectIds /\ I \in SUBSET ObjectIds
      BY <2>1
    <3> HIDE DEF B, I
    <3> QED
      BY <2>1, <3>1 DEF Objects
  <2> HIDE DEF y
  <2> QED
    BY <2>3, <2>4
<1>6. u \in [DOMAIN u -> Objects]
  <2> HIDE DEF by, of
  <2> QED
    BY <1>1, <1>5
<1>7. DOMAIN u \subseteq ObjectIds
  BY <1>1 DEF InfoType
<1>8. ASSUME NEW k \in DOMAIN u
      PROVE  u[k].imports \subseteq DOMAIN u /\ u[k].importedBy \subseteq DOMAIN u
  <2>1. k \in DOMAIN o
    BY <1>1
  <2>2. u[k].imports = of(k) /\ u[k].importedBy = by(k)
    BY <1>5, <2>1
  <2>3. by(k) \subseteq DOMAIN o /\ of(k) \subseteq DOMAIN o
    BY <1>3, <2>1
  <2> HIDE DEF by, of
  <2> QED
    BY <1>1, <2>2, <2>3
<1>9. InfoType(u)
  BY <1>6, <1>7, <1>8 DEF InfoType
<1> QED
  BY <1>1, <1>5, <1>9 DEF by, of

LEMMA StopTrackingEffect ==
  ASSUME NEW o, InfoType(o), NEW i \in DOMAIN o
  PROVE  LET p == StopTrackingIfGone(o, i) IN
         /\ DOMAIN p = DOMAIN o /\ p \in [DOMAIN o -> Objects] /\ SameGraph(o, p)
         /\ \A k \in DOMAIN o :
              /\ p[k].doc = o[k].doc /\ p[k].dirty = o[k].dirty /\ p[k].parsed = o[k].parsed
              /\ p[k].hash = o[k].hash /\ p[k].found = o[k].found /\ p[k].diags = o[k].diags
              /\ p[k].seen = o[k].seen
              /\ p[k].tracked <=> o[k].tracked /\ ~(k = i /\ IsGone(i))
              /\ p[k].check <=> o[k].check \/ (IsGone(i) /\ k \in Above(p, i))
<1> DEFINE p == StopTrackingIfGone(o, i)
<1>1. o \in [DOMAIN o -> Objects]
  BY DEF InfoType
<1>2. CASE ~IsGone(i)
  <2>1. p = o
    BY <1>2 DEF StopTrackingIfGone
  <2> HIDE DEF p
  <2>2. DOMAIN p = DOMAIN o /\ p \in [DOMAIN o -> Objects] /\ SameGraph(o, p)
    BY <1>1, <2>1 DEF SameGraph
  <2> QED
    BY <1>1, <1>2, <2>1, <2>2 DEF p, Objects
<1>3. CASE IsGone(i)
  <2> DEFINE x == [o[i] EXCEPT !.tracked = FALSE]
             q == [o EXCEPT ![i].tracked = FALSE]
  <2>1. p = MarkAbove(q, {i})
    BY <1>3 DEF StopTrackingIfGone
  <2>2. /\ x \in Objects /\ ~x.tracked /\ x.doc = o[i].doc /\ x.dirty = o[i].dirty
        /\ x.check = o[i].check /\ x.parsed = o[i].parsed /\ x.hash = o[i].hash
        /\ x.found = o[i].found /\ x.deleted = o[i].deleted /\ x.imports = o[i].imports
        /\ x.importedBy = o[i].importedBy /\ x.diags = o[i].diags /\ x.seen = o[i].seen
    <3>1. o[i] \in Objects
      BY <1>1
    <3> QED
      BY <3>1 DEF Objects
  <2>3. q = [o EXCEPT ![i] = x]
    OBVIOUS
  <2> HIDE DEF x, q
  <2>4. DOMAIN q = DOMAIN o /\ q[i] = x /\ \A k \in DOMAIN o \ {i} : q[k] = o[k]
    BY <1>1, <2>3
  <2>5. q \in [DOMAIN q -> Objects]
    BY <1>1, <2>2, <2>3
  <2>6. /\ DOMAIN p = DOMAIN q /\ p \in [DOMAIN q -> Objects] /\ SameGraph(q, p)
        /\ \A j \in DOMAIN q :
             /\ SameButMarks(q[j], p[j])
             /\ p[j].dirty = q[j].dirty
             /\ p[j].check <=> q[j].check \/ \E k \in {i} : j \in Above(q, k)
    <3> HIDE DEF p
    <3> QED
      BY <2>1, <2>5, MarkAboveEffect
  <2> HIDE DEF p
  <2>7. DOMAIN p = DOMAIN o /\ p \in [DOMAIN o -> Objects]
    BY <2>4, <2>6
  <2>8. SameGraph(o, p)
    BY <2>2, <2>4, <2>6 DEF SameGraph
  <2>9. Above(q, i) = Above(p, i)
    <3>1. ImportersAreObjects(p) /\ DOMAIN q = DOMAIN p
          /\ \A j \in DOMAIN p : q[j].importedBy = p[j].importedBy
      BY <2>2, <2>4, <2>6, <2>8 DEF ImportersAreObjects, SameGraph, InfoType
    <3> QED
      BY <3>1, <2>7, AboveIsSame
  <2>10. ASSUME NEW k \in DOMAIN o
         PROVE  /\ p[k].doc = o[k].doc /\ p[k].dirty = o[k].dirty /\ p[k].parsed = o[k].parsed
                /\ p[k].hash = o[k].hash /\ p[k].found = o[k].found /\ p[k].diags = o[k].diags
                /\ p[k].seen = o[k].seen
                /\ p[k].tracked <=> o[k].tracked /\ ~(k = i /\ IsGone(i))
                /\ p[k].check <=> o[k].check \/ (IsGone(i) /\ k \in Above(p, i))
    <3>1. /\ SameButMarks(q[k], p[k]) /\ p[k].dirty = q[k].dirty
          /\ p[k].check <=> q[k].check \/ k \in Above(p, i)
      BY <2>4, <2>6, <2>9
    <3>2. CASE k = i
      BY <3>1, <3>2, <2>2, <2>4, <1>3 DEF SameButMarks
    <3>3. CASE k # i
      BY <3>1, <3>3, <2>4, <1>3 DEF SameButMarks
    <3> QED
      BY <3>2, <3>3
  <2> QED
    BY <2>7, <2>8, <2>10 DEF p
<1> QED
  BY <1>2, <1>3

\* What Bind does if the file is needed and has to be parsed: objects are added for what is
\* imported and not in the list, the object read changes, and the ends of its imports.
Taken(i) ==
  /\ IsFileNeeded(info, i) /\ IsParseRequired(info[i])
  /\ InfoType(info') /\ ListType(info', list')
  /\ listing' = IF IsGone(i) THEN Unread ELSE Known
  /\ DOMAIN info \subseteq DOMAIN info'
  /\ Len(list') >= Len(list) /\ \A m \in 1..Len(list) : list'[m] = list[m]
  /\ InList' = InList \cup (DOMAIN info' \ DOMAIN info)
  /\ \A k \in DOMAIN info' \ DOMAIN info :
       /\ PathOf(k) \in ToBeAdded(i)
       /\ ~info'[k].tracked /\ info'[k].doc = Closed /\ info'[k].dirty /\ info'[k].check
       /\ info'[k].parsed = NoTree /\ info'[k].hash = NoTree /\ info'[k].found = {}
       /\ ~info'[k].deleted /\ info'[k].imports = {} /\ info'[k].importedBy = {i}
       /\ info'[k].diags = "none" /\ info'[k].seen = <<>>
  /\ \A k \in DOMAIN info :
       /\ info'[k].doc = info[k].doc /\ info'[k].seen = info[k].seen
       /\ info'[k].importedBy =
            IF k \in info[i].imports /\ PathOf(k) \notin FoundBy(i)
            THEN {j \in info[k].importedBy : PathOf(j) # PathOf(i)}
            ELSE IF k \in InList /\ PathOf(k) \in FoundBy(i) \ Kept(i)
            THEN info[k].importedBy \cup {i} ELSE info[k].importedBy
  /\ \A k \in DOMAIN info \ {i} :
       /\ info'[k].tracked = info[k].tracked /\ info'[k].dirty = info[k].dirty
       /\ info'[k].parsed = info[k].parsed /\ info'[k].hash = info[k].hash
       /\ info'[k].found = info[k].found /\ info'[k].deleted = info[k].deleted
       /\ info'[k].diags = info[k].diags /\ info'[k].imports = info[k].imports
       /\ info'[k].check <=> info[k].check \/ (IsGone(i) /\ k \in Above(info', i))
  /\ info'[i].tracked <=> info[i].tracked /\ ~IsGone(i)
  /\ ~info'[i].dirty /\ info'[i].check /\ info'[i].parsed = TextOf(i)
  /\ info'[i].found = FoundBy(i) /\ info'[i].deleted = IsGone(i)
  /\ info'[i].hash = (IF IsOpen(info[i]) \/ IsGone(i) THEN info[i].hash ELSE TextOf(i))
  /\ info'[i].diags = (IF info[i].diags = "current" THEN "old" ELSE info[i].diags)
  /\ info'[i].imports = {j \in InList' : PathOf(j) \in FoundBy(i)}

LEMMA BindEffect ==
  ASSUME DiskType, ListingType, InfoType(info), ListType(info, list),
         NEW i \in DOMAIN info, Bind(i)
  PROVE  \/ UNCHANGED program /\ ~(IsFileNeeded(info, i) /\ IsParseRequired(info[i]))
         \/ Taken(i)
<1> SUFFICES ASSUME IsFileNeeded(info, i), IsParseRequired(info[i])
             PROVE  Taken(i)
  BY DEF Bind
<1>1. HasRoom(ToBeAdded(i)) /\ listing' = (IF IsGone(i) THEN Unread ELSE Known)
  BY DEF Bind
<1>2. PICK order \in Orders(ToBeAdded(i)) :
        /\ list' = ListWith(order)
        /\ info' = StopTrackingIfGone(UpdateSourceFileImports(
                     Read(InfoWith(ToBeAdded(i), FALSE), i), i, ListWith(order)), i)
  BY DEF Bind
<1> DEFINE S == ToBeAdded(i)
           l == ListWith(order)
           o == InfoWith(S, FALSE)
           r == Read(o, i)
           u == UpdateSourceFileImports(r, i, l)
<1>3. S \in SUBSET Paths /\ S \cap PathsOf(InList) = {} /\ S \subseteq FoundBy(i) \ Kept(i)
  BY TextIsTyped DEF ToBeAdded
<1>4. /\ \A f \in S : NewId(f) \in ObjectIds \ DOMAIN info /\ PathOf(NewId(f)) = f
      /\ DOMAIN o = DOMAIN info \cup {NewId(f) : f \in S}
      /\ \A k \in DOMAIN info : o[k] = info[k]
      /\ \A k \in DOMAIN o \ DOMAIN info : o[k] = Object(FALSE)
      /\ InfoType(o)
  BY <1>1, <1>3, NewObjects
<1>5. /\ ListType(o, l)
      /\ Len(l) >= Len(list) /\ \A m \in 1..Len(list) : l[m] = list[m]
      /\ ToSet(l) = InList \cup {NewId(f) : f \in S}
  BY <1>1, <1>3, NewList
<1> HIDE DEF o
<1>6. o \in [DOMAIN o -> Objects] /\ i \in DOMAIN o /\ o[i] = info[i]
  BY <1>4 DEF InfoType
<1>7. /\ DOMAIN r = DOMAIN o /\ r \in [DOMAIN o -> Objects]
      /\ \A k \in DOMAIN o \ {i} : r[k] = o[k]
      /\ r[i].tracked = o[i].tracked /\ r[i].doc = o[i].doc /\ r[i].imports = o[i].imports
      /\ r[i].importedBy = o[i].importedBy /\ r[i].seen = o[i].seen
      /\ r[i].parsed = TextOf(i) /\ ~r[i].dirty /\ r[i].check /\ r[i].found = FoundBy(i)
      /\ r[i].deleted = IsGone(i)
      /\ r[i].hash = (IF IsOpen(info[i]) \/ IsGone(i) THEN o[i].hash ELSE TextOf(i))
      /\ r[i].diags = (IF o[i].diags = "current" THEN "old" ELSE o[i].diags)
  BY <1>6, ReadEffect
<1> HIDE DEF r
<1>8. \A k \in DOMAIN o : r[k].imports = o[k].imports /\ r[k].importedBy = o[k].importedBy
  BY <1>7
<1>9. InfoType(r)
  BY <1>4, <1>7, <1>8 DEF InfoType
<1>10. ListType(r, l)
  BY <1>5, <1>7 DEF ListType
<1>11. /\ InfoType(u) /\ DOMAIN u = DOMAIN r
       /\ \A k \in DOMAIN r :
            /\ u[k].tracked = r[k].tracked /\ u[k].doc = r[k].doc /\ u[k].dirty = r[k].dirty
            /\ u[k].check = r[k].check /\ u[k].parsed = r[k].parsed /\ u[k].hash = r[k].hash
            /\ u[k].found = r[k].found /\ u[k].deleted = r[k].deleted
            /\ u[k].diags = r[k].diags /\ u[k].seen = r[k].seen
            /\ u[k].imports = ImportsAfter(r, i, l, k)
            /\ u[k].importedBy = ImportersAfter(r, i, l, k)
  <2>1. i \in DOMAIN r /\ u = UpdateSourceFileImports(r, i, l)
    BY <1>6, <1>7
  <2> HIDE DEF u, l
  <2> QED
    BY <2>1, <1>9, <1>10, UpdateImportsEffect
<1>12. info' = StopTrackingIfGone(u, i) /\ list' = l
  BY <1>2 DEF r, o
<1> HIDE DEF u, l, S
<1>13. /\ DOMAIN info' = DOMAIN u /\ info' \in [DOMAIN u -> Objects] /\ SameGraph(u, info')
       /\ \A k \in DOMAIN u :
            /\ info'[k].doc = u[k].doc /\ info'[k].dirty = u[k].dirty
            /\ info'[k].parsed = u[k].parsed /\ info'[k].hash = u[k].hash
            /\ info'[k].found = u[k].found /\ info'[k].diags = u[k].diags
            /\ info'[k].seen = u[k].seen
            /\ info'[k].tracked <=> u[k].tracked /\ ~(k = i /\ IsGone(i))
            /\ info'[k].check <=> u[k].check \/ (IsGone(i) /\ k \in Above(info', i))
  BY <1>6, <1>7, <1>11, <1>12, StopTrackingEffect
<1>14. InfoType(info') /\ ListType(info', list')
  <2>1. ListType(u, l)
    BY <1>10, <1>11 DEF ListType
  <2> QED
    BY <1>11, <1>12, <1>13, <2>1, SameGraphIsTyped
<1>15. DOMAIN info' = DOMAIN info \cup {NewId(f) : f \in S} /\ DOMAIN info' = DOMAIN o
       /\ DOMAIN info' = DOMAIN r /\ DOMAIN info' = DOMAIN u
  BY <1>4, <1>7, <1>11, <1>13
<1>16. InList' = InList \cup (DOMAIN info' \ DOMAIN info) /\ InList' = ToSet(l)
  <2>1. InList \subseteq DOMAIN info
    BY ToSetIsRange DEF InList, ListType
  <2>2. InList' = ToSet(l)
    BY <1>12 DEF InList
  <2> QED
    BY <2>1, <2>2, <1>4, <1>5, <1>15
<1>17. Len(list') >= Len(list) /\ \A m \in 1..Len(list) : list'[m] = list[m]
  BY <1>5, <1>12
<1>18. ASSUME NEW k \in DOMAIN info'
       PROVE  /\ info'[k].imports = u[k].imports /\ info'[k].importedBy = u[k].importedBy
              /\ info'[k].deleted = u[k].deleted
  BY <1>13, <1>15 DEF SameGraph
<1>19. ASSUME NEW k \in DOMAIN info
       PROVE  k \in NewImporter(r, i, l) <=> k \in InList /\ PathOf(k) \in FoundBy(i) \ Kept(i)
  BY <1>16 DEF NewImporter
<1>20. ASSUME NEW k \in DOMAIN info' \ DOMAIN info
       PROVE  /\ PathOf(k) \in ToBeAdded(i)
              /\ ~info'[k].tracked /\ info'[k].doc = Closed /\ info'[k].dirty /\ info'[k].check
              /\ info'[k].parsed = NoTree /\ info'[k].hash = NoTree /\ info'[k].found = {}
              /\ ~info'[k].deleted /\ info'[k].imports = {} /\ info'[k].importedBy = {i}
              /\ info'[k].diags = "none" /\ info'[k].seen = <<>>
  <2>1. PathOf(k) \in S /\ k \in ToSet(l) /\ k # i /\ k \in DOMAIN o
    BY <1>4, <1>15, <1>16
  <2>2. k \in NewImporter(r, i, l) /\ k \notin info[i].imports /\ k # i
    BY <2>1, <1>3 DEF NewImporter, InfoType
  <2>3. r[k] = Object(FALSE)
    BY <2>1, <1>4, <1>7
  <2>4. /\ ~r[k].tracked /\ r[k].doc = Closed /\ r[k].dirty /\ r[k].check
        /\ r[k].parsed = NoTree /\ r[k].hash = NoTree /\ r[k].found = {}
        /\ ~r[k].deleted /\ r[k].imports = {} /\ r[k].importedBy = {}
        /\ r[k].diags = "none" /\ r[k].seen = <<>>
    BY <2>3 DEF Object
  <2>5. /\ ~u[k].tracked /\ u[k].doc = Closed /\ u[k].dirty /\ u[k].check
        /\ u[k].parsed = NoTree /\ u[k].hash = NoTree /\ u[k].found = {}
        /\ ~u[k].deleted /\ u[k].imports = {} /\ u[k].importedBy = {i}
        /\ u[k].diags = "none" /\ u[k].seen = <<>>
    BY <2>1, <2>2, <2>4, <1>7, <1>11 DEF ImportersAfter, ImportsAfter
  <2> QED
    BY <2>1, <2>5, <1>13, <1>15, <1>18 DEF S
<1>21. ASSUME NEW k \in DOMAIN info
       PROVE  /\ info'[k].doc = info[k].doc /\ info'[k].seen = info[k].seen
              /\ info'[k].importedBy =
                   IF k \in info[i].imports /\ PathOf(k) \notin FoundBy(i)
                   THEN {j \in info[k].importedBy : PathOf(j) # PathOf(i)}
                   ELSE IF k \in InList /\ PathOf(k) \in FoundBy(i) \ Kept(i)
                   THEN info[k].importedBy \cup {i} ELSE info[k].importedBy
  <2>1. k \in DOMAIN info' /\ k \in DOMAIN u /\ k \in DOMAIN r /\ o[k] = info[k] /\ k \in DOMAIN o
    BY <1>4, <1>15
  <2>2. r[k].doc = info[k].doc /\ r[k].seen = info[k].seen /\ r[k].importedBy = info[k].importedBy
    BY <2>1, <1>7, <1>8
  <2>3. u[k].doc = info[k].doc /\ u[k].seen = info[k].seen
    BY <2>1, <2>2, <1>11
  <2>4. info'[k].doc = info[k].doc /\ info'[k].seen = info[k].seen
    BY <2>1, <2>3, <1>13
  <2>5. u[k].importedBy =
          IF k \in info[i].imports /\ PathOf(k) \notin FoundBy(i)
          THEN {j \in r[k].importedBy : PathOf(j) # PathOf(i)}
          ELSE IF k \in NewImporter(r, i, l) THEN r[k].importedBy \cup {i}
          ELSE r[k].importedBy
    BY <2>1, <1>11 DEF ImportersAfter
  <2>6. info'[k].importedBy = u[k].importedBy
    BY <2>1, <1>18
  <2> QED
    BY <2>2, <2>4, <2>5, <2>6, <1>19
<1>22. ASSUME NEW k \in DOMAIN info \ {i}
       PROVE  /\ info'[k].tracked = info[k].tracked /\ info'[k].dirty = info[k].dirty
              /\ info'[k].parsed = info[k].parsed /\ info'[k].hash = info[k].hash
              /\ info'[k].found = info[k].found /\ info'[k].deleted = info[k].deleted
              /\ info'[k].diags = info[k].diags /\ info'[k].imports = info[k].imports
              /\ info'[k].check <=> info[k].check \/ (IsGone(i) /\ k \in Above(info', i))
  <2>1. k \in DOMAIN info' /\ k \in DOMAIN u /\ k \in DOMAIN r /\ r[k] = info[k]
    BY <1>4, <1>7, <1>15
  <2>2. info'[k].tracked \in BOOLEAN /\ info[k].tracked \in BOOLEAN
    BY <2>1, <1>14 DEF InfoType, Objects
  <2>3. /\ u[k].tracked = info[k].tracked /\ u[k].dirty = info[k].dirty
        /\ u[k].parsed = info[k].parsed /\ u[k].hash = info[k].hash
        /\ u[k].found = info[k].found /\ u[k].deleted = info[k].deleted
        /\ u[k].diags = info[k].diags /\ u[k].check = info[k].check
    <3>1. /\ u[k].tracked = r[k].tracked /\ u[k].dirty = r[k].dirty
          /\ u[k].parsed = r[k].parsed /\ u[k].hash = r[k].hash
          /\ u[k].found = r[k].found /\ u[k].deleted = r[k].deleted
          /\ u[k].diags = r[k].diags /\ u[k].check = r[k].check
      BY <2>1, <1>11
    <3> QED
      BY <2>1, <3>1
  <2>4. /\ info'[k].dirty = u[k].dirty /\ info'[k].parsed = u[k].parsed
        /\ info'[k].hash = u[k].hash /\ info'[k].found = u[k].found
        /\ info'[k].diags = u[k].diags
        /\ info'[k].tracked <=> u[k].tracked
        /\ info'[k].check <=> u[k].check \/ (IsGone(i) /\ k \in Above(info', i))
    BY <2>1, <1>13
  <2>5. u[k].imports = r[k].imports
    BY <2>1, <1>11 DEF ImportsAfter
  <2>6. info'[k].deleted = info[k].deleted /\ info'[k].imports = info[k].imports
    BY <2>1, <2>3, <2>5, <1>18
  <2> QED
    BY <2>2, <2>3, <2>4, <2>6
<1>23. /\ info'[i].tracked <=> info[i].tracked /\ ~IsGone(i)
       /\ ~info'[i].dirty /\ info'[i].check /\ info'[i].parsed = TextOf(i)
       /\ info'[i].found = FoundBy(i) /\ info'[i].deleted = IsGone(i)
       /\ info'[i].hash = (IF IsOpen(info[i]) \/ IsGone(i) THEN info[i].hash ELSE TextOf(i))
       /\ info'[i].diags = (IF info[i].diags = "current" THEN "old" ELSE info[i].diags)
       /\ info'[i].imports = {j \in InList' : PathOf(j) \in FoundBy(i)}
  <2>1. i \in DOMAIN info' /\ i \in DOMAIN u /\ i \in DOMAIN r
    BY <1>15
  <2>2. /\ info'[i].tracked <=> u[i].tracked /\ ~IsGone(i)
        /\ info'[i].dirty = u[i].dirty /\ info'[i].parsed = u[i].parsed
        /\ info'[i].found = u[i].found /\ info'[i].hash = u[i].hash
        /\ info'[i].diags = u[i].diags
        /\ info'[i].check <=> u[i].check \/ (IsGone(i) /\ i \in Above(info', i))
    BY <2>1, <1>13
  <2>3. info'[i].imports = {j \in InList' : PathOf(j) \in FoundBy(i)}
    BY <2>1, <1>11, <1>16, <1>18 DEF ImportsAfter
  <2>4. info'[i].deleted = IsGone(i)
    BY <2>1, <1>7, <1>11, <1>18
  <2>5. /\ u[i].tracked = r[i].tracked /\ u[i].dirty = r[i].dirty /\ u[i].check = r[i].check
        /\ u[i].parsed = r[i].parsed /\ u[i].found = r[i].found /\ u[i].hash = r[i].hash
        /\ u[i].diags = r[i].diags
    BY <2>1, <1>11
  <2> QED
    BY <2>2, <2>3, <2>4, <2>5, <1>6, <1>7
<1> QED
  BY <1>1, <1>14, <1>15, <1>16, <1>17, <1>20, <1>21, <1>22, <1>23 DEF Taken

-----------------------------------------------------------------------------
(* Types *)

LEMMA Listed ==
  ASSUME NEW o, NEW l, ListType(o, l)
  PROVE  /\ ToSet(l) \subseteq DOMAIN o
         /\ \A n \in 1..Len(l) : l[n] \in ToSet(l)
         /\ \A i \in ToSet(l) : \E n \in 1..Len(l) : l[n] = i
         /\ \A i, j \in ToSet(l) : PathOf(i) = PathOf(j) => i = j
         /\ Len(l) \in Nat
<1>1. l \in Seq(DOMAIN o)
  BY DEF ListType
<1>2. ToSet(l) \subseteq DOMAIN o /\ \A x : x \in ToSet(l) <=> \E n \in 1..Len(l) : l[n] = x
  BY <1>1, ToSetIsRange
<1>3. Len(l) \in Nat
  BY <1>1
<1> QED
  BY <1>2, <1>3 DEF ListType

LEMMA TurnsAreTyped ==
  ASSUME NEW then \in {"rest", "pass", "report"}
  PROVE  /\ Idle \in Turns /\ Idle.at = "idle"
         /\ Removing(then) \in Turns /\ Removing(then).at = "remove"
         /\ Removing(then).left = {} /\ Removing(then).then = then /\ Removing(then).n = 1
         /\ Removing(then).file = <<>> /\ ~Removing(then).more /\ ~Removing(then).gone
         /\ Removing(then).opened = {} /\ Removing(then).before = {}
<1>1. <<>> \in Seens
  <2>1. <<>> \in [{} -> Texts]
    OBVIOUS
  <2> QED
    BY <2>1 DEF Seens
<1>2. Idle \in Turns /\ Idle.at = "idle"
  BY <1>1 DEF Idle, Turns
<1> QED
  BY <1>1, <1>2 DEF Removing, Idle, Turns

LEMMA PassIsTyped ==
  ASSUME NEW o, InfoType(o), ListType(o, list)
  PROVE  /\ Pass(o) \in Turns /\ Pass(o).at = "pass" /\ Pass(o).n = 1
         /\ Pass(o).opened = OpenFiles(o) /\ Pass(o).before = FilesToAnalyze(o)
         /\ ~Pass(o).gone /\ ~Pass(o).more /\ Pass(o).left = {}
<1>1. OpenFiles(o) \subseteq ObjectIds /\ FilesToAnalyze(o) \subseteq ObjectIds
  BY Listed DEF OpenFiles, FilesToAnalyze, InList, InfoType
<1> DEFINE x == OpenFiles(o)
           y == FilesToAnalyze(o)
<1>2. Pass(o) = [Idle EXCEPT !.at = "pass", !.opened = x, !.before = y]
  BY DEF Pass
<1>3. x \subseteq ObjectIds /\ y \subseteq ObjectIds /\ x = OpenFiles(o) /\ y = FilesToAnalyze(o)
  BY <1>1
<1> HIDE DEF x, y
<1>4. <<>> \in Seens
  <2>1. <<>> \in [{} -> Texts]
    OBVIOUS
  <2> QED
    BY <2>1 DEF Seens
<1>5. Pass(o) = [at |-> "pass", n |-> 1, file |-> <<>>, todo |-> {}, seen |-> <<>>, left |-> {},
                 then |-> "rest", opened |-> x, before |-> y, gone |-> FALSE, more |-> FALSE]
  BY <1>2 DEF Idle
<1>6. Pass(o) \in Turns
  BY <1>3, <1>4, <1>5 DEF Turns
<1> QED
  BY <1>3, <1>5, <1>6

LEMMA RemovalBegins ==
  ASSUME turn' \in Turns, turn'.at = "remove", turn'.left = {}, turn'.n = 1,
         ListType(info', list')
  PROVE  TurnType'
<1>1. Len(list') \in Nat
  BY Listed
<1> QED
  BY <1>1 DEF TurnType

LEMMA TypesInit == Init => Types
<1> SUFFICES ASSUME Init PROVE Types
  OBVIOUS
<1> DEFINE S == SourcesOnDisk
<1>1. DiskType
  BY TextsAssumption DEF Init, DiskType
<1>2. S \subseteq Paths /\ IsFiniteSet(S)
  BY TextsAssumption, FS_Subset DEF SourcesOnDisk
<1>3. PICK order \in Orders(S) : list = [n \in DOMAIN order |-> <<order[n], FirstAge>>]
  BY DEF Init
<1>4. /\ order \in Seq(S)
      /\ \A m, n \in DOMAIN order : order[m] = order[n] => m = n
      /\ ToSet(order) = S
  BY <1>2, OrdersAreSequences
<1>5. FirstAge \in Ages
  BY TextsAssumption DEF FirstAge
<1>6. /\ DOMAIN info = S \X {FirstAge}
      /\ \A i \in DOMAIN info : info[i] = Object(TRUE)
      /\ info \in [DOMAIN info -> Objects]
  <2>1. info = [i \in S \X {FirstAge} |-> Object(TRUE)]
    BY DEF Init
  <2>2. Object(TRUE) \in Objects
    BY NewObjectIsTyped
  <2> HIDE DEF S
  <2> QED
    BY <2>1, <2>2
<1> HIDE DEF S
<1>7. InfoType(info)
  <2>1. DOMAIN info \subseteq ObjectIds
    BY <1>2, <1>5, <1>6 DEF ObjectIds
  <2>2. Object(TRUE).imports = {} /\ Object(TRUE).importedBy = {}
    BY DEF Object
  <2>3. \A i \in DOMAIN info : info[i].imports = {} /\ info[i].importedBy = {}
    BY <1>6, <2>2
  <2>4. info \in [DOMAIN info -> Objects]
    BY <1>6
  <2> QED
    BY <2>1, <2>3, <2>4 DEF InfoType
<1>8. ListType(info, list)
  <2>1. list \in Seq(DOMAIN info) /\ Len(list) = Len(order) /\ DOMAIN order = 1..Len(order)
    BY <1>3, <1>4, <1>6
  <2>2. \A n \in 1..Len(list) : PathOf(list[n]) = order[n]
    BY <1>3, <2>1 DEF PathOf
  <2> QED
    BY <2>1, <2>2, <1>4 DEF ListType
<1>9. TurnType
  BY TurnsAreTyped DEF Init, TurnType
<1>10. events \in [Paths -> {"none", "change", "rename"}]
  BY DEF Init
<1> QED
  BY <1>1, <1>7, <1>8, <1>9, <1>10 DEF Init, Types, DiskType

\* The parts of Types that few steps change.
RestType ==
  /\ events \in [Paths -> {"none", "change", "rename"}]
  /\ timer \in BOOLEAN /\ update \in BOOLEAN
  /\ shown \subseteq Paths /\ unmarked \subseteq Paths /\ hurried \subseteq Paths
  /\ failed \subseteq {"importedBy", "filesLeft"}

LEMMA TypesParts ==
  Types <=> /\ DiskType /\ RestType /\ ListingType /\ InfoType(info) /\ ListType(info, list)
            /\ TurnType
  BY DEF Types, DiskType, RestType, ListingType

LEMMA PathsAreTyped ==
  ASSUME NEW S \in SUBSET ObjectIds
  PROVE  PathsOf(S) \subseteq Paths
  BY DEF PathsOf, PathOf, ObjectIds

LEMMA TypesEnvironment ==
  ASSUME Types, Environment
  PROVE  Types'
<1>1. PICK f \in Paths, text \in AllTexts \cup {Absent} :
        Put(f, text) /\ \E event \in {"change", "rename"} : Tell(f, event)
  BY DEF Environment, Write, Create, Delete, AllTexts
<1>2. DiskType'
  BY <1>1 DEF Put, Types, DiskType
<1>3. events' \in [Paths -> {"none", "change", "rename"}]
  BY <1>1 DEF Tell, Types
<1>4. TurnType'
  BY <1>1 DEF Put, Types, TurnType, program, InList
<1> QED
  BY <1>1, <1>2, <1>3, <1>4 DEF Put, Types, DiskType, program, histories

LEMMA SetTrackedEffect ==
  ASSUME Types, SetTracked
  PROVE  /\ InfoType(info') /\ ListType(info', list')
         /\ DOMAIN info \subseteq DOMAIN info'
         /\ InList' = InList \cup (DOMAIN info' \ DOMAIN info)
         /\ \A f \in SourcesOnDisk \ PathsOf(InList) :
              \E k \in DOMAIN info' \ DOMAIN info : PathOf(k) = f
         /\ \A k \in DOMAIN info' \ DOMAIN info :
              /\ PathOf(k) \in SourcesOnDisk \ PathsOf(InList)
              /\ info'[k].tracked /\ info'[k].doc = Closed /\ ~info'[k].deleted
              /\ info'[k].dirty /\ info'[k].check /\ info'[k].parsed = NoTree
              /\ info'[k].hash = NoTree /\ info'[k].diags = "none"
              /\ info'[k].imports = {} /\ info'[k].importedBy = {}
         /\ \A k \in DOMAIN info :
              /\ info'[k].tracked = (IF k \in InList THEN PathOf(k) \in SourcesOnDisk
                                    ELSE info[k].tracked)
              /\ info'[k].doc = info[k].doc /\ info'[k].dirty = info[k].dirty
              /\ info'[k].check = info[k].check /\ info'[k].parsed = info[k].parsed
              /\ info'[k].hash = info[k].hash /\ info'[k].found = info[k].found
              /\ info'[k].deleted = info[k].deleted /\ info'[k].imports = info[k].imports
              /\ info'[k].importedBy = info[k].importedBy /\ info'[k].diags = info[k].diags
              /\ info'[k].seen = info[k].seen
<1> DEFINE S == SourcesOnDisk \ PathsOf(InList)
           o == InfoWith(S, TRUE)
<1>1. S \in SUBSET Paths /\ S \cap PathsOf(InList) = {} /\ HasRoom(S)
  BY TextsAssumption DEF SourcesOnDisk, SetTracked
<1>2. PICK order \in Orders(S) : list' = ListWith(order)
  BY DEF SetTracked
<1>3. /\ \A f \in S : NewId(f) \in ObjectIds \ DOMAIN info /\ PathOf(NewId(f)) = f
      /\ DOMAIN o = DOMAIN info \cup {NewId(f) : f \in S}
      /\ \A k \in DOMAIN info : o[k] = info[k]
      /\ \A k \in DOMAIN o \ DOMAIN info : o[k] = Object(TRUE)
      /\ InfoType(o)
  BY <1>1, NewObjects DEF Types
<1>4. ListType(o, list') /\ ToSet(list') = InList \cup {NewId(f) : f \in S}
  BY <1>1, <1>2, NewList DEF Types
<1>5. info' = [i \in DOMAIN o |->
                 IF i \in InList THEN [o[i] EXCEPT !.tracked = PathOf(i) \in SourcesOnDisk]
                 ELSE o[i]]
  BY DEF SetTracked
<1> HIDE DEF o
<1>6. ASSUME NEW i \in DOMAIN o
      PROVE  /\ info'[i] \in Objects
             /\ info'[i].tracked = (IF i \in InList THEN PathOf(i) \in SourcesOnDisk
                                   ELSE o[i].tracked)
             /\ info'[i].doc = o[i].doc /\ info'[i].dirty = o[i].dirty
             /\ info'[i].check = o[i].check /\ info'[i].parsed = o[i].parsed
             /\ info'[i].hash = o[i].hash /\ info'[i].found = o[i].found
             /\ info'[i].deleted = o[i].deleted /\ info'[i].imports = o[i].imports
             /\ info'[i].importedBy = o[i].importedBy /\ info'[i].diags = o[i].diags
             /\ info'[i].seen = o[i].seen
  <2> DEFINE b == PathOf(i) \in SourcesOnDisk
  <2>1. b \in BOOLEAN /\ o[i] \in Objects /\ b = (PathOf(i) \in SourcesOnDisk)
    BY <1>3 DEF InfoType
  <2>2. info'[i] = IF i \in InList THEN [o[i] EXCEPT !.tracked = b] ELSE o[i]
    BY <1>5
  <2> HIDE DEF b
  <2>3. CASE i \in InList
    <3>1. info'[i] = [o[i] EXCEPT !.tracked = b]
      BY <2>2, <2>3
    <3> QED
      BY <2>1, <2>3, <3>1 DEF Objects
  <2>4. CASE i \notin InList
    BY <2>1, <2>2, <2>4
  <2> QED
    BY <2>3, <2>4
<1>7. DOMAIN info' = DOMAIN o /\ info' \in [DOMAIN o -> Objects]
  BY <1>5, <1>6
<1>8. SameGraph(o, info')
  BY <1>6, <1>7 DEF SameGraph
<1>9. InfoType(info') /\ ListType(info', list')
  BY <1>3, <1>4, <1>7, <1>8, SameGraphIsTyped
<1>10. InList' = InList \cup (DOMAIN info' \ DOMAIN info) /\ InList \subseteq DOMAIN info
  BY <1>3, <1>4, <1>7, Listed DEF Types, InList
<1>11. ASSUME NEW k \in DOMAIN info' \ DOMAIN info
       PROVE  /\ PathOf(k) \in S
              /\ info'[k].tracked /\ info'[k].doc = Closed /\ ~info'[k].deleted
              /\ info'[k].dirty /\ info'[k].check /\ info'[k].parsed = NoTree
              /\ info'[k].hash = NoTree /\ info'[k].diags = "none"
              /\ info'[k].imports = {} /\ info'[k].importedBy = {}
  <2>1. PathOf(k) \in S /\ k \in DOMAIN o /\ k \notin InList /\ o[k] = Object(TRUE)
    <3> HIDE DEF S
    <3>1. PICK f \in S : k = NewId(f)
      BY <1>3, <1>7
    <3> QED
      BY <3>1, <1>3, <1>7, <1>10
  <2>2. /\ o[k].tracked /\ o[k].doc = Closed /\ ~o[k].deleted
        /\ o[k].dirty /\ o[k].check /\ o[k].parsed = NoTree
        /\ o[k].hash = NoTree /\ o[k].diags = "none"
        /\ o[k].imports = {} /\ o[k].importedBy = {}
    BY <2>1 DEF Object
  <2> QED
    BY <2>1, <2>2, <1>6
<1>12. ASSUME NEW k \in DOMAIN info
       PROVE  /\ info'[k].tracked = (IF k \in InList THEN PathOf(k) \in SourcesOnDisk
                                    ELSE info[k].tracked)
              /\ info'[k].doc = info[k].doc /\ info'[k].dirty = info[k].dirty
              /\ info'[k].check = info[k].check /\ info'[k].parsed = info[k].parsed
              /\ info'[k].hash = info[k].hash /\ info'[k].found = info[k].found
              /\ info'[k].deleted = info[k].deleted /\ info'[k].imports = info[k].imports
              /\ info'[k].importedBy = info[k].importedBy /\ info'[k].diags = info[k].diags
              /\ info'[k].seen = info[k].seen
  <2>1. k \in DOMAIN o /\ o[k] = info[k]
    BY <1>3
  <2> QED
    BY <2>1, <1>6
<1>13. \A f \in S : \E k \in DOMAIN info' \ DOMAIN info : PathOf(k) = f
  BY <1>3, <1>7
<1> QED
  BY <1>3, <1>7, <1>9, <1>10, <1>11, <1>12, <1>13

LEMMA TypesAnalyzeTimer ==
  ASSUME Types, AnalyzeTimer
  PROVE  Types'
<1>1. CASE update
  <2>1. SetTracked /\ turn' = Removing("pass")
    BY <1>1 DEF AnalyzeTimer
  <2>2. InfoType(info') /\ ListType(info', list')
    BY <2>1, SetTrackedEffect
  <2>3. TurnType'
    BY <2>1, <2>2, TurnsAreTyped, RemovalBegins
  <2> QED
    BY <2>2, <2>3 DEF AnalyzeTimer, Types, histories
<1>2. CASE ~update
  <2>1. turn' = Pass(info) /\ UNCHANGED <<info, list>>
    BY <1>2 DEF AnalyzeTimer
  <2>2. TurnType'
    BY <2>1, PassIsTyped DEF TurnType, Types
  <2> QED
    BY <2>1, <2>2 DEF AnalyzeTimer, Types, histories
<1> QED
  BY <1>1, <1>2 DEF Types

\* Taking diagnostics back and marking what has changed on disk.
LEMMA EndUpdateEffect ==
  ASSUME Types, EndUpdate
  PROVE  /\ DOMAIN info' = DOMAIN info /\ SameGraph(info, info')
         /\ InfoType(info') /\ ListType(info', list')
         /\ turn' = Pass(info')
         /\ \A k \in DOMAIN info :
              /\ info'[k].tracked = info[k].tracked /\ info'[k].doc = info[k].doc
              /\ info'[k].parsed = info[k].parsed /\ info'[k].hash = info[k].hash
              /\ info'[k].found = info[k].found /\ info'[k].seen = info[k].seen
              /\ info'[k].diags = (IF k \in LastCleared THEN "none" ELSE info[k].diags)
              /\ info'[k].dirty <=>
                   info[k].dirty \/ (k \in InList /\ DidContentsChangeOnDisk(k))
              /\ info[k].check => info'[k].check
              /\ info'[k].dirty => info[k].dirty \/ info'[k].check
<1> DEFINE p == Cleared(LastCleared)
           S == {i \in InList : DidContentsChangeOnDisk(i)}
           o == MarkFilesDirty(p, S)
<1>1. info' = o /\ turn' = Pass(o) /\ list' = list
  BY DEF EndUpdate
<1>2. /\ DOMAIN p = DOMAIN info /\ p \in [DOMAIN info -> Objects] /\ SameGraph(info, p)
      /\ \A j \in DOMAIN info :
           /\ p[j].tracked = info[j].tracked /\ p[j].doc = info[j].doc
           /\ p[j].dirty = info[j].dirty /\ p[j].check = info[j].check
           /\ p[j].parsed = info[j].parsed /\ p[j].hash = info[j].hash
           /\ p[j].found = info[j].found /\ p[j].seen = info[j].seen
           /\ p[j].diags = IF j \in LastCleared THEN "none" ELSE info[j].diags
  BY ClearedEffect DEF Types
<1>3. S \in SUBSET DOMAIN info
  BY Listed DEF Types, InList
<1>4. InfoType(p)
  BY <1>2, SameGraphIsTyped DEF Types
<1> HIDE DEF p
<1>5. /\ DOMAIN o = DOMAIN p /\ o \in [DOMAIN p -> Objects] /\ SameGraph(p, o)
      /\ \A j \in DOMAIN p :
           /\ SameButMarks(p[j], o[j])
           /\ o[j].dirty <=> p[j].dirty \/ j \in S
           /\ o[j].check <=> p[j].check \/ \E i \in S : j \in Above(p, i)
  <2> HIDE DEF S
  <2> QED
    BY <1>2, <1>3, <1>4, MarkFilesDirtyEffect
<1>6. \A i \in S : i \in Above(p, i)
  BY <1>2, <1>3, <1>4, AboveIsLeast DEF InfoType, ImportersAreObjects
<1> HIDE DEF o
<1>7. SameGraph(info, o)
  BY <1>2, <1>5 DEF SameGraph
<1>8. InfoType(o) /\ ListType(o, list)
  BY <1>2, <1>5, <1>7, SameGraphIsTyped DEF Types
<1>9. ASSUME NEW k \in DOMAIN info
      PROVE  /\ o[k].tracked = info[k].tracked /\ o[k].doc = info[k].doc
             /\ o[k].parsed = info[k].parsed /\ o[k].hash = info[k].hash
             /\ o[k].found = info[k].found /\ o[k].seen = info[k].seen
             /\ o[k].diags = (IF k \in LastCleared THEN "none" ELSE info[k].diags)
             /\ o[k].dirty <=> info[k].dirty \/ k \in S
             /\ info[k].check => o[k].check
             /\ o[k].dirty => info[k].dirty \/ o[k].check
  <2>1. /\ SameButMarks(p[k], o[k]) /\ k \in DOMAIN p
        /\ o[k].dirty <=> p[k].dirty \/ k \in S
        /\ o[k].check <=> p[k].check \/ \E i \in S : k \in Above(p, i)
    BY <1>2, <1>5
  <2> HIDE DEF S
  <2> QED
    BY <2>1, <1>2, <1>6 DEF SameButMarks
<1>10. turn' = Pass(info') /\ DOMAIN o = DOMAIN info
  BY <1>1, <1>2, <1>5
<1>11. ASSUME NEW k \in DOMAIN info
       PROVE  o[k].dirty <=> info[k].dirty \/ (k \in InList /\ DidContentsChangeOnDisk(k))
  BY <1>9
<1> HIDE DEF S
<1>12. SameGraph(info, info') /\ InfoType(info') /\ ListType(info', list')
       /\ DOMAIN info' = DOMAIN info
  BY <1>1, <1>7, <1>8, <1>10
<1> QED
  BY <1>1, <1>9, <1>10, <1>11, <1>12

LEMMA TypesEndUpdate ==
  ASSUME Types, EndUpdate
  PROVE  Types'
<1>1. InfoType(info') /\ ListType(info', list') /\ turn' = Pass(info') /\ list' = list
  BY EndUpdateEffect DEF EndUpdate
<1>2. TurnType'
  BY <1>1, PassIsTyped DEF TurnType
<1>3. shown' \subseteq Paths
  BY DEF EndUpdate, Types
<1> QED
  BY <1>1, <1>2, <1>3 DEF EndUpdate, Types, histories

LEMMA SeenIsTyped ==
  ASSUME NEW f \in Paths, NEW text \in Texts, NEW seen \in Seens
  PROVE  Seeing(seen, f, text) \in Seens
<1>1. PICK S \in SUBSET Paths : seen \in [S -> Texts]
  BY DEF Seens
<1>2. Seeing(seen, f, text) \in [S \cup {f} -> Texts]
  BY <1>1 DEF Seeing
<1> QED
  BY <1>2 DEF Seens

LEMMA BindIsTyped ==
  ASSUME Types, NEW i \in DOMAIN info, Bind(i)
  PROVE  /\ InfoType(info') /\ ListType(info', list') /\ ListingType'
         /\ DOMAIN info \subseteq DOMAIN info' /\ InList \subseteq InList'
         /\ Len(list') >= Len(list) /\ \A m \in 1..Len(list) : list'[m] = list[m]
<1>1. DiskType /\ ListingType /\ InfoType(info) /\ ListType(info, list)
  BY TypesParts
<1>2. CASE UNCHANGED program
  <2>1. info' = info /\ list' = list /\ listing' = listing /\ InList' = InList
    BY <1>2 DEF program, InList
  <2>2. Len(list) \in Nat
    BY <1>1, Listed
  <2> QED
    BY <1>1, <2>1, <2>2 DEF ListingType, InfoType, ListType
<1>3. CASE Taken(i)
  <2>1. Known \subseteq Paths
    BY <1>1 DEF Known, ListingType
  <2> QED
    BY <1>3, <2>1 DEF Taken, ListingType
<1> QED
  BY <1>1, <1>2, <1>3, BindEffect

\* A check goes on with what it has bound.
LEMMA CheckIsTyped ==
  ASSUME Types, NEW n \in Nat \ {0}, NEW i \in InList', i \in ObjectIds, NEW seen \in Seens,
         NEW todo \in SUBSET Paths, NEW gone \in BOOLEAN,
         turn' = [turn EXCEPT !.at = "check", !.n = n, !.file = i, !.seen = seen,
                              !.todo = todo, !.gone = gone]
  PROVE  TurnType'
<1>1. turn \in Turns
  BY DEF Types, TurnType
<1>2. turn' \in Turns /\ turn'.at = "check" /\ turn'.file = i
  BY <1>1 DEF Turns
<1> QED
  BY <1>2 DEF TurnType

LEMMA TypesCheckTypes ==
  ASSUME Types, CheckTypes
  PROVE  Types'
<1>1. PICK n \in turn.n..Len(list) :
        /\ Bind(list[n])
        /\ turn' = [turn EXCEPT !.at = "check", !.n = n + 1, !.file = list[n],
                      !.seen = Seeing(<<>>, PathOf(list[n]), info'[list[n]].parsed),
                      !.todo = info'[list[n]].found, !.gone = @ \/ FoundDeleted]
  BY DEF CheckTypes
<1> DEFINE i == list[n]
           seen == Seeing(<<>>, PathOf(i), info'[i].parsed)
           todo == info'[i].found
           gone == turn.gone \/ FoundDeleted
<1>2. n \in 1..Len(list) /\ n + 1 \in Nat \ {0} /\ i \in InList /\ i \in DOMAIN info
  BY Listed DEF Types, TurnType, Turns, InList
<1>3. /\ InfoType(info') /\ ListType(info', list') /\ ListingType'
      /\ DOMAIN info \subseteq DOMAIN info' /\ InList \subseteq InList'
  BY <1>1, <1>2, BindIsTyped
<1>4. i \in ObjectIds /\ PathOf(i) \in Paths /\ info'[i] \in Objects
  BY <1>2, <1>3 DEF Types, InfoType, ObjectIds, PathOf
<1>5. seen \in Seens /\ todo \in SUBSET Paths /\ gone \in BOOLEAN
  <2>1. <<>> \in Seens
    BY TurnsAreTyped DEF Idle, Turns
  <2>2. seen \in Seens
    BY <1>4, <2>1, SeenIsTyped DEF Objects
  <2> QED
    BY <1>4, <2>2 DEF Objects, Types, TurnType, Turns
<1>6. turn' = [turn EXCEPT !.at = "check", !.n = n + 1, !.file = i, !.seen = seen,
                           !.todo = todo, !.gone = gone]
  BY <1>1
<1> HIDE DEF i, seen, todo, gone
<1>7. TurnType'
  BY <1>2, <1>3, <1>4, <1>5, <1>6, CheckIsTyped
<1>8. DiskType' /\ RestType'
  BY TypesParts DEF CheckTypes, DiskType, RestType, histories
<1> QED
  BY <1>3, <1>7, <1>8, TypesParts DEF Types, DiskType, RestType, ListingType

LEMMA TypesLookUp ==
  ASSUME Types, NEW f \in Paths, LookUp(f)
  PROVE  Types'
<1>1. turn \in Turns /\ turn.at = "check" /\ turn.file \in InList
  BY DEF LookUp, Types, TurnType
<1>2. DiskType' /\ RestType'
  BY TypesParts DEF LookUp, DiskType, RestType, histories
<1>3. CASE AtPath(f) = {}
  <2> DEFINE seen == Seeing(turn.seen, f, NoTree)
  <2>1. turn' = [turn EXCEPT !.seen = seen] /\ UNCHANGED program
    BY <1>3 DEF LookUp
  <2>2. seen \in Seens
    BY <1>1, SeenIsTyped DEF Turns, Texts
  <2> HIDE DEF seen
  <2>3. turn' \in Turns /\ turn'.at = "check" /\ turn'.file = turn.file
    BY <1>1, <2>1, <2>2 DEF Turns
  <2>4. TurnType'
    BY <1>1, <2>1, <2>3 DEF TurnType, program, InList
  <2> QED
    BY <1>2, <2>1, <2>4 DEF Types, DiskType, RestType, program
<1>4. CASE AtPath(f) # {}
  <2>1. PICK k \in AtPath(f) :
          /\ Bind(k)
          /\ turn' = [turn EXCEPT
               !.seen = Seeing(@, f, IF IsParseRequired(info'[k]) THEN NoTree ELSE info'[k].parsed),
               !.todo = IF IsParseRequired(info'[k]) THEN @ ELSE @ \cup info'[k].found,
               !.gone = @ \/ FoundDeleted]
    BY <1>4 DEF LookUp
  <2> DEFINE text == IF IsParseRequired(info'[k]) THEN NoTree ELSE info'[k].parsed
             seen == Seeing(turn.seen, f, text)
             todo == IF IsParseRequired(info'[k]) THEN turn.todo ELSE turn.todo \cup info'[k].found
             gone == turn.gone \/ FoundDeleted
  <2>2. k \in DOMAIN info
    BY Listed DEF Types, AtPath, InList
  <2>3. /\ InfoType(info') /\ ListType(info', list') /\ ListingType'
        /\ DOMAIN info \subseteq DOMAIN info' /\ InList \subseteq InList'
    BY <2>1, <2>2, BindIsTyped
  <2>4. info'[k] \in Objects
    BY <2>2, <2>3 DEF InfoType
  <2>5. text \in Texts
    BY <2>4 DEF Objects, Texts
  <2>6. seen \in Seens /\ todo \in SUBSET Paths /\ gone \in BOOLEAN
    <3>1. seen \in Seens
      <4> HIDE DEF text
      <4> QED
        BY <1>1, <2>5, SeenIsTyped DEF Turns
    <3> QED
      BY <1>1, <2>4, <3>1 DEF Objects, Turns
  <2>7. turn' = [turn EXCEPT !.seen = seen, !.todo = todo, !.gone = gone]
    BY <2>1
  <2> HIDE DEF seen, todo, gone
  <2>8. turn' \in Turns /\ turn'.at = "check" /\ turn'.file = turn.file
    BY <1>1, <2>6, <2>7 DEF Turns
  <2>9. TurnType'
    BY <1>1, <2>3, <2>8 DEF TurnType
  <2> QED
    BY <1>2, <2>3, <2>9, TypesParts DEF Types, DiskType, RestType, ListingType
<1> QED
  BY <1>3, <1>4

\* What the end of a check does to the object.
LEMMA CheckedEffect ==
  ASSUME Types, NEW outOfTime \in BOOLEAN, Checked(outOfTime)
  PROVE  /\ SameGraph(info, info') /\ info' \in [DOMAIN info -> Objects]
         /\ \A i \in DOMAIN info :
              /\ info'[i].tracked = info[i].tracked /\ info'[i].doc = info[i].doc
              /\ info'[i].dirty = info[i].dirty /\ info'[i].parsed = info[i].parsed
              /\ info'[i].hash = info[i].hash /\ info'[i].found = info[i].found
              /\ info'[i].check <=> info[i].check /\ i # turn.file
              /\ info'[i].seen = (IF i = turn.file THEN turn.seen ELSE info[i].seen)
              /\ info'[i].diags = (IF i = turn.file /\ info[i].diags # "none" THEN "old"
                                  ELSE info[i].diags)
<1> DEFINE f == turn.file
           seen == turn.seen
           diags == IF info[f].diags = "none" THEN "none" ELSE "old"
           x == [info[f] EXCEPT !.check = FALSE, !.seen = seen, !.diags = diags]
<1>1. f \in DOMAIN info /\ seen \in Seens
  BY Listed DEF Types, TurnType, Turns, Checked, InList
<1>2. info[f] \in Objects
  BY <1>1 DEF Types, InfoType
<1>3. diags \in {"none", "old", "current"}
  BY <1>2 DEF Objects
<1>4. info' = [info EXCEPT ![f] = x]
  BY DEF Checked
<1>5. diags = IF info[f].diags # "none" THEN "old" ELSE info[f].diags
  OBVIOUS
<1> HIDE DEF seen, diags
<1>6. /\ x \in Objects /\ x.tracked = info[f].tracked /\ x.doc = info[f].doc
      /\ x.dirty = info[f].dirty /\ x.parsed = info[f].parsed /\ x.hash = info[f].hash
      /\ x.found = info[f].found /\ x.deleted = info[f].deleted /\ x.imports = info[f].imports
      /\ x.importedBy = info[f].importedBy /\ ~x.check /\ x.seen = seen /\ x.diags = diags
  BY <1>1, <1>2, <1>3 DEF Objects
<1> HIDE DEF x, f
<1>7. info \in [DOMAIN info -> Objects]
  BY DEF Types, InfoType
<1>8. /\ DOMAIN info' = DOMAIN info /\ info'[f] = x
      /\ \A i \in DOMAIN info \ {f} : info'[i] = info[i]
      /\ info' \in [DOMAIN info -> Objects]
  BY <1>1, <1>4, <1>6, <1>7
<1>9. SameGraph(info, info')
  BY <1>6, <1>8 DEF SameGraph
<1>10. ASSUME NEW i \in DOMAIN info
       PROVE  /\ info'[i].tracked = info[i].tracked /\ info'[i].doc = info[i].doc
              /\ info'[i].dirty = info[i].dirty /\ info'[i].parsed = info[i].parsed
              /\ info'[i].hash = info[i].hash /\ info'[i].found = info[i].found
              /\ info'[i].check <=> info[i].check /\ i # f
              /\ info'[i].seen = (IF i = f THEN seen ELSE info[i].seen)
              /\ info'[i].diags = (IF i = f /\ info[i].diags # "none" THEN "old"
                                  ELSE info[i].diags)
  <2>1. CASE i = f
    BY <2>1, <1>5, <1>6, <1>8
  <2>2. CASE i # f
    BY <2>2, <1>8
  <2> QED
    BY <2>1, <2>2
<1> QED
  BY <1>8, <1>9, <1>10 DEF f, seen

LEMMA TypesChecked ==
  ASSUME Types, NEW outOfTime \in BOOLEAN, Checked(outOfTime)
  PROVE  Types'
<1>1. SameGraph(info, info') /\ info' \in [DOMAIN info -> Objects]
  BY CheckedEffect
<1>2. InfoType(info') /\ ListType(info', list')
  BY <1>1, SameGraphIsTyped DEF Types, Checked
<1>3. DiskType' /\ RestType' /\ ListingType'
  BY TypesParts DEF Checked, DiskType, RestType, ListingType, histories
<1>4. turn \in Turns
  BY DEF Types, TurnType
<1>5. TurnType'
  <2>1. CASE outOfTime
    <3> DEFINE r == Removing("report")
               before == turn.before
               gone == turn.gone
    <3>1. turn' = [r EXCEPT !.before = before, !.gone = gone, !.more = TRUE]
      BY <2>1 DEF Checked
    <3>2. r \in Turns /\ r.at = "remove" /\ r.left = {} /\ r.n = 1
      BY TurnsAreTyped
    <3>3. before \subseteq ObjectIds /\ gone \in BOOLEAN
      BY <1>4 DEF Turns
    <3> HIDE DEF r, before, gone
    <3>4. turn' \in Turns /\ turn'.at = "remove" /\ turn'.left = {} /\ turn'.n = 1
      BY <3>1, <3>2, <3>3 DEF Turns
    <3> QED
      BY <1>2, <3>4, RemovalBegins
  <2>2. CASE ~outOfTime
    <3>1. turn' = [turn EXCEPT !.at = "pass", !.file = <<>>, !.todo = {}, !.seen = <<>>]
      BY <2>2 DEF Checked
    <3>2. <<>> \in Seens
      BY TurnsAreTyped DEF Idle, Turns
    <3>3. turn' \in Turns /\ turn'.at = "pass"
      BY <1>4, <3>1, <3>2 DEF Turns
    <3> QED
      BY <3>3 DEF TurnType
  <2> QED
    BY <2>1, <2>2
<1> QED
  BY <1>2, <1>3, <1>5, TypesParts DEF Types, DiskType, RestType, ListingType

LEMMA TypesEndPass ==
  ASSUME Types, EndPass
  PROVE  Types'
<1>1. DiskType' /\ ListingType' /\ RestType'
  BY TypesParts DEF EndPass, DiskType, RestType, ListingType, histories
<1>2. CASE FilesToAnalyze(info) # {} /\ turn.opened = {}
  <2>1. info' = Collect(info) /\ turn' = Idle /\ list' = list
    BY <1>2 DEF EndPass
  <2>2. InfoType(info') /\ ListType(info', list')
    BY <2>1, CollectEffect DEF Types
  <2>3. TurnType'
    BY <2>1, TurnsAreTyped DEF TurnType
  <2> QED
    BY <1>1, <2>2, <2>3, TypesParts DEF Types, DiskType, RestType, ListingType
<1>3. CASE ~(FilesToAnalyze(info) # {} /\ turn.opened = {})
  <2> DEFINE r == Removing("report")
             before == turn.before
             gone == turn.gone
             more == turn.opened # {}
  <2>1. turn' = [r EXCEPT !.before = before, !.gone = gone, !.more = more]
        /\ UNCHANGED <<info, list>>
    BY <1>3 DEF EndPass
  <2>2. r \in Turns /\ r.at = "remove" /\ r.left = {} /\ r.n = 1
    BY TurnsAreTyped
  <2>3. before \subseteq ObjectIds /\ gone \in BOOLEAN /\ more \in BOOLEAN
    BY DEF Turns, Types, TurnType
  <2> HIDE DEF r, before, gone, more
  <2>4. turn' \in Turns /\ turn'.at = "remove" /\ turn'.left = {} /\ turn'.n = 1
    BY <2>1, <2>2, <2>3 DEF Turns
  <2>5. InfoType(info') /\ ListType(info', list')
    BY <2>1 DEF Types
  <2>6. TurnType'
    BY <2>4, <2>5, RemovalBegins
  <2> QED
    BY <1>1, <2>5, <2>6, TypesParts DEF Types, DiskType, RestType, ListingType
<1> QED
  BY <1>2, <1>3

\* Taking diagnostics back, giving diagnostics, and collecting.
LEMMA ReportEffect ==
  ASSUME Types, EndReport
  PROVE  /\ DOMAIN info' \subseteq DOMAIN info /\ InList \subseteq DOMAIN info'
         /\ InfoType(info') /\ ListType(info', list')
         /\ \A i \in DOMAIN info' :
              /\ info'[i].tracked = info[i].tracked /\ info'[i].doc = info[i].doc
              /\ info'[i].dirty = info[i].dirty /\ info'[i].check = info[i].check
              /\ info'[i].parsed = info[i].parsed /\ info'[i].hash = info[i].hash
              /\ info'[i].found = info[i].found /\ info'[i].seen = info[i].seen
              /\ info'[i].deleted = info[i].deleted /\ info'[i].imports = info[i].imports
              /\ info'[i].importedBy = info[i].importedBy
              /\ info'[i].diags = (IF i \in InList /\ ShouldCheckFile(info[i]) THEN "current"
                                  ELSE IF i \in LastCleared THEN "none" ELSE info[i].diags)
<1> DEFINE S == LastCleared
           report == {i \in InList : ShouldCheckFile(info[i])}
           o == Cleared(S)
           q == [i \in DOMAIN o |->
                   IF i \in report THEN [o[i] EXCEPT !.diags = "current"] ELSE o[i]]
<1>1. info' = Collect(q) /\ list' = list
  BY DEF EndReport
<1>2. /\ DOMAIN o = DOMAIN info /\ o \in [DOMAIN info -> Objects] /\ SameGraph(info, o)
      /\ \A j \in DOMAIN info :
           /\ o[j].tracked = info[j].tracked /\ o[j].doc = info[j].doc
           /\ o[j].dirty = info[j].dirty /\ o[j].check = info[j].check
           /\ o[j].parsed = info[j].parsed /\ o[j].hash = info[j].hash
           /\ o[j].found = info[j].found /\ o[j].seen = info[j].seen
           /\ o[j].diags = IF j \in S THEN "none" ELSE info[j].diags
  BY ClearedEffect DEF Types
<1>3. /\ DOMAIN q = DOMAIN o
      /\ \A i \in DOMAIN o : q[i] = IF i \in report THEN [o[i] EXCEPT !.diags = "current"] ELSE o[i]
  OBVIOUS
<1> HIDE DEF o, S, report
<1>4. ASSUME NEW i \in DOMAIN info
      PROVE  /\ q[i] \in Objects
             /\ q[i].tracked = info[i].tracked /\ q[i].doc = info[i].doc
             /\ q[i].dirty = info[i].dirty /\ q[i].check = info[i].check
             /\ q[i].parsed = info[i].parsed /\ q[i].hash = info[i].hash
             /\ q[i].found = info[i].found /\ q[i].seen = info[i].seen
             /\ q[i].deleted = info[i].deleted /\ q[i].imports = info[i].imports
             /\ q[i].importedBy = info[i].importedBy
             /\ q[i].diags = (IF i \in report THEN "current"
                             ELSE IF i \in S THEN "none" ELSE info[i].diags)
  <2> DEFINE x == [o[i] EXCEPT !.diags = "current"]
  <2>1. o[i] \in Objects
    BY <1>2
  <2>2. /\ x \in Objects /\ x.tracked = o[i].tracked /\ x.doc = o[i].doc
        /\ x.dirty = o[i].dirty /\ x.check = o[i].check /\ x.parsed = o[i].parsed
        /\ x.hash = o[i].hash /\ x.found = o[i].found /\ x.seen = o[i].seen
        /\ x.deleted = o[i].deleted /\ x.imports = o[i].imports
        /\ x.importedBy = o[i].importedBy /\ x.diags = "current"
    BY <2>1 DEF Objects
  <2>3. q[i] = IF i \in report THEN x ELSE o[i]
    BY <1>2, <1>3
  <2> HIDE DEF x, q
  <2>4. /\ q[i] \in Objects
        /\ q[i].tracked = o[i].tracked /\ q[i].doc = o[i].doc
        /\ q[i].dirty = o[i].dirty /\ q[i].check = o[i].check
        /\ q[i].parsed = o[i].parsed /\ q[i].hash = o[i].hash
        /\ q[i].found = o[i].found /\ q[i].seen = o[i].seen
        /\ q[i].deleted = o[i].deleted /\ q[i].imports = o[i].imports
        /\ q[i].importedBy = o[i].importedBy
        /\ q[i].diags = (IF i \in report THEN "current" ELSE o[i].diags)
    BY <2>1, <2>2, <2>3
  <2> QED
    BY <2>4, <1>2 DEF SameGraph
<1>5. q \in [DOMAIN info -> Objects]
  BY <1>2, <1>3, <1>4
<1> HIDE DEF q
<1>6. SameGraph(info, q)
  BY <1>2, <1>3, <1>4 DEF SameGraph
<1>7. InfoType(q) /\ ListType(q, list)
  BY <1>5, <1>6, SameGraphIsTyped DEF Types
<1>8. /\ DOMAIN info' \subseteq DOMAIN q /\ InList \subseteq DOMAIN info'
      /\ \A i \in DOMAIN info' : info'[i] = q[i]
      /\ InfoType(info') /\ ListType(info', list')
  BY <1>1, <1>7, CollectEffect
<1>9. DOMAIN info' \subseteq DOMAIN info
  BY <1>2, <1>3, <1>8
<1> QED
  BY <1>4, <1>8, <1>9 DEF report, S

LEMMA ClearedAreListed ==
  ASSUME Types
  PROVE  LastCleared \subseteq InList /\ LastCleared \subseteq ObjectIds
<1>1. turn.n \in Nat \ {0}
  BY DEF Types, TurnType, Turns
<1>2. \A n \in turn.n..Len(list) : list[n] \in InList
  BY <1>1, Listed DEF Types, InList
<1> QED
  BY <1>2, Listed DEF LastCleared, ClearDiags, Types, InfoType, InList

LEMMA TypesEndReport ==
  ASSUME Types, EndReport
  PROVE  Types'
<1>1. InfoType(info') /\ ListType(info', list')
  BY ReportEffect
<1>2. TurnType'
  BY TurnsAreTyped DEF EndReport, TurnType
<1>3. shown' \subseteq Paths
  <2>1. {i \in InList : ShouldCheckFile(info[i])} \subseteq ObjectIds
    BY Listed DEF Types, InfoType, InList
  <2>2. PathsOf({i \in InList : ShouldCheckFile(info[i])}) \subseteq Paths
    BY <2>1, PathsAreTyped
  <2> QED
    BY <2>2 DEF EndReport, Types
<1>4. timer' \in BOOLEAN
  BY DEF EndReport, Types, TurnType, Turns
<1> QED
  BY <1>1, <1>2, <1>3, <1>4 DEF EndReport, Types, histories

LEMMA EndCloseEffect ==
  ASSUME Types, EndClose
  PROVE  /\ DOMAIN info' \subseteq DOMAIN info /\ InList \subseteq DOMAIN info'
         /\ InfoType(info') /\ ListType(info', list')
         /\ \A i \in DOMAIN info' :
              /\ info'[i].tracked = info[i].tracked /\ info'[i].doc = info[i].doc
              /\ info'[i].dirty = info[i].dirty /\ info'[i].check = info[i].check
              /\ info'[i].parsed = info[i].parsed /\ info'[i].hash = info[i].hash
              /\ info'[i].found = info[i].found /\ info'[i].seen = info[i].seen
              /\ info'[i].deleted = info[i].deleted /\ info'[i].imports = info[i].imports
              /\ info'[i].importedBy = info[i].importedBy
              /\ info'[i].diags = (IF i \in LastCleared THEN "none" ELSE info[i].diags)
<1> DEFINE p == Cleared(LastCleared)
<1>1. /\ DOMAIN p = DOMAIN info /\ p \in [DOMAIN info -> Objects] /\ SameGraph(info, p)
      /\ \A j \in DOMAIN info :
           /\ p[j].tracked = info[j].tracked /\ p[j].doc = info[j].doc
           /\ p[j].dirty = info[j].dirty /\ p[j].check = info[j].check
           /\ p[j].parsed = info[j].parsed /\ p[j].hash = info[j].hash
           /\ p[j].found = info[j].found /\ p[j].seen = info[j].seen
           /\ p[j].diags = IF j \in LastCleared THEN "none" ELSE info[j].diags
  BY ClearedEffect DEF Types
<1>2. info' = Collect(p) /\ list' = list
  BY DEF EndClose
<1> HIDE DEF p
<1>3. InfoType(p) /\ ListType(p, list)
  BY <1>1, SameGraphIsTyped DEF Types
<1>4. /\ DOMAIN info' \subseteq DOMAIN p /\ InList \subseteq DOMAIN info'
      /\ \A i \in DOMAIN info' : info'[i] = p[i]
      /\ InfoType(info') /\ ListType(info', list')
  BY <1>2, <1>3, CollectEffect
<1>5. ASSUME NEW i \in DOMAIN info'
      PROVE  /\ info'[i].tracked = info[i].tracked /\ info'[i].doc = info[i].doc
             /\ info'[i].dirty = info[i].dirty /\ info'[i].check = info[i].check
             /\ info'[i].parsed = info[i].parsed /\ info'[i].hash = info[i].hash
             /\ info'[i].found = info[i].found /\ info'[i].seen = info[i].seen
             /\ info'[i].deleted = info[i].deleted /\ info'[i].imports = info[i].imports
             /\ info'[i].importedBy = info[i].importedBy
             /\ info'[i].diags = (IF i \in LastCleared THEN "none" ELSE info[i].diags)
  <2>1. i \in DOMAIN info /\ info'[i] = p[i]
    BY <1>1, <1>4
  <2> QED
    BY <2>1, <1>1 DEF SameGraph
<1> QED
  BY <1>1, <1>4, <1>5

LEMMA TypesEndClose ==
  ASSUME Types, EndClose
  PROVE  Types'
<1>1. InfoType(info') /\ ListType(info', list')
  BY EndCloseEffect
<1>2. TurnType'
  BY TurnsAreTyped DEF EndClose, TurnType
<1> QED
  BY <1>1, <1>2 DEF EndClose, Types, histories

LEMMA RemovedList ==
  ASSUME NEW o, NEW l, ListType(o, l), NEW n \in 1..Len(l)
  PROVE  /\ ListType(o, RemoveAt(l, n))
         /\ ToSet(RemoveAt(l, n)) = ToSet(l) \ {l[n]}
         /\ Len(RemoveAt(l, n)) = Len(l) - 1
         /\ \A m \in 1..(Len(l) - 1) :
              RemoveAt(l, n)[m] = IF m < n THEN l[m] ELSE l[m + 1]
<1> DEFINE r == RemoveAt(l, n)
<1>1. l \in Seq(DOMAIN o) /\ \A k, m \in 1..Len(l) : l[k] = l[m] => k = m
  BY DEF ListType
<1>2. /\ r \in Seq(DOMAIN o) /\ Len(r) = Len(l) - 1
      /\ \A m \in 1..(Len(l) - 1) : r[m] = IF m < n THEN l[m] ELSE l[m + 1]
  BY <1>1, RemoveAtElements
<1>3. ToSet(r) = ToSet(l) \ {l[n]}
  BY <1>1, RemoveAtSet
<1>4. Len(l) \in Nat /\ n \in Nat
  BY <1>1
<1> HIDE DEF r
<1>5. ASSUME NEW k \in 1..Len(r), NEW m \in 1..Len(r), PathOf(r[k]) = PathOf(r[m])
      PROVE  k = m
  <2> DEFINE x == IF k < n THEN k ELSE k + 1
             y == IF m < n THEN m ELSE m + 1
  <2>1. x \in 1..Len(l) /\ y \in 1..Len(l)
    BY <1>2, <1>4
  <2>2. r[k] = l[x] /\ r[m] = l[y]
    BY <1>2
  <2>3. x = y
    <3> HIDE DEF x, y
    <3> QED
      BY <1>5, <2>1, <2>2 DEF ListType
  <2> QED
    BY <2>3, <1>2, <1>4
<1>6. ListType(o, r)
  BY <1>2, <1>5 DEF ListType
<1> QED
  BY <1>2, <1>3, <1>6 DEF r

\* What it does to remove the file at position n of the list.
LEMMA RemoveNextEffect ==
  ASSUME Types, RemoveNext
  PROVE  \E n \in turn.n..Len(list) :
           LET S == ClearDiags({list[m] : m \in turn.n..(n - 1)}) IN
           /\ ~Needed(n) /\ \A m \in turn.n..(n - 1) : Needed(m)
           /\ list[n] \in InList /\ S \subseteq InList
           /\ DOMAIN info' = DOMAIN info /\ SameGraph(info, info')
           /\ InfoType(info') /\ ListType(info', list')
           /\ \A j \in DOMAIN info :
                /\ info'[j].tracked = info[j].tracked /\ info'[j].doc = info[j].doc
                /\ info'[j].dirty = info[j].dirty /\ info'[j].check = info[j].check
                /\ info'[j].parsed = info[j].parsed /\ info'[j].hash = info[j].hash
                /\ info'[j].found = info[j].found /\ info'[j].seen = info[j].seen
                /\ info'[j].diags = IF j \in S THEN "none" ELSE info[j].diags
           /\ InList' = InList \ {list[n]}
           /\ Len(list') = Len(list) - 1
           /\ \A m \in 1..(Len(list) - 1) : list'[m] = IF m < n THEN list[m] ELSE list[m + 1]
           /\ turn' \in Turns
           /\ turn'.at = "remove" /\ turn'.n = n /\ turn'.file = list[n]
           /\ turn'.left = info[list[n]].imports /\ turn'.then = turn.then
           /\ turn'.more = turn.more /\ turn'.gone = turn.gone /\ turn'.before = turn.before
           /\ turn'.opened = turn.opened
           /\ shown' = shown \ PathsOf(S \cup {list[n]})
<1>1. PICK n \in turn.n..Len(list) :
        LET S == ClearDiags({list[m] : m \in turn.n..(n - 1)}) IN
        /\ ~Needed(n) /\ \A m \in turn.n..(n - 1) : Needed(m)
        /\ info' = Cleared(S)
        /\ list' = RemoveAt(list, n)
        /\ shown' = shown \ PathsOf(S \cup {list[n]})
        /\ turn' = [turn EXCEPT !.n = n, !.file = list[n], !.left = info[list[n]].imports]
  BY DEF RemoveNext
<1> DEFINE S == ClearDiags({list[m] : m \in turn.n..(n - 1)})
           i == list[n]
<1>2. turn \in Turns /\ turn.n \in Nat \ {0} /\ turn.at = "remove"
  BY DEF Types, TurnType, Turns, RemoveNext
<1>3. n \in 1..Len(list) /\ Len(list) \in Nat
  BY <1>2, Listed DEF Types
<1>4. /\ \A m \in 1..Len(list) : list[m] \in InList
      /\ InList \subseteq DOMAIN info
  BY Listed DEF Types, InList
<1>5. S \subseteq InList
  <2>1. \A m \in turn.n..(n - 1) : m \in 1..Len(list)
    BY <1>2, <1>3
  <2> QED
    BY <2>1, <1>4 DEF ClearDiags
<1> HIDE DEF S
<1>6. info' = Cleared(S) /\ list' = RemoveAt(list, n) /\ shown' = shown \ PathsOf(S \cup {i})
      /\ turn' = [turn EXCEPT !.n = n, !.file = i, !.left = info[i].imports]
      /\ ~Needed(n) /\ \A m \in turn.n..(n - 1) : Needed(m)
  BY <1>1 DEF S
<1>7. /\ DOMAIN info' = DOMAIN info /\ info' \in [DOMAIN info -> Objects] /\ SameGraph(info, info')
      /\ \A j \in DOMAIN info :
           /\ info'[j].tracked = info[j].tracked /\ info'[j].doc = info[j].doc
           /\ info'[j].dirty = info[j].dirty /\ info'[j].check = info[j].check
           /\ info'[j].parsed = info[j].parsed /\ info'[j].hash = info[j].hash
           /\ info'[j].found = info[j].found /\ info'[j].seen = info[j].seen
           /\ info'[j].diags = IF j \in S THEN "none" ELSE info[j].diags
  BY <1>6, ClearedEffect DEF Types
<1>8. InfoType(info') /\ ListType(info', list)
  BY <1>7, SameGraphIsTyped DEF Types
<1>9. /\ ListType(info', RemoveAt(list, n))
      /\ ToSet(RemoveAt(list, n)) = ToSet(list) \ {i}
      /\ Len(RemoveAt(list, n)) = Len(list) - 1
      /\ \A m \in 1..(Len(list) - 1) :
           RemoveAt(list, n)[m] = IF m < n THEN list[m] ELSE list[m + 1]
  BY <1>3, <1>8, RemovedList
<1>10. /\ ListType(info', list')
       /\ Len(list') = Len(list) - 1
       /\ \A m \in 1..(Len(list) - 1) : list'[m] = IF m < n THEN list[m] ELSE list[m + 1]
  BY <1>6, <1>9
<1>11. InList' = InList \ {i}
  BY <1>6, <1>9 DEF InList
<1>12. i \in ObjectIds /\ info[i].imports \subseteq ObjectIds /\ i \in InList
  BY <1>3, <1>4 DEF Types, InfoType
<1> HIDE DEF i
<1> DEFINE J == info[i].imports
<1>13. /\ J = info[i].imports /\ J \in SUBSET ObjectIds /\ n \in Nat \ {0}
       /\ turn' = [turn EXCEPT !.n = n, !.file = i, !.left = J]
  BY <1>3, <1>6, <1>12
<1> HIDE DEF J
<1>14. /\ turn' \in Turns
       /\ turn'.at = "remove" /\ turn'.n = n /\ turn'.file = i
       /\ turn'.left = info[i].imports /\ turn'.then = turn.then
       /\ turn'.more = turn.more /\ turn'.gone = turn.gone /\ turn'.before = turn.before
       /\ turn'.opened = turn.opened
  BY <1>2, <1>12, <1>13 DEF Turns
<1> WITNESS n \in turn.n..Len(list)
<1> QED
  BY <1>5, <1>6, <1>7, <1>8, <1>10, <1>11, <1>12, <1>14 DEF S, i

LEMMA TypesRemoveNext ==
  ASSUME Types, RemoveNext
  PROVE  Types'
<1>1. PICK n \in turn.n..Len(list) :
        /\ list[n] \in InList
        /\ DOMAIN info' = DOMAIN info /\ InfoType(info') /\ ListType(info', list')
        /\ InList' = InList \ {list[n]} /\ Len(list') = Len(list) - 1
        /\ turn' \in Turns
        /\ turn'.at = "remove" /\ turn'.n = n /\ turn'.file = list[n]
        /\ turn'.left = info[list[n]].imports
        /\ shown' \subseteq shown
  BY RemoveNextEffect
<1>2. list[n] \in DOMAIN info /\ info[list[n]].imports \subseteq DOMAIN info
  BY <1>1, Listed DEF Types, InfoType, InList
<1>3. turn'.n <= Len(list') + 1
  BY <1>1, Listed DEF Types
<1>4. TurnType'
  BY <1>1, <1>2, <1>3 DEF TurnType
<1> QED
  BY <1>1, <1>4 DEF RemoveNext, Types, histories

Forgotten(k) == [info EXCEPT ![k].importedBy = @ \ {turn.file}]

\* A file is taken from the importers of k.
LEMMA ForgottenEffect ==
  ASSUME Types, NEW k \in DOMAIN info, NEW o, o = Forgotten(k)
  PROVE  /\ DOMAIN o = DOMAIN info /\ InfoType(o)
         /\ \A l : ListType(info, l) => ListType(o, l)
         /\ o[k].importedBy = info[k].importedBy \ {turn.file}
         /\ \A i \in DOMAIN info \ {k} : o[i] = info[i]
         /\ \A i \in DOMAIN info :
              /\ o[i].tracked = info[i].tracked /\ o[i].doc = info[i].doc
              /\ o[i].dirty = info[i].dirty /\ o[i].check = info[i].check
              /\ o[i].parsed = info[i].parsed /\ o[i].hash = info[i].hash
              /\ o[i].found = info[i].found /\ o[i].seen = info[i].seen
              /\ o[i].deleted = info[i].deleted /\ o[i].imports = info[i].imports
              /\ o[i].diags = info[i].diags
<1> DEFINE S == info[k].importedBy \ {turn.file}
           x == [info[k] EXCEPT !.importedBy = S]
<1>1. info \in [DOMAIN info -> Objects] /\ info[k] \in Objects /\ DOMAIN info \subseteq ObjectIds
      /\ info[k].importedBy \subseteq DOMAIN info
  BY DEF Types, InfoType
<1>2. S \subseteq DOMAIN info /\ S \in SUBSET ObjectIds /\ S = info[k].importedBy \ {turn.file}
  BY <1>1
<1>3. o = [info EXCEPT ![k] = x]
  BY DEF Forgotten
<1> HIDE DEF S
<1>4. /\ x \in Objects /\ x.importedBy = S
      /\ x.tracked = info[k].tracked /\ x.doc = info[k].doc
      /\ x.dirty = info[k].dirty /\ x.check = info[k].check
      /\ x.parsed = info[k].parsed /\ x.hash = info[k].hash
      /\ x.found = info[k].found /\ x.seen = info[k].seen
      /\ x.deleted = info[k].deleted /\ x.imports = info[k].imports
      /\ x.diags = info[k].diags
  BY <1>1, <1>2 DEF Objects
<1> HIDE DEF x
<1>5. /\ DOMAIN o = DOMAIN info /\ o[k] = x /\ \A i \in DOMAIN info \ {k} : o[i] = info[i]
  BY <1>1, <1>3
<1>6. o \in [DOMAIN o -> Objects]
  BY <1>1, <1>3, <1>4
<1>7. ASSUME NEW i \in DOMAIN info
      PROVE  /\ o[i].tracked = info[i].tracked /\ o[i].doc = info[i].doc
             /\ o[i].dirty = info[i].dirty /\ o[i].check = info[i].check
             /\ o[i].parsed = info[i].parsed /\ o[i].hash = info[i].hash
             /\ o[i].found = info[i].found /\ o[i].seen = info[i].seen
             /\ o[i].deleted = info[i].deleted /\ o[i].imports = info[i].imports
             /\ o[i].diags = info[i].diags
  <2>1. CASE i = k
    BY <2>1, <1>4, <1>5
  <2>2. CASE i # k
    BY <2>2, <1>5
  <2> QED
    BY <2>1, <2>2
<1>8. InfoType(o)
  BY <1>1, <1>2, <1>4, <1>5, <1>6, <1>7 DEF InfoType, Types
<1>9. \A l : ListType(info, l) => ListType(o, l)
  BY <1>5 DEF ListType
<1> QED
  BY <1>2, <1>4, <1>5, <1>7, <1>8, <1>9

\* The branch in which a file that lost its last importer is removed at once is in RemovedAt.
RemovedAt(k) ==
  /\ ~IsFileNeeded(Forgotten(k), k)
  /\ \E m \in 1..(turn.n - 1) :
       /\ list[m] = k /\ list' = RemoveAt(list, m)
       /\ turn' = [turn EXCEPT !.left = @ \ {k}, !.n = @ - 1]
  /\ shown' = shown \ {PathOf(k)}

LEMMA ForgetCases ==
  ASSUME NEW k, Forget(k)
  PROVE  /\ turn.at = "remove" /\ k \in turn.left
         /\ \/ /\ turn.file \notin info[k].importedBy
               /\ failed' = failed \cup {"importedBy"} /\ turn' = Idle
               /\ UNCHANGED <<info, list, shown>>
            \/ /\ turn.file \in info[k].importedBy
               /\ info' = Forgotten(k) /\ failed' = failed
               /\ \/ turn' = [turn EXCEPT !.left = @ \ {k}] /\ UNCHANGED <<list, shown>>
                  \/ RemovedAt(k)
  BY DEF Forget, Forgotten, RemovedAt

LEMMA ForgottenTurn ==
  ASSUME Types, turn.at = "remove", NEW k, NEW n \in Nat \ {0},
         turn' = [turn EXCEPT !.left = @ \ {k}, !.n = n]
         \/ (n = turn.n /\ turn' = [turn EXCEPT !.left = @ \ {k}])
  PROVE  /\ turn' \in Turns
         /\ turn'.at = "remove" /\ turn'.n = n /\ turn'.file = turn.file
         /\ turn'.left = turn.left \ {k} /\ turn'.then = turn.then
         /\ turn'.more = turn.more /\ turn'.gone = turn.gone /\ turn'.before = turn.before
         /\ turn'.opened = turn.opened
<1> DEFINE left == turn.left \ {k}
<1>1. turn \in Turns
  BY DEF Types, TurnType
<1>2. left \subseteq ObjectIds
  BY <1>1 DEF Turns
<1>3. \/ turn' = [turn EXCEPT !.left = left, !.n = n]
      \/ n = turn.n /\ turn' = [turn EXCEPT !.left = left]
  OBVIOUS
<1>4. left = turn.left \ {k}
  OBVIOUS
<1> HIDE DEF left
<1> QED
  BY <1>1, <1>2, <1>3, <1>4 DEF Turns

LEMMA TypesForget ==
  ASSUME Types, NEW k \in DOMAIN info, Forget(k)
  PROVE  Types'
<1>1. turn.at = "remove" /\ k \in turn.left /\ turn \in Turns /\ turn.n <= Len(list) + 1
      /\ turn.left \subseteq DOMAIN info /\ turn.file \in DOMAIN info \ InList
  BY DEF Forget, Types, TurnType
<1>2. DiskType' /\ ListingType'
  BY TypesParts DEF Forget, DiskType, ListingType
<1>3. RestType'
  BY TypesParts DEF Forget, RestType, histories
<1>4. CASE turn' = Idle /\ UNCHANGED <<info, list, shown>>
  <2>1. TurnType'
    BY <1>4, TurnsAreTyped DEF TurnType
  <2> QED
    BY <1>2, <1>3, <1>4, <2>1, TypesParts DEF Types, DiskType, ListingType, RestType
<1>5. CASE info' = Forgotten(k)
  <2>1. DOMAIN info' = DOMAIN info /\ InfoType(info')
        /\ \A l : ListType(info, l) => ListType(info', l)
    BY <1>5, ForgottenEffect
  <2>2. CASE turn' = [turn EXCEPT !.left = @ \ {k}] /\ UNCHANGED <<list, shown>>
    <3>1. turn.n \in Nat \ {0}
      BY <1>1 DEF Turns
    <3>2. turn' \in Turns /\ turn'.at = "remove" /\ turn'.file = turn.file
          /\ turn'.left = turn.left \ {k} /\ turn'.n = turn.n
      BY <1>1, <2>2, <3>1, ForgottenTurn
    <3>3. TurnType'
      BY <1>1, <2>1, <2>2, <3>2 DEF TurnType, InList
    <3> QED
      BY <1>2, <1>3, <2>1, <2>2, <3>3, TypesParts DEF Types, DiskType, ListingType, RestType
  <2>3. CASE RemovedAt(k)
    <3>1. PICK m \in 1..(turn.n - 1) :
            /\ list[m] = k /\ list' = RemoveAt(list, m)
            /\ turn' = [turn EXCEPT !.left = @ \ {k}, !.n = @ - 1]
      BY <2>3 DEF RemovedAt
    <3> DEFINE n == turn.n - 1
    <3>2. n \in Nat \ {0} /\ turn' = [turn EXCEPT !.left = @ \ {k}, !.n = n]
      BY <1>1, <3>1 DEF Turns
    <3> HIDE DEF n
    <3>3. turn' \in Turns /\ turn'.at = "remove" /\ turn'.file = turn.file
          /\ turn'.left = turn.left \ {k} /\ turn'.n = n
      BY <1>1, <3>2, ForgottenTurn
    <3>4. /\ ListType(info', list') /\ ToSet(list') \subseteq ToSet(list)
          /\ Len(list') = Len(list) - 1 /\ Len(list) \in Nat
      <4>1. m \in 1..Len(list) /\ Len(list) \in Nat
        BY <1>1, Listed DEF Types, Turns
      <4>2. ListType(info', list)
        BY <2>1 DEF Types
      <4> QED
        BY <3>1, <4>1, <4>2, RemovedList
    <3>5. n <= Len(list') + 1
      BY <1>1, <3>4 DEF n, Turns
    <3>6. TurnType'
      BY <1>1, <2>1, <3>3, <3>4, <3>5 DEF TurnType, InList
    <3>7. shown' \subseteq Paths /\ RestType'
      BY <1>3, <2>3 DEF RemovedAt, Types
    <3> QED
      BY <1>2, <2>1, <3>4, <3>7, <3>6, TypesParts DEF Types, DiskType, ListingType, RestType
  <2> QED
    BY <1>1, <1>4, <1>5, <2>2, <2>3, ForgetCases
<1> QED
  BY <1>4, <1>5, ForgetCases

LEMMA OpenedEffect ==
  ASSUME DiskType, NEW o, InfoType(o), NEW i \in DOMAIN o, disk[PathOf(i)] # Absent
  PROVE  LET p == Opened(o, i) IN
         /\ p \in [DOMAIN o -> Objects] /\ SameGraph(o, p)
         /\ \A k \in DOMAIN o \ {i} : p[k] = o[k]
         /\ p[i].tracked = o[i].tracked /\ p[i].doc = disk[PathOf(i)] /\ p[i].doc # Closed
         /\ p[i].dirty /\ p[i].check /\ p[i].parsed = o[i].parsed /\ p[i].hash = o[i].hash
         /\ p[i].found = o[i].found /\ p[i].seen = o[i].seen /\ p[i].diags = "none"
<1> DEFINE text == disk[PathOf(i)]
           x == MarkDirty(o[i])
           y == [x EXCEPT !.doc = text, !.diags = "none"]
<1>1. o \in [DOMAIN o -> Objects] /\ o[i] \in Objects
  BY DEF InfoType
<1>2. text \in AllTexts /\ text # Closed
  <2>1. PathOf(i) \in Paths
    BY DEF InfoType, ObjectIds, PathOf
  <2> QED
    BY <2>1, TextsAssumption DEF DiskType
<1>3. x \in Objects /\ SameButMarks(o[i], x) /\ x.check /\ x.dirty
  BY <1>1, MarkIsTyped
<1>4. Opened(o, i) = [o EXCEPT ![i] = y]
  BY DEF Opened
<1> HIDE DEF x, text
<1>5. /\ y \in Objects /\ y.tracked = x.tracked /\ y.doc = text /\ y.dirty = x.dirty
      /\ y.check = x.check /\ y.parsed = x.parsed /\ y.hash = x.hash /\ y.found = x.found
      /\ y.deleted = x.deleted /\ y.imports = x.imports /\ y.importedBy = x.importedBy
      /\ y.diags = "none" /\ y.seen = x.seen
  BY <1>2, <1>3 DEF Objects
<1> HIDE DEF y
<1> DEFINE p == Opened(o, i)
<1>6. /\ p \in [DOMAIN o -> Objects] /\ DOMAIN p = DOMAIN o /\ p[i] = y
      /\ \A k \in DOMAIN o \ {i} : p[k] = o[k]
  BY <1>1, <1>4, <1>5
<1> HIDE DEF p
<1>7. SameGraph(o, p)
  BY <1>3, <1>5, <1>6 DEF SameGraph, SameButMarks
<1> QED
  BY <1>2, <1>3, <1>5, <1>6, <1>7 DEF SameButMarks, p, text

LEMMA SetFileOpenedEffect ==
  ASSUME Types, NEW f \in Paths, SetFileOpened(f)
  PROVE  /\ InfoType(info') /\ ListType(info', list')
         /\ DOMAIN info \subseteq DOMAIN info'
         /\ Len(list') >= Len(list) /\ \A m \in 1..Len(list) : list'[m] = list[m]
         /\ InList' = InList \cup (DOMAIN info' \ DOMAIN info)
         /\ \E i \in InList' :
              /\ PathOf(i) = f
              /\ \A k \in DOMAIN info' \ DOMAIN info :
                   /\ k = i /\ f \notin PathsOf(InList) /\ ~info'[k].tracked /\ ~info'[k].deleted
                   /\ info'[k].parsed = NoTree /\ info'[k].hash = NoTree
                   /\ info'[k].imports = {} /\ info'[k].importedBy = {}
              /\ \A k \in DOMAIN info \ {i} : info'[k] = info[k]
              /\ info'[i].doc = disk[f] /\ info'[i].doc # Closed
              /\ info'[i].dirty /\ info'[i].check /\ info'[i].diags = "none"
              /\ i \in DOMAIN info =>
                   /\ info'[i].tracked = info[i].tracked /\ info'[i].parsed = info[i].parsed
                   /\ info'[i].hash = info[i].hash /\ info'[i].found = info[i].found
                   /\ info'[i].seen = info[i].seen /\ info'[i].deleted = info[i].deleted
                   /\ info'[i].imports = info[i].imports
                   /\ info'[i].importedBy = info[i].importedBy
<1> DEFINE S == {f} \ PathsOf(InList)
           o == InfoWith(S, FALSE)
<1>1. S \in SUBSET Paths /\ S \cap PathsOf(InList) = {} /\ HasRoom(S) /\ disk[f] # Absent
  BY DEF SetFileOpened
<1>2. PICK order \in Orders(S) : list' = ListWith(order)
  BY DEF SetFileOpened
<1>3. PICK i \in AtPath(f)' : info' = Opened(o, i)
  BY DEF SetFileOpened
<1>4. /\ \A g \in S : NewId(g) \in ObjectIds \ DOMAIN info /\ PathOf(NewId(g)) = g
      /\ DOMAIN o = DOMAIN info \cup {NewId(g) : g \in S}
      /\ \A k \in DOMAIN info : o[k] = info[k]
      /\ \A k \in DOMAIN o \ DOMAIN info : o[k] = Object(FALSE)
      /\ InfoType(o)
  BY <1>1, NewObjects DEF Types
<1>5. /\ ListType(o, list')
      /\ Len(list') >= Len(list) /\ \A m \in 1..Len(list) : list'[m] = list[m]
      /\ ToSet(list') = InList \cup {NewId(g) : g \in S}
  BY <1>1, <1>2, NewList DEF Types
<1> HIDE DEF o
<1>6. InList' = ToSet(list') /\ i \in InList' /\ PathOf(i) = f /\ i \in DOMAIN o
  BY <1>5, Listed DEF AtPath, InList
<1>7. /\ info' \in [DOMAIN o -> Objects] /\ SameGraph(o, info')
      /\ \A k \in DOMAIN o \ {i} : info'[k] = o[k]
      /\ info'[i].tracked = o[i].tracked /\ info'[i].doc = disk[f] /\ info'[i].doc # Closed
      /\ info'[i].dirty /\ info'[i].check /\ info'[i].parsed = o[i].parsed
      /\ info'[i].hash = o[i].hash /\ info'[i].found = o[i].found
      /\ info'[i].seen = o[i].seen /\ info'[i].diags = "none"
  <2>1. DiskType
    BY TypesParts
  <2> QED
    BY <1>1, <1>3, <1>4, <1>6, <2>1, OpenedEffect
<1>8. InfoType(info') /\ ListType(info', list') /\ DOMAIN info' = DOMAIN o
  BY <1>4, <1>5, <1>7, SameGraphIsTyped
<1>9. InList' = InList \cup (DOMAIN info' \ DOMAIN info)
  BY <1>4, <1>5, <1>6, <1>8, Listed DEF Types, InList
<1>10. ASSUME NEW k \in DOMAIN info' \ DOMAIN info
       PROVE  /\ k = i /\ f \notin PathsOf(InList) /\ ~info'[k].tracked /\ ~info'[k].deleted
              /\ info'[k].parsed = NoTree /\ info'[k].hash = NoTree
              /\ info'[k].imports = {} /\ info'[k].importedBy = {}
  <2>1. PathOf(k) = f /\ f \notin PathsOf(InList) /\ k \in InList' /\ o[k] = Object(FALSE)
        /\ k \in DOMAIN o
    BY <1>4, <1>8, <1>9
  <2>2. k = i
    BY <2>1, <1>6, <1>8, Listed
  <2>3. /\ ~o[k].tracked /\ ~o[k].deleted /\ o[k].imports = {} /\ o[k].importedBy = {}
        /\ o[k].parsed = NoTree /\ o[k].hash = NoTree
    BY <2>1 DEF Object
  <2> QED
    BY <2>1, <2>2, <2>3, <1>7 DEF SameGraph
<1>11. \A k \in DOMAIN info \ {i} : info'[k] = info[k]
  BY <1>4, <1>7
<1>12. i \in DOMAIN info =>
         /\ info'[i].tracked = info[i].tracked /\ info'[i].parsed = info[i].parsed
         /\ info'[i].hash = info[i].hash /\ info'[i].found = info[i].found
         /\ info'[i].seen = info[i].seen /\ info'[i].deleted = info[i].deleted
         /\ info'[i].imports = info[i].imports
         /\ info'[i].importedBy = info[i].importedBy
  BY <1>4, <1>6, <1>7 DEF SameGraph
<1> QED
  BY <1>4, <1>5, <1>6, <1>7, <1>8, <1>9, <1>10, <1>11, <1>12

LEMMA TypesSetFileOpened ==
  ASSUME Types, NEW f \in Paths, SetFileOpened(f)
  PROVE  Types'
<1>1. InfoType(info') /\ ListType(info', list')
  BY SetFileOpenedEffect
<1>2. TurnType' /\ turn' = turn
  BY TurnsAreTyped DEF SetFileOpened, IsIdle, TurnType
<1>3. unmarked' \subseteq Paths
  BY DEF SetFileOpened, Types
<1> QED
  BY <1>1, <1>2, <1>3 DEF SetFileOpened, ScheduleReanalysis, Types

\* New contents mark the file and what imports it.
LEMMA UpdateEffect ==
  ASSUME Types, NEW f \in Paths, NEW text \in TextsOf[f], UpdateOpenFileContents(f, text)
  PROVE  \E i \in AtPath(f) :
           /\ i \in DOMAIN info /\ IsOpen(info[i])
           /\ DOMAIN info' = DOMAIN info /\ SameGraph(info, info')
           /\ InfoType(info') /\ ListType(info', list')
           /\ info'[i].doc = text /\ info'[i].doc # Closed /\ info'[i].diags = "none"
           /\ \A k \in DOMAIN info :
                /\ info'[k].tracked = info[k].tracked /\ info'[k].parsed = info[k].parsed
                /\ info'[k].hash = info[k].hash /\ info'[k].found = info[k].found
                /\ info'[k].seen = info[k].seen
                /\ k # i => info'[k].doc = info[k].doc /\ info'[k].diags = info[k].diags
                /\ info'[k].dirty <=> info[k].dirty \/ k = i
                /\ info'[k].check <=> info[k].check \/ k \in Above(info, i)
<1>1. PICK i \in AtPath(f) :
        /\ info[i].doc \notin {Closed, text}
        /\ info' = MarkFilesDirty(
                     [info EXCEPT ![i] = [info[i] EXCEPT !.doc = text, !.diags = "none"]], {i})
        /\ list' = list
  BY DEF UpdateOpenFileContents
<1> DEFINE x == [info[i] EXCEPT !.doc = text, !.diags = "none"]
           o == [info EXCEPT ![i] = x]
<1>2. i \in DOMAIN info /\ IsOpen(info[i])
  BY <1>1, Listed DEF Types, InList, AtPath, IsOpen
<1>3. info \in [DOMAIN info -> Objects] /\ info[i] \in Objects
  BY <1>2 DEF Types, InfoType
<1>4. text \in AllTexts /\ text # Closed
  BY TextsAssumption DEF AllTexts
<1>5. /\ x \in Objects /\ x.tracked = info[i].tracked /\ x.doc = text /\ x.dirty = info[i].dirty
      /\ x.check = info[i].check /\ x.parsed = info[i].parsed /\ x.hash = info[i].hash
      /\ x.found = info[i].found /\ x.deleted = info[i].deleted /\ x.imports = info[i].imports
      /\ x.importedBy = info[i].importedBy /\ x.diags = "none" /\ x.seen = info[i].seen
  BY <1>3, <1>4 DEF Objects
<1>6. info' = MarkFilesDirty(o, {i})
  BY <1>1
<1> HIDE DEF x
<1>7. /\ DOMAIN o = DOMAIN info /\ o \in [DOMAIN info -> Objects] /\ o[i] = x
      /\ \A k \in DOMAIN info \ {i} : o[k] = info[k]
  BY <1>2, <1>3, <1>5
<1> HIDE DEF o
<1>8. SameGraph(info, o)
  BY <1>5, <1>7 DEF SameGraph
<1>9. InfoType(o) /\ ListType(o, list)
  BY <1>7, <1>8, SameGraphIsTyped DEF Types
<1>10. /\ DOMAIN info' = DOMAIN o /\ info' \in [DOMAIN o -> Objects] /\ SameGraph(o, info')
       /\ \A j \in DOMAIN o :
            /\ SameButMarks(o[j], info'[j])
            /\ info'[j].dirty <=> o[j].dirty \/ j \in {i}
            /\ info'[j].check <=> o[j].check \/ \E k \in {i} : j \in Above(o, k)
  BY <1>2, <1>6, <1>7, <1>9, MarkFilesDirtyEffect
<1>11. SameGraph(info, info')
  BY <1>7, <1>8, <1>10 DEF SameGraph
<1>12. InfoType(info') /\ ListType(info', list')
  BY <1>1, <1>9, <1>10, SameGraphIsTyped
<1>13. Above(o, i) = Above(info, i)
  BY <1>2, <1>7, <1>8, AboveIsSame DEF Types, InfoType, ImportersAreObjects, SameGraph
<1>14. ASSUME NEW k \in DOMAIN info
       PROVE  /\ info'[k].tracked = info[k].tracked /\ info'[k].parsed = info[k].parsed
              /\ info'[k].hash = info[k].hash /\ info'[k].found = info[k].found
              /\ info'[k].seen = info[k].seen
              /\ k # i => info'[k].doc = info[k].doc /\ info'[k].diags = info[k].diags
              /\ info'[k].dirty <=> info[k].dirty \/ k = i
              /\ info'[k].check <=> info[k].check \/ k \in Above(info, i)
  <2>1. /\ SameButMarks(o[k], info'[k])
        /\ info'[k].dirty <=> o[k].dirty \/ k = i
        /\ info'[k].check <=> o[k].check \/ k \in Above(info, i)
    BY <1>7, <1>10, <1>13
  <2>2. CASE k = i
    BY <2>1, <2>2, <1>5, <1>7 DEF SameButMarks
  <2>3. CASE k # i
    BY <2>1, <2>3, <1>7 DEF SameButMarks
  <2> QED
    BY <2>2, <2>3
<1>15. info'[i].doc = text /\ info'[i].doc # Closed /\ info'[i].diags = "none"
  BY <1>2, <1>4, <1>5, <1>7, <1>10 DEF SameButMarks
<1> QED
  BY <1>1, <1>2, <1>7, <1>10, <1>11, <1>12, <1>14, <1>15

LEMMA TypesUpdateOpenFileContents ==
  ASSUME Types, NEW f \in Paths, NEW text \in TextsOf[f], UpdateOpenFileContents(f, text)
  PROVE  Types'
<1>1. InfoType(info') /\ ListType(info', list')
  BY UpdateEffect
<1>2. TurnType'
  BY TurnsAreTyped DEF UpdateOpenFileContents, IsIdle, TurnType
<1> QED
  BY <1>1, <1>2 DEF UpdateOpenFileContents, ScheduleReanalysis, Types

LEMMA ClosedEffect ==
  ASSUME Types, NEW i \in DOMAIN info, info' = [info EXCEPT ![i].doc = Closed]
  PROVE  /\ DOMAIN info' = DOMAIN info /\ SameGraph(info, info')
         /\ InfoType(info') /\ \A l : ListType(info, l) => ListType(info', l)
         /\ info'[i].doc = Closed
         /\ \A k \in DOMAIN info :
              /\ info'[k].tracked = info[k].tracked /\ info'[k].parsed = info[k].parsed
              /\ info'[k].hash = info[k].hash /\ info'[k].found = info[k].found
              /\ info'[k].seen = info[k].seen /\ info'[k].dirty = info[k].dirty
              /\ info'[k].check = info[k].check /\ info'[k].diags = info[k].diags
              /\ k # i => info'[k].doc = info[k].doc
<1> DEFINE x == [info[i] EXCEPT !.doc = Closed]
<1>1. info \in [DOMAIN info -> Objects] /\ info[i] \in Objects
  BY DEF Types, InfoType
<1>2. info' = [info EXCEPT ![i] = x]
  OBVIOUS
<1>3. /\ x \in Objects /\ x.tracked = info[i].tracked /\ x.doc = Closed /\ x.dirty = info[i].dirty
      /\ x.check = info[i].check /\ x.parsed = info[i].parsed /\ x.hash = info[i].hash
      /\ x.found = info[i].found /\ x.deleted = info[i].deleted /\ x.imports = info[i].imports
      /\ x.importedBy = info[i].importedBy /\ x.diags = info[i].diags /\ x.seen = info[i].seen
  BY <1>1 DEF Objects
<1> HIDE DEF x
<1>4. /\ DOMAIN info' = DOMAIN info /\ info' \in [DOMAIN info -> Objects] /\ info'[i] = x
      /\ \A k \in DOMAIN info \ {i} : info'[k] = info[k]
  BY <1>1, <1>2, <1>3
<1>5. SameGraph(info, info')
  BY <1>3, <1>4 DEF SameGraph
<1>6. InfoType(info') /\ \A l : ListType(info, l) => ListType(info', l)
  BY <1>4, <1>5, SameGraphIsTyped DEF Types
<1>7. ASSUME NEW k \in DOMAIN info
      PROVE  /\ info'[k].tracked = info[k].tracked /\ info'[k].parsed = info[k].parsed
             /\ info'[k].hash = info[k].hash /\ info'[k].found = info[k].found
             /\ info'[k].seen = info[k].seen /\ info'[k].dirty = info[k].dirty
             /\ info'[k].check = info[k].check /\ info'[k].diags = info[k].diags
             /\ k # i => info'[k].doc = info[k].doc
  <2>1. CASE k = i
    BY <2>1, <1>3, <1>4
  <2>2. CASE k # i
    BY <2>2, <1>4
  <2> QED
    BY <2>1, <2>2
<1> QED
  BY <1>3, <1>4, <1>5, <1>6, <1>7

LEMMA TypesSetFileClosed ==
  ASSUME Types, NEW f \in Paths, SetFileClosed(f)
  PROVE  Types'
<1>1. PICK i \in AtPath(f) :
        info' = [info EXCEPT ![i].doc = Closed] /\ list' = list /\ turn' = Removing("rest")
  BY DEF SetFileClosed
<1>2. i \in DOMAIN info
  BY Listed DEF Types, InList, AtPath
<1>3. InfoType(info') /\ ListType(info', list')
  BY <1>1, <1>2, ClosedEffect DEF Types
<1>4. TurnType'
  BY <1>1, <1>3, TurnsAreTyped, RemovalBegins
<1>5. unmarked' \subseteq Paths /\ hurried' \subseteq Paths
  BY DEF SetFileClosed, Types
<1> QED
  BY <1>3, <1>4, <1>5 DEF SetFileClosed, ScheduleReanalysis, Types

\* An event marks files dirty, and nothing else.
LEMMA WatchEffect ==
  ASSUME Types, NEW f \in Paths, WatchEvent(f)
  PROVE  /\ DOMAIN info' = DOMAIN info /\ SameGraph(info, info')
         /\ InfoType(info') /\ ListType(info', list')
         /\ \A k \in DOMAIN info :
              /\ SameButMarks(info[k], info'[k])
              /\ info[k].dirty => info'[k].dirty
              /\ info[k].check => info'[k].check
              /\ info'[k].dirty => info[k].dirty \/ info'[k].check
<1>1. info \in [DOMAIN info -> Objects] /\ list' = list
  BY DEF Types, InfoType, WatchEvent
<1>2. CASE events[f] = "change" /\ disk[f] # Absent /\ f \in Sources
  <2> DEFINE S == {i \in AtPath(f) : DidContentsChangeOnDisk(i)}
  <2>1. info' = MarkFilesDirty(info, S)
    BY <1>2 DEF WatchEvent
  <2>2. S \in SUBSET DOMAIN info
    BY Listed DEF Types, InList, AtPath
  <2> HIDE DEF S
  <2>3. /\ DOMAIN info' = DOMAIN info /\ info' \in [DOMAIN info -> Objects]
        /\ SameGraph(info, info')
        /\ \A j \in DOMAIN info :
             /\ SameButMarks(info[j], info'[j])
             /\ info'[j].dirty <=> info[j].dirty \/ j \in S
             /\ info'[j].check <=> info[j].check \/ \E i \in S : j \in Above(info, i)
    BY <2>1, <2>2, MarkFilesDirtyEffect DEF Types
  <2>4. InfoType(info') /\ ListType(info', list')
    BY <1>1, <2>3, SameGraphIsTyped DEF Types
  <2>5. \A i \in S : i \in Above(info, i)
    BY <2>2, AboveIsLeast DEF Types, InfoType, ImportersAreObjects
  <2> QED
    BY <2>3, <2>4, <2>5
<1>3. CASE ~(events[f] = "change" /\ disk[f] # Absent /\ f \in Sources)
  <2>1. info' = [i \in DOMAIN info |-> IF i \in InList THEN MarkDirty(info[i]) ELSE info[i]]
    BY <1>3 DEF WatchEvent
  <2>2. ASSUME NEW k \in DOMAIN info
        PROVE  /\ info'[k] \in Objects /\ SameButMarks(info[k], info'[k])
               /\ info[k].dirty => info'[k].dirty
               /\ info[k].check => info'[k].check
               /\ info'[k].dirty => info[k].dirty \/ info'[k].check
    <3>1. MarkDirty(info[k]) \in Objects /\ SameButMarks(info[k], MarkDirty(info[k]))
          /\ MarkDirty(info[k]).check /\ MarkDirty(info[k]).dirty /\ info[k] \in Objects
      BY <1>1, MarkIsTyped
    <3>2. CASE k \in InList
      BY <2>1, <3>1, <3>2
    <3>3. CASE k \notin InList
      <4>1. info'[k] = info[k]
        BY <2>1, <3>3
      <4> QED
        BY <3>1, <4>1 DEF SameButMarks
    <3> QED
      BY <3>2, <3>3
  <2>3. DOMAIN info' = DOMAIN info /\ info' \in [DOMAIN info -> Objects]
    BY <2>1, <2>2
  <2>4. SameGraph(info, info')
    BY <2>2, <2>3 DEF SameGraph, SameButMarks
  <2>5. InfoType(info') /\ ListType(info', list')
    BY <1>1, <2>3, <2>4, SameGraphIsTyped DEF Types
  <2> QED
    BY <2>2, <2>3, <2>4, <2>5
<1> QED
  BY <1>2, <1>3

LEMMA TypesWatchEvent ==
  ASSUME Types, NEW f \in Paths, WatchEvent(f)
  PROVE  Types'
<1>1. InfoType(info') /\ ListType(info', list')
  BY WatchEffect
<1>2. TurnType'
  BY TurnsAreTyped DEF WatchEvent, IsIdle, TurnType
<1>3. events' \in [Paths -> {"none", "change", "rename"}]
  BY DEF WatchEvent, Types
<1>4. ListingType'
  BY TypesParts DEF WatchEvent, ListingType
<1>5. unmarked' \subseteq Paths
  BY DEF WatchEvent, Types
<1>6. timer' \in BOOLEAN /\ update' \in BOOLEAN
  BY DEF WatchEvent, ScheduleReanalysis, Types
<1> QED
  BY <1>1, <1>2, <1>3, <1>4, <1>5, <1>6 DEF WatchEvent, Types, ListingType

LEMMA TypesStutter ==
  ASSUME Types, UNCHANGED vars
  PROVE  Types'
<1>1. /\ disk' = disk /\ events' = events /\ info' = info /\ list' = list
      /\ listing' = listing /\ timer' = timer /\ update' = update /\ shown' = shown
      /\ turn' = turn /\ unmarked' = unmarked /\ hurried' = hurried /\ failed' = failed
  BY DEF vars, program, histories
<1>2. TurnType'
  BY <1>1 DEF Types, TurnType, InList
<1> QED
  BY <1>1, <1>2 DEF Types

LEMMA TypesNext ==
  ASSUME Types, Next
  PROVE  Types'
<1>1. CASE Environment
  BY <1>1, TypesEnvironment
<1>2. CASE User
  BY <1>2, TypesSetFileOpened, TypesSetFileClosed, TypesUpdateOpenFileContents DEF User
<1>3. ASSUME NEW f \in Paths, WatchEvent(f) PROVE Types'
  BY <1>3, TypesWatchEvent
<1>4. CASE Analysis
  BY <1>4, TypesAnalyzeTimer, TypesEndUpdate, TypesCheckTypes, TypesEndPass, TypesEndReport,
     TypesLookUp, TypesChecked DEF Analysis
<1>5. CASE Removal
  BY <1>5, TypesRemoveNext, TypesEndClose, TypesForget DEF Removal
<1> QED
  BY <1>1, <1>2, <1>3, <1>4, <1>5 DEF Next

\* What the analysis keeps has its types in all states.  Two objects of a file are never in
\* the list together: the list and the map from paths to objects agree.
THEOREM TypesAreKept == Spec => []Types
<1>1. Init => Types
  BY TypesInit
<1>2. Types /\ [Next]_vars => Types'
  BY TypesNext, TypesStutter
<1> QED
  BY <1>1, <1>2, PTL DEF Spec

LEMMA TypesGiveTypeOK == Types => TypeOK
<1> SUFFICES ASSUME Types PROVE TypeOK
  OBVIOUS
<1>1. /\ DOMAIN info \subseteq Paths \X Ages /\ list \in Seq(DOMAIN info)
      /\ \A m, n \in DOMAIN list : PathOf(list[m]) = PathOf(list[n]) => m = n
  <2>1. list \in Seq(DOMAIN info) /\ DOMAIN info \subseteq Paths \X Ages
    BY DEF Types, InfoType, ListType, ObjectIds
  <2>2. DOMAIN list = 1..Len(list)
    BY <2>1
  <2> QED
    BY <2>1, <2>2 DEF Types, ListType
<1>2. ASSUME NEW i \in DOMAIN info
      PROVE  /\ info[i].doc \in AllTexts \cup {Closed}
             /\ info[i].parsed \in AllTexts \cup {NoTree, Empty}
             /\ info[i].diags \in {"none", "old", "current"}
             /\ info[i].imports \cup info[i].importedBy \subseteq DOMAIN info
  BY DEF Types, InfoType, Objects, Texts
<1>3. turn.at \in {"idle", "pass", "check", "remove"} /\ turn.n \in Nat
  BY DEF Types, TurnType, Turns
<1>4. listing \in (SUBSET Paths) \cup {Unread}
  BY DEF Types
<1> QED
  BY <1>1, <1>2, <1>3, <1>4 DEF TypeOK, Types

\* TypeOK holds in all states: in particular the list of files never has two objects with the
\* same path, what _addToSourceFileListAndMap asserts (program.ts:1311).
THEOREM TypeInvariant == Spec => []TypeOK
  BY TypesAreKept, TypesGiveTypeOK, PTL

-----------------------------------------------------------------------------
(* The graph of imports *)

\* A file of which there is an object, or that the resolver knows, is on disk or was deleted.
HasBeen ==
  \A f \in Paths :
    f \in PathsOf(DOMAIN info) \/ (listing # Unread /\ f \in listing)
      => disk[f] # Absent \/ f \in Deleted

\* An object found deleted imports nothing, is no root, and no import leads to its path.
DeletedIsGone ==
  \A i \in DOMAIN info : info[i].deleted =>
    /\ info[i].imports = {} /\ ~IsRoot(info, i) /\ disk[PathOf(i)] = Absent
    /\ listing = Unread \/ PathOf(i) \notin listing

\* The importers of an object are the files in the list that import it, and the one that
\* is being removed as long as it has not been forgotten there.
EdgesAgree ==
  \A j, k \in DOMAIN info :
    j \in info[k].importedBy <=>
      \/ j \in InList /\ k \in info[j].imports
      \/ turn.at = "remove" /\ j = turn.file /\ k \in turn.left

\* What a file in the list imports is in the list too, or was found deleted, or the file
\* that imports it is going to be removed.
ImportsAreListed ==
  \A j \in InList : \A k \in info[j].imports :
    k \in InList \/ info[k].deleted \/ (turn.at = "remove" /\ ~IsFileNeeded(info, j))

\* Files before the position of a removal are needed, and those above a file that is being
\* removed are not.
RemovalGoesOn ==
  turn.at = "remove" =>
    /\ \A m \in 1..(turn.n - 1) : Needed(m)
    /\ turn.left # {} => ~HasRoot(info, turn.file)

NoAssertion == "importedBy" \notin failed

GraphInv ==
  HasBeen /\ DeletedIsGone /\ EdgesAgree /\ ImportsAreListed /\ RemovalGoesOn /\ NoAssertion

LEMMA GraphInit == Init => GraphInv
<1> SUFFICES ASSUME Init PROVE GraphInv
  OBVIOUS
<1>1. DOMAIN info = SourcesOnDisk \X {FirstAge}
      /\ \A i \in DOMAIN info : info[i] = Object(TRUE)
  BY DEF Init
<1>2. Object(TRUE).imports = {} /\ Object(TRUE).importedBy = {} /\ ~Object(TRUE).deleted
  BY DEF Object
<1>3. turn.at = "idle" /\ turn = Idle /\ listing = Unread /\ failed = {}
  BY TurnsAreTyped DEF Init
<1>4. HasBeen
  BY <1>1, <1>3 DEF HasBeen, PathsOf, PathOf, SourcesOnDisk
<1>5. DeletedIsGone /\ EdgesAgree
  BY <1>1, <1>2, <1>3 DEF DeletedIsGone, EdgesAgree
<1>6. ImportsAreListed
  <2>1. Types
    BY TypesInit
  <2> QED
    BY <1>1, <1>2, <2>1, Listed DEF ImportsAreListed, Types, InList
<1> QED
  BY <1>3, <1>4, <1>5, <1>6 DEF GraphInv, RemovalGoesOn, NoAssertion

\* Files that are tracked or open are needed.
LEMMA RootsAreNeeded ==
  ASSUME Types, DeletedIsGone, NEW i \in DOMAIN info, IsRoot(info, i)
  PROVE  IsFileNeeded(info, i)
BY DEF DeletedIsGone, IsFileNeeded, IsRoot

LEMMA GraphIsTyped ==
  ASSUME Types
  PROVE  /\ ImportersAreObjects(info) /\ InList \subseteq DOMAIN info
         /\ \A i \in DOMAIN info : info[i].imports \subseteq DOMAIN info
         /\ \A n \in 1..Len(list) : list[n] \in InList
         /\ \A i \in InList : \E n \in 1..Len(list) : list[n] = i
         /\ \A i, j \in InList : PathOf(i) = PathOf(j) => i = j
         /\ Len(list) \in Nat /\ turn.n \in Nat \ {0}
BY Listed DEF Types, InfoType, ImportersAreObjects, InList, TurnType, Turns

\* When no removal is going on, or one is at its end, what is imported is listed.
LEMMA ImportsAreListedAtRest ==
  ASSUME Types, GraphInv, turn.at = "remove" => AllNeeded,
         NEW j \in InList, NEW k \in info[j].imports
  PROVE  k \in InList \/ info[k].deleted
<1>1. CASE turn.at # "remove"
  BY <1>1 DEF GraphInv, ImportsAreListed
<1>2. CASE turn.at = "remove"
  <2>1. PICK n \in 1..Len(list) : list[n] = j
    BY GraphIsTyped
  <2>2. Needed(n)
    <3>1. n \in 1..(turn.n - 1) \/ n \in turn.n..Len(list)
      BY GraphIsTyped
    <3> QED
      BY <1>2, <3>1 DEF GraphInv, RemovalGoesOn, AllNeeded
  <2> QED
    BY <2>1, <2>2 DEF GraphInv, ImportsAreListed, Needed
<1> QED
  BY <1>1, <1>2

\* Steps that add objects that import nothing yet, or drop objects that are not in the list,
\* and leave all other imports as they are.
GraphStep ==
  /\ InList' = InList \cup (DOMAIN info' \ DOMAIN info)
  /\ \A k \in DOMAIN info' \ DOMAIN info :
       /\ info'[k].imports = {} /\ info'[k].importedBy = {} /\ ~info'[k].deleted
       /\ disk[PathOf(k)] # Absent
  /\ \A k \in DOMAIN info \cap DOMAIN info' :
       /\ info'[k].imports = info[k].imports /\ info'[k].importedBy = info[k].importedBy
       /\ info'[k].deleted = info[k].deleted
       /\ info[k].deleted => ~IsRoot(info', k)
  /\ disk' = disk
  /\ listing' = listing \/ listing' = Unread
  /\ turn.at = "remove" => AllNeeded
  /\ turn'.at = "remove" => turn'.left = {} /\ turn'.n = 1
  /\ "importedBy" \notin failed'

LEMMA GraphAfterGraphStep ==
  ASSUME Types, Types', GraphInv, GraphStep
  PROVE  GraphInv'
<1>1. /\ InList \subseteq DOMAIN info /\ ImportersAreObjects(info)
      /\ \A i \in DOMAIN info : info[i].imports \subseteq DOMAIN info
  BY GraphIsTyped
<1>2. \A i \in DOMAIN info' : info'[i].imports \subseteq DOMAIN info'
  BY DEF Types, InfoType
<1>3. HasBeen'
  <2> SUFFICES ASSUME NEW f \in Paths,
                      f \in PathsOf(DOMAIN info') \/ (listing' # Unread /\ f \in listing')
               PROVE  disk[f] # Absent \/ f \in Deleted
    BY DEF HasBeen, GraphStep
  <2>1. CASE listing' # Unread /\ f \in listing'
    BY <2>1 DEF GraphStep, GraphInv, HasBeen
  <2>2. CASE f \in PathsOf(DOMAIN info')
    <3>1. PICK k \in DOMAIN info' : PathOf(k) = f
      BY <2>2 DEF PathsOf
    <3>2. CASE k \in DOMAIN info
      BY <3>1, <3>2 DEF GraphInv, HasBeen, PathsOf
    <3>3. CASE k \notin DOMAIN info
      BY <3>1, <3>3 DEF GraphStep
    <3> QED
      BY <3>2, <3>3
  <2> QED
    BY <2>1, <2>2
<1>4. DeletedIsGone'
  <2> SUFFICES ASSUME NEW i \in DOMAIN info', info'[i].deleted
               PROVE  /\ info'[i].imports = {} /\ ~IsRoot(info', i) /\ disk'[PathOf(i)] = Absent
                      /\ listing' = Unread \/ PathOf(i) \notin listing'
    BY DEF DeletedIsGone, IsRoot
  <2>1. i \in DOMAIN info /\ info[i].deleted
    BY DEF GraphStep
  <2> QED
    BY <2>1 DEF GraphStep, GraphInv, DeletedIsGone
<1>5. EdgesAgree'
  <2> SUFFICES ASSUME NEW j \in DOMAIN info', NEW k \in DOMAIN info'
               PROVE  j \in info'[k].importedBy <=> j \in InList' /\ k \in info'[j].imports
    BY DEF EdgesAgree, GraphStep
  <2>1. CASE j \in DOMAIN info /\ k \in DOMAIN info
    <3>1. j \in info[k].importedBy <=> j \in InList /\ k \in info[j].imports
      BY <2>1 DEF GraphInv, EdgesAgree, GraphStep, AllNeeded
    <3> QED
      BY <2>1, <3>1 DEF GraphStep
  <2>2. CASE j \notin DOMAIN info /\ k \in DOMAIN info
    BY <2>2, <1>1 DEF GraphStep, ImportersAreObjects
  <2>3. CASE k \notin DOMAIN info /\ j \in DOMAIN info
    BY <2>3, <1>1 DEF GraphStep
  <2>4. CASE k \notin DOMAIN info /\ j \notin DOMAIN info
    BY <2>4 DEF GraphStep
  <2> QED
    BY <2>1, <2>2, <2>3, <2>4
<1>6. ImportsAreListed'
  <2> SUFFICES ASSUME NEW j \in InList', NEW k \in info'[j].imports
               PROVE  k \in InList' \/ info'[k].deleted
    BY DEF ImportsAreListed
  <2>1. j \in DOMAIN info' /\ k \in DOMAIN info'
    BY <1>2, Listed DEF Types, InList
  <2>2. j \in DOMAIN info /\ j \in InList /\ k \in info[j].imports
    BY <2>1 DEF GraphStep
  <2>3. k \in InList \/ info[k].deleted
    BY <2>2, ImportsAreListedAtRest DEF GraphStep
  <2> QED
    BY <1>1, <2>1, <2>2, <2>3 DEF GraphStep
<1>7. RemovalGoesOn'
  BY DEF RemovalGoesOn, GraphStep
<1> QED
  BY <1>3, <1>4, <1>5, <1>6, <1>7 DEF GraphInv, GraphStep, NoAssertion

LEMMA RootsShrink ==
  ASSUME Types, DeletedIsGone, NEW k \in DOMAIN info \cap DOMAIN info', info[k].deleted,
         info'[k].tracked => info[k].tracked, info'[k].doc = info[k].doc
  PROVE  ~IsRoot(info', k)
BY DEF DeletedIsGone, IsRoot, IsOpen

LEMMA GraphAnalyzeTimer ==
  ASSUME Types, Types', GraphInv, AnalyzeTimer
  PROVE  GraphInv'
<1>1. turn.at = "idle" /\ disk' = disk /\ listing' = listing /\ "importedBy" \notin failed'
  BY TurnsAreTyped DEF AnalyzeTimer, IsIdle, GraphInv, NoAssertion
<1>2. CASE update
  <2>1. SetTracked /\ turn' = Removing("pass")
    BY <1>2 DEF AnalyzeTimer
  <2>2. turn'.left = {} /\ turn'.n = 1
    BY <2>1, TurnsAreTyped
  <2>3. /\ InList' = InList \cup (DOMAIN info' \ DOMAIN info)
        /\ \A k \in DOMAIN info' \ DOMAIN info :
             /\ info'[k].imports = {} /\ info'[k].importedBy = {} /\ ~info'[k].deleted
             /\ disk[PathOf(k)] # Absent
    BY <2>1, SetTrackedEffect DEF SourcesOnDisk
  <2>4. \A k \in DOMAIN info :
          /\ info'[k].imports = info[k].imports /\ info'[k].importedBy = info[k].importedBy
          /\ info'[k].deleted = info[k].deleted
          /\ info[k].deleted => ~IsRoot(info', k)
    <3> SUFFICES ASSUME NEW k \in DOMAIN info
                 PROVE  /\ info'[k].imports = info[k].imports
                        /\ info'[k].importedBy = info[k].importedBy
                        /\ info'[k].deleted = info[k].deleted
                        /\ info[k].deleted => ~IsRoot(info', k)
      OBVIOUS
    <3>1. /\ info'[k].imports = info[k].imports /\ info'[k].importedBy = info[k].importedBy
          /\ info'[k].deleted = info[k].deleted /\ info'[k].doc = info[k].doc
          /\ info'[k].tracked = (IF k \in InList THEN PathOf(k) \in SourcesOnDisk
                               ELSE info[k].tracked)
      BY <2>1, SetTrackedEffect
    <3>2. info[k].deleted => disk[PathOf(k)] = Absent /\ ~info[k].tracked /\ ~IsOpen(info[k])
      BY DEF GraphInv, DeletedIsGone, IsRoot
    <3> QED
      BY <3>1, <3>2 DEF SourcesOnDisk, IsRoot, IsOpen
  <2>5. GraphStep
    BY <1>1, <2>2, <2>3, <2>4 DEF GraphStep
  <2> QED
    BY <2>5, GraphAfterGraphStep
<1>3. CASE ~update
  <2>1. turn' = Pass(info) /\ UNCHANGED <<info, list>>
    BY <1>3 DEF AnalyzeTimer
  <2>2. turn'.at = "pass"
    BY <2>1, PassIsTyped DEF Types
  <2>3. GraphStep
    BY <1>1, <2>1, <2>2 DEF GraphStep, InList, GraphInv, DeletedIsGone, IsRoot
  <2> QED
    BY <2>3, GraphAfterGraphStep
<1> QED
  BY <1>2, <1>3 DEF Types

LEMMA GraphEndUpdate ==
  ASSUME Types, Types', GraphInv, EndUpdate
  PROVE  GraphInv'
<1>1. AllNeeded /\ list' = list /\ disk' = disk /\ listing' = listing
      /\ "importedBy" \notin failed'
  BY DEF EndUpdate, GraphInv, NoAssertion
<1>2. /\ DOMAIN info' = DOMAIN info /\ SameGraph(info, info') /\ turn' = Pass(info')
      /\ \A k \in DOMAIN info : info'[k].tracked = info[k].tracked /\ info'[k].doc = info[k].doc
  BY EndUpdateEffect
<1>3. turn'.at = "pass"
  BY <1>1, <1>2, PassIsTyped DEF Types
<1>4. \A k \in DOMAIN info : info[k].deleted => ~IsRoot(info', k)
  BY <1>2, RootsShrink DEF GraphInv
<1>5. GraphStep
  BY <1>1, <1>2, <1>3, <1>4 DEF GraphStep, SameGraph, InList
<1> QED
  BY <1>5, GraphAfterGraphStep

LEMMA GraphChecked ==
  ASSUME Types, Types', GraphInv, NEW outOfTime \in BOOLEAN, Checked(outOfTime)
  PROVE  GraphInv'
<1>1. turn.at = "check" /\ list' = list /\ disk' = disk /\ listing' = listing
      /\ "importedBy" \notin failed'
  BY DEF Checked, GraphInv, NoAssertion
<1>2. /\ DOMAIN info' = DOMAIN info /\ SameGraph(info, info')
      /\ \A k \in DOMAIN info : info'[k].tracked = info[k].tracked /\ info'[k].doc = info[k].doc
  BY CheckedEffect DEF SameGraph
<1>3. turn'.at = "remove" => turn'.left = {} /\ turn'.n = 1
  <2>1. CASE outOfTime
    <3> DEFINE r == Removing("report")
    <3>1. r \in Turns /\ r.left = {} /\ r.n = 1
      BY TurnsAreTyped
    <3>2. turn' = [r EXCEPT !.before = turn.before, !.gone = turn.gone, !.more = TRUE]
      BY <2>1 DEF Checked
    <3> HIDE DEF r
    <3> QED
      BY <3>1, <3>2 DEF Turns
  <2>2. CASE ~outOfTime
    <3>1. turn' = [turn EXCEPT !.at = "pass", !.file = <<>>, !.todo = {}, !.seen = <<>>]
      BY <2>2 DEF Checked
    <3> QED
      BY <3>1 DEF Types, TurnType, Turns
  <2> QED
    BY <2>1, <2>2
<1>4. \A k \in DOMAIN info : info[k].deleted => ~IsRoot(info', k)
  BY <1>2, RootsShrink DEF GraphInv
<1>5. GraphStep
  BY <1>1, <1>2, <1>3, <1>4 DEF GraphStep, SameGraph, InList
<1> QED
  BY <1>5, GraphAfterGraphStep

LEMMA GraphEndPass ==
  ASSUME Types, Types', GraphInv, EndPass
  PROVE  GraphInv'
<1>1. turn.at = "pass" /\ list' = list /\ disk' = disk /\ listing' = listing
      /\ "importedBy" \notin failed'
  BY DEF EndPass, GraphInv, NoAssertion
<1>2. /\ DOMAIN info' \subseteq DOMAIN info /\ InList \subseteq DOMAIN info'
      /\ \A k \in DOMAIN info' : info'[k] = info[k]
  <2>1. CASE info' = Collect(info)
    BY <2>1, CollectEffect DEF Types
  <2>2. CASE info' = info
    BY <2>2, GraphIsTyped
  <2> QED
    BY <2>1, <2>2 DEF EndPass
<1>3. turn'.at = "remove" => turn'.left = {} /\ turn'.n = 1
  <2>1. CASE turn' = Idle
    BY <2>1, TurnsAreTyped
  <2>2. CASE turn' = [Removing("report") EXCEPT !.before = turn.before, !.gone = turn.gone,
                                                !.more = turn.opened # {}]
    <3> DEFINE r == Removing("report")
    <3>1. r \in Turns /\ r.left = {} /\ r.n = 1
      BY TurnsAreTyped
    <3>2. turn' = [r EXCEPT !.before = turn.before, !.gone = turn.gone, !.more = turn.opened # {}]
      BY <2>2
    <3> HIDE DEF r
    <3> QED
      BY <3>1, <3>2 DEF Turns
  <2> QED
    BY <2>1, <2>2 DEF EndPass
<1>4. \A k \in DOMAIN info' : info[k].deleted => ~IsRoot(info', k)
  BY <1>2 DEF GraphInv, DeletedIsGone, IsRoot
<1>5. GraphStep
  BY <1>1, <1>2, <1>3, <1>4 DEF GraphStep, InList
<1> QED
  BY <1>5, GraphAfterGraphStep

LEMMA GraphEndReport ==
  ASSUME Types, Types', GraphInv, EndReport
  PROVE  GraphInv'
<1>1. AllNeeded /\ list' = list /\ disk' = disk /\ listing' = listing /\ turn' = Idle
      /\ "importedBy" \notin failed'
  BY DEF EndReport, GraphInv, NoAssertion
<1>2. /\ DOMAIN info' \subseteq DOMAIN info /\ InList \subseteq DOMAIN info'
      /\ \A k \in DOMAIN info' :
           /\ info'[k].tracked = info[k].tracked /\ info'[k].doc = info[k].doc
           /\ info'[k].deleted = info[k].deleted /\ info'[k].imports = info[k].imports
           /\ info'[k].importedBy = info[k].importedBy
  BY ReportEffect
<1>3. turn'.at = "idle"
  BY <1>1, TurnsAreTyped
<1>4. \A k \in DOMAIN info' : info[k].deleted => ~IsRoot(info', k)
  BY <1>2, RootsShrink DEF GraphInv
<1>5. GraphStep
  BY <1>1, <1>2, <1>3, <1>4 DEF GraphStep, InList
<1> QED
  BY <1>5, GraphAfterGraphStep

LEMMA GraphEndClose ==
  ASSUME Types, Types', GraphInv, EndClose
  PROVE  GraphInv'
<1>1. AllNeeded /\ list' = list /\ disk' = disk /\ listing' = listing /\ turn' = Idle
      /\ "importedBy" \notin failed'
  BY DEF EndClose, GraphInv, NoAssertion
<1>2. /\ DOMAIN info' \subseteq DOMAIN info /\ InList \subseteq DOMAIN info'
      /\ \A k \in DOMAIN info' :
           /\ info'[k].tracked = info[k].tracked /\ info'[k].doc = info[k].doc
           /\ info'[k].deleted = info[k].deleted /\ info'[k].imports = info[k].imports
           /\ info'[k].importedBy = info[k].importedBy
  BY EndCloseEffect
<1>3. turn'.at = "idle"
  BY <1>1, TurnsAreTyped
<1>4. \A k \in DOMAIN info' : info[k].deleted => ~IsRoot(info', k)
  BY <1>2, RootsShrink DEF GraphInv
<1>5. GraphStep
  BY <1>1, <1>2, <1>3, <1>4 DEF GraphStep, InList
<1> QED
  BY <1>5, GraphAfterGraphStep

LEMMA GraphSetFileOpened ==
  ASSUME Types, Types', GraphInv, NEW f \in Paths, SetFileOpened(f)
  PROVE  GraphInv'
<1>1. turn' = turn /\ turn.at = "idle" /\ disk' = disk /\ listing' = listing
      /\ "importedBy" \notin failed' /\ disk[f] # Absent
  BY TurnsAreTyped DEF SetFileOpened, IsIdle, GraphInv, NoAssertion
<1>2. InList' = InList \cup (DOMAIN info' \ DOMAIN info)
  BY SetFileOpenedEffect
<1>3. PICK i \in InList' :
        /\ PathOf(i) = f
        /\ \A k \in DOMAIN info' \ DOMAIN info :
             k = i /\ info'[k].imports = {} /\ info'[k].importedBy = {} /\ ~info'[k].deleted
        /\ \A k \in DOMAIN info \ {i} : info'[k] = info[k]
        /\ i \in DOMAIN info =>
             /\ info'[i].deleted = info[i].deleted /\ info'[i].imports = info[i].imports
             /\ info'[i].importedBy = info[i].importedBy
  BY SetFileOpenedEffect
<1>4. ASSUME NEW k \in DOMAIN info
      PROVE  /\ info'[k].imports = info[k].imports /\ info'[k].importedBy = info[k].importedBy
             /\ info'[k].deleted = info[k].deleted
             /\ info[k].deleted => ~IsRoot(info', k)
  <2>1. CASE k = i
    BY <1>1, <1>3, <2>1 DEF GraphInv, DeletedIsGone
  <2>2. CASE k # i
    BY <1>3, <2>2 DEF GraphInv, DeletedIsGone, IsRoot
  <2> QED
    BY <2>1, <2>2
<1>5. GraphStep
  BY <1>1, <1>2, <1>3, <1>4 DEF GraphStep
<1> QED
  BY <1>5, GraphAfterGraphStep

LEMMA GraphUpdateOpenFileContents ==
  ASSUME Types, Types', GraphInv, NEW f \in Paths, NEW text \in TextsOf[f],
         UpdateOpenFileContents(f, text)
  PROVE  GraphInv'
<1>1. turn' = turn /\ turn.at = "idle" /\ disk' = disk /\ listing' = listing /\ list' = list
      /\ "importedBy" \notin failed'
  BY TurnsAreTyped DEF UpdateOpenFileContents, IsIdle, GraphInv, NoAssertion
<1>2. PICK i \in DOMAIN info :
        /\ IsOpen(info[i]) /\ DOMAIN info' = DOMAIN info /\ SameGraph(info, info')
        /\ \A k \in DOMAIN info :
             info'[k].tracked = info[k].tracked /\ (k # i => info'[k].doc = info[k].doc)
  BY UpdateEffect
<1>3. ASSUME NEW k \in DOMAIN info, info[k].deleted
      PROVE  ~IsRoot(info', k)
  <2>1. k # i
    BY <1>2, <1>3 DEF GraphInv, DeletedIsGone, IsRoot
  <2> QED
    BY <1>2, <1>3, <2>1, RootsShrink DEF GraphInv
<1>4. GraphStep
  BY <1>1, <1>2, <1>3 DEF GraphStep, SameGraph, InList
<1> QED
  BY <1>4, GraphAfterGraphStep

LEMMA GraphSetFileClosed ==
  ASSUME Types, Types', GraphInv, NEW f \in Paths, SetFileClosed(f)
  PROVE  GraphInv'
<1>1. turn' = Removing("rest") /\ turn.at = "idle" /\ disk' = disk /\ listing' = listing
      /\ list' = list /\ "importedBy" \notin failed'
  BY TurnsAreTyped DEF SetFileClosed, IsIdle, GraphInv, NoAssertion
<1>2. PICK i \in AtPath(f) : info' = [info EXCEPT ![i].doc = Closed]
  BY DEF SetFileClosed
<1>3. i \in DOMAIN info
  BY GraphIsTyped DEF AtPath
<1>4. /\ DOMAIN info' = DOMAIN info /\ SameGraph(info, info') /\ info'[i].doc = Closed
      /\ \A k \in DOMAIN info :
           info'[k].tracked = info[k].tracked /\ (k # i => info'[k].doc = info[k].doc)
  BY <1>2, <1>3, ClosedEffect
<1>5. \A k \in DOMAIN info : info[k].deleted => ~IsRoot(info', k)
  BY <1>4 DEF GraphInv, DeletedIsGone, IsRoot, IsOpen
<1>6. GraphStep
  BY <1>1, <1>4, <1>5, TurnsAreTyped DEF GraphStep, SameGraph, InList
<1> QED
  BY <1>6, GraphAfterGraphStep

LEMMA GraphWatchEvent ==
  ASSUME Types, Types', GraphInv, NEW f \in Paths, WatchEvent(f)
  PROVE  GraphInv'
<1>1. turn' = turn /\ turn.at = "idle" /\ disk' = disk /\ list' = list
      /\ "importedBy" \notin failed'
  BY TurnsAreTyped DEF WatchEvent, IsIdle, GraphInv, NoAssertion
<1>2. listing' = listing \/ listing' = Unread
  BY DEF WatchEvent
<1>3. /\ DOMAIN info' = DOMAIN info /\ SameGraph(info, info')
      /\ \A k \in DOMAIN info : info'[k].tracked = info[k].tracked /\ info'[k].doc = info[k].doc
  BY WatchEffect DEF SameButMarks
<1>4. \A k \in DOMAIN info : info[k].deleted => ~IsRoot(info', k)
  BY <1>3, RootsShrink DEF GraphInv
<1>5. GraphStep
  BY <1>1, <1>2, <1>3, <1>4 DEF GraphStep, SameGraph, InList
<1> QED
  BY <1>5, GraphAfterGraphStep

LEMMA GraphEnvironment ==
  ASSUME Types, GraphInv, Environment
  PROVE  GraphInv'
<1>1. PICK f \in Paths, text \in AllTexts \cup {Absent} :
        /\ Put(f, text)
        /\ \/ disk[f] # Absent /\ (text # Absent \/ f \in Deleted)
           \/ f \in Created /\ disk[f] = Absent /\ text # Absent
  <2>1. PICK f \in Paths : Delete(f) \/ \E text \in TextsOf[f] : Write(f, text) \/ Create(f, text)
    BY DEF Environment
  <2>2. \A text \in TextsOf[f] : text \in AllTexts /\ text # Absent
    BY TextsAssumption DEF AllTexts
  <2>3. CASE Delete(f)
    BY <2>3 DEF Delete
  <2>4. CASE \E text \in TextsOf[f] : Write(f, text) \/ Create(f, text)
    BY <2>2, <2>4 DEF Write, Create
  <2> QED
    BY <2>1, <2>3, <2>4
<1>2. info' = info /\ list' = list /\ listing' = listing /\ turn' = turn /\ failed' = failed
      /\ InList' = InList
  BY <1>1 DEF Put, program, InList
<1>3. disk' = [disk EXCEPT ![f] = text]
  BY <1>1 DEF Put
<1>4. disk \in [Paths -> AllTexts \cup {Absent}]
  BY DEF Types
<1>5. HasBeen'
  <2> SUFFICES ASSUME NEW g \in Paths,
                      g \in PathsOf(DOMAIN info) \/ (listing # Unread /\ g \in listing)
               PROVE  disk'[g] # Absent \/ g \in Deleted
    BY <1>2 DEF HasBeen
  <2>1. disk[g] # Absent \/ g \in Deleted
    BY DEF GraphInv, HasBeen
  <2> QED
    BY <1>1, <1>3, <1>4, <2>1
<1>6. DeletedIsGone'
  <2> SUFFICES ASSUME NEW i \in DOMAIN info, info[i].deleted
               PROVE  disk'[PathOf(i)] = Absent
    BY <1>2 DEF GraphInv, DeletedIsGone, IsRoot
  <2>1. disk[PathOf(i)] = Absent
    BY DEF GraphInv, DeletedIsGone
  <2>2. PathOf(i) \in Paths /\ PathOf(i) \in PathsOf(DOMAIN info)
    BY DEF Types, InfoType, ObjectIds, PathOf, PathsOf
  <2>3. PathOf(i) \in Deleted
    BY <2>1, <2>2 DEF GraphInv, HasBeen
  <2>4. PathOf(i) = f => text = Absent
    BY <1>1, <2>1, <2>3, NoneCreatedAgain
  <2> QED
    BY <1>3, <1>4, <2>1, <2>2, <2>4
<1>7. EdgesAgree' /\ ImportsAreListed' /\ RemovalGoesOn' /\ NoAssertion'
  BY <1>2 DEF GraphInv, EdgesAgree, ImportsAreListed, RemovalGoesOn, NoAssertion, HasRoot,
              IsRoot, Needed
<1> QED
  BY <1>5, <1>6, <1>7 DEF GraphInv

\* What a file is found to import is on disk or known to the resolver, so that no object of
\* it was found deleted.
LEMMA FoundIsNotDeleted ==
  ASSUME Types, GraphInv, NEW i \in DOMAIN info
  PROVE  /\ \A f \in FoundBy(i) : f \in Known /\ f \in Paths
         /\ \A f \in Known : f \in Paths /\ (disk[f] # Absent \/ f \in Deleted)
         /\ \A k \in DOMAIN info : info[k].deleted => PathOf(k) \notin Known
<1>1. FoundBy(i) \subseteq Paths /\ FoundBy(i) \subseteq Known
  BY TypesParts, TextIsTyped DEF FoundBy
<1>2. \A f \in Known : f \in Paths /\ (disk[f] # Absent \/ f \in Deleted)
  BY DEF Known, GraphInv, HasBeen, Types
<1>3. \A k \in DOMAIN info : info[k].deleted => PathOf(k) \notin Known
  BY DEF Known, GraphInv, DeletedIsGone
<1> QED
  BY <1>1, <1>2, <1>3

LEMMA EdgesAfterTaken ==
  ASSUME Types, GraphInv, turn.at # "remove", NEW i \in InList, Taken(i),
         NEW j \in DOMAIN info', NEW k \in DOMAIN info'
  PROVE  j \in info'[k].importedBy <=> j \in InList' /\ k \in info'[j].imports
<1>1. /\ InList \subseteq DOMAIN info /\ ImportersAreObjects(info)
      /\ \A n \in DOMAIN info : info[n].imports \subseteq DOMAIN info
      /\ \A m, n \in InList : PathOf(m) = PathOf(n) => m = n
  BY GraphIsTyped
<1>2. InList' = InList \cup (DOMAIN info' \ DOMAIN info) /\ DOMAIN info \subseteq DOMAIN info'
  BY DEF Taken
<1>3. \A m, n \in DOMAIN info : m \in info[n].importedBy <=> m \in InList /\ n \in info[m].imports
  BY DEF GraphInv, EdgesAgree
<1>4. \A m \in InList : \A n \in info[m].imports : n \in InList \/ info[n].deleted
  BY DEF GraphInv, ImportsAreListed
<1>5. \A n \in DOMAIN info : PathOf(n) \in FoundBy(i) => ~info[n].deleted
  BY <1>1, FoundIsNotDeleted
<1>6. info'[i].imports = {n \in InList' : PathOf(n) \in FoundBy(i)}
  BY DEF Taken
<1>7. CASE k \notin DOMAIN info
  <2>1. PathOf(k) \in FoundBy(i) /\ info'[k].importedBy = {i} /\ k \in InList'
    BY <1>2, <1>7 DEF Taken, ToBeAdded
  <2>2. CASE j = i
    BY <1>2, <1>6, <2>1, <2>2
  <2>3. CASE j # i
    <3>1. k \notin info'[j].imports
      <4>1. CASE j \in DOMAIN info
        BY <1>1, <1>7, <2>3, <4>1 DEF Taken
      <4>2. CASE j \notin DOMAIN info
        BY <4>2 DEF Taken
      <4> QED
        BY <4>1, <4>2
    <3> QED
      BY <2>1, <2>3, <3>1
  <2> QED
    BY <2>2, <2>3
<1>8. CASE k \in DOMAIN info
  <2>1. info'[k].importedBy =
          IF k \in info[i].imports /\ PathOf(k) \notin FoundBy(i)
          THEN {m \in info[k].importedBy : PathOf(m) # PathOf(i)}
          ELSE IF k \in InList /\ PathOf(k) \in FoundBy(i) \ Kept(i)
          THEN info[k].importedBy \cup {i} ELSE info[k].importedBy
    BY <1>8 DEF Taken
  <2>2. CASE j = i
    <3>1. j \in InList' /\ k \in info'[j].imports <=> k \in InList /\ PathOf(k) \in FoundBy(i)
      BY <1>2, <1>6, <1>8, <2>2
    <3>2. CASE k \in info[i].imports /\ PathOf(k) \notin FoundBy(i)
      BY <2>1, <2>2, <3>1, <3>2
    <3>3. CASE k \in InList /\ PathOf(k) \in FoundBy(i) \ Kept(i)
      BY <2>1, <2>2, <3>1, <3>3
    <3>4. CASE /\ ~(k \in info[i].imports /\ PathOf(k) \notin FoundBy(i))
               /\ ~(k \in InList /\ PathOf(k) \in FoundBy(i) \ Kept(i))
      <4>1. info'[k].importedBy = info[k].importedBy
        BY <2>1, <3>4
      <4>2. j \in info'[k].importedBy <=> k \in info[i].imports
        BY <1>1, <1>3, <1>8, <2>2, <4>1
      <4>3. k \in info[i].imports => k \in InList /\ PathOf(k) \in FoundBy(i)
        BY <1>4, <1>5, <1>8, <3>4
      <4>4. ASSUME k \in InList, PathOf(k) \in FoundBy(i) PROVE k \in info[i].imports
        <5>1. PICK m \in info[i].imports : PathOf(m) = PathOf(k)
          BY <3>4, <4>4 DEF Kept, PathsOf
        <5>2. m \in InList
          BY <1>1, <1>4, <1>5, <4>4, <5>1
        <5> QED
          BY <1>1, <4>4, <5>1, <5>2
      <4> QED
        BY <3>1, <4>2, <4>3, <4>4
    <3> QED
      BY <3>2, <3>3, <3>4
  <2>3. CASE j # i /\ j \notin DOMAIN info
    <3>1. info'[j].imports = {} /\ j \notin info[k].importedBy
      BY <1>1, <1>8, <2>3 DEF Taken, ImportersAreObjects
    <3> QED
      BY <2>1, <2>3, <3>1
  <2>4. CASE j # i /\ j \in DOMAIN info
    <3>1. info'[j].imports = info[j].imports /\ (j \in InList' <=> j \in InList)
      BY <1>2, <2>4 DEF Taken
    <3>2. j \in info[k].importedBy => PathOf(j) # PathOf(i)
      BY <1>1, <1>3, <1>8, <2>4
    <3>3. j \in info'[k].importedBy <=> j \in info[k].importedBy
      BY <2>1, <2>4, <3>2
    <3> QED
      BY <1>3, <1>8, <2>4, <3>1, <3>3
  <2> QED
    BY <2>2, <2>3, <2>4
<1> QED
  BY <1>7, <1>8

LEMMA GraphTaken ==
  ASSUME Types, Types', GraphInv, turn.at # "remove", turn'.at # "remove",
         disk' = disk, failed' = failed, NEW i \in InList, Taken(i)
  PROVE  GraphInv'
<1>1. /\ InList \subseteq DOMAIN info /\ i \in DOMAIN info
      /\ \A n \in DOMAIN info : info[n].imports \subseteq DOMAIN info
  BY GraphIsTyped
<1>2. InList' = InList \cup (DOMAIN info' \ DOMAIN info) /\ DOMAIN info \subseteq DOMAIN info'
      /\ InList' \subseteq DOMAIN info'
  BY <1>1 DEF Taken
<1>3. /\ \A f \in FoundBy(i) : f \in Known /\ f \in Paths
      /\ \A f \in Known : f \in Paths /\ (disk[f] # Absent \/ f \in Deleted)
      /\ \A k \in DOMAIN info : info[k].deleted => PathOf(k) \notin Known
  BY <1>1, FoundIsNotDeleted
<1>4. listing' = Unread \/ listing' = Known
  BY DEF Taken
<1>5. HasBeen'
  <2> SUFFICES ASSUME NEW f \in Paths,
                      f \in PathsOf(DOMAIN info') \/ (listing' # Unread /\ f \in listing')
               PROVE  disk[f] # Absent \/ f \in Deleted
    BY DEF HasBeen
  <2>1. CASE listing' # Unread /\ f \in listing'
    BY <1>3, <1>4, <2>1
  <2>2. CASE f \in PathsOf(DOMAIN info')
    <3>1. PICK k \in DOMAIN info' : PathOf(k) = f
      BY <2>2 DEF PathsOf
    <3>2. CASE k \in DOMAIN info
      BY <3>1, <3>2 DEF GraphInv, HasBeen, PathsOf
    <3>3. CASE k \notin DOMAIN info
      BY <1>3, <3>1, <3>3 DEF Taken, ToBeAdded
    <3> QED
      BY <3>2, <3>3
  <2> QED
    BY <2>1, <2>2
<1>6. DeletedIsGone'
  <2> SUFFICES ASSUME NEW k \in DOMAIN info', info'[k].deleted
               PROVE  /\ info'[k].imports = {} /\ ~IsRoot(info', k) /\ disk'[PathOf(k)] = Absent
                      /\ listing' = Unread \/ PathOf(k) \notin listing'
    BY DEF DeletedIsGone, IsRoot
  <2>1. k \in DOMAIN info
    BY DEF Taken
  <2>2. CASE k = i
    <3>1. IsGone(i) /\ listing' = Unread /\ ~info'[i].tracked /\ info'[i].doc = info[i].doc
      BY <1>1, <2>2 DEF Taken
    <3>2. FoundBy(i) = {}
      BY <1>1, <3>1, TypesParts, TextIsTyped
    <3>3. info'[i].imports = {n \in InList' : PathOf(n) \in FoundBy(i)}
      BY DEF Taken
    <3>4. info'[i].imports = {}
      BY <3>2, <3>3
    <3> QED
      BY <2>2, <3>1, <3>4 DEF IsRoot, IsOpen, IsGone
  <2>3. CASE k # i
    <3>1. /\ info[k].deleted /\ info'[k].imports = info[k].imports
          /\ info'[k].tracked = info[k].tracked /\ info'[k].doc = info[k].doc
      BY <2>1, <2>3 DEF Taken
    <3>2. info[k].imports = {} /\ ~IsRoot(info, k) /\ disk[PathOf(k)] = Absent
      BY <2>1, <3>1 DEF GraphInv, DeletedIsGone
    <3> QED
      BY <1>3, <1>4, <2>1, <3>1, <3>2 DEF IsRoot, IsOpen
  <2> QED
    BY <2>2, <2>3
<1>7. EdgesAgree'
  <2>1. \A j, k \in DOMAIN info' :
          j \in info'[k].importedBy <=> j \in InList' /\ k \in info'[j].imports
    BY EdgesAfterTaken
  <2> QED
    BY <2>1 DEF EdgesAgree
<1>8. ImportsAreListed'
  <2> SUFFICES ASSUME NEW j \in InList', NEW k \in info'[j].imports
               PROVE  k \in InList' \/ info'[k].deleted
    BY DEF ImportsAreListed
  <2>1. CASE j = i
    BY <2>1 DEF Taken
  <2>2. CASE j # i /\ j \in DOMAIN info
    <3>1. j \in InList /\ k \in info[j].imports
      BY <1>2, <2>2 DEF Taken
    <3>2. k \in InList \/ info[k].deleted
      BY <3>1 DEF GraphInv, ImportsAreListed
    <3>3. k \in DOMAIN info /\ k # i => info'[k].deleted = info[k].deleted
      BY DEF Taken
    <3> QED
      BY <1>1, <1>2, <3>1, <3>2, <3>3
  <2>3. CASE j \notin DOMAIN info
    BY <1>2, <2>3 DEF Taken
  <2> QED
    BY <2>1, <2>2, <2>3
<1> QED
  BY <1>5, <1>6, <1>7, <1>8 DEF GraphInv, RemovalGoesOn, NoAssertion

LEMMA GraphCheckTypes ==
  ASSUME Types, Types', GraphInv, CheckTypes
  PROVE  GraphInv'
<1>1. PICK n \in turn.n..Len(list) :
        /\ Bind(list[n])
        /\ turn' = [turn EXCEPT !.at = "check", !.n = n + 1, !.file = list[n],
                      !.seen = Seeing(<<>>, PathOf(list[n]), info'[list[n]].parsed),
                      !.todo = info'[list[n]].found, !.gone = @ \/ FoundDeleted]
  BY DEF CheckTypes
<1>2. n \in 1..Len(list) /\ list[n] \in InList /\ list[n] \in DOMAIN info
  BY GraphIsTyped
<1>3. turn \in Turns /\ turn.at = "pass" /\ disk' = disk /\ failed' = failed
  BY DEF Types, TurnType, CheckTypes
<1>4. turn'.at = "check"
  BY <1>1, <1>3 DEF Turns
<1>5. CASE Taken(list[n])
  BY <1>2, <1>3, <1>4, <1>5, GraphTaken
<1>6. CASE UNCHANGED program
  <2>1. GraphStep
    BY <1>3, <1>4, <1>6 DEF GraphStep, program, InList, GraphInv, DeletedIsGone, NoAssertion, IsRoot
  <2> QED
    BY <2>1, GraphAfterGraphStep
<1> QED
  BY <1>1, <1>2, <1>5, <1>6, BindEffect, TypesParts

LEMMA GraphLookUp ==
  ASSUME Types, Types', GraphInv, NEW f \in Paths, LookUp(f)
  PROVE  GraphInv'
<1>1. turn \in Turns /\ turn.at = "check" /\ disk' = disk /\ failed' = failed
  BY DEF Types, TurnType, LookUp
<1>2. turn'.at = "check"
  BY <1>1 DEF Turns, LookUp
<1>3. CASE UNCHANGED program
  <2>1. GraphStep
    BY <1>1, <1>2, <1>3 DEF GraphStep, program, InList, GraphInv, DeletedIsGone, NoAssertion, IsRoot
  <2> QED
    BY <2>1, GraphAfterGraphStep
<1>4. ASSUME NEW k \in AtPath(f), Bind(k) PROVE GraphInv'
  <2>1. k \in InList /\ k \in DOMAIN info
    BY GraphIsTyped DEF AtPath
  <2> QED
    BY <1>1, <1>2, <1>3, <1>4, <2>1, GraphTaken, BindEffect, TypesParts
<1> QED
  BY <1>3, <1>4 DEF LookUp

\* What nothing else than marks and diagnostics changes of is needed as before.
LEMMA NeededIsSame ==
  ASSUME Types, SameGraph(info, info'),
         \A k \in DOMAIN info : info'[k].tracked = info[k].tracked /\ info'[k].doc = info[k].doc,
         NEW j \in DOMAIN info
  PROVE  /\ IsFileNeeded(info', j) <=> IsFileNeeded(info, j)
         /\ HasRoot(info', j) <=> HasRoot(info, j)
<1>1. ImportersAreObjects(info) /\ DOMAIN info' = DOMAIN info
      /\ \A k \in DOMAIN info : info'[k].importedBy = info[k].importedBy
  BY GraphIsTyped DEF SameGraph
<1>2. ImportersAreObjects(info')
  BY <1>1 DEF ImportersAreObjects
<1>3. Above(info', j) = Above(info, j) /\ Above(info, j) \subseteq DOMAIN info
  BY <1>1, AboveIsSame, AboveIsLeast
<1>4. HasRoot(info', j) <=> HasRoot(info, j)
  BY <1>3 DEF HasRoot, IsRoot, IsOpen
<1> QED
  BY <1>1, <1>2, <1>4, NeededHasRoot DEF SameGraph

LEMMA GraphRemoveNext ==
  ASSUME Types, Types', GraphInv, RemoveNext
  PROVE  GraphInv'
<1>1. PICK n \in turn.n..Len(list) :
        /\ ~Needed(n) /\ \A m \in turn.n..(n - 1) : Needed(m)
        /\ list[n] \in InList
        /\ DOMAIN info' = DOMAIN info /\ SameGraph(info, info')
        /\ \A j \in DOMAIN info :
             info'[j].tracked = info[j].tracked /\ info'[j].doc = info[j].doc
        /\ InList' = InList \ {list[n]}
        /\ Len(list') = Len(list) - 1
        /\ \A m \in 1..(Len(list) - 1) : list'[m] = IF m < n THEN list[m] ELSE list[m + 1]
        /\ turn'.at = "remove" /\ turn'.n = n /\ turn'.file = list[n]
        /\ turn'.left = info[list[n]].imports
  BY RemoveNextEffect
<1>2. /\ InList \subseteq DOMAIN info /\ ImportersAreObjects(info)
      /\ \A i \in DOMAIN info : info[i].imports \subseteq DOMAIN info
      /\ Len(list) \in Nat /\ turn.n \in Nat \ {0}
  BY GraphIsTyped
<1> DEFINE x == list[n]
<1>3. x \in DOMAIN info /\ ~IsFileNeeded(info, x) /\ turn.at = "remove" /\ turn.left = {}
  BY <1>1, <1>2 DEF Needed, RemoveNext
<1> HIDE DEF x
<1>4. \A j \in DOMAIN info :
        /\ IsFileNeeded(info', j) <=> IsFileNeeded(info, j)
        /\ HasRoot(info', j) <=> HasRoot(info, j)
  BY <1>1, NeededIsSame
<1>5. HasBeen' /\ DeletedIsGone' /\ NoAssertion'
  <2>1. disk' = disk /\ listing' = listing /\ failed' = failed
    BY DEF RemoveNext
  <2> QED
    BY <1>1, <2>1 DEF GraphInv, HasBeen, DeletedIsGone, NoAssertion, SameGraph, IsRoot, IsOpen
<1>6. \A j, k \in DOMAIN info :
        j \in info[k].importedBy <=> j \in InList /\ k \in info[j].imports
  BY <1>3 DEF GraphInv, EdgesAgree
<1>7. EdgesAgree'
  BY <1>1, <1>3, <1>6 DEF EdgesAgree, SameGraph, x
<1>8. ImportsAreListed'
  <2> SUFFICES ASSUME NEW j \in InList', NEW k \in info'[j].imports,
                      k \notin InList', ~info'[k].deleted
               PROVE  ~IsFileNeeded(info', j)
    BY <1>1 DEF ImportsAreListed
  <2>1. j \in InList /\ j \in DOMAIN info /\ k \in info[j].imports /\ k \in DOMAIN info
        /\ ~info[k].deleted
    BY <1>1, <1>2 DEF SameGraph
  <2>2. CASE k = x
    <3>1. ~HasRoot(info, x)
      BY <1>2, <1>3, <2>1, <2>2, NeededHasRoot
    <3>2. j \in info[x].importedBy /\ x \in Above(info, x)
      BY <1>2, <1>3, <1>6, <2>1, <2>2, AboveIsLeast
    <3>3. j \in Above(info, x)
      BY <1>2, <1>3, <3>2, AboveIsLeast
    <3>4. Above(info, j) \subseteq Above(info, x)
      BY <1>2, <1>3, <3>3, AboveIsTransitive
    <3>5. ~HasRoot(info, j)
      BY <3>1, <3>4 DEF HasRoot
    <3> QED
      BY <1>2, <1>4, <2>1, <3>5, NeededHasRoot
  <2>3. CASE k # x
    <3>1. k \notin InList
      BY <1>1, <2>3 DEF x
    <3> QED
      BY <1>4, <2>1, <3>1 DEF GraphInv, ImportsAreListed
  <2> QED
    BY <2>2, <2>3
<1>9. RemovalGoesOn'
  <2>1. ASSUME NEW m \in 1..(n - 1) PROVE Needed(m)'
    <3>1. m \in 1..(turn.n - 1) \/ m \in turn.n..(n - 1)
      BY <1>2
    <3>2. Needed(m)
      BY <1>1, <1>3, <3>1 DEF GraphInv, RemovalGoesOn
    <3>3. list'[m] = list[m] /\ list[m] \in DOMAIN info
      BY <1>1, <1>2, GraphIsTyped
    <3> QED
      BY <1>4, <3>2, <3>3 DEF Needed
  <2>2. ASSUME turn'.left # {} PROVE ~HasRoot(info', x)
    <3>1. ~info[x].deleted
      BY <1>1, <1>3, <2>2 DEF GraphInv, DeletedIsGone, x
    <3> QED
      BY <1>2, <1>3, <1>4, <3>1, NeededHasRoot
  <2> QED
    BY <1>1, <2>1, <2>2 DEF RemovalGoesOn, x
<1> QED
  BY <1>5, <1>7, <1>8, <1>9 DEF GraphInv

\* A file that is removed is an importer of what it imports, and it is not removed together
\* with a file before it in the list: none loses what it is needed for.
LEMMA ForgottenIsImporter ==
  ASSUME Types, GraphInv, NEW k \in DOMAIN info, Forget(k)
  PROVE  /\ turn.at = "remove" /\ k \in turn.left /\ turn.file \in info[k].importedBy
         /\ turn.file \in DOMAIN info \ InList
         /\ info' = Forgotten(k) /\ DOMAIN info' = DOMAIN info /\ failed' = failed
         /\ list' = list /\ shown' = shown /\ turn' = [turn EXCEPT !.left = @ \ {k}]
         /\ \A j \in DOMAIN info :
              /\ IsFileNeeded(info', j) <=> IsFileNeeded(info, j)
              /\ HasRoot(info', j) <=> HasRoot(info, j)
<1>1. turn.at = "remove" /\ k \in turn.left /\ turn.file \in DOMAIN info \ InList
  BY ForgetCases DEF Types, TurnType
<1>2. turn.file \in info[k].importedBy
  BY <1>1 DEF GraphInv, EdgesAgree
<1>3. /\ info' = Forgotten(k) /\ failed' = failed
      /\ \/ turn' = [turn EXCEPT !.left = @ \ {k}] /\ UNCHANGED <<list, shown>>
         \/ RemovedAt(k)
  BY <1>2, ForgetCases
<1>4. /\ DOMAIN info' = DOMAIN info
      /\ info'[k].importedBy = info[k].importedBy \ {turn.file}
      /\ \A i \in DOMAIN info \ {k} : info'[i] = info[i]
      /\ \A i \in DOMAIN info :
           /\ info'[i].tracked = info[i].tracked /\ info'[i].doc = info[i].doc
           /\ info'[i].deleted = info[i].deleted
  BY <1>3, ForgottenEffect
<1>5. ImportersAreObjects(info) /\ ~HasRoot(info, turn.file)
  BY <1>1, GraphIsTyped DEF GraphInv, RemovalGoesOn
<1>6. ImportersAreObjects(info')
  BY <1>4, <1>5 DEF ImportersAreObjects
<1>7. \A j \in DOMAIN info : /\ info'[j].importedBy \subseteq info[j].importedBy
                            /\ info[j].importedBy \subseteq info'[j].importedBy \cup {turn.file}
  BY <1>4
<1>8. \A j \in DOMAIN info : IsRoot(info', j) <=> IsRoot(info, j)
  BY <1>4 DEF IsRoot, IsOpen
<1>9. \A j \in DOMAIN info : HasRoot(info', j) <=> HasRoot(info, j)
  BY <1>1, <1>4, <1>5, <1>7, <1>8, RootsAreKept
<1>10. \A j \in DOMAIN info : IsFileNeeded(info', j) <=> IsFileNeeded(info, j)
  BY <1>4, <1>5, <1>6, <1>9, NeededHasRoot
<1>11. ~RemovedAt(k)
  <2> SUFFICES ASSUME RemovedAt(k) PROVE FALSE
    OBVIOUS
  <2>1. PICK m \in 1..(turn.n - 1) : list[m] = k
    BY DEF RemovedAt
  <2>2. IsFileNeeded(info, k)
    BY <1>1, <2>1 DEF GraphInv, RemovalGoesOn, Needed
  <2> QED
    BY <1>3, <1>10, <2>2 DEF RemovedAt
<1> QED
  BY <1>1, <1>2, <1>3, <1>4, <1>9, <1>10, <1>11

LEMMA GraphForget ==
  ASSUME Types, Types', GraphInv, NEW k \in DOMAIN info, Forget(k)
  PROVE  GraphInv'
<1>1. /\ turn.at = "remove" /\ k \in turn.left /\ turn.file \in info[k].importedBy
      /\ turn.file \in DOMAIN info \ InList
      /\ info' = Forgotten(k) /\ DOMAIN info' = DOMAIN info /\ failed' = failed
      /\ list' = list /\ turn' = [turn EXCEPT !.left = @ \ {k}]
      /\ \A j \in DOMAIN info :
           /\ IsFileNeeded(info', j) <=> IsFileNeeded(info, j)
           /\ HasRoot(info', j) <=> HasRoot(info, j)
  BY ForgottenIsImporter
<1>2. turn.n \in Nat \ {0}
  BY GraphIsTyped
<1>3. /\ turn'.at = "remove" /\ turn'.n = turn.n /\ turn'.file = turn.file
      /\ turn'.left = turn.left \ {k}
  BY <1>1, <1>2, ForgottenTurn
<1>4. /\ info'[k].importedBy = info[k].importedBy \ {turn.file}
      /\ \A i \in DOMAIN info \ {k} : info'[i] = info[i]
      /\ \A i \in DOMAIN info :
           /\ info'[i].tracked = info[i].tracked /\ info'[i].doc = info[i].doc
           /\ info'[i].deleted = info[i].deleted /\ info'[i].imports = info[i].imports
  BY <1>1, ForgottenEffect
<1>5. disk' = disk /\ listing' = listing /\ InList' = InList
  BY <1>1 DEF Forget, InList
<1>6. HasBeen' /\ DeletedIsGone' /\ NoAssertion'
  BY <1>1, <1>4, <1>5 DEF GraphInv, HasBeen, DeletedIsGone, NoAssertion, IsRoot, IsOpen
<1>7. EdgesAgree'
  <2> SUFFICES ASSUME NEW j \in DOMAIN info, NEW m \in DOMAIN info
               PROVE  j \in info'[m].importedBy <=>
                        \/ j \in InList /\ m \in info[j].imports
                        \/ j = turn.file /\ m \in turn.left \ {k}
    BY <1>1, <1>3, <1>4, <1>5 DEF EdgesAgree
  <2>1. j \in info[m].importedBy <=>
          \/ j \in InList /\ m \in info[j].imports
          \/ j = turn.file /\ m \in turn.left
    BY <1>1 DEF GraphInv, EdgesAgree
  <2> QED
    BY <1>1, <1>4, <2>1
<1>8. ImportsAreListed'
  <2> SUFFICES ASSUME NEW j \in InList, NEW m \in info[j].imports
               PROVE  m \in InList \/ info'[m].deleted \/ ~IsFileNeeded(info', j)
    BY <1>3, <1>4, <1>5, GraphIsTyped DEF ImportsAreListed
  <2>1. j \in DOMAIN info /\ m \in DOMAIN info
    BY GraphIsTyped
  <2> QED
    BY <1>1, <1>4, <2>1 DEF GraphInv, ImportsAreListed
<1>9. RemovalGoesOn'
  <2>1. \A m \in 1..(turn.n - 1) : Needed(m)'
    <3> SUFFICES ASSUME NEW m \in 1..(turn.n - 1) PROVE Needed(m)'
      OBVIOUS
    <3>1. Needed(m)
      BY <1>1 DEF GraphInv, RemovalGoesOn
    <3>2. m \in 1..Len(list)
      BY <1>1, <1>2, GraphIsTyped DEF Types, TurnType
    <3>3. list[m] \in DOMAIN info
      BY <3>2, GraphIsTyped
    <3> QED
      BY <1>1, <3>1, <3>3 DEF Needed
  <2>2. ~HasRoot(info', turn.file)
    BY <1>1 DEF GraphInv, RemovalGoesOn
  <2> QED
    BY <1>3, <2>1, <2>2 DEF RemovalGoesOn
<1> QED
  BY <1>6, <1>7, <1>8, <1>9 DEF GraphInv

LEMMA GraphStutter ==
  ASSUME GraphInv, UNCHANGED vars
  PROVE  GraphInv'
BY DEF vars, program, GraphInv, HasBeen, DeletedIsGone, EdgesAgree, ImportsAreListed,
       RemovalGoesOn, NoAssertion, InList, HasRoot, IsRoot, IsOpen, Needed

LEMMA GraphNext ==
  ASSUME Types, Types', GraphInv, [Next]_vars
  PROVE  GraphInv'
<1>1. CASE Environment
  BY <1>1, GraphEnvironment
<1>2. CASE User
  BY <1>2, GraphSetFileOpened, GraphSetFileClosed, GraphUpdateOpenFileContents DEF User
<1>3. CASE \E f \in Paths : WatchEvent(f)
  BY <1>3, GraphWatchEvent
<1>4. CASE Analysis
  BY <1>4, GraphAnalyzeTimer, GraphEndUpdate, GraphCheckTypes, GraphEndPass, GraphEndReport,
     GraphLookUp, GraphChecked DEF Analysis
<1>5. CASE Removal
  BY <1>5, GraphRemoveNext, GraphEndClose, GraphForget DEF Removal
<1>6. CASE UNCHANGED vars
  BY <1>6, GraphStutter
<1> QED
  BY <1>1, <1>2, <1>3, <1>4, <1>5, <1>6 DEF Next

LEMMA GraphIsKept == Spec => []GraphInv
<1>1. Init => GraphInv
  BY GraphInit
<1>2. GraphInv /\ Types /\ Types' /\ [Next]_vars => GraphInv'
  BY GraphNext
<1> QED
  BY <1>1, <1>2, TypesAreKept, PTL DEF Spec

\* A file in the list and what it imports know of each other, and no importer is missed when
\* a file is removed (_removeUnneededFiles and _updateSourceFileImports of program.ts).
THEOREM ImportersAreKnown == Spec => []ImportsAreKnown
<1>1. Types /\ GraphInv => ImportsAreKnown
  <2> SUFFICES ASSUME Types, GraphInv, NEW i \in InList, NEW k \in DOMAIN info
               PROVE  k \in info[i].imports <=> i \in info[k].importedBy
    BY DEF ImportsAreKnown, GraphInv, NoAssertion
  <2>1. i \in DOMAIN info
    BY GraphIsTyped
  <2>2. turn.at = "remove" /\ k \in turn.left => turn.file # i
    BY DEF Types, TurnType
  <2> QED
    BY <2>1, <2>2 DEF GraphInv, EdgesAgree
<1> QED
  BY <1>1, TypesAreKept, GraphIsKept, PTL

-----------------------------------------------------------------------------
(* The passes of the analysis *)

\* What has to be parsed is to be checked, and a file is not checked before it was parsed.
DirtyIsChecked ==
  \A i \in DOMAIN info :
    /\ info[i].dirty => info[i].check
    /\ info[i].parsed = NoTree => info[i].dirty

FileIsRead == turn.at = "check" => ~info[turn.file].dirty

\* Unless a file was found deleted, a pass analyses what there was to be analysed when it
\* began, and leaves none of it behind in its loop.
NothingIsAdded ==
  /\ FilesToAnalyze(info) \subseteq turn.before /\ turn.opened \subseteq turn.before
  /\ turn.opened = {} => \A i \in FilesToAnalyze(info) : ~IsOpen(info[i])
  /\ \A m \in 1..(turn.n - 1) :
       InLoop(list[m]) /\ list[m] \in FilesToAnalyze(info)
         => turn.at = "check" /\ list[m] = turn.file
  /\ turn.at = "check" => turn.file \in turn.before

PassGoesOn ==
  turn.at \in {"pass", "check"} =>
    /\ turn.n <= Len(list) + 1 /\ turn.opened \subseteq InList
    /\ turn.gone \/ NothingIsAdded

\* A pass that asks for more has analysed a file at least.
MoreIsLess ==
  turn.more =>
    /\ turn.at = "remove"
    /\ \/ turn.gone
       \/ FilesToAnalyze(info) \subseteq turn.before /\ FilesToAnalyze(info) # turn.before

PassInv == DirtyIsChecked /\ FileIsRead /\ PassGoesOn /\ MoreIsLess

\* How steps change what has to be parsed.
DirtyStep ==
  \A k \in DOMAIN info' :
    \/ info'[k].dirty /\ info'[k].check
    \/ ~info'[k].dirty /\ info'[k].parsed # NoTree
    \/ /\ k \in DOMAIN info /\ info'[k].dirty = info[k].dirty
       /\ info'[k].parsed = info[k].parsed /\ (info[k].check => info'[k].check)

LEMMA DirtyAfterStep ==
  ASSUME DirtyIsChecked, DirtyStep
  PROVE  DirtyIsChecked'
BY DEF DirtyIsChecked, DirtyStep

LEMMA PassAfterRest ==
  ASSUME DirtyIsChecked, DirtyStep, turn'.at \in {"idle", "remove"}, ~turn'.more
  PROVE  PassInv'
BY DirtyAfterStep DEF PassInv, FileIsRead, PassGoesOn, MoreIsLess

LEMMA PassInit == Init => PassInv
<1> SUFFICES ASSUME Init PROVE PassInv
  OBVIOUS
<1>1. \A i \in DOMAIN info : info[i].dirty /\ info[i].check
  BY DEF Init, Object
<1>2. turn.at = "idle" /\ ~turn.more
  BY DEF Init, Idle
<1> QED
  BY <1>1, <1>2 DEF PassInv, DirtyIsChecked, FileIsRead, PassGoesOn, MoreIsLess

LEMMA PassEnvironment ==
  ASSUME PassInv, Environment
  PROVE  PassInv'
<1>1. UNCHANGED <<program, turn>>
  BY DEF Environment, Write, Create, Delete, Put
<1> QED
  BY <1>1 DEF program, PassInv, DirtyIsChecked, FileIsRead, PassGoesOn, NothingIsAdded,
              MoreIsLess, FilesToAnalyze, InLoop, InList, ShouldCheckFile, IsOpen

\* A pass begins.
LEMMA PassBegins ==
  ASSUME Types', DirtyIsChecked, DirtyStep, turn' = Pass(info'), list' = list
  PROVE  PassInv'
<1>1. InfoType(info') /\ ListType(info', list)
  BY DEF Types
<1>2. /\ turn'.at = "pass" /\ turn'.n = 1 /\ turn'.opened = OpenFiles(info')
      /\ turn'.before = FilesToAnalyze(info') /\ ~turn'.more
  BY <1>1, PassIsTyped
<1>3. InList' = InList /\ Len(list') \in Nat
  BY <1>1, Listed DEF InList
<1>4. FilesToAnalyze(info)' = FilesToAnalyze(info')
  BY <1>3 DEF FilesToAnalyze
<1>5. PassGoesOn'
  BY <1>2, <1>3, <1>4 DEF PassGoesOn, NothingIsAdded, OpenFiles, FilesToAnalyze, ShouldCheckFile
<1> QED
  BY <1>2, <1>5, DirtyAfterStep DEF PassInv, FileIsRead, MoreIsLess

LEMMA PassAnalyzeTimer ==
  ASSUME Types, Types', PassInv, AnalyzeTimer
  PROVE  PassInv'
<1>1. CASE update
  <2>1. SetTracked /\ turn' = Removing("pass")
    BY <1>1 DEF AnalyzeTimer
  <2>2. DirtyStep
    BY <2>1, SetTrackedEffect DEF DirtyStep
  <2> QED
    BY <2>1, <2>2, PassAfterRest, TurnsAreTyped DEF PassInv
<1>2. CASE ~update
  <2>1. turn' = Pass(info) /\ UNCHANGED <<info, list>>
    BY <1>2 DEF AnalyzeTimer
  <2>2. DirtyStep
    BY <2>1 DEF DirtyStep
  <2> QED
    BY <2>1, <2>2, PassBegins DEF PassInv
<1> QED
  BY <1>1, <1>2

LEMMA PassEndUpdate ==
  ASSUME Types, Types', PassInv, EndUpdate
  PROVE  PassInv'
<1>1. list' = list /\ turn' = Pass(info') /\ DOMAIN info' = DOMAIN info
  BY EndUpdateEffect DEF EndUpdate
<1>2. DirtyStep
  <2> SUFFICES ASSUME NEW k \in DOMAIN info
               PROVE  \/ info'[k].dirty /\ info'[k].check
                      \/ /\ info'[k].dirty = info[k].dirty
                         /\ info'[k].parsed = info[k].parsed /\ (info[k].check => info'[k].check)
    BY <1>1 DEF DirtyStep
  <2>1. /\ info'[k].parsed = info[k].parsed /\ (info[k].check => info'[k].check)
        /\ info'[k].dirty => info[k].dirty \/ info'[k].check
        /\ info[k].dirty => info'[k].dirty
    BY EndUpdateEffect
  <2>2. info'[k].dirty \in BOOLEAN /\ info[k].dirty \in BOOLEAN
    BY <1>1 DEF Types, InfoType, Objects
  <2> QED
    BY <2>1, <2>2
<1> QED
  BY <1>1, <1>2, PassBegins DEF PassInv

LEMMA PassSetFileOpened ==
  ASSUME Types, Types', PassInv, NEW f \in Paths, SetFileOpened(f)
  PROVE  PassInv'
<1>1. turn' = Idle
  BY DEF SetFileOpened, IsIdle
<1>2. DirtyStep
  BY SetFileOpenedEffect DEF DirtyStep
<1> QED
  BY <1>1, <1>2, PassAfterRest, TurnsAreTyped DEF PassInv, Idle

LEMMA PassUpdateOpenFileContents ==
  ASSUME Types, Types', PassInv, NEW f \in Paths, NEW text \in TextsOf[f],
         UpdateOpenFileContents(f, text)
  PROVE  PassInv'
<1>1. turn' = Idle
  BY DEF UpdateOpenFileContents, IsIdle
<1>2. PICK i \in DOMAIN info :
        /\ DOMAIN info' = DOMAIN info
        /\ \A k \in DOMAIN info :
             /\ info'[k].parsed = info[k].parsed
             /\ info'[k].dirty <=> info[k].dirty \/ k = i
             /\ info'[k].check <=> info[k].check \/ k \in Above(info, i)
  BY UpdateEffect
<1>3. i \in Above(info, i)
  BY GraphIsTyped, AboveIsLeast
<1>4. \A k \in DOMAIN info : info'[k].dirty \in BOOLEAN /\ info[k].dirty \in BOOLEAN
  BY <1>2 DEF Types, InfoType, Objects
<1>5. DirtyStep
  BY <1>2, <1>3, <1>4 DEF DirtyStep
<1> QED
  BY <1>1, <1>5, PassAfterRest, TurnsAreTyped DEF PassInv, Idle

LEMMA PassSetFileClosed ==
  ASSUME Types, Types', PassInv, NEW f \in Paths, SetFileClosed(f)
  PROVE  PassInv'
<1>1. turn' = Removing("rest")
  BY DEF SetFileClosed
<1>2. PICK i \in AtPath(f) : info' = [info EXCEPT ![i].doc = Closed]
  BY DEF SetFileClosed
<1>3. i \in DOMAIN info
  BY GraphIsTyped DEF AtPath
<1>4. DirtyStep
  BY <1>2, <1>3, ClosedEffect DEF DirtyStep
<1> QED
  BY <1>1, <1>4, PassAfterRest, TurnsAreTyped DEF PassInv

LEMMA PassWatchEvent ==
  ASSUME Types, Types', PassInv, NEW f \in Paths, WatchEvent(f)
  PROVE  PassInv'
<1>1. turn' = Idle
  BY DEF WatchEvent, IsIdle
<1>2. DOMAIN info' = DOMAIN info
  BY WatchEffect
<1>3. DirtyStep
  <2> SUFFICES ASSUME NEW k \in DOMAIN info
               PROVE  \/ info'[k].dirty /\ info'[k].check
                      \/ /\ info'[k].dirty = info[k].dirty
                         /\ info'[k].parsed = info[k].parsed /\ (info[k].check => info'[k].check)
    BY <1>2 DEF DirtyStep
  <2>1. /\ info'[k].parsed = info[k].parsed /\ (info[k].check => info'[k].check)
        /\ info'[k].dirty => info[k].dirty \/ info'[k].check
        /\ info[k].dirty => info'[k].dirty
    BY WatchEffect DEF SameButMarks
  <2>2. info'[k].dirty \in BOOLEAN /\ info[k].dirty \in BOOLEAN
    BY <1>2 DEF Types, InfoType, Objects
  <2> QED
    BY <2>1, <2>2
<1> QED
  BY <1>1, <1>3, PassAfterRest, TurnsAreTyped DEF PassInv, Idle

LEMMA PassEndReport ==
  ASSUME Types, Types', PassInv, EndReport
  PROVE  PassInv'
<1>1. turn' = Idle
  BY DEF EndReport
<1>2. DirtyStep
  BY ReportEffect DEF DirtyStep
<1> QED
  BY <1>1, <1>2, PassAfterRest, TurnsAreTyped DEF PassInv, Idle

LEMMA PassEndClose ==
  ASSUME Types, Types', PassInv, EndClose
  PROVE  PassInv'
<1>1. turn' = Idle
  BY DEF EndClose
<1>2. DirtyStep
  BY EndCloseEffect DEF DirtyStep
<1> QED
  BY <1>1, <1>2, PassAfterRest, TurnsAreTyped DEF PassInv, Idle

\* Removing files leaves no more to be analysed.
LEMMA PassAfterRemoval ==
  ASSUME Types, PassInv, turn.at = "remove", turn'.at = "remove",
         turn'.more = turn.more, turn'.gone = turn.gone, turn'.before = turn.before,
         DOMAIN info' = DOMAIN info, InList' \subseteq InList,
         \A k \in DOMAIN info :
           /\ info'[k].tracked = info[k].tracked /\ info'[k].doc = info[k].doc
           /\ info'[k].dirty = info[k].dirty /\ info'[k].check = info[k].check
           /\ info'[k].parsed = info[k].parsed
  PROVE  PassInv'
<1>1. DirtyStep
  BY DEF DirtyStep
<1>2. FilesToAnalyze(info)' \subseteq FilesToAnalyze(info)
  BY GraphIsTyped DEF FilesToAnalyze, ShouldCheckFile, IsOpen
<1>3. MoreIsLess'
  BY <1>2 DEF PassInv, MoreIsLess
<1> QED
  BY <1>1, <1>3, DirtyAfterStep DEF PassInv, FileIsRead, PassGoesOn

LEMMA PassRemoveNext ==
  ASSUME Types, PassInv, RemoveNext
  PROVE  PassInv'
<1>1. turn.at = "remove"
  BY DEF RemoveNext
<1>2. /\ turn'.at = "remove" /\ turn'.more = turn.more /\ turn'.gone = turn.gone
      /\ turn'.before = turn.before
      /\ DOMAIN info' = DOMAIN info /\ InList' \subseteq InList
      /\ \A k \in DOMAIN info :
           /\ info'[k].tracked = info[k].tracked /\ info'[k].doc = info[k].doc
           /\ info'[k].dirty = info[k].dirty /\ info'[k].check = info[k].check
           /\ info'[k].parsed = info[k].parsed
  BY RemoveNextEffect
<1> QED
  BY <1>1, <1>2, PassAfterRemoval

LEMMA PassForget ==
  ASSUME Types, GraphInv, PassInv, NEW k \in DOMAIN info, Forget(k)
  PROVE  PassInv'
<1>1. /\ turn.at = "remove" /\ info' = Forgotten(k) /\ list' = list
      /\ turn' = [turn EXCEPT !.left = @ \ {k}]
  BY ForgottenIsImporter
<1>2. turn.n \in Nat \ {0}
  BY GraphIsTyped
<1>3. /\ turn'.at = "remove" /\ turn'.more = turn.more /\ turn'.gone = turn.gone
      /\ turn'.before = turn.before
  BY <1>1, <1>2, ForgottenTurn
<1>4. /\ DOMAIN info' = DOMAIN info /\ InList' = InList
      /\ \A i \in DOMAIN info :
           /\ info'[i].tracked = info[i].tracked /\ info'[i].doc = info[i].doc
           /\ info'[i].dirty = info[i].dirty /\ info'[i].check = info[i].check
           /\ info'[i].parsed = info[i].parsed
  BY <1>1, ForgottenEffect DEF InList
<1> QED
  BY <1>1, <1>3, <1>4, PassAfterRemoval

\* Binding a file leaves no more to be analysed, or the file is gone.
LEMMA BindAddsNothing ==
  ASSUME Types, GraphInv, PassInv, NEW i \in InList, Bind(i)
  PROVE  /\ DirtyStep
         /\ FoundDeleted \/ FilesToAnalyze(info)' \subseteq FilesToAnalyze(info)
         /\ \A k \in DOMAIN info : /\ info'[k].doc = info[k].doc
                                  /\ (info'[k].tracked => info[k].tracked)
                                  /\ (info'[k].dirty => info[k].dirty)
         /\ IsFileNeeded(info, i) => ~info'[i].dirty
<1>1. i \in DOMAIN info /\ InList \subseteq DOMAIN info
  BY GraphIsTyped
<1>2. CASE UNCHANGED program /\ ~(IsFileNeeded(info, i) /\ IsParseRequired(info[i]))
  <2>1. info' = info /\ InList' = InList
    BY <1>2 DEF program, InList
  <2>2. IsFileNeeded(info, i) => ~info'[i].dirty
    BY <1>2, <2>1 DEF IsParseRequired
  <2> QED
    BY <2>1, <2>2 DEF DirtyStep, FilesToAnalyze
<1>3. CASE Taken(i)
  <2>1. \A k \in DOMAIN info' \ DOMAIN info :
          /\ ~info'[k].tracked /\ info'[k].doc = Closed /\ info'[k].dirty /\ info'[k].check
    BY <1>3 DEF Taken
  <2>2. info'[i].parsed # NoTree /\ ~info'[i].dirty /\ info[i].check
    <3>1. info'[i].parsed = TextOf(i) /\ ~info'[i].dirty /\ IsParseRequired(info[i])
      BY <1>3 DEF Taken
    <3>2. TextOf(i) # NoTree
      BY <1>1, TypesParts, TextIsTyped
    <3> QED
      BY <1>1, <3>1, <3>2 DEF IsParseRequired, PassInv, DirtyIsChecked
  <2>3. \A k \in DOMAIN info \ {i} :
          /\ info'[k].tracked = info[k].tracked /\ info'[k].dirty = info[k].dirty
          /\ info'[k].parsed = info[k].parsed
          /\ info'[k].check <=> info[k].check \/ (IsGone(i) /\ k \in Above(info', i))
    BY <1>3 DEF Taken
  <2>4. \A k \in DOMAIN info : info'[k].doc = info[k].doc
    BY <1>3 DEF Taken
  <2>5. info'[i].tracked => info[i].tracked
    BY <1>3 DEF Taken
  <2>6. IsGone(i) => FoundDeleted
    BY <1>1, <1>3 DEF Taken, IsFileNeeded, FoundDeleted
  <2>7. DirtyStep
    BY <2>1, <2>2, <2>3 DEF DirtyStep
  <2>8. ASSUME ~IsGone(i), NEW k \in FilesToAnalyze(info)'
        PROVE  k \in FilesToAnalyze(info)
    <3>1. k \in InList' /\ info'[k].check /\ ShouldCheckFile(info'[k])
      BY <2>8 DEF FilesToAnalyze
    <3>2. k \in DOMAIN info /\ k \in InList
      BY <1>1, <1>3, <2>1, <3>1 DEF Taken, ShouldCheckFile, IsOpen
    <3>3. info[k].check /\ (info'[k].tracked => info[k].tracked)
      BY <2>2, <2>3, <2>5, <2>8, <3>1, <3>2
    <3> QED
      BY <2>4, <3>1, <3>2, <3>3 DEF FilesToAnalyze, ShouldCheckFile, IsOpen
  <2> QED
    BY <2>2, <2>3, <2>4, <2>5, <2>6, <2>7, <2>8
<1> QED
  BY <1>1, <1>2, <1>3, BindEffect, TypesParts

\* What a pass has gone past stays analysed when a file is bound.
LEMMA NothingIsPassedOver ==
  ASSUME Types, GraphInv, PassInv, NothingIsAdded, NEW i \in InList, Bind(i), ~FoundDeleted,
         turn.n <= Len(list) + 1, turn'.opened = turn.opened,
         NEW m \in 1..(turn.n - 1), InLoop(list[m])', list'[m] \in FilesToAnalyze(info)'
  PROVE  turn.at = "check" /\ list'[m] = turn.file
<1>1. m \in 1..Len(list) /\ list[m] \in DOMAIN info
  BY GraphIsTyped
<1>2. list'[m] = list[m]
  BY <1>1, BindIsTyped, GraphIsTyped
<1>3. list[m] \in FilesToAnalyze(info) /\ (info'[list[m]].tracked => info[list[m]].tracked)
  BY <1>1, <1>2, BindAddsNothing
<1>4. InLoop(list[m])
  BY <1>2, <1>3 DEF InLoop
<1> QED
  BY <1>2, <1>3, <1>4 DEF NothingIsAdded

LEMMA PassCheckTypes ==
  ASSUME Types, Types', GraphInv, PassInv, CheckTypes
  PROVE  PassInv'
<1>1. turn.at = "pass" /\ turn \in Turns
  BY DEF CheckTypes, Types, TurnType
<1>2. PICK n \in turn.n..Len(list) :
        /\ Due(n) /\ \A m \in turn.n..(n - 1) : ~Due(m)
        /\ Bind(list[n])
        /\ turn' = [turn EXCEPT !.at = "check", !.n = n + 1, !.file = list[n],
                      !.seen = Seeing(<<>>, PathOf(list[n]), info'[list[n]].parsed),
                      !.todo = info'[list[n]].found, !.gone = @ \/ FoundDeleted]
  BY DEF CheckTypes
<1> DEFINE i == list[n]
<1>3. n \in 1..Len(list) /\ i \in InList /\ i \in DOMAIN info /\ turn.n \in Nat \ {0}
      /\ Len(list) \in Nat
  BY GraphIsTyped
<1>4. /\ turn'.at = "check" /\ turn'.n = n + 1 /\ turn'.file = i
      /\ turn'.opened = turn.opened /\ turn'.before = turn.before /\ turn'.more = turn.more
      /\ turn'.gone <=> turn.gone \/ FoundDeleted
  <2> DEFINE gone == turn.gone \/ FoundDeleted
             seen == Seeing(<<>>, PathOf(list[n]), info'[list[n]].parsed)
             todo == info'[list[n]].found
  <2>1. turn' = [turn EXCEPT !.at = "check", !.n = n + 1, !.file = i, !.seen = seen,
                             !.todo = todo, !.gone = gone]
    BY <1>2
  <2> HIDE DEF seen, todo, gone, i
  <2>2. /\ turn'.at = "check" /\ turn'.n = n + 1 /\ turn'.file = i
        /\ turn'.opened = turn.opened /\ turn'.before = turn.before /\ turn'.more = turn.more
        /\ turn'.gone = gone
    BY <1>1, <2>1 DEF Turns
  <2> QED
    BY <2>2 DEF gone
<1>5. Bind(i) /\ IsFileNeeded(info, i) /\ i \in FilesToAnalyze(info)
  BY <1>2, <1>3 DEF Due, ToBeChecked, FilesToAnalyze
<1> HIDE DEF i
<1>6. /\ DirtyStep /\ ~info'[i].dirty
      /\ FoundDeleted \/ FilesToAnalyze(info)' \subseteq FilesToAnalyze(info)
      /\ \A k \in DOMAIN info : /\ info'[k].doc = info[k].doc
                               /\ (info'[k].tracked => info[k].tracked)
  BY <1>3, <1>5, BindAddsNothing
<1>7. Len(list') >= Len(list) /\ (\A m \in 1..Len(list) : list'[m] = list[m])
      /\ InList \subseteq InList' /\ DOMAIN info \subseteq DOMAIN info' /\ Len(list') \in Nat
  BY <1>3, <1>5, BindIsTyped, Listed
<1>8. turn.n <= Len(list) + 1 /\ turn.opened \subseteq InList /\ (turn.gone \/ NothingIsAdded)
  BY <1>1 DEF PassInv, PassGoesOn
<1>9. ASSUME ~turn'.gone PROVE NothingIsAdded'
  <2>1. ~FoundDeleted /\ NothingIsAdded
    BY <1>4, <1>8, <1>9
  <2>2. FilesToAnalyze(info)' \subseteq FilesToAnalyze(info)
    BY <1>6, <2>1
  <2>3. \A k \in FilesToAnalyze(info)' : k \in DOMAIN info
    BY <2>2, GraphIsTyped DEF FilesToAnalyze
  <2>4. turn'.opened = {} => \A k \in FilesToAnalyze(info)' : ~IsOpen(info'[k])
    BY <1>4, <1>6, <2>1, <2>2, <2>3 DEF NothingIsAdded, IsOpen
  <2>5. ASSUME NEW m \in 1..n, InLoop(list[m])', list'[m] \in FilesToAnalyze(info)'
        PROVE  list'[m] = i
    <3>1. m \in 1..Len(list) /\ list'[m] = list[m] /\ list[m] \in DOMAIN info
      BY <1>3, <1>7, GraphIsTyped
    <3>2. m \in 1..(turn.n - 1) \/ m \in turn.n..(n - 1) \/ m = n
      BY <1>3
    <3>3. CASE m \in 1..(turn.n - 1)
      BY <1>1, <1>3, <1>4, <1>5, <1>8, <2>1, <2>5, <3>3, NothingIsPassedOver
    <3>4. CASE m \in turn.n..(n - 1)
      <4>1. list[m] \in FilesToAnalyze(info) /\ (info'[list[m]].tracked => info[list[m]].tracked)
        BY <1>6, <2>2, <2>5, <3>1
      <4>2. InLoop(list[m])
        BY <1>4, <2>5, <3>1, <4>1 DEF InLoop
      <4>3. IsRoot(info, list[m]) /\ info[list[m]].check /\ ShouldCheckFile(info[list[m]])
        BY <4>1 DEF FilesToAnalyze, ShouldCheckFile, IsRoot
      <4>4. IsFileNeeded(info, list[m])
        BY <3>1, <4>3, RootsAreNeeded DEF GraphInv
      <4> QED
        BY <1>2, <3>4, <4>2, <4>3, <4>4 DEF Due, ToBeChecked
    <3>5. CASE m = n
      BY <3>1, <3>5 DEF i
    <3> QED
      BY <3>2, <3>3, <3>4, <3>5
  <2>6. \A m \in 1..(turn'.n - 1) :
          InLoop(list[m])' /\ list'[m] \in FilesToAnalyze(info)' => list'[m] = i
    BY <1>3, <1>4, <2>5
  <2> QED
    BY <1>4, <1>5, <2>1, <2>2, <2>4, <2>6 DEF NothingIsAdded
<1>10. PassGoesOn'
  BY <1>3, <1>4, <1>7, <1>8, <1>9 DEF PassGoesOn
<1>11. MoreIsLess'
  BY <1>1, <1>4 DEF PassInv, MoreIsLess
<1> QED
  BY <1>4, <1>6, <1>10, <1>11, DirtyAfterStep DEF PassInv, FileIsRead

LEMMA PassLookUp ==
  ASSUME Types, Types', GraphInv, PassInv, NEW f \in Paths, LookUp(f)
  PROVE  PassInv'
<1>1. turn.at = "check" /\ turn \in Turns /\ turn.file \in InList /\ turn.file \in DOMAIN info
  BY GraphIsTyped DEF LookUp, Types, TurnType
<1>2. CASE AtPath(f) = {}
  <2> DEFINE seen == Seeing(turn.seen, f, NoTree)
  <2>1. turn' = [turn EXCEPT !.seen = seen] /\ UNCHANGED program
    BY <1>2 DEF LookUp
  <2> HIDE DEF seen
  <2>2. /\ turn'.at = turn.at /\ turn'.n = turn.n /\ turn'.file = turn.file
        /\ turn'.opened = turn.opened /\ turn'.before = turn.before
        /\ turn'.more = turn.more /\ turn'.gone = turn.gone
    BY <1>1, <2>1 DEF Turns
  <2> QED
    BY <2>1, <2>2 DEF program, PassInv, DirtyIsChecked, FileIsRead, PassGoesOn,
       NothingIsAdded, MoreIsLess, FilesToAnalyze, InLoop, InList, ShouldCheckFile, IsOpen
<1>3. CASE AtPath(f) # {}
  <2>1. PICK i \in AtPath(f) :
          /\ Bind(i)
          /\ turn' = [turn EXCEPT
               !.seen = Seeing(@, f, IF IsParseRequired(info'[i]) THEN NoTree ELSE info'[i].parsed),
               !.todo = IF IsParseRequired(info'[i]) THEN @ ELSE @ \cup info'[i].found,
               !.gone = @ \/ FoundDeleted]
    BY <1>3 DEF LookUp
  <2>2. i \in InList /\ Len(list) \in Nat /\ turn.n \in Nat \ {0}
    BY GraphIsTyped DEF AtPath
  <2>3. /\ turn'.at = "check" /\ turn'.n = turn.n /\ turn'.file = turn.file
        /\ turn'.opened = turn.opened /\ turn'.before = turn.before
        /\ turn'.more = turn.more
        /\ turn'.gone <=> turn.gone \/ FoundDeleted
    <3> DEFINE text == IF IsParseRequired(info'[i]) THEN NoTree ELSE info'[i].parsed
               seen == Seeing(turn.seen, f, text)
               todo == IF IsParseRequired(info'[i]) THEN turn.todo
                       ELSE turn.todo \cup info'[i].found
               gone == turn.gone \/ FoundDeleted
    <3>1. turn' = [turn EXCEPT !.seen = seen, !.todo = todo, !.gone = gone]
      BY <2>1
    <3> HIDE DEF seen, todo, gone
    <3>2. /\ turn'.at = "check" /\ turn'.n = turn.n /\ turn'.file = turn.file
          /\ turn'.opened = turn.opened /\ turn'.before = turn.before
          /\ turn'.more = turn.more /\ turn'.gone = gone
      BY <1>1, <3>1 DEF Turns
    <3> QED
      BY <3>2 DEF gone
  <2>4. /\ DirtyStep
        /\ FoundDeleted \/ FilesToAnalyze(info)' \subseteq FilesToAnalyze(info)
        /\ \A k \in DOMAIN info : /\ info'[k].doc = info[k].doc
                                 /\ (info'[k].dirty => info[k].dirty)
    BY <2>1, <2>2, BindAddsNothing
  <2>5. Len(list') >= Len(list) /\ InList \subseteq InList' /\ Len(list') \in Nat
    BY <2>1, <2>2, BindIsTyped, GraphIsTyped, Listed
  <2>6. turn.n <= Len(list) + 1 /\ turn.opened \subseteq InList /\ (turn.gone \/ NothingIsAdded)
    BY <1>1 DEF PassInv, PassGoesOn
  <2>7. ASSUME ~turn'.gone PROVE NothingIsAdded'
    <3>1. ~FoundDeleted /\ NothingIsAdded
      BY <2>3, <2>6, <2>7
    <3>2. FilesToAnalyze(info)' \subseteq FilesToAnalyze(info)
      BY <2>4, <3>1
    <3>3. \A k \in FilesToAnalyze(info)' : k \in DOMAIN info
      BY <3>2, GraphIsTyped DEF FilesToAnalyze
    <3>4. turn'.opened = {} => \A k \in FilesToAnalyze(info)' : ~IsOpen(info'[k])
      BY <2>3, <2>4, <3>1, <3>2, <3>3 DEF NothingIsAdded, IsOpen
    <3>5. ASSUME NEW m \in 1..(turn.n - 1), InLoop(list[m])', list'[m] \in FilesToAnalyze(info)'
          PROVE  list'[m] = turn.file
      BY <2>1, <2>2, <2>3, <2>6, <3>1, <3>5, NothingIsPassedOver
    <3>6. \A m \in 1..(turn'.n - 1) :
            InLoop(list[m])' /\ list'[m] \in FilesToAnalyze(info)' => list'[m] = turn.file
      BY <2>3, <3>5
    <3> QED
      BY <1>1, <2>3, <3>1, <3>2, <3>4, <3>6 DEF NothingIsAdded
  <2>8. PassGoesOn'
    BY <2>2, <2>3, <2>5, <2>6, <2>7 DEF PassGoesOn
  <2>9. FileIsRead' /\ MoreIsLess'
    BY <1>1, <2>3, <2>4 DEF PassInv, FileIsRead, MoreIsLess
  <2> QED
    BY <2>4, <2>8, <2>9, DirtyAfterStep DEF PassInv
<1> QED
  BY <1>2, <1>3

LEMMA PassChecked ==
  ASSUME Types, Types', PassInv, NEW outOfTime \in BOOLEAN, Checked(outOfTime)
  PROVE  PassInv'
<1>1. turn.at = "check" /\ turn \in Turns /\ turn.file \in InList /\ turn.file \in DOMAIN info
      /\ InList' = InList /\ list' = list
  BY GraphIsTyped DEF Checked, Types, TurnType, InList
<1>2. /\ DOMAIN info' = DOMAIN info
      /\ \A i \in DOMAIN info :
           /\ info'[i].tracked = info[i].tracked /\ info'[i].doc = info[i].doc
           /\ info'[i].dirty = info[i].dirty /\ info'[i].parsed = info[i].parsed
           /\ info'[i].check <=> info[i].check /\ i # turn.file
  BY CheckedEffect DEF SameGraph
<1>3. DirtyStep
  BY <1>1, <1>2 DEF DirtyStep, PassInv, FileIsRead, DirtyIsChecked
<1>4. FilesToAnalyze(info)' = FilesToAnalyze(info) \ {turn.file}
  BY <1>1, <1>2, GraphIsTyped DEF FilesToAnalyze, ShouldCheckFile, IsOpen
<1>5. turn.n <= Len(list) + 1 /\ turn.opened \subseteq InList /\ (turn.gone \/ NothingIsAdded)
      /\ ~turn.more
  BY <1>1 DEF PassInv, PassGoesOn, MoreIsLess
<1>6. CASE outOfTime
  <2> DEFINE r == Removing("report")
  <2>1. r \in Turns /\ r.at = "remove"
    BY TurnsAreTyped
  <2>2. turn' = [r EXCEPT !.before = turn.before, !.gone = turn.gone, !.more = TRUE]
    BY <1>6 DEF Checked
  <2> HIDE DEF r
  <2>3. turn'.at = "remove" /\ turn'.before = turn.before /\ turn'.gone = turn.gone
    BY <2>1, <2>2 DEF Turns
  <2>4. MoreIsLess'
    BY <1>1, <1>4, <1>5, <2>3 DEF NothingIsAdded, MoreIsLess
  <2> QED
    BY <1>3, <2>3, <2>4, DirtyAfterStep DEF PassInv, FileIsRead, PassGoesOn
<1>7. CASE ~outOfTime
  <2>1. turn' = [turn EXCEPT !.at = "pass", !.file = <<>>, !.todo = {}, !.seen = <<>>]
    BY <1>7 DEF Checked
  <2>2. /\ turn'.at = "pass" /\ turn'.n = turn.n /\ turn'.opened = turn.opened
        /\ turn'.before = turn.before /\ turn'.gone = turn.gone /\ turn'.more = turn.more
    BY <1>1, <2>1 DEF Turns
  <2>3. ASSUME NothingIsAdded PROVE NothingIsAdded'
    <3>1. \A k \in FilesToAnalyze(info)' : k \in DOMAIN info
      BY <1>4, GraphIsTyped DEF FilesToAnalyze
    <3>2. turn'.opened = {} => \A k \in FilesToAnalyze(info)' : ~IsOpen(info'[k])
      BY <1>2, <1>4, <2>2, <2>3, <3>1 DEF NothingIsAdded, IsOpen
    <3>3. ASSUME NEW m \in 1..(turn.n - 1), InLoop(list[m])', list[m] \in FilesToAnalyze(info)'
          PROVE  FALSE
      <4>1. list[m] \in FilesToAnalyze(info) /\ list[m] # turn.file /\ list[m] \in DOMAIN info
        BY <1>4, <3>1, <3>3
      <4>2. InLoop(list[m])
        BY <1>1, <1>2, <2>2, <3>3, <4>1 DEF InLoop
      <4> QED
        BY <2>3, <3>3, <4>1, <4>2 DEF NothingIsAdded
    <3> QED
      BY <1>1, <1>4, <2>2, <2>3, <3>2, <3>3 DEF NothingIsAdded
  <2>4. PassGoesOn'
    BY <1>1, <1>5, <2>2, <2>3 DEF PassGoesOn
  <2> QED
    BY <1>3, <1>5, <2>2, <2>4, DirtyAfterStep DEF PassInv, FileIsRead, MoreIsLess
<1> QED
  BY <1>6, <1>7

\* At the end of a pass nothing is left in its loop.
LEMMA LoopIsDone ==
  ASSUME Types, GraphInv, PassInv, turn.at = "pass", ~turn.gone,
         \A n \in turn.n..Len(list) : ~Due(n), NEW i \in FilesToAnalyze(info)
  PROVE  ~InLoop(i)
<1> SUFFICES ASSUME InLoop(i) PROVE FALSE
  OBVIOUS
<1>1. i \in InList /\ info[i].check /\ ShouldCheckFile(info[i]) /\ i \in DOMAIN info
  BY GraphIsTyped DEF FilesToAnalyze
<1>2. PICK m \in 1..Len(list) : list[m] = i
  BY <1>1, GraphIsTyped
<1>3. m \in 1..(turn.n - 1) \/ m \in turn.n..Len(list)
  BY GraphIsTyped
<1>4. CASE m \in 1..(turn.n - 1)
  BY <1>2, <1>4 DEF PassInv, PassGoesOn, NothingIsAdded
<1>5. CASE m \in turn.n..Len(list)
  <2>1. IsFileNeeded(info, i)
    BY <1>1, RootsAreNeeded DEF GraphInv, ShouldCheckFile, IsRoot
  <2> QED
    BY <1>1, <1>2, <1>5, <2>1 DEF Due, ToBeChecked
<1> QED
  BY <1>3, <1>4, <1>5

LEMMA PassEndPass ==
  ASSUME Types, Types', GraphInv, PassInv, EndPass
  PROVE  PassInv'
<1>1. turn.at = "pass" /\ turn \in Turns /\ InList' = InList /\ ~turn.more
      /\ \A n \in turn.n..Len(list) : ~Due(n)
  BY DEF EndPass, Types, TurnType, InList, PassInv, MoreIsLess
<1>2. CASE FilesToAnalyze(info) # {} /\ turn.opened = {}
  <2>1. info' = Collect(info) /\ turn' = Idle
    BY <1>2 DEF EndPass
  <2>2. /\ DOMAIN info' \subseteq DOMAIN info
        /\ \A k \in DOMAIN info' : info'[k] = info[k]
    BY <2>1, CollectEffect DEF Types
  <2>3. DirtyStep
    BY <2>2 DEF DirtyStep
  <2> QED
    BY <2>1, <2>3, PassAfterRest, TurnsAreTyped DEF PassInv, Idle
<1>3. CASE ~(FilesToAnalyze(info) # {} /\ turn.opened = {})
  <2> DEFINE r == Removing("report")
             more == turn.opened # {}
  <2>1. r \in Turns /\ r.at = "remove"
    BY TurnsAreTyped
  <2>2. turn' = [r EXCEPT !.before = turn.before, !.gone = turn.gone, !.more = more]
        /\ info' = info
    BY <1>3 DEF EndPass
  <2> HIDE DEF r, more
  <2>3. turn'.at = "remove" /\ turn'.before = turn.before /\ turn'.gone = turn.gone
        /\ turn'.more = more
    BY <2>1, <2>2 DEF Turns
  <2>4. DirtyStep
    BY <2>2 DEF DirtyStep
  <2>5. FilesToAnalyze(info)' = FilesToAnalyze(info)
    BY <1>1, <2>2 DEF FilesToAnalyze
  <2>6. ASSUME more, ~turn.gone
        PROVE  FilesToAnalyze(info) \subseteq turn.before /\ FilesToAnalyze(info) # turn.before
    <3>1. NothingIsAdded /\ turn.opened # {}
      BY <1>1, <2>6 DEF PassInv, PassGoesOn, more
    <3>2. PICK i \in turn.opened : i \in turn.before
      BY <3>1 DEF NothingIsAdded
    <3>3. InLoop(i)
      BY <3>1 DEF InLoop
    <3>4. i \notin FilesToAnalyze(info)
      BY <1>1, <2>6, <3>3, LoopIsDone
    <3> QED
      BY <3>1, <3>2, <3>4 DEF NothingIsAdded
  <2>7. MoreIsLess'
    BY <2>3, <2>5, <2>6 DEF MoreIsLess
  <2> QED
    BY <2>3, <2>4, <2>7, DirtyAfterStep DEF PassInv, FileIsRead, PassGoesOn
<1> QED
  BY <1>2, <1>3

LEMMA PassStutter ==
  ASSUME PassInv, UNCHANGED vars
  PROVE  PassInv'
BY DEF vars, program, PassInv, DirtyIsChecked, FileIsRead, PassGoesOn, NothingIsAdded,
       MoreIsLess, FilesToAnalyze, InLoop, InList, ShouldCheckFile, IsOpen

LEMMA PassNext ==
  ASSUME Types, Types', GraphInv, PassInv, [Next]_vars
  PROVE  PassInv'
<1>1. CASE Environment
  BY <1>1, PassEnvironment
<1>2. CASE User
  BY <1>2, PassSetFileOpened, PassSetFileClosed, PassUpdateOpenFileContents DEF User
<1>3. CASE \E f \in Paths : WatchEvent(f)
  BY <1>3, PassWatchEvent
<1>4. CASE Analysis
  BY <1>4, PassAnalyzeTimer, PassEndUpdate, PassCheckTypes, PassEndPass, PassEndReport,
     PassLookUp, PassChecked DEF Analysis
<1>5. CASE Removal
  BY <1>5, PassRemoveNext, PassEndClose, PassForget DEF Removal
<1>6. CASE UNCHANGED vars
  BY <1>6, PassStutter
<1> QED
  BY <1>1, <1>2, <1>3, <1>4, <1>5, <1>6 DEF Next

LEMMA PassIsKept == Spec => []PassInv
<1>1. Init => PassInv
  BY PassInit
<1>2. PassInv /\ Types /\ Types' /\ GraphInv /\ [Next]_vars => PassInv'
  BY PassNext
<1> QED
  BY <1>1, <1>2, TypesAreKept, GraphIsKept, PTL DEF Spec

\* A pass that asks for another one leaves fewer files to be analysed than it found, or has
\* found a file deleted (analyze() of program.ts, analysis.ts:23-71).
THEOREM PassesComeToAnEnd == Spec => []PassesEnd
<1>1. PassInv => PassesEnd
  BY DEF PassInv, MoreIsLess, PassesEnd
<1> QED
  BY <1>1, PassIsKept, PTL

LEMMA LeftOnlyIfGone ==
  ASSUME Types, GraphInv, PassInv, EndPass, "filesLeft" \in failed', "filesLeft" \notin failed
  PROVE  turn.gone
<1> SUFFICES ASSUME ~turn.gone PROVE FALSE
  OBVIOUS
<1>1. turn.at = "pass" /\ FilesToAnalyze(info) # {} /\ turn.opened = {}
      /\ \A n \in turn.n..Len(list) : ~Due(n)
  BY DEF EndPass
<1>2. PICK i \in FilesToAnalyze(info) : TRUE
  BY <1>1
<1>3. ~IsOpen(info[i]) /\ ShouldCheckFile(info[i])
  BY <1>1, <1>2 DEF PassInv, PassGoesOn, NothingIsAdded, FilesToAnalyze
<1>4. InLoop(i)
  BY <1>1, <1>3 DEF InLoop, ShouldCheckFile
<1> QED
  BY <1>1, <1>4, LoopIsDone

\* The assertion of analysis.ts:38, that no files are left without a request for more, only
\* fails in a pass that found a file deleted.
THEOREM FilesLeftOnlyIfGone ==
  Spec => [][turn.gone \/ "filesLeft" \notin failed' \/ "filesLeft" \in failed]_vars
<1>1. ASSUME Types, GraphInv, PassInv, Next
      PROVE  turn.gone \/ "filesLeft" \notin failed' \/ "filesLeft" \in failed
  <2>1. CASE EndPass
    BY <1>1, <2>1, LeftOnlyIfGone
  <2>2. CASE Environment
    BY <2>2 DEF Environment, Write, Create, Delete, Put
  <2>3. CASE User
    BY <2>3 DEF User, SetFileOpened, SetFileClosed, UpdateOpenFileContents
  <2>4. CASE \E f \in Paths : WatchEvent(f)
    BY <2>4 DEF WatchEvent
  <2>5. CASE AnalyzeTimer \/ EndUpdate \/ CheckTypes \/ EndReport
    BY <2>5 DEF AnalyzeTimer, EndUpdate, CheckTypes, EndReport
  <2>6. CASE \E f \in Paths : LookUp(f)
    BY <2>6 DEF LookUp
  <2>7. CASE \E outOfTime \in BOOLEAN : Checked(outOfTime)
    BY <2>7 DEF Checked
  <2>8. CASE RemoveNext \/ EndClose
    BY <2>8 DEF RemoveNext, EndClose
  <2>9. CASE \E k \in DOMAIN info : Forget(k)
    BY <1>1, <2>9, ForgottenIsImporter
  <2> QED
    BY <1>1, <2>1, <2>2, <2>3, <2>4, <2>5, <2>6, <2>7, <2>8, <2>9 DEF Next, Analysis, Removal
<1>2. Types /\ GraphInv /\ PassInv /\ [Next]_vars
        => [turn.gone \/ "filesLeft" \notin failed' \/ "filesLeft" \in failed]_vars
  BY <1>1
<1> QED
  BY <1>2, TypesAreKept, GraphIsKept, PassIsKept, PTL DEF Spec

-----------------------------------------------------------------------------
(* What is complete when all has settled *)

\* An update of the tracked files that is required is scheduled, and no pass runs before it.
UpdateIsScheduled ==
  update => timer /\ (turn.at = "idle" \/ (turn.at = "remove" /\ turn.then = "rest"))

\* At rest all is analysed and reported, and nothing is kept of files that are not checked.
AtRest ==
  turn.at = "idle" /\ ~timer /\ "filesLeft" \notin failed =>
    \A i \in InList :
      /\ ShouldCheckFile(info[i]) =>
           ~info[i].check /\ info[i].diags = "current" /\ PathOf(i) \in shown
      /\ ~ShouldCheckFile(info[i]) => info[i].diags = "none"

\* A report after which no more is asked for is one of a pass that has left nothing.
ReportIsDue ==
  turn.at = "remove" =>
    /\ turn.then = "report" /\ ~turn.more => FilesToAnalyze(info) = {}
    /\ turn.then = "rest" => timer
    /\ \A m \in 1..(turn.n - 1) : ShouldCheckFile(info[list[m]]) \/ info[list[m]].diags = "none"

\* A source on disk is tracked, or the watcher or the timer will see to it.
SourcesAreTracked ==
  \A f \in Sources :
    disk[f] # Absent /\ events[f] # "rename" /\ ~update => \E i \in AtPath(f) : info[i].tracked

\* Diagnostics of a file that the client has are not forgotten by the object.
ShownIsKept ==
  \A f \in shown \ hurried : \E i \in AtPath(f) : IsOpen(info[i]) \/ info[i].diags # "none"

RestInv == UpdateIsScheduled /\ AtRest /\ ReportIsDue /\ SourcesAreTracked /\ ShownIsKept

LEMMA RestInit == Init => RestInv
<1> SUFFICES ASSUME Init PROVE RestInv
  OBVIOUS
<1>1. turn.at = "idle" /\ timer /\ ~update /\ shown = {}
  BY TurnsAreTyped DEF Init
<1>2. DOMAIN info = SourcesOnDisk \X {FirstAge} /\ \A i \in DOMAIN info : info[i].tracked
  BY DEF Init, Object
<1>3. ASSUME NEW f \in Sources, disk[f] # Absent
      PROVE  \E i \in AtPath(f) : info[i].tracked
  <2>1. f \in SourcesOnDisk
    BY <1>3 DEF SourcesOnDisk
  <2>2. PICK order \in Orders(SourcesOnDisk) : list = [n \in DOMAIN order |-> <<order[n], FirstAge>>]
    BY DEF Init
  <2>3. IsFiniteSet(SourcesOnDisk)
    BY TextsAssumption, FS_Subset DEF SourcesOnDisk
  <2>4. order \in Seq(SourcesOnDisk) /\ ToSet(order) = SourcesOnDisk
    BY <2>2, <2>3, OrdersAreSequences
  <2>5. PICK n \in 1..Len(order) : order[n] = f
    BY <2>1, <2>4, ToSetIsRange
  <2>6. n \in DOMAIN list /\ list[n] = <<f, FirstAge>>
    BY <2>2, <2>4, <2>5
  <2>7. <<f, FirstAge>> \in InList
    BY <2>6 DEF InList, ToSet
  <2> QED
    BY <1>2, <2>1, <2>7 DEF AtPath, PathOf
<1> QED
  BY <1>1, <1>3 DEF RestInv, UpdateIsScheduled, AtRest, ReportIsDue, SourcesAreTracked, ShownIsKept

LEMMA TrackedAfterStep ==
  ASSUME SourcesAreTracked, disk' = disk, events' = events, update => update',
         InList \subseteq InList', \A k \in InList : info[k].tracked => info'[k].tracked
  PROVE  SourcesAreTracked'
BY DEF SourcesAreTracked, AtPath

LEMMA ShownAfterStep ==
  ASSUME ShownIsKept, shown' \subseteq shown, hurried \subseteq hurried',
         \A k \in InList : PathOf(k) \in shown' \ hurried' =>
           /\ k \in InList'
           /\ (IsOpen(info[k]) \/ info[k].diags # "none")
                => (IsOpen(info'[k]) \/ info'[k].diags # "none")
  PROVE  ShownIsKept'
BY DEF ShownIsKept, AtPath

LEMMA RestEnvironment ==
  ASSUME Types, RestInv, Environment
  PROVE  RestInv'
<1>1. PICK f \in Paths, text \in AllTexts \cup {Absent}, event \in {"change", "rename"} :
        /\ Put(f, text) /\ Tell(f, event)
        /\ disk[f] = Absent \/ text = Absent => event = "rename"
  <2>1. PICK f \in Paths : Delete(f) \/ \E text \in TextsOf[f] : Write(f, text) \/ Create(f, text)
    BY DEF Environment
  <2>2. \A text \in TextsOf[f] : text \in AllTexts /\ text # Absent
    BY TextsAssumption DEF AllTexts
  <2>3. CASE Delete(f)
    BY <2>3 DEF Delete
  <2>4. CASE \E text \in TextsOf[f] : Write(f, text) \/ Create(f, text)
    BY <2>2, <2>4 DEF Write, Create
  <2> QED
    BY <2>1, <2>3, <2>4
<1>2. UNCHANGED <<info, list, timer, update, shown, turn, hurried, failed>>
  BY <1>1 DEF Put, program, histories
<1>3. disk' = [disk EXCEPT ![f] = text] /\ disk \in [Paths -> AllTexts \cup {Absent}]
      /\ events' = [events EXCEPT ![f] = IF @ = "rename" THEN @ ELSE event]
      /\ events \in [Paths -> {"none", "change", "rename"}]
  BY <1>1 DEF Put, Tell, Types
<1>4. SourcesAreTracked'
  <2> SUFFICES ASSUME NEW g \in Sources, disk'[g] # Absent, events'[g] # "rename", ~update
               PROVE  \E i \in AtPath(g) : info[i].tracked
    BY <1>2 DEF SourcesAreTracked, AtPath, InList
  <2>1. g \in Paths
    BY TextsAssumption
  <2>2. disk[g] # Absent /\ events[g] # "rename"
    BY <1>1, <1>3, <2>1
  <2> QED
    BY <2>2 DEF RestInv, SourcesAreTracked
<1> QED
  BY <1>2, <1>4 DEF RestInv, UpdateIsScheduled, AtRest, ReportIsDue, ShownIsKept, AtPath, InList,
     ShouldCheckFile, IsOpen, FilesToAnalyze

LEMMA RestAnalyzeTimer ==
  ASSUME Types, Types', RestInv, AnalyzeTimer
  PROVE  RestInv'
<1>1. ~update' /\ shown' = shown /\ hurried' = hurried /\ disk' = disk /\ events' = events
  BY DEF AnalyzeTimer, histories
<1>2. CASE update
  <2>1. SetTracked /\ turn' = Removing("pass")
    BY <1>2 DEF AnalyzeTimer
  <2>2. turn'.at = "remove" /\ turn'.then = "pass" /\ turn'.n = 1
    BY <2>1, TurnsAreTyped
  <2>3. /\ InList \subseteq InList' /\ DOMAIN info' \ DOMAIN info \subseteq InList'
        /\ \A f \in SourcesOnDisk \ PathsOf(InList) :
             \E k \in DOMAIN info' \ DOMAIN info : PathOf(k) = f
        /\ \A k \in DOMAIN info' \ DOMAIN info : info'[k].tracked
        /\ \A k \in DOMAIN info :
             /\ info'[k].tracked = (IF k \in InList THEN PathOf(k) \in SourcesOnDisk
                                   ELSE info[k].tracked)
             /\ info'[k].doc = info[k].doc /\ info'[k].diags = info[k].diags
    BY <2>1, SetTrackedEffect
  <2>4. SourcesAreTracked'
    <3> SUFFICES ASSUME NEW f \in Sources, disk[f] # Absent
                 PROVE  \E k \in InList' : PathOf(k) = f /\ info'[k].tracked
      BY <1>1 DEF SourcesAreTracked, AtPath
    <3>1. f \in SourcesOnDisk
      BY DEF SourcesOnDisk
    <3>2. CASE f \in PathsOf(InList)
      <4>1. PICK k \in InList : PathOf(k) = f
        BY <3>2 DEF PathsOf
      <4>2. k \in DOMAIN info
        BY GraphIsTyped
      <4> QED
        BY <2>3, <3>1, <4>1, <4>2
    <3>3. CASE f \notin PathsOf(InList)
      BY <2>3, <3>1, <3>3
    <3> QED
      BY <3>2, <3>3
  <2>5. ShownIsKept'
    BY <1>1, <2>3, GraphIsTyped, ShownAfterStep DEF RestInv, IsOpen
  <2> QED
    BY <1>1, <2>2, <2>4, <2>5 DEF RestInv, UpdateIsScheduled, AtRest, ReportIsDue
<1>3. CASE ~update
  <2>1. turn' = Pass(info) /\ info' = info /\ list' = list /\ InList' = InList
    BY <1>3 DEF AnalyzeTimer, InList
  <2>2. turn'.at = "pass"
    BY <2>1, PassIsTyped DEF Types
  <2>3. SourcesAreTracked' /\ ShownIsKept'
    BY <1>1, <1>3, <2>1 DEF RestInv, SourcesAreTracked, ShownIsKept, AtPath
  <2> QED
    BY <1>1, <2>2, <2>3 DEF RestInv, UpdateIsScheduled, AtRest, ReportIsDue
<1> QED
  BY <1>2, <1>3

\* What the loop of a removal has gone past loses its diagnostics if it is not to be checked.
LEMMA LastClearedAre ==
  ASSUME Types, RestInv, AllNeeded, NEW i \in InList
  PROVE  i \in LastCleared \/ ShouldCheckFile(info[i]) \/ info[i].diags = "none"
<1>1. PICK m \in 1..Len(list) : list[m] = i
  BY GraphIsTyped
<1>2. m \in 1..(turn.n - 1) \/ m \in turn.n..Len(list)
  BY GraphIsTyped
<1>3. CASE m \in 1..(turn.n - 1)
  BY <1>1, <1>3 DEF RestInv, ReportIsDue, AllNeeded
<1>4. CASE m \in turn.n..Len(list)
  BY <1>1, <1>4 DEF LastCleared, ClearDiags
<1> QED
  BY <1>2, <1>3, <1>4

\* Diagnostics that are taken back are those of files that the client has no longer.
LEMMA ShownAfterClearing ==
  ASSUME Types, RestInv, NEW S, shown' = shown \ PathsOf(S), hurried' = hurried,
         InList \subseteq InList',
         \A k \in InList : /\ info'[k].doc = info[k].doc
                          /\ info'[k].diags = (IF k \in S THEN "none" ELSE info[k].diags)
  PROVE  ShownIsKept'
<1>1. \A k \in InList : PathOf(k) \in shown' => k \notin S
  BY DEF PathsOf
<1>2. \A k \in InList : PathOf(k) \in shown' \ hurried' =>
        /\ k \in InList'
        /\ (IsOpen(info[k]) \/ info[k].diags # "none")
             => (IsOpen(info'[k]) \/ info'[k].diags # "none")
  BY <1>1 DEF IsOpen
<1> QED
  BY <1>2, ShownAfterStep DEF RestInv

LEMMA RestEndUpdate ==
  ASSUME Types, Types', RestInv, EndUpdate
  PROVE  RestInv'
<1>1. /\ AllNeeded /\ turn.then = "pass" /\ turn.at = "remove" /\ list' = list
      /\ disk' = disk /\ events' = events /\ update' = update /\ hurried' = hurried
      /\ InList' = InList /\ shown' = shown \ PathsOf(LastCleared)
  BY DEF EndUpdate, AllNeeded, InList, histories
<1>2. /\ turn' = Pass(info')
      /\ \A k \in DOMAIN info :
           /\ info'[k].tracked = info[k].tracked /\ info'[k].doc = info[k].doc
           /\ info'[k].diags = (IF k \in LastCleared THEN "none" ELSE info[k].diags)
  BY EndUpdateEffect
<1>3. turn'.at = "pass"
  BY <1>1, <1>2, PassIsTyped DEF Types
<1>4. ~update
  BY <1>1 DEF RestInv, UpdateIsScheduled
<1>5. SourcesAreTracked'
  BY <1>1, <1>2, GraphIsTyped, TrackedAfterStep DEF RestInv
<1>6. ShownIsKept'
  BY <1>1, <1>2, GraphIsTyped, ShownAfterClearing
<1> QED
  BY <1>1, <1>3, <1>4, <1>5, <1>6 DEF RestInv, UpdateIsScheduled, AtRest, ReportIsDue

LEMMA RestEndClose ==
  ASSUME Types, Types', RestInv, EndClose
  PROVE  RestInv'
<1>1. /\ turn.then = "rest" /\ turn.at = "remove" /\ turn' = Idle /\ timer' = timer
      /\ disk' = disk /\ events' = events /\ update' = update /\ hurried' = hurried
      /\ InList' = InList /\ shown' = shown \ PathsOf(LastCleared)
  BY DEF EndClose, AllNeeded, InList, histories
<1>2. /\ InList \subseteq DOMAIN info'
      /\ \A k \in DOMAIN info' :
           /\ info'[k].tracked = info[k].tracked /\ info'[k].doc = info[k].doc
           /\ info'[k].diags = (IF k \in LastCleared THEN "none" ELSE info[k].diags)
  BY EndCloseEffect
<1>3. turn'.at = "idle" /\ timer
  BY <1>1, TurnsAreTyped DEF RestInv, ReportIsDue
<1>4. SourcesAreTracked'
  BY <1>1, <1>2, TrackedAfterStep DEF RestInv
<1>5. ShownIsKept'
  BY <1>1, <1>2, ShownAfterClearing
<1> QED
  BY <1>1, <1>3, <1>4, <1>5 DEF RestInv, UpdateIsScheduled, AtRest, ReportIsDue

LEMMA RestEndReport ==
  ASSUME Types, Types', RestInv, EndReport
  PROVE  RestInv'
<1> DEFINE report == {i \in InList : ShouldCheckFile(info[i])}
<1>1. /\ AllNeeded /\ turn.then = "report" /\ turn.at = "remove" /\ turn' = Idle
      /\ disk' = disk /\ events' = events /\ update' = update /\ hurried' = hurried
      /\ InList' = InList /\ timer' = turn.more
      /\ shown' = (shown \ PathsOf(LastCleared)) \cup PathsOf(report)
  BY DEF EndReport, AllNeeded, InList, histories
<1>2. /\ InList \subseteq DOMAIN info'
      /\ \A k \in DOMAIN info' :
           /\ info'[k].tracked = info[k].tracked /\ info'[k].doc = info[k].doc
           /\ info'[k].check = info[k].check
           /\ info'[k].diags = (IF k \in InList /\ ShouldCheckFile(info[k]) THEN "current"
                               ELSE IF k \in LastCleared THEN "none" ELSE info[k].diags)
  BY ReportEffect
<1>3. turn'.at = "idle" /\ ~update
  BY <1>1, TurnsAreTyped DEF RestInv, UpdateIsScheduled
<1>4. SourcesAreTracked'
  BY <1>1, <1>2, TrackedAfterStep DEF RestInv
<1>5. AtRest'
  <2> SUFFICES ASSUME ~turn.more, NEW i \in InList
               PROVE  /\ ShouldCheckFile(info'[i]) =>
                           /\ ~info'[i].check /\ info'[i].diags = "current"
                           /\ PathOf(i) \in shown'
                      /\ ~ShouldCheckFile(info'[i]) => info'[i].diags = "none"
    BY <1>1 DEF AtRest
  <2>1. FilesToAnalyze(info) = {}
    BY <1>1 DEF RestInv, ReportIsDue
  <2>2. ShouldCheckFile(info'[i]) <=> ShouldCheckFile(info[i])
    BY <1>2 DEF ShouldCheckFile, IsOpen
  <2>3. CASE ShouldCheckFile(info[i])
    <3>1. i \in report /\ PathOf(i) \in shown'
      BY <1>1, <2>3 DEF PathsOf
    <3> QED
      BY <1>2, <2>1, <2>2, <2>3, <3>1 DEF FilesToAnalyze
  <2>4. CASE ~ShouldCheckFile(info[i])
    BY <1>1, <1>2, <2>2, <2>4, LastClearedAre
  <2> QED
    BY <2>3, <2>4
<1>6. ShownIsKept'
  <2> SUFFICES ASSUME NEW f \in shown' \ hurried
               PROVE  \E k \in InList :
                        PathOf(k) = f /\ (IsOpen(info'[k]) \/ info'[k].diags # "none")
    BY <1>1 DEF ShownIsKept, AtPath
  <2>1. CASE f \in PathsOf(report)
    BY <1>2, <2>1 DEF PathsOf
  <2>2. CASE f \in shown \ PathsOf(LastCleared)
    <3>1. PICK k \in InList : PathOf(k) = f /\ (IsOpen(info[k]) \/ info[k].diags # "none")
      BY <2>2 DEF RestInv, ShownIsKept, AtPath
    <3>2. k \notin LastCleared
      BY <2>2, <3>1 DEF PathsOf
    <3> QED
      BY <1>2, <3>1, <3>2 DEF IsOpen
  <2> QED
    BY <1>1, <2>1, <2>2
<1> QED
  BY <1>1, <1>3, <1>4, <1>5, <1>6 DEF RestInv, UpdateIsScheduled, ReportIsDue

\* Binding a file takes only what is gone from the files that are tracked.
LEMMA RestAfterBind ==
  ASSUME Types, RestInv, NEW i \in InList, Bind(i), turn.at \in {"pass", "check"},
         turn'.at = "check",
         UNCHANGED <<disk, events, timer, update, shown, histories, failed>>
  PROVE  RestInv'
<1>1. disk' = disk /\ events' = events /\ update' = update /\ shown' = shown
      /\ hurried' = hurried /\ ~update
  BY DEF histories, RestInv, UpdateIsScheduled
<1>2. InList \subseteq InList' /\ InList \subseteq DOMAIN info /\ i \in DOMAIN info
  BY GraphIsTyped, BindIsTyped
<1>3. CASE UNCHANGED program
  <2>1. info' = info /\ InList' = InList
    BY <1>3 DEF program, InList
  <2>2. SourcesAreTracked' /\ ShownIsKept'
    BY <1>1, <2>1 DEF RestInv, SourcesAreTracked, ShownIsKept, AtPath
  <2> QED
    BY <1>1, <2>2 DEF RestInv, UpdateIsScheduled, AtRest, ReportIsDue
<1>4. CASE Taken(i)
  <2>1. \A k \in DOMAIN info \ {i} : info'[k].tracked = info[k].tracked
    BY <1>4 DEF Taken
  <2>2. info'[i].tracked <=> info[i].tracked /\ ~IsGone(i)
    BY <1>4 DEF Taken
  <2>3. \A k \in DOMAIN info : info'[k].doc = info[k].doc
    BY <1>4 DEF Taken
  <2>4. \A k \in DOMAIN info : info[k].diags # "none" => info'[k].diags # "none"
    BY <1>4 DEF Taken
  <2>5. ShownIsKept'
    BY <1>1, <1>2, <2>3, <2>4, ShownAfterStep DEF RestInv, IsOpen
  <2>6. SourcesAreTracked'
    <3> SUFFICES ASSUME NEW f \in Sources, disk[f] # Absent, events[f] # "rename"
                 PROVE  \E k \in InList' : PathOf(k) = f /\ info'[k].tracked
      BY <1>1 DEF SourcesAreTracked, AtPath
    <3>1. PICK k \in InList : PathOf(k) = f /\ info[k].tracked
      BY <1>1 DEF RestInv, SourcesAreTracked, AtPath
    <3>2. k = i => ~IsGone(i)
      BY <3>1 DEF IsGone
    <3> QED
      BY <1>2, <2>1, <2>2, <3>1, <3>2
  <2> QED
    BY <1>1, <2>5, <2>6 DEF RestInv, UpdateIsScheduled, AtRest, ReportIsDue
<1> QED
  BY <1>2, <1>3, <1>4, BindEffect, TypesParts

LEMMA RestCheckTypes ==
  ASSUME Types, RestInv, CheckTypes
  PROVE  RestInv'
<1>1. PICK n \in turn.n..Len(list) :
        /\ Bind(list[n])
        /\ turn' = [turn EXCEPT !.at = "check", !.n = n + 1, !.file = list[n],
                      !.seen = Seeing(<<>>, PathOf(list[n]), info'[list[n]].parsed),
                      !.todo = info'[list[n]].found, !.gone = @ \/ FoundDeleted]
  BY DEF CheckTypes
<1>2. n \in 1..Len(list) /\ list[n] \in InList
  BY GraphIsTyped
<1>3. turn.at = "pass" /\ turn'.at = "check"
  BY <1>1 DEF Types, TurnType, Turns, CheckTypes
<1> QED
  BY <1>1, <1>2, <1>3, RestAfterBind DEF CheckTypes

LEMMA RestLookUp ==
  ASSUME Types, RestInv, NEW f \in Paths, LookUp(f)
  PROVE  RestInv'
<1>1. turn.at = "check" /\ turn'.at = "check"
  BY DEF Types, TurnType, Turns, LookUp
<1>2. CASE UNCHANGED program
  <2>1. disk' = disk /\ events' = events /\ update' = update /\ shown' = shown
        /\ hurried' = hurried /\ ~update /\ info' = info /\ InList' = InList
    BY <1>1, <1>2 DEF LookUp, histories, program, InList, RestInv, UpdateIsScheduled
  <2>2. SourcesAreTracked' /\ ShownIsKept'
    BY <2>1 DEF RestInv, SourcesAreTracked, ShownIsKept, AtPath
  <2> QED
    BY <1>1, <2>1, <2>2 DEF RestInv, UpdateIsScheduled, AtRest, ReportIsDue
<1>3. ASSUME NEW k \in AtPath(f), Bind(k) PROVE RestInv'
  <2>1. k \in InList
    BY DEF AtPath
  <2> QED
    BY <1>1, <1>3, <2>1, RestAfterBind DEF LookUp
<1> QED
  BY <1>2, <1>3 DEF LookUp

LEMMA RestChecked ==
  ASSUME Types, RestInv, NEW outOfTime \in BOOLEAN, Checked(outOfTime)
  PROVE  RestInv'
<1>1. turn.at = "check" /\ turn \in Turns /\ InList' = InList
      /\ disk' = disk /\ events' = events /\ update' = update /\ shown' = shown
      /\ hurried' = hurried /\ ~update
  BY DEF Checked, Types, TurnType, InList, histories, RestInv, UpdateIsScheduled
<1>2. \A i \in DOMAIN info :
        /\ info'[i].tracked = info[i].tracked /\ info'[i].doc = info[i].doc
        /\ info'[i].diags = (IF i = turn.file /\ info[i].diags # "none" THEN "old"
                            ELSE info[i].diags)
  BY CheckedEffect
<1>3. SourcesAreTracked'
  BY <1>1, <1>2, GraphIsTyped, TrackedAfterStep DEF RestInv
<1>4. ShownIsKept'
  BY <1>1, <1>2, GraphIsTyped, ShownAfterStep DEF RestInv, IsOpen
<1>5. AtRest' /\ ReportIsDue'
  <2>1. CASE outOfTime
    <3> DEFINE r == Removing("report")
    <3>1. r \in Turns /\ r.at = "remove" /\ r.then = "report" /\ r.n = 1
      BY TurnsAreTyped
    <3>2. turn' = [r EXCEPT !.before = turn.before, !.gone = turn.gone, !.more = TRUE]
      BY <2>1 DEF Checked
    <3> HIDE DEF r
    <3>3. turn'.at = "remove" /\ turn'.then = "report" /\ turn'.more /\ turn'.n = 1
      BY <3>1, <3>2 DEF Turns
    <3> QED
      BY <3>3 DEF AtRest, ReportIsDue
  <2>2. CASE ~outOfTime
    <3>1. turn' = [turn EXCEPT !.at = "pass", !.file = <<>>, !.todo = {}, !.seen = <<>>]
      BY <2>2 DEF Checked
    <3>2. turn'.at = "pass"
      BY <1>1, <3>1 DEF Turns
    <3> QED
      BY <3>2 DEF AtRest, ReportIsDue
  <2> QED
    BY <2>1, <2>2
<1> QED
  BY <1>1, <1>3, <1>4, <1>5 DEF RestInv, UpdateIsScheduled

LEMMA RestEndPass ==
  ASSUME Types, RestInv, EndPass
  PROVE  RestInv'
<1>1. turn.at = "pass" /\ InList' = InList
      /\ disk' = disk /\ events' = events /\ update' = update /\ shown' = shown
      /\ hurried' = hurried /\ ~update
  BY DEF EndPass, InList, histories, RestInv, UpdateIsScheduled
<1>2. /\ InList \subseteq DOMAIN info'
      /\ \A k \in DOMAIN info' : info'[k] = info[k]
  <2>1. CASE info' = Collect(info)
    BY <2>1, CollectEffect DEF Types
  <2>2. CASE info' = info
    BY <2>2, GraphIsTyped
  <2> QED
    BY <2>1, <2>2 DEF EndPass
<1>3. SourcesAreTracked'
  BY <1>1, <1>2, TrackedAfterStep DEF RestInv
<1>4. ShownIsKept'
  BY <1>1, <1>2, ShownAfterStep DEF RestInv
<1>5. AtRest' /\ ReportIsDue'
  <2>1. CASE FilesToAnalyze(info) # {} /\ turn.opened = {}
    <3>1. turn' = Idle /\ "filesLeft" \in failed'
      BY <2>1 DEF EndPass
    <3> QED
      BY <3>1, TurnsAreTyped DEF AtRest, ReportIsDue
  <2>2. CASE ~(FilesToAnalyze(info) # {} /\ turn.opened = {})
    <3> DEFINE r == Removing("report")
               more == turn.opened # {}
    <3>1. r \in Turns /\ r.at = "remove" /\ r.then = "report" /\ r.n = 1
      BY TurnsAreTyped
    <3>2. turn' = [r EXCEPT !.before = turn.before, !.gone = turn.gone, !.more = more]
          /\ info' = info
      BY <2>2 DEF EndPass
    <3> HIDE DEF r, more
    <3>3. turn'.at = "remove" /\ turn'.then = "report" /\ turn'.more = more /\ turn'.n = 1
      BY <3>1, <3>2 DEF Turns
    <3>4. ~more => FilesToAnalyze(info)' = {}
      BY <1>1, <2>2, <3>2 DEF FilesToAnalyze, more
    <3> QED
      BY <3>3, <3>4 DEF AtRest, ReportIsDue
  <2> QED
    BY <2>1, <2>2
<1> QED
  BY <1>1, <1>3, <1>4, <1>5 DEF RestInv, UpdateIsScheduled

LEMMA RestSetFileOpened ==
  ASSUME Types, Types', RestInv, NEW f \in Paths, SetFileOpened(f)
  PROVE  RestInv'
<1>1. turn' = Idle /\ timer' /\ (update' <=> update) /\ disk' = disk /\ events' = events
      /\ shown' = shown /\ hurried' = hurried
  BY DEF SetFileOpened, IsIdle, ScheduleReanalysis
<1>2. InList' = InList \cup (DOMAIN info' \ DOMAIN info)
  BY SetFileOpenedEffect
<1>3. PICK i \in InList' :
        /\ \A k \in DOMAIN info \ {i} : info'[k] = info[k]
        /\ info'[i].doc # Closed
        /\ i \in DOMAIN info => info'[i].tracked = info[i].tracked
  BY SetFileOpenedEffect
<1>4. SourcesAreTracked'
  BY <1>1, <1>2, <1>3, GraphIsTyped, TrackedAfterStep DEF RestInv
<1>5. ShownIsKept'
  <2>1. \A k \in InList : \/ IsOpen(info'[k])
                         \/ info'[k] = info[k]
    BY <1>3, GraphIsTyped DEF IsOpen
  <2> QED
    BY <1>1, <1>2, <2>1, ShownAfterStep DEF RestInv
<1> QED
  BY <1>1, <1>4, <1>5, TurnsAreTyped DEF RestInv, UpdateIsScheduled, AtRest, ReportIsDue

LEMMA RestUpdateOpenFileContents ==
  ASSUME Types, Types', RestInv, NEW f \in Paths, NEW text \in TextsOf[f],
         UpdateOpenFileContents(f, text)
  PROVE  RestInv'
<1>1. turn' = Idle /\ timer' /\ (update' <=> update) /\ disk' = disk /\ events' = events
      /\ shown' = shown /\ hurried' = hurried /\ InList' = InList
  BY DEF UpdateOpenFileContents, IsIdle, ScheduleReanalysis, InList
<1>2. PICK i \in DOMAIN info :
        /\ info'[i].doc # Closed
        /\ \A k \in DOMAIN info :
             /\ info'[k].tracked = info[k].tracked
             /\ k # i => (info'[k].doc = info[k].doc /\ info'[k].diags = info[k].diags)
  BY UpdateEffect
<1>3. SourcesAreTracked'
  BY <1>1, <1>2, GraphIsTyped, TrackedAfterStep DEF RestInv
<1>4. ShownIsKept'
  <2>1. \A k \in InList : \/ IsOpen(info'[k])
                         \/ (info'[k].doc = info[k].doc /\ info'[k].diags = info[k].diags)
    BY <1>2, GraphIsTyped DEF IsOpen
  <2> QED
    BY <1>1, <2>1, ShownAfterStep DEF RestInv, IsOpen
<1> QED
  BY <1>1, <1>3, <1>4, TurnsAreTyped DEF RestInv, UpdateIsScheduled, AtRest, ReportIsDue

LEMMA RestSetFileClosed ==
  ASSUME Types, Types', RestInv, NEW f \in Paths, SetFileClosed(f)
  PROVE  RestInv'
<1>1. PICK i \in AtPath(f) :
        /\ info' = [info EXCEPT ![i].doc = Closed]
        /\ hurried' = IF info[i].diags = "none" THEN hurried \cup ({f} \cap shown) ELSE hurried
  BY DEF SetFileClosed
<1>2. turn' = Removing("rest") /\ timer' /\ (update' <=> update) /\ disk' = disk
      /\ events' = events /\ shown' = shown /\ InList' = InList
  BY DEF SetFileClosed, ScheduleReanalysis, InList
<1>3. i \in DOMAIN info /\ PathOf(i) = f
  BY GraphIsTyped DEF AtPath
<1>4. \A k \in DOMAIN info :
        /\ info'[k].tracked = info[k].tracked /\ info'[k].diags = info[k].diags
        /\ k # i => info'[k].doc = info[k].doc
  BY <1>1, <1>3, ClosedEffect
<1>5. SourcesAreTracked'
  BY <1>2, <1>4, GraphIsTyped, TrackedAfterStep DEF RestInv
<1>6. ShownIsKept'
  <2>1. hurried \subseteq hurried' /\ (info[i].diags = "none" => f \notin shown \ hurried')
    BY <1>1
  <2>2. \A k \in InList : \/ (info'[k].doc = info[k].doc /\ info'[k].diags = info[k].diags)
                         \/ info'[k].diags # "none"
                         \/ PathOf(k) \notin shown \ hurried'
    BY <1>3, <1>4, <2>1, GraphIsTyped
  <2> QED
    BY <1>2, <2>1, <2>2, ShownAfterStep DEF RestInv, IsOpen
<1>7. turn'.at = "remove" /\ turn'.then = "rest" /\ turn'.n = 1
  BY <1>2, TurnsAreTyped
<1> QED
  BY <1>2, <1>5, <1>6, <1>7 DEF RestInv, UpdateIsScheduled, AtRest, ReportIsDue

LEMMA RestWatchEvent ==
  ASSUME Types, Types', RestInv, NEW f \in Paths, WatchEvent(f)
  PROVE  RestInv'
<1>1. /\ turn' = Idle /\ timer' /\ disk' = disk /\ shown' = shown /\ hurried' = hurried
      /\ InList' = InList /\ events' = [events EXCEPT ![f] = "none"]
      /\ (update => update')
      /\ ((f \in Sources /\ ~update') => events[f] = "change")
  BY DEF WatchEvent, IsIdle, ScheduleReanalysis, InList, Types
<1>2. \A k \in DOMAIN info :
        /\ info'[k].tracked = info[k].tracked /\ info'[k].doc = info[k].doc
        /\ info'[k].diags = info[k].diags
  BY WatchEffect DEF SameButMarks
<1>3. SourcesAreTracked'
  <2> SUFFICES ASSUME NEW g \in Sources, disk[g] # Absent, events'[g] # "rename", ~update'
               PROVE  \E k \in InList : PathOf(k) = g /\ info'[k].tracked
    BY <1>1 DEF SourcesAreTracked, AtPath
  <2>1. events[g] # "rename" /\ ~update
    BY <1>1, TextsAssumption DEF Types
  <2>2. PICK k \in InList : PathOf(k) = g /\ info[k].tracked
    BY <2>1 DEF RestInv, SourcesAreTracked, AtPath
  <2> QED
    BY <1>2, <2>2, GraphIsTyped
<1>4. ShownIsKept'
  BY <1>1, <1>2, GraphIsTyped, ShownAfterStep DEF RestInv, IsOpen
<1> QED
  BY <1>1, <1>3, <1>4, TurnsAreTyped DEF RestInv, UpdateIsScheduled, AtRest, ReportIsDue

\* A file that is removed has lost its diagnostics, and so have those before it that are not
\* to be checked.
LEMMA RestRemoveNext ==
  ASSUME Types, GraphInv, RestInv, RemoveNext
  PROVE  RestInv'
<1>1. turn.at = "remove" /\ disk' = disk /\ events' = events /\ update' = update
      /\ timer' = timer /\ hurried' = hurried
  BY DEF RemoveNext, histories
<1>2. PICK n \in turn.n..Len(list) :
        LET S == ClearDiags({list[m] : m \in turn.n..(n - 1)}) IN
        /\ ~Needed(n) /\ list[n] \in InList /\ DOMAIN info' = DOMAIN info
        /\ \A j \in DOMAIN info :
             /\ info'[j].tracked = info[j].tracked /\ info'[j].doc = info[j].doc
             /\ info'[j].check = info[j].check
             /\ info'[j].diags = IF j \in S THEN "none" ELSE info[j].diags
        /\ InList' = InList \ {list[n]}
        /\ \A m \in 1..(Len(list) - 1) : list'[m] = IF m < n THEN list[m] ELSE list[m + 1]
        /\ turn'.at = "remove" /\ turn'.n = n /\ turn'.then = turn.then
        /\ turn'.more = turn.more
        /\ shown' = shown \ PathsOf(S \cup {list[n]})
  BY RemoveNextEffect
<1> DEFINE S == ClearDiags({list[m] : m \in turn.n..(n - 1)})
<1>3. /\ \A j \in DOMAIN info :
           /\ info'[j].tracked = info[j].tracked /\ info'[j].doc = info[j].doc
           /\ info'[j].check = info[j].check
           /\ info'[j].diags = IF j \in S THEN "none" ELSE info[j].diags
      /\ shown' = shown \ PathsOf(S \cup {list[n]})
  BY <1>2
<1>4. \A m \in turn.n..(n - 1) :
        ShouldCheckFile(info[list[m]]) \/ info[list[m]].diags = "none" \/ list[m] \in S
  BY DEF ClearDiags
<1> HIDE DEF S
<1>5. InList' = InList \ {list[n]} /\ list[n] \in InList /\ InList \subseteq DOMAIN info
  BY <1>2, GraphIsTyped
<1>6. \A j \in DOMAIN info : ShouldCheckFile(info'[j]) <=> ShouldCheckFile(info[j])
  BY <1>3 DEF ShouldCheckFile, IsOpen
<1>7. SourcesAreTracked'
  <2> SUFFICES ASSUME NEW f \in Sources, disk[f] # Absent, events[f] # "rename", ~update
               PROVE  \E k \in InList' : PathOf(k) = f /\ info'[k].tracked
    BY <1>1 DEF SourcesAreTracked, AtPath
  <2>1. PICK k \in InList : PathOf(k) = f /\ info[k].tracked
    BY DEF RestInv, SourcesAreTracked, AtPath
  <2>2. k \in DOMAIN info /\ IsFileNeeded(info, k)
    BY <1>5, <2>1, RootsAreNeeded DEF GraphInv, IsRoot
  <2>3. k # list[n]
    BY <1>2, <2>2 DEF Needed
  <2> QED
    BY <1>3, <1>5, <2>1, <2>2, <2>3
<1>8. ShownIsKept'
  <2>1. \A k \in InList : PathOf(k) \in shown' => k \notin S /\ k # list[n]
    BY <1>3 DEF PathsOf
  <2>2. \A k \in InList : PathOf(k) \in shown' =>
          k \in InList' /\ info'[k].doc = info[k].doc /\ info'[k].diags = info[k].diags
    BY <1>3, <1>5, <2>1
  <2> QED
    BY <1>1, <1>3, <2>2, ShownAfterStep DEF RestInv, IsOpen
<1>9. ReportIsDue'
  <2>1. turn'.at = "remove" /\ turn'.n = n /\ turn'.then = turn.then /\ turn'.more = turn.more
    BY <1>2
  <2>2. FilesToAnalyze(info)' \subseteq FilesToAnalyze(info)
    BY <1>3, <1>5, <1>6 DEF FilesToAnalyze
  <2>3. ASSUME NEW m \in 1..(n - 1)
        PROVE  ShouldCheckFile(info'[list'[m]]) \/ info'[list'[m]].diags = "none"
    <3>1. m \in 1..(Len(list) - 1) /\ m < n /\ m \in 1..Len(list) /\ turn.n \in Nat \ {0}
      BY GraphIsTyped
    <3>2. list'[m] = list[m]
      BY <1>2, <3>1
    <3>3. list[m] \in DOMAIN info
      BY <3>1, GraphIsTyped
    <3>4. m \in 1..(turn.n - 1) \/ m \in turn.n..(n - 1)
      BY <3>1
    <3>5. ShouldCheckFile(info[list[m]]) \/ info[list[m]].diags = "none" \/ list[m] \in S
      BY <1>1, <1>4, <3>4 DEF RestInv, ReportIsDue
    <3> QED
      BY <1>3, <1>6, <3>2, <3>3, <3>5
  <2> QED
    BY <1>1, <2>1, <2>2, <2>3 DEF RestInv, ReportIsDue
<1> QED
  BY <1>1, <1>2, <1>7, <1>8, <1>9 DEF RestInv, UpdateIsScheduled, AtRest

LEMMA RestForget ==
  ASSUME Types, GraphInv, RestInv, NEW k \in DOMAIN info, Forget(k)
  PROVE  RestInv'
<1>1. /\ turn.at = "remove" /\ info' = Forgotten(k) /\ list' = list /\ shown' = shown
      /\ turn' = [turn EXCEPT !.left = @ \ {k}]
  BY ForgottenIsImporter
<1>2. turn.n \in Nat \ {0}
  BY GraphIsTyped
<1>3. /\ turn'.at = "remove" /\ turn'.n = turn.n /\ turn'.then = turn.then
      /\ turn'.more = turn.more
  BY <1>1, <1>2, ForgottenTurn
<1>4. InList' = InList /\ disk' = disk /\ events' = events /\ update' = update
      /\ timer' = timer /\ hurried' = hurried
  BY <1>1 DEF Forget, InList, histories
<1>5. \A i \in DOMAIN info :
        /\ info'[i].tracked = info[i].tracked /\ info'[i].doc = info[i].doc
        /\ info'[i].check = info[i].check /\ info'[i].diags = info[i].diags
  BY <1>1, ForgottenEffect
<1>6. SourcesAreTracked'
  BY <1>4, <1>5, GraphIsTyped, TrackedAfterStep DEF RestInv
<1>7. ShownIsKept'
  BY <1>1, <1>4, <1>5, GraphIsTyped, ShownAfterStep DEF RestInv, IsOpen
<1>8. ReportIsDue'
  <2>1. \A i \in DOMAIN info : ShouldCheckFile(info'[i]) <=> ShouldCheckFile(info[i])
    BY <1>5 DEF ShouldCheckFile, IsOpen
  <2>2. FilesToAnalyze(info)' \subseteq FilesToAnalyze(info)
    BY <1>4, <1>5, <2>1, GraphIsTyped DEF FilesToAnalyze
  <2>3. \A m \in 1..(turn.n - 1) : list[m] \in DOMAIN info
    <3>1. turn.n <= Len(list) + 1
      BY <1>1 DEF Types, TurnType
    <3> QED
      BY <3>1, GraphIsTyped
  <2> QED
    BY <1>1, <1>3, <1>4, <1>5, <2>1, <2>2, <2>3 DEF RestInv, ReportIsDue
<1> QED
  BY <1>1, <1>3, <1>4, <1>6, <1>7, <1>8 DEF RestInv, UpdateIsScheduled, AtRest

LEMMA RestStutter ==
  ASSUME RestInv, UNCHANGED vars
  PROVE  RestInv'
BY DEF vars, program, histories, RestInv, UpdateIsScheduled, AtRest, ReportIsDue,
   SourcesAreTracked, ShownIsKept, AtPath, InList, FilesToAnalyze

LEMMA RestNext ==
  ASSUME Types, Types', GraphInv, RestInv, [Next]_vars
  PROVE  RestInv'
<1>1. CASE UNCHANGED vars
  BY <1>1, RestStutter
<1>2. CASE Environment
  BY <1>2, RestEnvironment
<1>3. CASE User
  BY <1>3, RestSetFileOpened, RestSetFileClosed, RestUpdateOpenFileContents DEF User
<1>4. CASE \E f \in Paths : WatchEvent(f)
  BY <1>4, RestWatchEvent
<1>5. CASE Analysis
  <2>1. CASE \E f \in Paths : LookUp(f)
    BY <2>1, RestLookUp
  <2>2. CASE \E outOfTime \in BOOLEAN : Checked(outOfTime)
    BY <2>2, RestChecked
  <2> QED
    BY <1>5, <2>1, <2>2, RestAnalyzeTimer, RestEndUpdate, RestCheckTypes, RestEndPass,
       RestEndReport DEF Analysis
<1>6. CASE RemoveNext
  BY <1>6, RestRemoveNext
<1>7. CASE EndClose
  BY <1>7, RestEndClose
<1>8. CASE \E k \in DOMAIN info : Forget(k)
  BY <1>8, RestForget
<1> QED
  BY <1>1, <1>2, <1>3, <1>4, <1>5, <1>6, <1>7, <1>8 DEF Next, Removal

LEMMA RestIsKept == Spec => []RestInv
<1>1. Types /\ Types' /\ GraphInv /\ RestInv /\ [Next]_vars => RestInv'
  BY RestNext
<1> QED
  BY <1>1, RestInit, TypesAreKept, GraphIsKept, PTL DEF Spec

\* When nothing is scheduled, nothing happens and the watcher has told of all changes, and no
\* assertion failed in the last pass, nothing is left to be checked, each source on disk is
\* tracked, the client has current diagnostics of each file that is to be checked, and of
\* others at most those that were closed between an edit and the next pass.
THEOREM SettledIsComplete == Spec => []Complete
<1>1. Types /\ RestInv => Complete
  <2> SUFFICES ASSUME Types, RestInv, Settled, "filesLeft" \notin failed
               PROVE  /\ FilesToAnalyze(info) = {}
                      /\ \A f \in Sources : disk[f] # Absent => \E i \in AtPath(f) : info[i].tracked
                      /\ \A i \in InList : ShouldCheckFile(info[i]) =>
                           PathOf(i) \in shown /\ info[i].diags = "current"
                      /\ \A f \in shown \ hurried : \E i \in AtPath(f) : ShouldCheckFile(info[i])
    BY DEF Complete
  <2>1. turn.at = "idle" /\ ~timer /\ ~update
    BY TurnsAreTyped DEF Settled, IsIdle, RestInv, UpdateIsScheduled
  <2>2. \A i \in InList :
          /\ ShouldCheckFile(info[i]) =>
               ~info[i].check /\ info[i].diags = "current" /\ PathOf(i) \in shown
          /\ ~ShouldCheckFile(info[i]) => info[i].diags = "none"
    BY <2>1 DEF RestInv, AtRest
  <2>3. FilesToAnalyze(info) = {}
    BY <2>2 DEF FilesToAnalyze
  <2>4. ASSUME NEW f \in Sources, disk[f] # Absent
        PROVE  \E i \in AtPath(f) : info[i].tracked
    <3>1. events[f] # "rename"
      BY TextsAssumption DEF Settled
    <3> QED
      BY <2>1, <2>4, <3>1 DEF RestInv, SourcesAreTracked
  <2>5. ASSUME NEW f \in shown \ hurried
        PROVE  \E i \in AtPath(f) : ShouldCheckFile(info[i])
    <3>1. PICK i \in AtPath(f) : IsOpen(info[i]) \/ info[i].diags # "none"
      BY DEF RestInv, ShownIsKept
    <3>2. i \in InList
      BY DEF AtPath
    <3> QED
      BY <2>2, <3>1, <3>2 DEF ShouldCheckFile
  <2> QED
    BY <2>2, <2>3, <2>4, <2>5
<1> QED
  BY <1>1, TypesAreKept, RestIsKept, PTL

-----------------------------------------------------------------------------
(* What a check has seen *)

\* The watcher is about to tell of a file that was created or deleted.
Renamed == \E f \in Paths : events[f] = "rename"

OnDisk == {f \in Paths : disk[f] # Absent}

\* What was read of a file is what there is, or an event is to come, or the change goes unnoticed.
TextIsKnown ==
  \A k \in InList : ~IsParseRequired(info[k]) /\ ~info[k].deleted =>
    IF IsOpen(info[k]) THEN info[k].parsed = info[k].doc
    ELSE \/ info[k].parsed = disk[PathOf(k)] \/ ~DidContentsChangeOnDisk(k)
         \/ events[PathOf(k)] # "none" \/ PathOf(k) \in unmarked

TrackedIsOnDisk ==
  \A k \in InList : info[k].tracked =>
    /\ PathOf(k) \in Sources
    /\ disk[PathOf(k)] # Absent \/ events[PathOf(k)] = "rename" \/ update

\* All is to be checked when the tracked files are to be updated.
UpdateChecksAll ==
  update \/ (turn.at = "remove" /\ turn.then = "pass") => \A k \in InList : info[k].check

\* The watcher will tell of a file that a pass finds deleted.
GoneIsTold ==
  /\ turn.gone => Renamed
  /\ "filesLeft" \in failed =>
       /\ Renamed \/ timer
       /\ turn.at = "idle" \/ (turn.at = "remove" /\ turn.then = "rest")

ToldInv == TextIsKnown /\ TrackedIsOnDisk /\ UpdateChecksAll /\ GoneIsTold

ListingIsRight == listing = Unread \/ listing = OnDisk

\* A file that was read knows what it imports.
ImportsRight(k) ==
  /\ info[k].found = ImportsOf[info[k].parsed] \cap OnDisk
  /\ PathsOf(info[k].imports) = info[k].found

ParsedIsRight == \A k \in InList : ~IsParseRequired(info[k]) => ImportsRight(k)

\* What a file depends on, as far as changes are noticed: the files of u are not looked into.
Reach(o, u, j) ==
  Closure([k \in DOMAIN o |-> IF PathOf(k) \in u THEN {} ELSE o[k].imports], {j})

Below(j) == Reach(info, unmarked, j)

\* A file is as it was read, though it may be read again.
IsAnalysed(k) ==
  info[k].parsed # NoTree /\ ImportsRight(k) /\ (info[k].dirty => info[k].doc = info[k].parsed)

AsSeen(k, seen) ==
  /\ k \in InList /\ ~info[k].deleted /\ PathOf(k) \in DOMAIN seen
  /\ PathOf(k) \in unmarked \/ (seen[PathOf(k)] = info[k].parsed /\ IsAnalysed(k))

\* The last check of a file has seen what it depends on, and nothing else.
SeenRight(j) ==
  /\ \A k \in Below(j) : AsSeen(k, info[j].seen)
  /\ (\A k \in Below(j) : PathOf(k) \notin unmarked)
       => DOMAIN info[j].seen \subseteq PathsOf(Below(j))

SeenIsRight == \A j \in InList : IsRoot(info, j) /\ ~info[j].check => SeenRight(j)

\* A check has seen files that can be reached from the one it checks, and knows what they import.
SeenFiles == {k \in InList : PathOf(k) \in DOMAIN turn.seen}

SeenEdges == [k \in DOMAIN info |-> IF k \in SeenFiles THEN info[k].imports ELSE {}]

CheckGoesOn ==
  turn.at = "check" =>
    /\ turn.file \in SeenFiles /\ IsRoot(info, turn.file)
    /\ DOMAIN turn.seen \subseteq PathsOf(SeenFiles)
    /\ \A k \in SeenFiles :
         /\ ~IsParseRequired(info[k]) /\ ~info[k].deleted
         /\ turn.seen[PathOf(k)] = info[k].parsed /\ info[k].found \subseteq turn.todo
    /\ \A f \in turn.todo : \E k \in SeenFiles : f \in info[k].found
    /\ SeenFiles \subseteq Closure(SeenEdges, {turn.file})

SeenInv == Renamed \/ (ListingIsRight /\ ParsedIsRight /\ SeenIsRight /\ CheckGoesOn)

\* What is closed under the edges of a larger graph is reached there.
LEMMA ClosureGrows ==
  ASSUME NEW e, NEW d, IsGraph(e), IsGraph(d), DOMAIN e \subseteq DOMAIN d,
         \A i \in DOMAIN e : e[i] \subseteq d[i], NEW S \in SUBSET DOMAIN e
  PROVE  Closure(e, S) \subseteq Closure(d, S)
<1> DEFINE T == Closure(d, S) \cap DOMAIN e
<1>1. S \subseteq Closure(d, S) /\ IsClosed(d, Closure(d, S))
  BY ClosureIsLeast
<1>2. T \in SUBSET DOMAIN e /\ S \subseteq T /\ IsClosed(e, T)
  BY <1>1 DEF IsClosed, IsGraph
<1>3. \A U \in SUBSET DOMAIN e : S \subseteq U /\ IsClosed(e, U) => Closure(e, S) \subseteq U
  BY ClosureIsLeast
<1> HIDE DEF T
<1>4. Closure(e, S) \subseteq T
  BY <1>2, <1>3
<1> QED
  BY <1>4 DEF T

LEMMA ReachIsLeast ==
  ASSUME NEW o, \A k \in DOMAIN o : o[k].imports \subseteq DOMAIN o, NEW u, NEW j \in DOMAIN o
  PROVE  /\ j \in Reach(o, u, j) /\ Reach(o, u, j) \subseteq DOMAIN o
         /\ \A k \in Reach(o, u, j) : PathOf(k) \notin u => o[k].imports \subseteq Reach(o, u, j)
         /\ \A T \in SUBSET DOMAIN o :
              j \in T /\ (\A k \in T : PathOf(k) \notin u => o[k].imports \subseteq T)
                => Reach(o, u, j) \subseteq T
<1> DEFINE e == [k \in DOMAIN o |-> IF PathOf(k) \in u THEN {} ELSE o[k].imports]
<1>1. DOMAIN e = DOMAIN o /\ IsGraph(e)
  BY DEF IsGraph
<1>2. \A k \in DOMAIN o : /\ PathOf(k) \in u => e[k] = {}
                          /\ PathOf(k) \notin u => e[k] = o[k].imports
  OBVIOUS
<1>3. Reach(o, u, j) = Closure(e, {j})
  BY DEF Reach
<1> HIDE DEF e
<1>4. /\ {j} \subseteq Closure(e, {j}) /\ Closure(e, {j}) \subseteq DOMAIN e
      /\ IsClosed(e, Closure(e, {j}))
      /\ \A T \in SUBSET DOMAIN e :
           {j} \subseteq T /\ IsClosed(e, T) => Closure(e, {j}) \subseteq T
  BY <1>1, ClosureIsLeast
<1>5. ASSUME NEW k \in Reach(o, u, j), PathOf(k) \notin u
      PROVE  o[k].imports \subseteq Reach(o, u, j)
  <2>1. e[k] = o[k].imports
    BY <1>1, <1>2, <1>3, <1>4, <1>5
  <2> QED
    BY <1>3, <1>4, <1>5, <2>1 DEF IsClosed
<1>6. ASSUME NEW T \in SUBSET DOMAIN o, j \in T,
             \A k \in T : PathOf(k) \notin u => o[k].imports \subseteq T
      PROVE  Reach(o, u, j) \subseteq T
  <2>1. IsClosed(e, T)
    BY <1>2, <1>6 DEF IsClosed
  <2> QED
    BY <2>1, <1>1, <1>3, <1>4, <1>6
<1> QED
  BY <1>1, <1>3, <1>4, <1>5, <1>6

LEMMA BelowIsLeast ==
  ASSUME Types, NEW j \in DOMAIN info
  PROVE  /\ j \in Below(j) /\ Below(j) \subseteq DOMAIN info
         /\ \A k \in Below(j) : PathOf(k) \notin unmarked => info[k].imports \subseteq Below(j)
         /\ \A T \in SUBSET DOMAIN info :
              j \in T /\ (\A k \in T : PathOf(k) \notin unmarked => info[k].imports \subseteq T)
                => Below(j) \subseteq T
BY GraphIsTyped, ReachIsLeast DEF Below

\* A file is above what it depends on: a change there marks it.
LEMMA RootIsAbove ==
  ASSUME Types, GraphInv, NEW j \in DOMAIN info, Below(j) \subseteq InList, NEW k \in Below(j)
  PROVE  j \in Above(info, k)
<1> DEFINE T == {m \in Below(j) : j \in Above(info, m)}
<1>1. ImportersAreObjects(info) /\ InList \subseteq DOMAIN info
  BY GraphIsTyped
<1>2. j \in Below(j) /\ j \in Above(info, j)
  BY <1>1, BelowIsLeast, AboveIsLeast
<1>3. ASSUME NEW m \in T, PathOf(m) \notin unmarked, NEW n \in info[m].imports
      PROVE  n \in T
  <2>1. n \in Below(j) /\ n \in DOMAIN info
    BY <1>3, BelowIsLeast
  <2>2. m \in info[n].importedBy
    BY <1>1, <1>3, <2>1 DEF GraphInv, EdgesAgree
  <2>3. m \in Above(info, n)
    BY <1>1, <2>1, <2>2, AboveIsLeast
  <2>4. Above(info, m) \subseteq Above(info, n)
    BY <1>1, <2>1, <2>3, AboveIsTransitive
  <2> QED
    BY <1>3, <2>1, <2>4
<1>4. T \in SUBSET DOMAIN info /\ j \in T
  BY <1>2, BelowIsLeast
<1>5. \A m \in T : PathOf(m) \notin unmarked => info[m].imports \subseteq T
  BY <1>3
<1> HIDE DEF T
<1>6. Below(j) \subseteq T
  BY <1>4, <1>5, BelowIsLeast
<1> QED
  BY <1>6 DEF T

LEMMA BelowIsListed ==
  ASSUME NEW j, SeenRight(j)
  PROVE  Below(j) \subseteq InList
  BY DEF SeenRight, AsSeen

\* What a check has seen stays right if the files below that are not unmarked stay as analysed.
LEMMA SeenAfterStep ==
  ASSUME Types, Types', NEW j \in InList, j \in InList', SeenRight(j),
         info'[j].seen = info[j].seen,
         \A k \in Below(j) :
           /\ k \in InList' /\ ~info'[k].deleted
           /\ \/ PathOf(k) \in unmarked'
              \/ /\ PathOf(k) \notin unmarked
                 /\ info'[k].imports = info[k].imports /\ info'[k].parsed = info[k].parsed
                 /\ IsAnalysed(k) => IsAnalysed(k)'
  PROVE  SeenRight(j)'
<1>1. j \in DOMAIN info /\ j \in DOMAIN info' /\ InList' \subseteq DOMAIN info'
  BY Listed DEF Types, InList
<1>2. /\ j \in Below(j) /\ Below(j) \subseteq DOMAIN info
      /\ \A k \in Below(j) : PathOf(k) \notin unmarked => info[k].imports \subseteq Below(j)
      /\ \A T \in SUBSET DOMAIN info :
           j \in T /\ (\A k \in T : PathOf(k) \notin unmarked => info[k].imports \subseteq T)
             => Below(j) \subseteq T
  BY <1>1, BelowIsLeast
<1>3. /\ j \in Below(j)' /\ Below(j)' \subseteq DOMAIN info'
      /\ \A k \in Below(j)' : PathOf(k) \notin unmarked' => info'[k].imports \subseteq Below(j)'
      /\ \A T \in SUBSET DOMAIN info' :
           j \in T /\ (\A k \in T : PathOf(k) \notin unmarked' => info'[k].imports \subseteq T)
             => Below(j)' \subseteq T
  <2>1. \A k \in DOMAIN info' : info'[k].imports \subseteq DOMAIN info'
    BY DEF Types, InfoType
  <2>2. Below(j)' = Reach(info', unmarked', j)
    BY DEF Below
  <2> QED
    BY <1>1, <2>1, <2>2, ReachIsLeast
<1>4. Below(j)' \subseteq Below(j)
  <2>1. Below(j) \in SUBSET DOMAIN info'
    BY <1>1
  <2>2. \A k \in Below(j) : PathOf(k) \notin unmarked' => info'[k].imports \subseteq Below(j)
    BY <1>2
  <2> QED
    BY <1>2, <1>3, <2>1, <2>2
<1>5. \A k \in Below(j) : AsSeen(k, info[j].seen)
  BY DEF SeenRight
<1>6. ASSUME NEW k \in Below(j)' PROVE AsSeen(k, info[j].seen)'
  <2>1. k \in Below(j) /\ AsSeen(k, info[j].seen)
    BY <1>4, <1>5
  <2> QED
    BY <2>1 DEF AsSeen
<1>7. ASSUME \A k \in Below(j)' : PathOf(k) \notin unmarked'
      PROVE  DOMAIN info'[j].seen \subseteq PathsOf(Below(j)')
  <2>1. \A k \in Below(j)' : PathOf(k) \notin unmarked /\ info'[k].imports = info[k].imports
    BY <1>4, <1>7
  <2>2. Below(j) \subseteq Below(j)'
    BY <1>2, <1>3, <1>4, <1>7, <2>1
  <2>3. \A k \in Below(j) : PathOf(k) \notin unmarked
    BY <2>1, <2>2
  <2>4. DOMAIN info[j].seen \subseteq PathsOf(Below(j))
    BY <2>3 DEF SeenRight
  <2> QED
    BY <2>2, <2>4 DEF PathsOf
<1> QED
  BY <1>6, <1>7 DEF SeenRight, PathsOf

\* Files that a file to be checked depends on are needed.
LEMMA BelowIsNeeded ==
  ASSUME Types, GraphInv, NEW j \in InList, IsRoot(info, j), SeenRight(j), NEW k \in Below(j)
  PROVE  IsFileNeeded(info, k) /\ k \in InList
<1>1. ImportersAreObjects(info) /\ InList \subseteq DOMAIN info
  BY GraphIsTyped
<1>2. k \in InList /\ ~info[k].deleted
  BY DEF SeenRight, AsSeen
<1>3. j \in Above(info, k)
  BY <1>1, BelowIsListed, RootIsAbove
<1> QED
  BY <1>1, <1>2, <1>3, NeededHasRoot DEF HasRoot

\* What a file imports that is on disk is in the list.
LEMMA OnDiskIsListed ==
  ASSUME Types, GraphInv, turn.at # "remove", NEW j \in InList, ImportsRight(j)
  PROVE  info[j].imports \subseteq InList
<1> SUFFICES ASSUME NEW k \in info[j].imports PROVE k \in InList
  OBVIOUS
<1>1. k \in DOMAIN info /\ PathOf(k) \in OnDisk
  BY GraphIsTyped DEF ImportsRight, PathsOf
<1>2. ~info[k].deleted
  BY <1>1 DEF OnDisk, GraphInv, DeletedIsGone
<1> QED
  BY <1>2 DEF GraphInv, ImportsAreListed

-----------------------------------------------------------------------------
(* Steps that leave the texts read as they are *)

\* Objects are dropped that are not in the list, files that are not needed leave it, marks and
\* diagnostics change, and files are tracked no more.
QuietStep ==
  /\ disk' = disk /\ events' = events /\ unmarked' = unmarked /\ listing' = listing
  /\ InList' \subseteq InList
  /\ \A k \in InList : IsFileNeeded(info, k) => k \in InList'
  /\ \A k \in InList' :
       /\ info'[k].imports = info[k].imports /\ info'[k].parsed = info[k].parsed
       /\ info'[k].found = info[k].found /\ info'[k].deleted = info[k].deleted
       /\ info'[k].hash = info[k].hash /\ info'[k].doc = info[k].doc
       /\ info'[k].dirty = info[k].dirty /\ info'[k].tracked = info[k].tracked

LEMMA SeenAfterQuietStep ==
  ASSUME Types, Types', GraphInv, QuietStep, NEW j \in InList', IsRoot(info, j), SeenRight(j),
         info'[j].seen = info[j].seen
  PROVE  SeenRight(j)'
<1>1. j \in InList
  BY DEF QuietStep
<1>2. ASSUME NEW k \in Below(j)
      PROVE  /\ k \in InList' /\ ~info'[k].deleted
             /\ \/ PathOf(k) \in unmarked'
                \/ /\ PathOf(k) \notin unmarked
                   /\ info'[k].imports = info[k].imports /\ info'[k].parsed = info[k].parsed
                   /\ IsAnalysed(k) => IsAnalysed(k)'
  <2>1. k \in InList /\ IsFileNeeded(info, k)
    BY <1>1, BelowIsNeeded
  <2>2. k \in InList' /\ ~info[k].deleted
    BY <2>1 DEF QuietStep, IsFileNeeded
  <2>3. OnDisk' = OnDisk
    BY DEF QuietStep, OnDisk
  <2>4. IsAnalysed(k) => IsAnalysed(k)'
    BY <2>2, <2>3 DEF QuietStep, IsAnalysed, ImportsRight
  <2> QED
    BY <2>2, <2>4 DEF QuietStep
<1> QED
  BY <1>1, <1>2, SeenAfterStep

LEMMA ParsedAfterQuietStep ==
  ASSUME QuietStep, ParsedIsRight
  PROVE  ParsedIsRight'
<1>1. OnDisk' = OnDisk
  BY DEF QuietStep, OnDisk
<1> QED
  BY <1>1 DEF QuietStep, ParsedIsRight, ImportsRight, IsParseRequired

\* Steps that neither end a check nor go on with one.
LEMMA SeenInvAfterQuietStep ==
  ASSUME Types, Types', GraphInv, SeenInv, QuietStep, turn'.at # "check",
         \A k \in InList' :
           /\ info'[k].seen = info[k].seen
           /\ info[k].check => info'[k].check
  PROVE  SeenInv'
<1>1. Renamed' = Renamed /\ OnDisk' = OnDisk
  BY DEF QuietStep, Renamed, OnDisk
<1>2. CASE Renamed
  BY <1>1, <1>2 DEF SeenInv
<1>3. CASE ~Renamed
  <2>1. ListingIsRight' /\ ParsedIsRight'
    BY <1>1, <1>3, ParsedAfterQuietStep DEF SeenInv, ListingIsRight, QuietStep
  <2>2. SeenIsRight'
    <3> SUFFICES ASSUME NEW j \in InList', IsRoot(info', j), ~info'[j].check
                 PROVE  SeenRight(j)'
      BY DEF SeenIsRight, IsRoot, IsOpen
    <3>1. j \in InList /\ IsRoot(info, j) /\ ~info[j].check
      <4>1. j \in InList /\ info'[j].tracked = info[j].tracked /\ info'[j].doc = info[j].doc
        BY DEF QuietStep
      <4>2. IsRoot(info', j) = IsRoot(info, j)
        BY <4>1 DEF IsRoot, IsOpen
      <4> QED
        BY <4>1, <4>2
    <3>2. SeenRight(j)
      BY <1>3, <3>1 DEF SeenInv, SeenIsRight
    <3> QED
      BY <3>1, <3>2, SeenAfterQuietStep
  <2> QED
    BY <2>1, <2>2 DEF SeenInv, CheckGoesOn
<1> QED
  BY <1>2, <1>3

\* Steps after which all has to be read and checked again.
LEMMA SeenInvAfterMarks ==
  ASSUME listing' = Unread, \A k \in InList' : info'[k].dirty /\ info'[k].check,
         turn'.at # "check"
  PROVE  SeenInv'
BY DEF SeenInv, ListingIsRight, ParsedIsRight, IsParseRequired, SeenIsRight, CheckGoesOn

\* Steps of which only the watcher will tell.
LEMMA SeenInvSame ==
  ASSUME SeenInv, UNCHANGED <<program, unmarked, turn>>, OnDisk' = OnDisk, Renamed => Renamed'
  PROVE  SeenInv'
<1>1. info' = info /\ list' = list /\ listing' = listing /\ unmarked' = unmarked /\ turn' = turn
  BY DEF program
<1>2. CASE Renamed
  BY <1>2 DEF SeenInv
<1>3. CASE ~Renamed
  <2>1. InList' = InList
    BY <1>1 DEF InList
  <2>2. \A k : ImportsRight(k)' = ImportsRight(k)
    BY <1>1 DEF ImportsRight
  <2>3. \A k : IsAnalysed(k)' = IsAnalysed(k)
    BY <1>1, <2>2 DEF IsAnalysed
  <2>4. \A j : Below(j)' = Below(j)
    BY <1>1 DEF Below
  <2>5. \A k, s : AsSeen(k, s)' = AsSeen(k, s)
    BY <1>1, <2>1, <2>3 DEF AsSeen
  <2>6. \A j : SeenRight(j)' = SeenRight(j)
    BY <1>1, <2>4, <2>5 DEF SeenRight
  <2>7. SeenIsRight' = SeenIsRight
    BY <1>1, <2>1, <2>6 DEF SeenIsRight
  <2>8. ListingIsRight' = ListingIsRight /\ ParsedIsRight' = ParsedIsRight
    BY <1>1, <2>1, <2>2 DEF ListingIsRight, ParsedIsRight
  <2>9. CheckGoesOn' = CheckGoesOn
    BY <1>1, <2>1 DEF CheckGoesOn, SeenFiles, SeenEdges
  <2> QED
    BY <1>3, <2>7, <2>8, <2>9 DEF SeenInv
<1> QED
  BY <1>2, <1>3

LEMMA EnvironmentEffect ==
  ASSUME Types, Environment
  PROVE  \E f \in Paths, text \in AllTexts \cup {Absent} :
           /\ Put(f, text) /\ disk' = [disk EXCEPT ![f] = text]
           /\ events'[f] # "none" /\ \A g \in Paths \ {f} : events'[g] = events[g]
           /\ events[f] = "rename" => events'[f] = "rename"
           /\ events'[f] = "rename" \/ (disk[f] # Absent /\ text # Absent)
<1>1. PICK f \in Paths : Delete(f) \/ \E text \in TextsOf[f] : Write(f, text) \/ Create(f, text)
  BY DEF Environment
<1>2. \A text \in TextsOf[f] : text \in AllTexts /\ text # Absent
  BY TextsAssumption DEF AllTexts
<1>3. events \in [Paths -> {"none", "change", "rename"}]
  BY DEF Types
<1>4. ASSUME NEW event \in {"change", "rename"}, Tell(f, event)
      PROVE  /\ events'[f] # "none" /\ \A g \in Paths \ {f} : events'[g] = events[g]
             /\ events[f] = "rename" => events'[f] = "rename"
             /\ event = "rename" => events'[f] = "rename"
  BY <1>3, <1>4 DEF Tell
<1>5. CASE Delete(f)
  BY <1>4, <1>5 DEF Delete, Put
<1>6. ASSUME NEW text \in TextsOf[f], Write(f, text) \/ Create(f, text)
      PROVE  /\ Put(f, text) /\ \E event \in {"change", "rename"} : Tell(f, event)
             /\ Tell(f, "rename") \/ disk[f] # Absent
  BY <1>6 DEF Write, Create
<1>7. CASE \E text \in TextsOf[f] : Write(f, text) \/ Create(f, text)
  BY <1>2, <1>4, <1>6, <1>7 DEF Put
<1> QED
  BY <1>1, <1>5, <1>7

LEMMA SeenEnvironment ==
  ASSUME Types, SeenInv, Environment
  PROVE  SeenInv'
<1>1. PICK f \in Paths, text \in AllTexts \cup {Absent} :
        /\ Put(f, text) /\ disk' = [disk EXCEPT ![f] = text]
        /\ \A g \in Paths \ {f} : events'[g] = events[g]
        /\ events[f] = "rename" => events'[f] = "rename"
        /\ events'[f] = "rename" \/ (disk[f] # Absent /\ text # Absent)
  BY EnvironmentEffect
<1>2. Renamed => Renamed'
  BY <1>1 DEF Renamed
<1>3. CASE events'[f] = "rename"
  BY <1>3 DEF SeenInv, Renamed
<1>4. CASE disk[f] # Absent /\ text # Absent
  <2>1. OnDisk' = OnDisk
    BY <1>1, <1>4 DEF OnDisk, Types
  <2> QED
    BY <1>1, <1>2, <2>1, SeenInvSame DEF Put, histories
<1> QED
  BY <1>1, <1>3, <1>4

LEMMA SeenStutter ==
  ASSUME SeenInv, UNCHANGED vars
  PROVE  SeenInv'
BY SeenInvSame DEF vars, histories, OnDisk, Renamed

\* After the tracked files were found out all has to be checked.
LEMMA SeenInvAfterUpdate ==
  ASSUME SeenInv, turn'.at # "check",
         disk' = disk, events' = events, listing' = listing, \A k \in InList' : info'[k].check,
         \A k \in InList' :
           \/ IsParseRequired(info'[k])
           \/ /\ k \in InList /\ ~IsParseRequired(info[k])
              /\ info'[k].parsed = info[k].parsed /\ info'[k].found = info[k].found
              /\ info'[k].imports = info[k].imports
  PROVE  SeenInv'
<1>1. Renamed' = Renamed /\ OnDisk' = OnDisk
  BY DEF Renamed, OnDisk
<1>2. ParsedIsRight => ParsedIsRight'
  BY <1>1 DEF ParsedIsRight, ImportsRight
<1> QED
  BY <1>1, <1>2 DEF SeenInv, ListingIsRight, SeenIsRight, CheckGoesOn

LEMMA SeenAnalyzeTimer ==
  ASSUME Types, Types', GraphInv, ToldInv, SeenInv, AnalyzeTimer
  PROVE  SeenInv'
<1>1. disk' = disk /\ events' = events /\ unmarked' = unmarked /\ listing' = listing
  BY DEF AnalyzeTimer, histories
<1>2. CASE update
  <2>1. SetTracked /\ turn' = Removing("pass")
    BY <1>2 DEF AnalyzeTimer
  <2>2. turn'.at # "check"
    BY <2>1, TurnsAreTyped
  <2>3. InList \subseteq DOMAIN info
    BY GraphIsTyped
  <2>4. ASSUME NEW k \in InList'
        PROVE  /\ info'[k].check
               /\ \/ IsParseRequired(info'[k])
                  \/ /\ k \in InList /\ ~IsParseRequired(info[k])
                     /\ info'[k].parsed = info[k].parsed /\ info'[k].found = info[k].found
                     /\ info'[k].imports = info[k].imports
    <3>1. CASE k \in InList
      <4>1. info[k].check
        BY <1>2, <3>1 DEF ToldInv, UpdateChecksAll
      <4>2. /\ info'[k].check = info[k].check /\ info'[k].dirty = info[k].dirty
            /\ info'[k].parsed = info[k].parsed /\ info'[k].found = info[k].found
            /\ info'[k].imports = info[k].imports
        BY <2>1, <2>3, <3>1, SetTrackedEffect
      <4> QED
        BY <3>1, <4>1, <4>2 DEF IsParseRequired
    <3>2. CASE k \notin InList
      <4>1. k \in DOMAIN info' \ DOMAIN info
        BY <2>1, <2>4, <3>2, SetTrackedEffect
      <4>2. info'[k].check /\ info'[k].dirty
        BY <2>1, <4>1, SetTrackedEffect
      <4> QED
        BY <4>2 DEF IsParseRequired
    <3> QED
      BY <3>1, <3>2
  <2> QED
    BY <1>1, <2>2, <2>4, SeenInvAfterUpdate
<1>3. CASE ~update
  <2>1. turn' = Pass(info) /\ info' = info /\ list' = list /\ InList' = InList
    BY <1>3 DEF AnalyzeTimer, InList
  <2>2. turn'.at # "check"
    BY <2>1, PassIsTyped, GraphIsTyped, TypesParts
  <2>3. QuietStep
    BY <1>1, <2>1 DEF QuietStep
  <2> QED
    BY <2>1, <2>2, <2>3, SeenInvAfterQuietStep
<1> QED
  BY <1>2, <1>3

LEMMA SeenEndUpdate ==
  ASSUME Types, Types', ToldInv, SeenInv, EndUpdate
  PROVE  SeenInv'
<1>1. disk' = disk /\ events' = events /\ listing' = listing /\ InList' = InList
      /\ InList \subseteq DOMAIN info /\ turn.at = "remove" /\ turn.then = "pass"
  BY GraphIsTyped DEF EndUpdate, InList, AllNeeded
<1>2. turn'.at # "check"
  <2>1. turn' = Pass(info') /\ InfoType(info') /\ ListType(info', list)
    BY EndUpdateEffect DEF EndUpdate
  <2> QED
    BY <2>1, PassIsTyped
<1>3. ASSUME NEW k \in InList
      PROVE  /\ info'[k].check
             /\ \/ IsParseRequired(info'[k])
                \/ /\ ~IsParseRequired(info[k])
                   /\ info'[k].parsed = info[k].parsed /\ info'[k].found = info[k].found
                   /\ info'[k].imports = info[k].imports
  <2>1. info[k].check
    BY <1>1 DEF ToldInv, UpdateChecksAll
  <2>2. /\ info'[k].parsed = info[k].parsed /\ info'[k].found = info[k].found
        /\ info'[k].imports = info[k].imports /\ info'[k].check
        /\ info[k].dirty => info'[k].dirty
    BY <1>1, <2>1, EndUpdateEffect DEF SameGraph
  <2> QED
    BY <2>2 DEF IsParseRequired
<1> QED
  BY <1>1, <1>2, <1>3, SeenInvAfterUpdate

LEMMA SeenInit == Init => SeenInv
<1> SUFFICES ASSUME Init PROVE SeenInv
  OBVIOUS
<1>1. \A k \in DOMAIN info : info[k].dirty /\ info[k].check
  BY DEF Init, Object
<1>2. turn.at # "check" /\ InList \subseteq DOMAIN info
  BY TypesInit, GraphIsTyped, TurnsAreTyped DEF Init
<1> QED
  BY <1>1, <1>2 DEF Init, SeenInv, ListingIsRight, ParsedIsRight, IsParseRequired, SeenIsRight,
                    CheckGoesOn

LEMMA SeenEndPass ==
  ASSUME Types, Types', GraphInv, SeenInv, EndPass
  PROVE  SeenInv'
<1>1. InList' = InList /\ InList \subseteq DOMAIN info /\ turn.at = "pass"
      /\ UNCHANGED <<disk, events, unmarked, listing>>
  BY GraphIsTyped DEF EndPass, InList, histories
<1>2. turn' \in Turns /\ turn'.at # "check"
  <2> DEFINE r == Removing("report")
             more == turn.opened # {}
  <2>1. r \in Turns /\ r.at = "remove" /\ Idle \in Turns /\ Idle.at = "idle"
    BY TurnsAreTyped
  <2>2. turn' = Idle \/ turn' = [r EXCEPT !.before = turn.before, !.gone = turn.gone, !.more = more]
    BY DEF EndPass
  <2>3. turn' \in Turns
    BY DEF Types, TurnType
  <2> HIDE DEF r, more
  <2> QED
    BY <2>1, <2>2, <2>3 DEF Turns
<1>3. \A k \in InList : info'[k] = info[k]
  <2>1. CASE info' = info
    BY <2>1
  <2>2. CASE info' = Collect(info)
    <3>1. \A k \in DOMAIN info' : info'[k] = info[k]
      BY <2>2, CollectEffect DEF Types
    <3>2. InList \subseteq DOMAIN info'
      BY <2>2, CollectEffect DEF Types
    <3> QED
      BY <3>1, <3>2
  <2> QED
    BY <2>1, <2>2 DEF EndPass
<1>4. QuietStep
  BY <1>1, <1>3 DEF QuietStep
<1> QED
  BY <1>1, <1>2, <1>3, <1>4, SeenInvAfterQuietStep

LEMMA SeenEndReport ==
  ASSUME Types, Types', GraphInv, SeenInv, EndReport
  PROVE  SeenInv'
<1>1. InList' = InList /\ UNCHANGED <<disk, events, unmarked, listing>> /\ turn'.at # "check"
  BY TurnsAreTyped DEF EndReport, InList, histories
<1>2. \A k \in InList :
        /\ info'[k].imports = info[k].imports /\ info'[k].parsed = info[k].parsed
        /\ info'[k].found = info[k].found /\ info'[k].deleted = info[k].deleted
        /\ info'[k].hash = info[k].hash /\ info'[k].doc = info[k].doc
        /\ info'[k].dirty = info[k].dirty /\ info'[k].tracked = info[k].tracked
        /\ info'[k].seen = info[k].seen /\ info'[k].check = info[k].check
  BY ReportEffect
<1>3. QuietStep
  BY <1>1, <1>2 DEF QuietStep
<1> QED
  BY <1>1, <1>2, <1>3, SeenInvAfterQuietStep

LEMMA SeenEndClose ==
  ASSUME Types, Types', GraphInv, SeenInv, EndClose
  PROVE  SeenInv'
<1>1. InList' = InList /\ UNCHANGED <<disk, events, unmarked, listing>> /\ turn'.at # "check"
  BY TurnsAreTyped DEF EndClose, InList, histories
<1>2. \A k \in InList :
        /\ info'[k].imports = info[k].imports /\ info'[k].parsed = info[k].parsed
        /\ info'[k].found = info[k].found /\ info'[k].deleted = info[k].deleted
        /\ info'[k].hash = info[k].hash /\ info'[k].doc = info[k].doc
        /\ info'[k].dirty = info[k].dirty /\ info'[k].tracked = info[k].tracked
        /\ info'[k].seen = info[k].seen /\ info'[k].check = info[k].check
  BY EndCloseEffect
<1>3. QuietStep
  BY <1>1, <1>2 DEF QuietStep
<1> QED
  BY <1>1, <1>2, <1>3, SeenInvAfterQuietStep

\* A file that is removed is not needed: no check depends on it.
LEMMA SeenRemoveNext ==
  ASSUME Types, Types', GraphInv, SeenInv, RemoveNext
  PROVE  SeenInv'
<1>1. PICK n \in turn.n..Len(list) :
        /\ ~Needed(n) /\ InList' = InList \ {list[n]} /\ turn'.at = "remove"
        /\ DOMAIN info' = DOMAIN info /\ SameGraph(info, info')
        /\ \A j \in DOMAIN info :
             /\ info'[j].tracked = info[j].tracked /\ info'[j].doc = info[j].doc
             /\ info'[j].dirty = info[j].dirty /\ info'[j].check = info[j].check
             /\ info'[j].parsed = info[j].parsed /\ info'[j].hash = info[j].hash
             /\ info'[j].found = info[j].found /\ info'[j].seen = info[j].seen
  BY RemoveNextEffect
<1>2. UNCHANGED <<disk, events, unmarked, listing>> /\ InList \subseteq DOMAIN info
  BY GraphIsTyped DEF RemoveNext, histories
<1>3. QuietStep
  BY <1>1, <1>2 DEF QuietStep, SameGraph, Needed
<1> QED
  BY <1>1, <1>2, <1>3, SeenInvAfterQuietStep

LEMMA SeenForget ==
  ASSUME Types, Types', GraphInv, SeenInv, NEW k \in DOMAIN info, Forget(k)
  PROVE  SeenInv'
<1>1. /\ turn.at = "remove" /\ turn' = [turn EXCEPT !.left = @ \ {k}]
      /\ info' = Forgotten(k) /\ InList' = InList /\ InList \subseteq DOMAIN info
  BY ForgottenIsImporter, GraphIsTyped DEF InList
<1>2. turn'.at # "check"
  BY <1>1 DEF Types, TurnType, Turns
<1>3. UNCHANGED <<disk, events, unmarked, listing>>
  BY DEF Forget, histories
<1>4. \A i \in InList :
        /\ info'[i].tracked = info[i].tracked /\ info'[i].doc = info[i].doc
        /\ info'[i].dirty = info[i].dirty /\ info'[i].check = info[i].check
        /\ info'[i].parsed = info[i].parsed /\ info'[i].hash = info[i].hash
        /\ info'[i].found = info[i].found /\ info'[i].seen = info[i].seen
        /\ info'[i].deleted = info[i].deleted /\ info'[i].imports = info[i].imports
  BY <1>1, ForgottenEffect
<1>5. QuietStep
  BY <1>1, <1>3, <1>4 DEF QuietStep
<1> QED
  BY <1>1, <1>2, <1>4, <1>5, SeenInvAfterQuietStep

LEMMA SeenEdgesAreObjects ==
  ASSUME Types
  PROVE  /\ IsGraph(SeenEdges) /\ DOMAIN SeenEdges = DOMAIN info /\ SeenFiles \subseteq DOMAIN info
         /\ \A k \in SeenFiles : SeenEdges[k] = info[k].imports
         /\ \A k \in DOMAIN info \ SeenFiles : SeenEdges[k] = {}
BY GraphIsTyped DEF SeenEdges, SeenFiles, IsGraph

\* At its end a check has seen what the file depends on.
LEMMA CheckedIsRight ==
  ASSUME Types, GraphInv, ParsedIsRight, CheckGoesOn, turn.at = "check",
         turn.todo \subseteq DOMAIN turn.seen
  PROVE  /\ \A k \in Below(turn.file) : AsSeen(k, turn.seen)
         /\ (\A k \in Below(turn.file) : PathOf(k) \notin unmarked)
              => DOMAIN turn.seen \subseteq PathsOf(Below(turn.file))
<1>1. /\ turn.file \in SeenFiles /\ DOMAIN turn.seen \subseteq PathsOf(SeenFiles)
      /\ \A k \in SeenFiles :
           /\ ~IsParseRequired(info[k]) /\ ~info[k].deleted
           /\ turn.seen[PathOf(k)] = info[k].parsed /\ info[k].found \subseteq turn.todo
      /\ SeenFiles \subseteq Closure(SeenEdges, {turn.file})
  BY DEF CheckGoesOn
<1>2. SeenFiles \subseteq InList /\ SeenFiles \subseteq DOMAIN info /\ turn.file \in DOMAIN info
  BY <1>1, GraphIsTyped DEF SeenFiles
<1>3. \A k \in SeenFiles : ImportsRight(k)
  BY <1>1, <1>2 DEF ParsedIsRight
<1>4. ASSUME NEW k \in SeenFiles PROVE info[k].imports \subseteq SeenFiles
  <2> SUFFICES ASSUME NEW m \in info[k].imports PROVE m \in SeenFiles
    OBVIOUS
  <2>1. m \in InList
    BY <1>2, <1>3, OnDiskIsListed
  <2>2. PathOf(m) \in info[k].found
    BY <1>3 DEF ImportsRight, PathsOf
  <2> QED
    BY <1>1, <2>1, <2>2 DEF SeenFiles
<1>5. Below(turn.file) \subseteq SeenFiles
  <2>1. SeenFiles \in SUBSET DOMAIN info
    BY <1>2
  <2> QED
    BY <1>1, <1>2, <1>4, <2>1, BelowIsLeast
<1>6. ASSUME NEW k \in Below(turn.file) PROVE AsSeen(k, turn.seen)
  <2>1. k \in SeenFiles
    BY <1>5
  <2>2. IsAnalysed(k)
    BY <1>1, <1>3, <2>1 DEF IsAnalysed, IsParseRequired
  <2> QED
    BY <1>1, <1>2, <2>1, <2>2 DEF AsSeen, SeenFiles
<1>7. ASSUME \A k \in Below(turn.file) : PathOf(k) \notin unmarked
      PROVE  DOMAIN turn.seen \subseteq PathsOf(Below(turn.file))
  <2>1. /\ turn.file \in Below(turn.file) /\ Below(turn.file) \in SUBSET DOMAIN info
        /\ \A k \in Below(turn.file) : info[k].imports \subseteq Below(turn.file)
    BY <1>2, <1>7, BelowIsLeast
  <2>2. IsClosed(SeenEdges, Below(turn.file))
    BY <2>1, SeenEdgesAreObjects DEF IsClosed
  <2>3. Closure(SeenEdges, {turn.file}) \subseteq Below(turn.file)
    <3>1. \A T \in SUBSET DOMAIN SeenEdges :
            {turn.file} \subseteq T /\ IsClosed(SeenEdges, T)
              => Closure(SeenEdges, {turn.file}) \subseteq T
      BY <1>2, SeenEdgesAreObjects, ClosureIsLeast
    <3> QED
      BY <2>1, <2>2, <3>1, SeenEdgesAreObjects
  <2>4. SeenFiles \subseteq Below(turn.file)
    BY <1>1, <2>3
  <2> QED
    BY <1>1, <2>4 DEF PathsOf
<1> QED
  BY <1>6, <1>7

LEMMA SeenChecked ==
  ASSUME Types, Types', GraphInv, SeenInv, NEW outOfTime \in BOOLEAN, Checked(outOfTime)
  PROVE  SeenInv'
<1>1. turn.at = "check" /\ turn.todo \subseteq DOMAIN turn.seen
      /\ UNCHANGED <<disk, events, unmarked, listing>> /\ InList' = InList
      /\ InList \subseteq DOMAIN info /\ turn.file \in InList
  BY GraphIsTyped DEF Checked, InList, histories, Types, TurnType
<1>2. \A i \in InList :
        /\ info'[i].tracked = info[i].tracked /\ info'[i].doc = info[i].doc
        /\ info'[i].dirty = info[i].dirty /\ info'[i].parsed = info[i].parsed
        /\ info'[i].hash = info[i].hash /\ info'[i].found = info[i].found
        /\ info'[i].deleted = info[i].deleted /\ info'[i].imports = info[i].imports
        /\ info'[i].check <=> info[i].check /\ i # turn.file
        /\ info'[i].seen = (IF i = turn.file THEN turn.seen ELSE info[i].seen)
  BY <1>1, CheckedEffect DEF SameGraph
<1>3. QuietStep
  BY <1>1, <1>2 DEF QuietStep
<1>4. Renamed' = Renamed /\ OnDisk' = OnDisk
  BY <1>1 DEF Renamed, OnDisk
<1>5. turn'.at # "check"
  <2> DEFINE r == Removing("report")
             b == turn.before
             g == turn.gone
  <2>1. r \in Turns /\ r.at = "remove" /\ turn \in Turns /\ turn' \in Turns
    BY TurnsAreTyped DEF Types, TurnType
  <2>2. \/ turn' = [r EXCEPT !.before = b, !.gone = g, !.more = TRUE]
        \/ turn' = [turn EXCEPT !.at = "pass", !.file = <<>>, !.todo = {}, !.seen = <<>>]
    BY DEF Checked
  <2> HIDE DEF r, b, g
  <2> QED
    BY <2>1, <2>2 DEF Turns
<1>6. CASE Renamed
  BY <1>4, <1>6 DEF SeenInv
<1>7. CASE ~Renamed
  <2>1. ListingIsRight /\ ParsedIsRight /\ SeenIsRight /\ CheckGoesOn
    BY <1>7 DEF SeenInv
  <2>2. ListingIsRight' /\ ParsedIsRight' /\ CheckGoesOn'
    BY <1>1, <1>3, <1>4, <1>5, <2>1, ParsedAfterQuietStep DEF ListingIsRight, CheckGoesOn
  <2>3. ASSUME NEW j \in InList, IsRoot(info', j), ~info'[j].check
        PROVE  SeenRight(j)'
    <3>1. IsRoot(info, j)
      <4>1. info'[j].tracked = info[j].tracked /\ info'[j].doc = info[j].doc
        BY <1>2
      <4> QED
        BY <2>3, <4>1 DEF IsRoot, IsOpen
    <3>2. CASE j # turn.file
      <4>1. ~info[j].check /\ info'[j].seen = info[j].seen
        BY <1>2, <2>3, <3>2
      <4>2. SeenRight(j)
        BY <2>1, <3>1, <4>1 DEF SeenIsRight
      <4> QED
        BY <1>1, <1>3, <3>1, <4>1, <4>2, SeenAfterQuietStep
    <3>3. CASE j = turn.file
      <4>1. info'[j].seen = turn.seen
        BY <1>2, <3>3
      <4>2. /\ \A k \in Below(j) : AsSeen(k, turn.seen)
            /\ (\A k \in Below(j) : PathOf(k) \notin unmarked)
                 => DOMAIN turn.seen \subseteq PathsOf(Below(j))
        BY <1>1, <2>1, <3>3, CheckedIsRight
      <4>3. Below(j)' = Below(j)
        <5>1. DOMAIN info' = DOMAIN info /\ \A k \in DOMAIN info : info'[k].imports = info[k].imports
          BY CheckedEffect DEF SameGraph
        <5> QED
          BY <1>1, <5>1 DEF Below, Reach
      <4>4. \A k \in Below(j) : AsSeen(k, info[j].seen)' = AsSeen(k, turn.seen)
        <5> SUFFICES ASSUME NEW k \in InList
                     PROVE  AsSeen(k, info[j].seen)' = AsSeen(k, turn.seen)
          BY <1>1, <4>2 DEF AsSeen
        <5>1. IsAnalysed(k)' = IsAnalysed(k)
          BY <1>2, <1>4 DEF IsAnalysed, ImportsRight
        <5> QED
          BY <1>1, <1>2, <4>1, <5>1 DEF AsSeen
      <4> QED
        BY <1>1, <4>1, <4>2, <4>3, <4>4 DEF SeenRight
    <3> QED
      BY <3>2, <3>3
  <2> QED
    BY <1>1, <2>2, <2>3 DEF SeenInv, SeenIsRight
<1> QED
  BY <1>6, <1>7

LEMMA SeenSetFileOpened ==
  ASSUME Types, Types', GraphInv, SeenInv, NEW f \in Paths, SetFileOpened(f)
  PROVE  SeenInv'
<1>1. /\ turn'.at # "check" /\ UNCHANGED <<disk, events, listing>>
      /\ unmarked \subseteq unmarked' /\ unmarked' \subseteq unmarked \cup {f}
  BY TurnsAreTyped DEF SetFileOpened, IsIdle
<1>2. InList' = InList \cup (DOMAIN info' \ DOMAIN info) /\ InList \subseteq DOMAIN info
  BY SetFileOpenedEffect, GraphIsTyped
<1>3. PICK i \in InList' :
        /\ PathOf(i) = f
        /\ \A k \in DOMAIN info' \ DOMAIN info : k = i
        /\ \A k \in DOMAIN info \ {i} : info'[k] = info[k]
        /\ info'[i].doc = disk[f] /\ info'[i].dirty /\ info'[i].check
        /\ i \in DOMAIN info =>
             /\ info'[i].parsed = info[i].parsed /\ info'[i].found = info[i].found
             /\ info'[i].deleted = info[i].deleted /\ info'[i].imports = info[i].imports
  BY SetFileOpenedEffect
<1>4. i \in InList => f \in unmarked' \/ info[i].parsed = disk[f]
  <2>1. PICK k \in InList' :
          /\ PathOf(k) = f
          /\ unmarked' = IF k \in InList /\ info[k].parsed = disk[f] /\ ~info[k].dirty
                         THEN unmarked ELSE unmarked \cup {f}
    BY DEF SetFileOpened, AtPath
  <2>2. k = i
    BY <1>3, <2>1, Listed DEF Types, InList
  <2> QED
    BY <2>1, <2>2
<1>5. Renamed' = Renamed /\ OnDisk' = OnDisk
  BY <1>1 DEF Renamed, OnDisk
<1>6. CASE Renamed
  BY <1>5, <1>6 DEF SeenInv
<1>7. CASE ~Renamed
  <2>1. ListingIsRight /\ ParsedIsRight /\ SeenIsRight
    BY <1>7 DEF SeenInv
  <2>2. \A k \in InList' \ {i} : k \in InList /\ info'[k] = info[k]
    BY <1>2, <1>3
  <2>3. ParsedIsRight'
    BY <1>3, <1>5, <2>1, <2>2 DEF ParsedIsRight, ImportsRight, IsParseRequired
  <2>4. ASSUME NEW j \in InList', IsRoot(info', j), ~info'[j].check
        PROVE  SeenRight(j)'
    <3>1. j # i /\ j \in InList /\ info'[j] = info[j]
      BY <1>3, <2>2, <2>4
    <3>2. SeenRight(j)
      BY <2>1, <2>4, <3>1 DEF SeenIsRight, IsRoot
    <3>3. ASSUME NEW k \in Below(j)
          PROVE  /\ k \in InList' /\ ~info'[k].deleted
                 /\ \/ PathOf(k) \in unmarked'
                    \/ /\ PathOf(k) \notin unmarked
                       /\ info'[k].imports = info[k].imports /\ info'[k].parsed = info[k].parsed
                       /\ IsAnalysed(k) => IsAnalysed(k)'
      <4>1. k \in InList /\ ~info[k].deleted /\ k \in InList' /\ k \in DOMAIN info
        BY <1>2, <3>2 DEF SeenRight, AsSeen
      <4>2. CASE k # i
        <5>1. info'[k] = info[k]
          BY <1>3, <4>1, <4>2
        <5>2. IsAnalysed(k)' = IsAnalysed(k)
          BY <1>5, <5>1 DEF IsAnalysed, ImportsRight
        <5> QED
          BY <1>1, <4>1, <5>1, <5>2
      <4>3. CASE k = i
        <5>1. /\ info'[k].parsed = info[k].parsed /\ info'[k].found = info[k].found
              /\ info'[k].deleted = info[k].deleted /\ info'[k].imports = info[k].imports
              /\ info'[k].doc = disk[f]
          BY <1>3, <4>1, <4>3
        <5>2. CASE f \in unmarked'
          BY <1>3, <4>1, <4>3, <5>1, <5>2
        <5>3. CASE info[i].parsed = disk[f]
          <6>1. IsAnalysed(k) => IsAnalysed(k)'
            BY <1>5, <4>3, <5>1, <5>3 DEF IsAnalysed, ImportsRight
          <6> QED
            BY <1>1, <4>1, <5>1, <6>1
        <5> QED
          BY <1>4, <4>1, <4>3, <5>2, <5>3
      <4> QED
        BY <4>2, <4>3
    <3> QED
      BY <2>4, <3>1, <3>2, <3>3, SeenAfterStep
  <2> QED
    BY <1>1, <1>5, <2>1, <2>3, <2>4 DEF SeenInv, ListingIsRight, SeenIsRight, CheckGoesOn
<1> QED
  BY <1>6, <1>7

\* Steps that mark all files above those they make dirty.
MarkStep(S) ==
  /\ InList' = InList /\ OnDisk' = OnDisk /\ SameGraph(info, info')
  /\ S \subseteq InList
  /\ unmarked' \subseteq unmarked /\ unmarked \subseteq unmarked' \cup PathsOf(S)
  /\ \A k \in DOMAIN info :
       /\ info'[k].tracked = info[k].tracked /\ info'[k].parsed = info[k].parsed
       /\ info'[k].found = info[k].found /\ info'[k].seen = info[k].seen
       /\ k \notin S => info'[k].doc = info[k].doc /\ info'[k].dirty = info[k].dirty
       /\ k \in S => info'[k].dirty /\ (IsOpen(info'[k]) <=> IsOpen(info[k]))
       /\ info[k].check => info'[k].check
       /\ (\E i \in S : k \in Above(info, i)) => info'[k].check

LEMMA SeenInvAfterMarkStep ==
  ASSUME Types, Types', GraphInv, ParsedIsRight, SeenIsRight, NEW S, MarkStep(S)
  PROVE  ParsedIsRight' /\ SeenIsRight'
<1>1. InList' = InList /\ InList \subseteq DOMAIN info /\ OnDisk' = OnDisk /\ S \subseteq InList
      /\ \A i, j \in InList : PathOf(i) = PathOf(j) => i = j
  BY GraphIsTyped DEF MarkStep
<1>2. \A k \in DOMAIN info :
        /\ info'[k].tracked = info[k].tracked /\ info'[k].parsed = info[k].parsed
        /\ info'[k].found = info[k].found /\ info'[k].seen = info[k].seen
        /\ info'[k].imports = info[k].imports /\ info'[k].deleted = info[k].deleted
        /\ k \notin S => info'[k].doc = info[k].doc /\ info'[k].dirty = info[k].dirty
        /\ k \in S => info'[k].dirty /\ (IsOpen(info'[k]) <=> IsOpen(info[k]))
  BY DEF MarkStep, SameGraph
<1>3. ParsedIsRight'
  <2> SUFFICES ASSUME NEW k \in InList, ~IsParseRequired(info'[k]) PROVE ImportsRight(k)'
    BY <1>1 DEF ParsedIsRight
  <2>1. k \notin S /\ ~IsParseRequired(info[k])
    BY <1>1, <1>2 DEF IsParseRequired
  <2>2. ImportsRight(k)
    BY <2>1 DEF ParsedIsRight
  <2> QED
    BY <1>1, <1>2, <2>2 DEF ImportsRight
<1>4. ASSUME NEW j \in InList, IsRoot(info', j), ~info'[j].check
      PROVE  SeenRight(j)'
  <2>1. IsRoot(info, j)
    <3>1. info'[j].tracked = info[j].tracked
      BY <1>1, <1>2
    <3>2. IsOpen(info'[j]) <=> IsOpen(info[j])
      BY <1>1, <1>2 DEF IsOpen
    <3> QED
      BY <1>4, <3>1, <3>2 DEF IsRoot
  <2>2. ~info[j].check /\ \A i \in S : j \notin Above(info, i)
    BY <1>1, <1>4 DEF MarkStep
  <2>3. SeenRight(j) /\ info'[j].seen = info[j].seen
    BY <1>1, <1>2, <2>1, <2>2 DEF SeenIsRight
  <2>4. ASSUME NEW k \in Below(j)
        PROVE  /\ k \in InList' /\ ~info'[k].deleted
               /\ \/ PathOf(k) \in unmarked'
                  \/ /\ PathOf(k) \notin unmarked
                     /\ info'[k].imports = info[k].imports /\ info'[k].parsed = info[k].parsed
                     /\ IsAnalysed(k) => IsAnalysed(k)'
    <3>1. k \in InList /\ ~info[k].deleted
      BY <2>3 DEF SeenRight, AsSeen
    <3>2. k \notin S
      BY <1>1, <2>2, <2>3, BelowIsListed, RootIsAbove
    <3>3. PathOf(k) \in unmarked <=> PathOf(k) \in unmarked'
      BY <1>1, <3>1, <3>2 DEF MarkStep, PathsOf
    <3>4. IsAnalysed(k)' = IsAnalysed(k)
      BY <1>1, <1>2, <3>1, <3>2 DEF IsAnalysed, ImportsRight
    <3> QED
      BY <1>1, <1>2, <3>1, <3>3, <3>4
  <2> QED
    BY <1>1, <2>3, <2>4, SeenAfterStep
<1> QED
  BY <1>1, <1>3, <1>4 DEF SeenIsRight

LEMMA SeenUpdateOpenFileContents ==
  ASSUME Types, Types', GraphInv, SeenInv, NEW f \in Paths, NEW text \in TextsOf[f],
         UpdateOpenFileContents(f, text)
  PROVE  SeenInv'
<1>1. /\ turn'.at # "check" /\ UNCHANGED <<disk, events, list, listing>> /\ InList' = InList
      /\ unmarked' = unmarked \ {f}
  BY TurnsAreTyped DEF UpdateOpenFileContents, IsIdle, InList
<1>2. Renamed' = Renamed /\ OnDisk' = OnDisk
  BY <1>1 DEF Renamed, OnDisk
<1>3. PICK i \in AtPath(f) :
        /\ i \in DOMAIN info /\ IsOpen(info[i]) /\ SameGraph(info, info')
        /\ info'[i].doc # Closed
        /\ \A k \in DOMAIN info :
             /\ info'[k].tracked = info[k].tracked /\ info'[k].parsed = info[k].parsed
             /\ info'[k].found = info[k].found /\ info'[k].seen = info[k].seen
             /\ k # i => info'[k].doc = info[k].doc
             /\ info'[k].dirty <=> info[k].dirty \/ k = i
             /\ info'[k].check <=> info[k].check \/ k \in Above(info, i)
  BY UpdateEffect
<1>4. i \in InList /\ PathOf(i) = f
  BY DEF AtPath
<1>5. \A k \in DOMAIN info : info'[k].dirty \in BOOLEAN /\ info[k].dirty \in BOOLEAN
  BY <1>3 DEF Types, InfoType, Objects, SameGraph
<1>6. MarkStep({i})
  <2>1. unmarked \subseteq unmarked' \cup PathsOf({i})
    BY <1>1, <1>4 DEF PathsOf
  <2>2. \A k \in DOMAIN info : k # i => info'[k].dirty = info[k].dirty
    BY <1>3, <1>5
  <2>3. info'[i].dirty /\ (IsOpen(info'[i]) <=> IsOpen(info[i]))
    BY <1>3 DEF IsOpen
  <2> QED
    BY <1>1, <1>2, <1>3, <1>4, <2>1, <2>2, <2>3 DEF MarkStep
<1> QED
  BY <1>1, <1>2, <1>6, SeenInvAfterMarkStep DEF SeenInv, ListingIsRight, CheckGoesOn

LEMMA SeenSetFileClosed ==
  ASSUME Types, Types', GraphInv, SeenInv, NEW f \in Paths, SetFileClosed(f)
  PROVE  SeenInv'
<1>1. PICK i \in AtPath(f) :
        /\ IsOpen(info[i]) /\ info' = [info EXCEPT ![i].doc = Closed]
        /\ turn' = Removing("rest") /\ UNCHANGED <<disk, events, list, listing>>
        /\ unmarked' = IF info[i].doc # disk[f] \/ info[i].dirty THEN unmarked \cup {f} ELSE unmarked
  BY DEF SetFileClosed
<1>2. i \in InList /\ PathOf(i) = f /\ InList \subseteq DOMAIN info /\ InList' = InList
      /\ turn'.at # "check"
  BY <1>1, GraphIsTyped, TurnsAreTyped DEF AtPath, InList
<1>3. \A k \in InList :
        /\ info'[k].tracked = info[k].tracked /\ info'[k].parsed = info[k].parsed
        /\ info'[k].found = info[k].found /\ info'[k].seen = info[k].seen
        /\ info'[k].dirty = info[k].dirty /\ info'[k].check = info[k].check
        /\ info'[k].imports = info[k].imports /\ info'[k].deleted = info[k].deleted
        /\ k # i => info'[k].doc = info[k].doc
  BY <1>1, <1>2, ClosedEffect DEF SameGraph
<1>4. info'[i].doc = Closed
  BY <1>1, <1>2, ClosedEffect
<1>5. Renamed' = Renamed /\ OnDisk' = OnDisk
  BY <1>1 DEF Renamed, OnDisk
<1>6. CASE Renamed
  BY <1>5, <1>6 DEF SeenInv
<1>7. CASE ~Renamed
  <2>1. ListingIsRight /\ ParsedIsRight /\ SeenIsRight
    BY <1>7 DEF SeenInv
  <2>2. ParsedIsRight'
    BY <1>2, <1>3, <1>5, <2>1 DEF ParsedIsRight, ImportsRight, IsParseRequired
  <2>3. ASSUME NEW j \in InList, IsRoot(info', j), ~info'[j].check
        PROVE  SeenRight(j)'
    <3>1. IsRoot(info, j)
      <4>1. info'[j].tracked = info[j].tracked /\ (j # i => info'[j].doc = info[j].doc)
        BY <1>3
      <4>2. j = i => IsOpen(info[j])
        BY <1>1
      <4> QED
        BY <2>3, <4>1, <4>2 DEF IsRoot, IsOpen
    <3>2. SeenRight(j) /\ info'[j].seen = info[j].seen
      BY <1>3, <2>1, <2>3, <3>1 DEF SeenIsRight
    <3>3. ASSUME NEW k \in Below(j)
          PROVE  /\ k \in InList' /\ ~info'[k].deleted
                 /\ \/ PathOf(k) \in unmarked'
                    \/ /\ PathOf(k) \notin unmarked
                       /\ info'[k].imports = info[k].imports /\ info'[k].parsed = info[k].parsed
                       /\ IsAnalysed(k) => IsAnalysed(k)'
      <4>1. k \in InList /\ ~info[k].deleted
        BY <3>2 DEF SeenRight, AsSeen
      <4>2. CASE PathOf(k) \in unmarked'
        BY <1>2, <1>3, <4>1, <4>2
      <4>3. CASE PathOf(k) \notin unmarked'
        <5>1. PathOf(k) \notin unmarked /\ (k = i => ~info[k].dirty)
          BY <1>1, <1>2, <4>3
        <5>2. IsAnalysed(k) => IsAnalysed(k)'
          BY <1>3, <1>5, <4>1, <5>1 DEF IsAnalysed, ImportsRight
        <5> QED
          BY <1>2, <1>3, <4>1, <5>1, <5>2
      <4> QED
        BY <4>2, <4>3
    <3> QED
      BY <1>2, <3>2, <3>3, SeenAfterStep
  <2> QED
    BY <1>1, <1>2, <1>5, <2>1, <2>2, <2>3 DEF SeenInv, ListingIsRight, SeenIsRight, CheckGoesOn
<1> QED
  BY <1>6, <1>7

LEMMA SeenWatchEvent ==
  ASSUME Types, Types', GraphInv, SeenInv, NEW f \in Paths, WatchEvent(f)
  PROVE  SeenInv'
<1>1. /\ turn'.at # "check" /\ disk' = disk /\ list' = list /\ InList' = InList
      /\ InList \subseteq DOMAIN info /\ events' = [events EXCEPT ![f] = "none"]
      /\ OnDisk' = OnDisk
  BY TurnsAreTyped, GraphIsTyped DEF WatchEvent, IsIdle, InList, OnDisk
<1>2. CASE events[f] = "change" /\ disk[f] # Absent /\ f \in Sources
  <2> DEFINE S == {i \in AtPath(f) : DidContentsChangeOnDisk(i)}
  <2>1. /\ info' = MarkFilesDirty(info, S) /\ listing' = listing
        /\ unmarked' = IF S = {} THEN unmarked ELSE unmarked \ {f}
    BY <1>2 DEF WatchEvent
  <2>2. S \in SUBSET DOMAIN info /\ S \subseteq InList /\ \A i \in S : PathOf(i) = f
    BY <1>1 DEF AtPath
  <2>3. unmarked' \subseteq unmarked /\ unmarked \subseteq unmarked' \cup PathsOf(S)
    <3> HIDE DEF S
    <3> QED
      BY <2>1, <2>2 DEF PathsOf
  <2> HIDE DEF S
  <2>4. /\ DOMAIN info' = DOMAIN info /\ SameGraph(info, info')
        /\ \A j \in DOMAIN info :
             /\ SameButMarks(info[j], info'[j])
             /\ info'[j].dirty <=> info[j].dirty \/ j \in S
             /\ info'[j].check <=> info[j].check \/ \E i \in S : j \in Above(info, i)
    BY <2>1, <2>2, MarkFilesDirtyEffect DEF Types
  <2>5. \A k \in DOMAIN info : info'[k].dirty \in BOOLEAN /\ info[k].dirty \in BOOLEAN
    BY <2>4 DEF Types, InfoType, Objects
  <2>6. \A k \in DOMAIN info : k \notin S => info'[k].dirty = info[k].dirty
    BY <2>4, <2>5
  <2>7. MarkStep(S)
    BY <1>1, <2>2, <2>3, <2>4, <2>6 DEF MarkStep, SameButMarks, IsOpen
  <2>8. Renamed' = Renamed
    BY <1>1, <1>2 DEF Renamed, Types
  <2> QED
    BY <1>1, <2>1, <2>7, <2>8, SeenInvAfterMarkStep DEF SeenInv, ListingIsRight, CheckGoesOn
<1>3. CASE ~(events[f] = "change" /\ disk[f] # Absent /\ f \in Sources)
  <2>1. /\ info' = [i \in DOMAIN info |-> IF i \in InList THEN MarkDirty(info[i]) ELSE info[i]]
        /\ listing' = Unread
    BY <1>3 DEF WatchEvent
  <2>2. \A k \in InList : info'[k].dirty /\ info'[k].check
    <3> SUFFICES ASSUME NEW k \in InList PROVE info'[k].dirty /\ info'[k].check
      OBVIOUS
    <3>1. k \in DOMAIN info /\ info[k] \in Objects
      BY <1>1 DEF Types, InfoType
    <3>2. info'[k] = MarkDirty(info[k])
      BY <2>1, <3>1
    <3> QED
      BY <3>1, <3>2, MarkIsTyped
  <2> QED
    BY <1>1, <2>1, <2>2, SeenInvAfterMarks
<1> QED
  BY <1>2, <1>3

-----------------------------------------------------------------------------
(* A check goes on *)

\* What SeenInv says of the files, whatever the thread does.
FilesAreRight == ListingIsRight /\ ParsedIsRight /\ SeenIsRight

\* What is imported and not in the list is added to it.
LEMMA AddedAreListed ==
  ASSUME Types, NEW i \in DOMAIN info, Bind(i), Taken(i), NEW f \in ToBeAdded(i)
  PROVE  \E j \in InList' : PathOf(j) = f
<1> DEFINE S == ToBeAdded(i)
<1>1. HasRoom(S) /\ \E order \in Orders(S) : list' = ListWith(order)
  BY DEF Bind, Taken
<1>2. PICK order \in Orders(S) : list' = ListWith(order)
  BY <1>1
<1>3. S \in SUBSET Paths /\ S \cap PathsOf(InList) = {}
  BY TypesParts, TextIsTyped DEF ToBeAdded
<1>4. f \in S
  OBVIOUS
<1> HIDE DEF S
<1>5. InfoType(info) /\ ListType(info, list)
  BY DEF Types
<1>6. PathOf(NewId(f)) = f
  BY <1>1, <1>3, <1>4, <1>5, NewObjects
<1>7. ToSet(list') = InList \cup {NewId(g) : g \in S}
  BY <1>1, <1>2, <1>3, <1>5, NewList
<1> QED
  BY <1>4, <1>6, <1>7 DEF InList

\* A file that is still on disk and read imports what is there.
LEMMA TakenIsRight ==
  ASSUME Types, GraphInv, turn.at # "remove", ListingIsRight, NEW i \in InList,
         Bind(i), Taken(i), ~IsGone(i)
  PROVE  /\ Known = OnDisk /\ listing' = OnDisk
         /\ info'[i].found = ImportsOf[info'[i].parsed] \cap OnDisk
         /\ PathsOf(info'[i].imports) = info'[i].found
<1>1. Known = OnDisk /\ listing' = OnDisk
  BY DEF Taken, ListingIsRight, Known, OnDisk
<1>2. info'[i].found = FoundBy(i) /\ info'[i].parsed = TextOf(i)
      /\ info'[i].imports = {j \in InList' : PathOf(j) \in FoundBy(i)}
      /\ FoundBy(i) = ImportsOf[TextOf(i)] \cap Known
  BY DEF Taken, FoundBy
<1>3. ASSUME NEW f \in FoundBy(i)
      PROVE  \E j \in InList' : PathOf(j) = f
  <2>1. CASE f \in PathsOf(InList)
    BY <2>1 DEF Taken, PathsOf
  <2>2. CASE f \in Kept(i)
    <3>1. PICK j \in info[i].imports : PathOf(j) = f
      BY <2>2 DEF Kept, PathsOf
    <3>2. j \in DOMAIN info /\ ~info[j].deleted
      BY <1>3, <3>1, GraphIsTyped, FoundIsNotDeleted
    <3>3. j \in InList
      BY <3>1, <3>2 DEF GraphInv, ImportsAreListed
    <3> QED
      BY <3>1, <3>3 DEF Taken
  <2>3. CASE f \in ToBeAdded(i)
    BY <2>3, GraphIsTyped, AddedAreListed
  <2> QED
    BY <1>3, <2>1, <2>2, <2>3 DEF ToBeAdded
<1>4. PathsOf(info'[i].imports) = FoundBy(i)
  BY <1>2, <1>3 DEF PathsOf
<1> QED
  BY <1>1, <1>2, <1>4

\* What was analysed is read again as it was.
LEMMA ReadAgain ==
  ASSUME Types, Types', GraphInv, turn.at # "remove", ListingIsRight, NEW i \in InList,
         Bind(i), Taken(i), ~IsGone(i), IsAnalysed(i), disk' = disk
  PROVE  /\ info'[i].imports = info[i].imports /\ info'[i].parsed = info[i].parsed
         /\ IsAnalysed(i)'
<1>1. i \in DOMAIN info /\ info[i] \in Objects /\ InList \subseteq InList'
  BY GraphIsTyped DEF Types, InfoType, Taken
<1>2. TextOf(i) = info[i].parsed
  <2>1. info[i].parsed # NoTree /\ info[i].dirty /\ info[i].doc = info[i].parsed
    BY DEF IsAnalysed, Taken, IsParseRequired
  <2>2. info[i].parsed # Closed
    BY <1>1, <2>1, TextsAssumption DEF Objects, Texts
  <2> QED
    BY <2>1, <2>2 DEF TextOf, IsOpen
<1>3. info'[i].parsed = info[i].parsed /\ ~info'[i].dirty /\ info'[i].found = info[i].found
  <2>1. info'[i].parsed = info[i].parsed /\ ~info'[i].dirty
    BY <1>2 DEF Taken
  <2>2. info'[i].found = ImportsOf[info'[i].parsed] \cap OnDisk
    BY TakenIsRight
  <2>3. info[i].found = ImportsOf[info[i].parsed] \cap OnDisk
    BY DEF IsAnalysed, ImportsRight
  <2> QED
    BY <2>1, <2>2, <2>3
<1>4. PathsOf(info'[i].imports) = info'[i].found /\ PathsOf(info[i].imports) = info'[i].found
  BY <1>3, TakenIsRight DEF IsAnalysed, ImportsRight
<1>5. info[i].imports \subseteq InList' /\ info'[i].imports \subseteq InList'
  BY <1>1, OnDiskIsListed DEF IsAnalysed, Taken
<1>6. \A m, n \in InList' : PathOf(m) = PathOf(n) => m = n
  BY Listed DEF Types, InList
<1>7. info'[i].imports = info[i].imports
  <2>1. ASSUME NEW m \in info'[i].imports PROVE m \in info[i].imports
    <3>1. PICK n \in info[i].imports : PathOf(n) = PathOf(m)
      BY <1>4, <2>1 DEF PathsOf
    <3> QED
      BY <1>5, <1>6, <2>1, <3>1
  <2>2. ASSUME NEW m \in info[i].imports PROVE m \in info'[i].imports
    <3>1. PICK n \in info'[i].imports : PathOf(n) = PathOf(m)
      BY <1>4, <2>2 DEF PathsOf
    <3> QED
      BY <1>5, <1>6, <2>2, <3>1
  <2> QED
    BY <2>1, <2>2
<1>8. IsAnalysed(i)'
  <2>1. OnDisk' = OnDisk
    BY DEF OnDisk
  <2> QED
    BY <1>3, <2>1, TakenIsRight DEF IsAnalysed, ImportsRight
<1> QED
  BY <1>3, <1>7, <1>8

LEMMA SeenAfterTaken ==
  ASSUME Types, Types', GraphInv, turn.at # "remove", FilesAreRight, NEW i \in InList,
         Bind(i), Taken(i), ~IsGone(i), disk' = disk, unmarked' = unmarked
  PROVE  FilesAreRight'
<1>1. OnDisk' = OnDisk /\ i \in DOMAIN info /\ InList \subseteq DOMAIN info
      /\ InList' = InList \cup (DOMAIN info' \ DOMAIN info)
  BY GraphIsTyped DEF OnDisk, Taken
<1>2. /\ listing' = OnDisk
      /\ info'[i].found = ImportsOf[info'[i].parsed] \cap OnDisk
      /\ PathsOf(info'[i].imports) = info'[i].found
  BY TakenIsRight DEF FilesAreRight
<1>3. \A k \in DOMAIN info' \ DOMAIN info : info'[k].dirty /\ info'[k].check
  BY DEF Taken
<1>4. \A k \in InList \ {i} :
        /\ info'[k].tracked = info[k].tracked /\ info'[k].dirty = info[k].dirty
        /\ info'[k].parsed = info[k].parsed /\ info'[k].found = info[k].found
        /\ info'[k].deleted = info[k].deleted /\ info'[k].imports = info[k].imports
        /\ info'[k].doc = info[k].doc /\ info'[k].seen = info[k].seen
        /\ info'[k].check <=> info[k].check
  BY <1>1 DEF Taken
<1>5. info'[i].check /\ ~info'[i].deleted
  BY DEF Taken
<1>6. ParsedIsRight'
  <2> SUFFICES ASSUME NEW k \in InList', ~IsParseRequired(info'[k]) PROVE ImportsRight(k)'
    BY DEF ParsedIsRight
  <2>1. CASE k = i
    BY <1>1, <1>2, <2>1 DEF ImportsRight
  <2>2. CASE k \in InList \ {i}
    <3>1. ImportsRight(k)
      BY <1>4, <2>2 DEF IsParseRequired, FilesAreRight, ParsedIsRight
    <3> QED
      BY <1>1, <1>4, <2>2, <3>1 DEF ImportsRight
  <2> QED
    BY <1>1, <1>3, <2>1, <2>2 DEF IsParseRequired
<1>7. ASSUME NEW j \in InList', IsRoot(info', j), ~info'[j].check
      PROVE  SeenRight(j)'
  <2>1. j \in InList \ {i}
    BY <1>1, <1>3, <1>5, <1>7
  <2>2. ~info[j].check /\ info'[j].seen = info[j].seen
    BY <1>4, <1>7, <2>1
  <2>3. IsRoot(info, j)
    <3>1. info'[j].tracked = info[j].tracked /\ info'[j].doc = info[j].doc
      BY <1>4, <2>1
    <3> QED
      BY <1>7, <3>1 DEF IsRoot, IsOpen
  <2>4. SeenRight(j)
    BY <2>1, <2>2, <2>3 DEF FilesAreRight, SeenIsRight
  <2>5. ASSUME NEW k \in Below(j)
        PROVE  /\ k \in InList' /\ ~info'[k].deleted
               /\ \/ PathOf(k) \in unmarked'
                  \/ /\ PathOf(k) \notin unmarked
                     /\ info'[k].imports = info[k].imports /\ info'[k].parsed = info[k].parsed
                     /\ IsAnalysed(k) => IsAnalysed(k)'
    <3>1. k \in InList /\ ~info[k].deleted
      BY <2>4 DEF SeenRight, AsSeen
    <3>2. k \in InList' /\ ~info'[k].deleted
      BY <1>1, <1>4, <1>5, <3>1
    <3>3. PathOf(k) \notin unmarked => IsAnalysed(k)
      BY <2>4 DEF SeenRight, AsSeen
    <3>4. CASE k = i
      <4>1. IsAnalysed(i) => /\ info'[i].imports = info[i].imports
                             /\ info'[i].parsed = info[i].parsed /\ IsAnalysed(i)'
        BY ReadAgain DEF FilesAreRight
      <4> QED
        BY <3>2, <3>3, <3>4, <4>1
    <3>5. CASE k # i
      <4>1. IsAnalysed(k)' = IsAnalysed(k)
        BY <1>1, <1>4, <3>1, <3>5 DEF IsAnalysed, ImportsRight
      <4> QED
        BY <1>4, <3>1, <3>2, <3>5, <4>1
    <3> QED
      BY <3>4, <3>5
  <2> QED
    BY <2>1, <2>2, <2>4, <2>5, SeenAfterStep
<1>8. ListingIsRight'
  BY <1>1, <1>2 DEF ListingIsRight
<1> QED
  BY <1>6, <1>7, <1>8 DEF FilesAreRight, SeenIsRight

LEMMA SeenAfterSame ==
  ASSUME FilesAreRight, UNCHANGED program, disk' = disk, unmarked' = unmarked
  PROVE  FilesAreRight'
<1>1. info' = info /\ list' = list /\ listing' = listing /\ InList' = InList /\ OnDisk' = OnDisk
  BY DEF program, InList, OnDisk
<1>2. \A k : ImportsRight(k)' = ImportsRight(k)
  BY <1>1 DEF ImportsRight
<1>3. \A k : IsAnalysed(k)' = IsAnalysed(k)
  BY <1>1, <1>2 DEF IsAnalysed
<1>4. \A j : Below(j)' = Below(j)
  BY <1>1 DEF Below
<1>5. \A k, s : AsSeen(k, s)' = AsSeen(k, s)
  BY <1>1, <1>3 DEF AsSeen
<1>6. \A j : SeenRight(j)' = SeenRight(j)
  BY <1>1, <1>4, <1>5 DEF SeenRight
<1> QED
  BY <1>1, <1>2, <1>6 DEF FilesAreRight, ListingIsRight, ParsedIsRight, SeenIsRight

\* After a file that is not gone was bound.
LEMMA SeenAfterBind ==
  ASSUME Types, Types', GraphInv, turn.at # "remove", FilesAreRight, NEW i \in InList,
         Bind(i), ~IsGone(i), disk' = disk, unmarked' = unmarked
  PROVE  FilesAreRight'
BY GraphIsTyped, TypesParts, BindEffect, SeenAfterTaken, SeenAfterSame

LEMMA BindReads ==
  ASSUME Types, GraphInv, NEW i \in InList, Bind(i), IsFileNeeded(info, i), ~IsGone(i)
  PROVE  /\ InList \subseteq InList' /\ DOMAIN info \subseteq DOMAIN info'
         /\ ~IsParseRequired(info'[i]) /\ ~info'[i].deleted
         /\ \A k \in InList :
              info'[k].doc = info[k].doc /\ (info'[k].tracked <=> info[k].tracked)
         /\ \A k \in InList \ {i} :
              /\ info'[k].dirty = info[k].dirty /\ info'[k].parsed = info[k].parsed
              /\ info'[k].found = info[k].found /\ info'[k].deleted = info[k].deleted
              /\ info'[k].imports = info[k].imports
<1>1. i \in DOMAIN info /\ InList \subseteq DOMAIN info
  BY GraphIsTyped
<1>2. CASE UNCHANGED program /\ ~IsParseRequired(info[i])
  BY <1>1, <1>2 DEF program, InList, IsFileNeeded
<1>3. CASE Taken(i)
  <2>1. TextOf(i) # NoTree
    BY <1>1, TypesParts, TextIsTyped
  <2>2. ~IsParseRequired(info'[i]) /\ ~info'[i].deleted
    BY <1>3, <2>1 DEF Taken, IsParseRequired
  <2>3. \A k \in InList \ {i} :
          /\ info'[k].dirty = info[k].dirty /\ info'[k].parsed = info[k].parsed
          /\ info'[k].found = info[k].found /\ info'[k].deleted = info[k].deleted
          /\ info'[k].imports = info[k].imports /\ info'[k].tracked = info[k].tracked
    BY <1>1, <1>3 DEF Taken
  <2>4. /\ info'[i].tracked <=> info[i].tracked
        /\ \A k \in InList : info'[k].doc = info[k].doc
        /\ InList \subseteq InList' /\ DOMAIN info \subseteq DOMAIN info'
    BY <1>1, <1>3 DEF Taken
  <2> QED
    BY <2>2, <2>3, <2>4
<1> QED
  BY <1>1, <1>2, <1>3, BindEffect, TypesParts

LEMMA SeenCheckTypes ==
  ASSUME Types, Types', GraphInv, RestInv, ToldInv, SeenInv, CheckTypes
  PROVE  SeenInv' /\ (FoundDeleted => Renamed)
<1>1. PICK n \in turn.n..Len(list) :
        /\ Due(n) /\ Bind(list[n])
        /\ turn' = [turn EXCEPT !.at = "check", !.n = n + 1, !.file = list[n],
                      !.seen = Seeing(<<>>, PathOf(list[n]), info'[list[n]].parsed),
                      !.todo = info'[list[n]].found, !.gone = @ \/ FoundDeleted]
  BY DEF CheckTypes
<1> DEFINE i == list[n]
<1>2. turn.at = "pass" /\ UNCHANGED <<disk, events, unmarked>> /\ turn \in Turns
      /\ i \in InList /\ i \in DOMAIN info /\ turn.at # "remove"
  BY GraphIsTyped DEF CheckTypes, histories, Types, TurnType
<1>3. IsFileNeeded(info, i) /\ ShouldCheckFile(info[i]) /\ Bind(i)
  BY <1>1 DEF Due, ToBeChecked
<1>4. turn'.at = "check" /\ turn'.file = i /\ turn'.todo = info'[i].found
      /\ turn'.seen = Seeing(<<>>, PathOf(i), info'[i].parsed)
  BY <1>1, <1>2 DEF Turns
<1> HIDE DEF i
<1>5. Renamed' = Renamed
  BY <1>2 DEF Renamed
<1>6. CASE Renamed
  BY <1>5, <1>6 DEF SeenInv
<1>7. CASE ~Renamed
  <2>1. ~IsGone(i)
    <3> SUFFICES ASSUME ~IsOpen(info[i]), disk[PathOf(i)] = Absent PROVE FALSE
      BY DEF IsGone
    <3>1. info[i].tracked /\ ~update
      BY <1>2, <1>3 DEF ShouldCheckFile, RestInv, UpdateIsScheduled
    <3>2. PathOf(i) \in Paths
      BY <1>2 DEF Types, InfoType, ObjectIds, PathOf
    <3> QED
      BY <1>2, <1>7, <3>1, <3>2 DEF ToldInv, TrackedIsOnDisk, Renamed
  <2>2. FilesAreRight'
    BY <1>2, <1>3, <1>7, <2>1, SeenAfterBind DEF SeenInv, FilesAreRight
  <2>3. /\ InList \subseteq InList' /\ DOMAIN info \subseteq DOMAIN info'
        /\ ~IsParseRequired(info'[i]) /\ ~info'[i].deleted
        /\ info'[i].doc = info[i].doc /\ (info'[i].tracked <=> info[i].tracked)
    BY <1>2, <1>3, <2>1, BindReads
  <2>4. SeenFiles' = {i} /\ DOMAIN turn'.seen = {PathOf(i)}
        /\ turn'.seen[PathOf(i)] = info'[i].parsed
    <3>1. DOMAIN <<>> = {}
      OBVIOUS
    <3>2. DOMAIN turn'.seen = {PathOf(i)} /\ turn'.seen[PathOf(i)] = info'[i].parsed
      BY <1>4, <3>1 DEF Seeing
    <3>3. \A k, m \in InList' : PathOf(k) = PathOf(m) => k = m
      BY Listed DEF Types, InList
    <3>4. i \in InList'
      BY <1>2, <2>3
    <3>5. SeenFiles' = {k \in InList' : PathOf(k) \in DOMAIN turn'.seen}
      BY DEF SeenFiles
    <3> QED
      BY <3>2, <3>3, <3>4, <3>5
  <2>5. i \in Closure(SeenEdges', {i})
    <3>1. IsGraph(SeenEdges') /\ DOMAIN SeenEdges' = DOMAIN info'
      BY DEF SeenEdges, IsGraph, Types, InfoType
    <3>2. {i} \subseteq DOMAIN SeenEdges'
      BY <1>2, <2>3, <3>1
    <3> QED
      BY <3>1, <3>2, ClosureIsLeast
  <2>6. IsRoot(info', i)
    BY <1>3, <2>3 DEF IsRoot, ShouldCheckFile, IsOpen
  <2>7. CheckGoesOn'
    BY <1>4, <2>3, <2>4, <2>5, <2>6 DEF CheckGoesOn, PathsOf
  <2>8. ~FoundDeleted
    <3> SUFFICES ASSUME NEW k \in DOMAIN info, info'[k].deleted, ~info[k].deleted PROVE FALSE
      BY DEF FoundDeleted
    <3>1. Taken(i) \/ UNCHANGED program
      BY <1>2, <1>3, BindEffect, TypesParts
    <3> QED
      BY <2>3, <3>1 DEF Taken, program
  <2> QED
    BY <2>2, <2>7, <2>8 DEF SeenInv, FilesAreRight
<1>8. FoundDeleted => Renamed
  BY <1>6, <1>7
<1> QED
  BY <1>6, <1>7

\* The file that is checked is above those that the check has seen.
LEMMA CheckedIsAbove ==
  ASSUME Types, GraphInv, CheckGoesOn, turn.at = "check", NEW k \in SeenFiles
  PROVE  turn.file \in Above(info, k)
<1> DEFINE T == {m \in DOMAIN info : turn.file \in Above(info, m)}
<1>1. ImportersAreObjects(info) /\ InList \subseteq DOMAIN info
  BY GraphIsTyped
<1>2. turn.file \in SeenFiles /\ SeenFiles \subseteq InList
      /\ SeenFiles \subseteq Closure(SeenEdges, {turn.file})
  BY DEF CheckGoesOn, SeenFiles
<1>3. turn.file \in T
  BY <1>1, <1>2, AboveIsLeast
<1>4. ASSUME NEW m \in T, m \in SeenFiles, NEW n \in info[m].imports
      PROVE  n \in T
  <2>1. n \in DOMAIN info /\ m \in info[n].importedBy
    BY <1>1, <1>2, <1>4, GraphIsTyped DEF GraphInv, EdgesAgree
  <2>2. m \in Above(info, n)
    BY <1>1, <2>1, AboveIsLeast
  <2>3. Above(info, m) \subseteq Above(info, n)
    BY <1>1, <2>1, <2>2, AboveIsTransitive
  <2> QED
    BY <1>4, <2>1, <2>3
<1>5. IsClosed(SeenEdges, T)
  BY <1>4, SeenEdgesAreObjects DEF IsClosed
<1>6. T \in SUBSET DOMAIN SeenEdges /\ {turn.file} \subseteq DOMAIN SeenEdges
  BY <1>1, <1>2, SeenEdgesAreObjects
<1> HIDE DEF T
<1>7. Closure(SeenEdges, {turn.file}) \subseteq T
  BY <1>3, <1>5, <1>6, SeenEdgesAreObjects, ClosureIsLeast
<1> QED
  BY <1>2, <1>7 DEF T

\* The file that is looked up is imported by one that was seen, and is there.
LEMMA LookedUpIsThere ==
  ASSUME Types, GraphInv, ParsedIsRight, CheckGoesOn, turn.at = "check", NEW f \in turn.todo
  PROVE  \E m \in AtPath(f) :
           /\ ~IsGone(m) /\ IsFileNeeded(info, m)
           /\ \E k \in SeenFiles : m \in info[k].imports
<1>1. PICK k \in SeenFiles : f \in info[k].found
  BY DEF CheckGoesOn
<1>2. k \in InList /\ ~IsParseRequired(info[k])
  BY DEF CheckGoesOn, SeenFiles
<1>3. ImportsRight(k) /\ f \in OnDisk
  BY <1>1, <1>2 DEF ParsedIsRight, ImportsRight
<1>4. PICK m \in info[k].imports : PathOf(m) = f
  BY <1>1, <1>3 DEF ImportsRight, PathsOf
<1>5. m \in InList /\ m \in DOMAIN info /\ InList \subseteq DOMAIN info /\ ImportersAreObjects(info)
  BY <1>2, <1>3, OnDiskIsListed, GraphIsTyped
<1>6. ~IsGone(m) /\ ~info[m].deleted
  BY <1>3, <1>4, <1>5 DEF IsGone, OnDisk, GraphInv, DeletedIsGone
<1>7. turn.file \in Above(info, m)
  <2>1. k \in info[m].importedBy /\ k \in DOMAIN info
    BY <1>2, <1>5 DEF GraphInv, EdgesAgree
  <2>2. Above(info, k) \subseteq Above(info, m)
    BY <1>5, <2>1, AboveIsLeast, AboveIsTransitive
  <2> QED
    BY <2>2, CheckedIsAbove
<1>8. IsRoot(info, turn.file)
  BY DEF CheckGoesOn
<1>9. IsFileNeeded(info, m)
  BY <1>5, <1>6, <1>7, <1>8, NeededHasRoot DEF HasRoot
<1> QED
  BY <1>4, <1>5, <1>6, <1>9 DEF AtPath

LEMMA SeenLookUp ==
  ASSUME Types, Types', GraphInv, SeenInv, NEW f \in Paths, LookUp(f)
  PROVE  SeenInv' /\ (AtPath(f) # {} /\ FoundDeleted => Renamed)
<1>1. turn.at = "check" /\ turn \in Turns /\ turn.at # "remove" /\ f \in turn.todo \ DOMAIN turn.seen
      /\ UNCHANGED <<disk, events, unmarked>>
  BY DEF LookUp, Types, TurnType, histories
<1>2. Renamed' = Renamed
  BY <1>1 DEF Renamed
<1>3. CASE Renamed
  BY <1>2, <1>3 DEF SeenInv
<1>4. CASE ~Renamed
  <2>1. FilesAreRight /\ CheckGoesOn /\ ParsedIsRight
    BY <1>4 DEF SeenInv, FilesAreRight
  <2>2. PICK m \in AtPath(f) :
          /\ ~IsGone(m) /\ IsFileNeeded(info, m)
          /\ \E k \in SeenFiles : m \in info[k].imports
    BY <1>1, <2>1, LookedUpIsThere
  <2>3. PICK k \in SeenFiles : m \in info[k].imports
    BY <2>2
  <2>4. /\ InList \subseteq DOMAIN info /\ SeenFiles \subseteq InList /\ m \in InList
        /\ PathOf(m) = f /\ m \notin SeenFiles
        /\ \A p, q \in InList : PathOf(p) = PathOf(q) => p = q
    BY <1>1, GraphIsTyped DEF AtPath, SeenFiles
  <2>5. AtPath(f) = {m}
    BY <2>4 DEF AtPath
  <2>6. /\ Bind(m)
        /\ turn' = [turn EXCEPT
             !.seen = Seeing(@, f, IF IsParseRequired(info'[m]) THEN NoTree ELSE info'[m].parsed),
             !.todo = IF IsParseRequired(info'[m]) THEN @ ELSE @ \cup info'[m].found,
             !.gone = @ \/ FoundDeleted]
    BY <2>5 DEF LookUp
  <2>7. FilesAreRight'
    BY <1>1, <2>1, <2>2, <2>4, <2>6, SeenAfterBind
  <2>8. /\ InList \subseteq InList' /\ DOMAIN info \subseteq DOMAIN info'
        /\ ~IsParseRequired(info'[m]) /\ ~info'[m].deleted
        /\ \A j \in InList :
             info'[j].doc = info[j].doc /\ (info'[j].tracked <=> info[j].tracked)
        /\ \A j \in InList \ {m} :
             /\ info'[j].dirty = info[j].dirty /\ info'[j].parsed = info[j].parsed
             /\ info'[j].found = info[j].found /\ info'[j].deleted = info[j].deleted
             /\ info'[j].imports = info[j].imports
    BY <2>2, <2>4, <2>6, BindReads
  <2>9. /\ turn'.at = "check" /\ turn'.file = turn.file
        /\ turn'.seen = Seeing(turn.seen, f, info'[m].parsed)
        /\ turn'.todo = turn.todo \cup info'[m].found
    BY <1>1, <2>6, <2>8 DEF Turns
  <2>10. /\ DOMAIN turn'.seen = DOMAIN turn.seen \cup {f}
         /\ turn'.seen[f] = info'[m].parsed
         /\ \A g \in DOMAIN turn.seen : turn'.seen[g] = turn.seen[g]
    BY <1>1, <2>9 DEF Seeing
  <2>11. DOMAIN turn.seen \subseteq PathsOf(SeenFiles)
    BY <1>1, <2>1 DEF CheckGoesOn
  <2>12. SeenFiles' = SeenFiles \cup {m}
    <3>1. SeenFiles' = {j \in InList' : PathOf(j) \in DOMAIN turn.seen \cup {f}}
      BY <2>10 DEF SeenFiles
    <3>2. \A p, q \in InList' : PathOf(p) = PathOf(q) => p = q
      BY Listed DEF Types, InList
    <3>3. SeenFiles \cup {m} \subseteq SeenFiles'
      BY <2>4, <2>8, <3>1 DEF SeenFiles
    <3>4. ASSUME NEW j \in SeenFiles' PROVE j \in SeenFiles \cup {m}
      <4>1. j \in InList' /\ (PathOf(j) = f \/ PathOf(j) \in DOMAIN turn.seen)
        BY <3>1, <3>4
      <4>2. PathOf(j) = PathOf(m) \/ \E q \in SeenFiles : PathOf(j) = PathOf(q)
        BY <2>4, <2>11, <4>1 DEF PathsOf
      <4> QED
        BY <2>4, <2>8, <3>2, <4>1, <4>2
    <3> QED
      BY <3>3, <3>4
  <2>13. SeenFiles' \subseteq Closure(SeenEdges', {turn.file})
    <3>1. IsGraph(SeenEdges') /\ DOMAIN SeenEdges' = DOMAIN info'
      BY DEF SeenEdges, IsGraph, Types, InfoType
    <3>2. /\ IsGraph(SeenEdges) /\ DOMAIN SeenEdges = DOMAIN info
          /\ \A j \in SeenFiles : SeenEdges[j] = info[j].imports
          /\ \A j \in DOMAIN info \ SeenFiles : SeenEdges[j] = {}
      BY SeenEdgesAreObjects
    <3>3. \A j \in SeenFiles : SeenEdges'[j] = info[j].imports
      <4> SUFFICES ASSUME NEW j \in SeenFiles PROVE SeenEdges'[j] = info[j].imports
        OBVIOUS
      <4>1. j \in DOMAIN info' /\ j \in SeenFiles' /\ info'[j].imports = info[j].imports
        BY <2>4, <2>8, <2>12
      <4> QED
        BY <4>1 DEF SeenEdges
    <3>4. \A j \in DOMAIN SeenEdges : SeenEdges[j] \subseteq SeenEdges'[j]
      BY <3>2, <3>3
    <3>5. {turn.file} \in SUBSET DOMAIN SeenEdges
      BY <1>1, <2>1, <2>4, <3>2 DEF CheckGoesOn
    <3>6. DOMAIN SeenEdges \subseteq DOMAIN SeenEdges'
      BY <2>8, <3>1, <3>2
    <3>7. Closure(SeenEdges, {turn.file}) \subseteq Closure(SeenEdges', {turn.file})
      BY <3>1, <3>2, <3>4, <3>5, <3>6, ClosureGrows
    <3>8. k \in Closure(SeenEdges', {turn.file})
      BY <1>1, <2>1, <3>7 DEF CheckGoesOn
    <3>9. IsClosed(SeenEdges', Closure(SeenEdges', {turn.file}))
      BY <3>1, <3>5, <3>6, ClosureIsLeast
    <3>10. m \in Closure(SeenEdges', {turn.file})
      BY <2>3, <3>3, <3>8, <3>9 DEF IsClosed
    <3> QED
      BY <1>1, <2>1, <2>12, <3>7, <3>10 DEF CheckGoesOn
  <2>14. turn.file \in SeenFiles /\ IsRoot(info, turn.file) /\ IsRoot(info', turn.file)
    <3>1. turn.file \in SeenFiles /\ IsRoot(info, turn.file)
      BY <1>1, <2>1 DEF CheckGoesOn
    <3> QED
      BY <2>4, <2>8, <3>1 DEF IsRoot, IsOpen
  <2>15. ASSUME NEW j \in SeenFiles'
         PROVE  /\ ~IsParseRequired(info'[j]) /\ ~info'[j].deleted
                /\ turn'.seen[PathOf(j)] = info'[j].parsed /\ info'[j].found \subseteq turn'.todo
    <3>1. CASE j = m
      BY <2>4, <2>8, <2>9, <2>10, <3>1
    <3>2. CASE j \in SeenFiles
      <4>1. /\ ~IsParseRequired(info[j]) /\ ~info[j].deleted /\ PathOf(j) \in DOMAIN turn.seen
            /\ turn.seen[PathOf(j)] = info[j].parsed /\ info[j].found \subseteq turn.todo
        BY <1>1, <2>1, <3>2 DEF CheckGoesOn, SeenFiles
      <4>2. /\ info'[j].dirty = info[j].dirty /\ info'[j].parsed = info[j].parsed
            /\ info'[j].found = info[j].found /\ info'[j].deleted = info[j].deleted
        BY <2>4, <2>8, <3>2
      <4> QED
        BY <2>9, <2>10, <4>1, <4>2 DEF IsParseRequired
    <3> QED
      BY <2>12, <2>15, <3>1, <3>2
  <2>16. ASSUME NEW g \in turn'.todo
         PROVE  \E j \in SeenFiles' : g \in info'[j].found
    <3>1. CASE g \in info'[m].found
      BY <2>12, <3>1
    <3>2. CASE g \in turn.todo
      <4>1. PICK j \in SeenFiles : g \in info[j].found
        BY <1>1, <2>1, <3>2 DEF CheckGoesOn
      <4>2. info'[j].found = info[j].found
        BY <2>4, <2>8
      <4> QED
        BY <2>12, <4>1, <4>2
    <3> QED
      BY <2>9, <2>16, <3>1, <3>2
  <2>17. DOMAIN turn'.seen \subseteq PathsOf(SeenFiles')
    BY <2>4, <2>10, <2>11, <2>12 DEF PathsOf
  <2>18. CheckGoesOn'
    BY <2>9, <2>12, <2>13, <2>14, <2>15, <2>16, <2>17 DEF CheckGoesOn
  <2>19. ~FoundDeleted
    <3> SUFFICES ASSUME NEW j \in DOMAIN info, info'[j].deleted, ~info[j].deleted PROVE FALSE
      BY DEF FoundDeleted
    <3>1. Taken(m) \/ UNCHANGED program
      BY <2>4, <2>6, BindEffect, TypesParts
    <3> QED
      BY <2>8, <3>1 DEF Taken, program
  <2> QED
    BY <2>7, <2>18, <2>19 DEF SeenInv, FilesAreRight
<1> QED
  BY <1>3, <1>4

LEMMA SeenNext ==
  ASSUME Types, Types', GraphInv, PassInv, RestInv, ToldInv, SeenInv, [Next]_vars
  PROVE  SeenInv'
<1>1. CASE Environment
  BY <1>1, SeenEnvironment
<1>2. CASE User
  BY <1>2, SeenSetFileOpened, SeenSetFileClosed, SeenUpdateOpenFileContents DEF User
<1>3. CASE \E f \in Paths : WatchEvent(f)
  BY <1>3, SeenWatchEvent
<1>4. CASE Analysis
  <2>1. CASE \E f \in Paths : LookUp(f)
    BY <2>1, SeenLookUp
  <2>2. CASE \E outOfTime \in BOOLEAN : Checked(outOfTime)
    BY <2>2, SeenChecked
  <2> QED
    BY <1>4, <2>1, <2>2, SeenAnalyzeTimer, SeenEndUpdate, SeenCheckTypes, SeenEndPass,
       SeenEndReport DEF Analysis
<1>5. CASE Removal
  BY <1>5, SeenRemoveNext, SeenEndClose, SeenForget DEF Removal
<1>6. CASE UNCHANGED vars
  BY <1>6, SeenStutter
<1> QED
  BY <1>1, <1>2, <1>3, <1>4, <1>5, <1>6 DEF Next

-----------------------------------------------------------------------------
(* What the watcher will tell *)

LEMMA ToldInit == Init => ToldInv
<1> SUFFICES ASSUME Init PROVE ToldInv
  OBVIOUS
<1>1. /\ DOMAIN info = SourcesOnDisk \X {FirstAge}
      /\ \A k \in DOMAIN info : info[k].dirty /\ info[k].check
  BY DEF Init, Object
<1>2. InList \subseteq DOMAIN info
  BY TypesInit, GraphIsTyped
<1>3. turn.at = "idle" /\ ~turn.gone /\ failed = {}
  BY TurnsAreTyped DEF Init, Idle
<1>4. \A k \in InList : PathOf(k) \in Sources /\ disk[PathOf(k)] # Absent
  BY <1>1, <1>2 DEF SourcesOnDisk, PathOf
<1> QED
  BY <1>1, <1>2, <1>3, <1>4 DEF ToldInv, TextIsKnown, IsParseRequired, TrackedIsOnDisk,
                                UpdateChecksAll, GoneIsTold

\* What is known of the text of one file.
KnownText(k) ==
  ~IsParseRequired(info[k]) /\ ~info[k].deleted =>
    IF IsOpen(info[k]) THEN info[k].parsed = info[k].doc
    ELSE \/ info[k].parsed = disk[PathOf(k)] \/ ~DidContentsChangeOnDisk(k)
         \/ events[PathOf(k)] # "none" \/ PathOf(k) \in unmarked

\* A step leaves what was read of a file, and what it was read from, as it is.
SameText(k) ==
  /\ k \in InList
  /\ info'[k].parsed = info[k].parsed /\ info'[k].deleted = info[k].deleted
  /\ info'[k].hash = info[k].hash /\ info'[k].doc = info[k].doc
  /\ info'[k].dirty = info[k].dirty
  /\ disk'[PathOf(k)] = disk[PathOf(k)] /\ events'[PathOf(k)] = events[PathOf(k)]
  /\ PathOf(k) \in unmarked => PathOf(k) \in unmarked'

LEMMA TextAfterStep ==
  ASSUME TextIsKnown, \A k \in InList' : SameText(k) \/ KnownText(k)'
  PROVE  TextIsKnown'
<1> SUFFICES ASSUME NEW k \in InList' PROVE KnownText(k)'
  BY DEF TextIsKnown, KnownText
<1>1. CASE KnownText(k)'
  BY <1>1
<1>2. CASE SameText(k)
  <2>1. KnownText(k)
    BY <1>2 DEF TextIsKnown, KnownText, SameText
  <2>2. DidContentsChangeOnDisk(k)' <=> DidContentsChangeOnDisk(k)
    BY <1>2 DEF SameText, DidContentsChangeOnDisk, IsOpen
  <2>3. IsParseRequired(info'[k]) <=> IsParseRequired(info[k])
    BY <1>2 DEF SameText, IsParseRequired
  <2> QED
    BY <1>2, <2>1, <2>2, <2>3 DEF SameText, KnownText, IsOpen
<1> QED
  BY <1>1, <1>2

LEMMA ToldAfterQuietStep ==
  ASSUME ToldInv, QuietStep, update' = update, UpdateChecksAll', GoneIsTold'
  PROVE  ToldInv'
<1>1. TextIsKnown'
  BY TextAfterStep DEF SameText, QuietStep, ToldInv
<1>2. TrackedIsOnDisk'
  BY DEF ToldInv, TrackedIsOnDisk, QuietStep
<1> QED
  BY <1>1, <1>2 DEF ToldInv

LEMMA ToldStutter ==
  ASSUME ToldInv, UNCHANGED vars
  PROVE  ToldInv'
<1>1. info' = info /\ list' = list /\ disk' = disk /\ events' = events /\ unmarked' = unmarked
      /\ update' = update /\ turn' = turn /\ failed' = failed /\ timer' = timer
      /\ listing' = listing /\ InList' = InList
  BY DEF vars, program, histories, InList
<1>2. QuietStep
  BY <1>1 DEF QuietStep
<1> QED
  BY <1>1, <1>2, ToldAfterQuietStep DEF ToldInv, UpdateChecksAll, GoneIsTold, Renamed

LEMMA ToldEnvironment ==
  ASSUME Types, ToldInv, Environment
  PROVE  ToldInv'
<1>1. PICK f \in Paths, text \in AllTexts \cup {Absent} :
        /\ Put(f, text) /\ disk' = [disk EXCEPT ![f] = text]
        /\ events'[f] # "none" /\ \A g \in Paths \ {f} : events'[g] = events[g]
        /\ events[f] = "rename" => events'[f] = "rename"
        /\ events'[f] = "rename" \/ (disk[f] # Absent /\ text # Absent)
  BY EnvironmentEffect
<1>2. /\ info' = info /\ list' = list /\ unmarked' = unmarked /\ update' = update /\ turn' = turn
      /\ failed' = failed /\ timer' = timer /\ InList' = InList
  BY <1>1 DEF Put, program, histories, InList
<1>3. \A k \in InList : PathOf(k) \in Paths
  BY GraphIsTyped DEF Types, InfoType, ObjectIds, PathOf
<1>4. disk'[f] = text /\ \A g \in Paths \ {f} : disk'[g] = disk[g]
  BY <1>1 DEF Types
<1>5. Renamed => Renamed'
  BY <1>1 DEF Renamed
<1>6. \A k \in InList : SameText(k) \/ KnownText(k)'
  <2> SUFFICES ASSUME NEW k \in InList PROVE SameText(k) \/ KnownText(k)'
    OBVIOUS
  <2>1. CASE PathOf(k) = f
    <3>1. CASE IsOpen(info[k])
      <4>1. KnownText(k)
        BY DEF ToldInv, TextIsKnown, KnownText
      <4> QED
        BY <1>2, <3>1, <4>1 DEF KnownText
    <3>2. CASE ~IsOpen(info[k])
      BY <1>1, <1>2, <2>1, <3>2 DEF KnownText
    <3> QED
      BY <3>1, <3>2
  <2>2. CASE PathOf(k) # f
    BY <1>1, <1>2, <1>3, <1>4, <2>2 DEF SameText
  <2> QED
    BY <2>1, <2>2
<1>7. TextIsKnown'
  BY <1>2, <1>6, TextAfterStep DEF ToldInv
<1>8. TrackedIsOnDisk'
  <2> SUFFICES ASSUME NEW k \in InList, info[k].tracked
               PROVE  /\ PathOf(k) \in Sources
                      /\ disk'[PathOf(k)] # Absent \/ events'[PathOf(k)] = "rename" \/ update
    BY <1>2 DEF TrackedIsOnDisk
  <2>1. /\ PathOf(k) \in Sources
        /\ disk[PathOf(k)] # Absent \/ events[PathOf(k)] = "rename" \/ update
    BY DEF ToldInv, TrackedIsOnDisk
  <2> QED
    BY <1>1, <1>3, <1>4, <2>1
<1> QED
  BY <1>2, <1>5, <1>7, <1>8 DEF ToldInv, UpdateChecksAll, GoneIsTold

LEMMA ToldSetFileOpened ==
  ASSUME Types, Types', ToldInv, NEW f \in Paths, SetFileOpened(f)
  PROVE  ToldInv'
<1>1. /\ turn' = Idle /\ timer' /\ update' = update /\ UNCHANGED <<disk, events>>
      /\ unmarked \subseteq unmarked'
  BY DEF SetFileOpened, IsIdle, ScheduleReanalysis, Types
<1>2. InList' = InList \cup (DOMAIN info' \ DOMAIN info) /\ InList \subseteq DOMAIN info
  BY SetFileOpenedEffect, GraphIsTyped
<1>3. PICK i \in InList' :
        /\ PathOf(i) = f
        /\ \A k \in DOMAIN info' \ DOMAIN info : k = i /\ ~info'[k].tracked
        /\ \A k \in DOMAIN info \ {i} : info'[k] = info[k]
        /\ info'[i].dirty /\ info'[i].check
        /\ i \in DOMAIN info => info'[i].tracked = info[i].tracked
  BY SetFileOpenedEffect
<1>4. \A k \in InList' \ {i} : k \in InList /\ info'[k] = info[k]
  BY <1>2, <1>3
<1>5. TextIsKnown'
  <2>1. KnownText(i)'
    BY <1>3 DEF KnownText, IsParseRequired
  <2>2. \A k \in InList' \ {i} : SameText(k)
    BY <1>1, <1>4 DEF SameText
  <2> QED
    BY <2>1, <2>2, TextAfterStep DEF ToldInv
<1>6. TrackedIsOnDisk'
  <2>1. \A k \in InList' : info'[k].tracked => k \in InList /\ info[k].tracked
    BY <1>2, <1>3, <1>4
  <2> QED
    BY <1>1, <2>1 DEF ToldInv, TrackedIsOnDisk
<1>7. UpdateChecksAll'
  BY <1>1, <1>3, <1>4, TurnsAreTyped DEF ToldInv, UpdateChecksAll
<1> QED
  BY <1>1, <1>5, <1>6, <1>7, TurnsAreTyped DEF ToldInv, GoneIsTold, Idle

LEMMA ToldUpdateOpenFileContents ==
  ASSUME Types, Types', ToldInv, NEW f \in Paths, NEW text \in TextsOf[f],
         UpdateOpenFileContents(f, text)
  PROVE  ToldInv'
<1>1. /\ turn' = Idle /\ timer' /\ update' = update /\ UNCHANGED <<disk, events>>
      /\ unmarked' = unmarked \ {f} /\ InList' = InList /\ InList \subseteq DOMAIN info
  BY GraphIsTyped DEF UpdateOpenFileContents, IsIdle, ScheduleReanalysis, Types, InList
<1>2. PICK i \in AtPath(f) :
        /\ DOMAIN info' = DOMAIN info /\ SameGraph(info, info')
        /\ \A k \in DOMAIN info :
             /\ info'[k].tracked = info[k].tracked /\ info'[k].parsed = info[k].parsed
             /\ info'[k].hash = info[k].hash
             /\ k # i => info'[k].doc = info[k].doc
             /\ info'[k].dirty <=> info[k].dirty \/ k = i
             /\ info'[k].check <=> info[k].check \/ k \in Above(info, i)
  BY UpdateEffect
<1>3. i \in InList /\ PathOf(i) = f /\ \A k \in InList : PathOf(k) = f => k = i
  BY GraphIsTyped DEF AtPath
<1>4. \A k \in DOMAIN info : info'[k].dirty \in BOOLEAN /\ info[k].dirty \in BOOLEAN
  BY <1>2 DEF Types, InfoType, Objects
<1>5. TextIsKnown'
  <2>1. KnownText(i)'
    BY <1>1, <1>2, <1>3 DEF KnownText, IsParseRequired
  <2>2. ASSUME NEW k \in InList \ {i} PROVE SameText(k)
    <3>1. info'[k].dirty = info[k].dirty /\ info'[k].deleted = info[k].deleted
      BY <1>1, <1>2, <1>4, <2>2 DEF SameGraph
    <3> QED
      BY <1>1, <1>2, <1>3, <2>2, <3>1 DEF SameText
  <2> QED
    BY <1>1, <2>1, <2>2, TextAfterStep DEF ToldInv
<1>6. TrackedIsOnDisk' /\ UpdateChecksAll'
  BY <1>1, <1>2, TurnsAreTyped DEF ToldInv, TrackedIsOnDisk, UpdateChecksAll
<1> QED
  BY <1>1, <1>5, <1>6, TurnsAreTyped DEF ToldInv, GoneIsTold, Idle

LEMMA ToldSetFileClosed ==
  ASSUME Types, Types', ToldInv, NEW f \in Paths, SetFileClosed(f)
  PROVE  ToldInv'
<1>1. PICK i \in AtPath(f) :
        /\ IsOpen(info[i]) /\ info' = [info EXCEPT ![i].doc = Closed]
        /\ turn' = Removing("rest") /\ UNCHANGED <<disk, events, list, failed>> /\ timer'
        /\ update' = update
        /\ unmarked' = IF info[i].doc # disk[f] \/ info[i].dirty THEN unmarked \cup {f} ELSE unmarked
  BY DEF SetFileClosed, ScheduleReanalysis, Types
<1>2. i \in InList /\ PathOf(i) = f /\ InList \subseteq DOMAIN info /\ InList' = InList
  BY <1>1, GraphIsTyped DEF AtPath, InList
<1>3. /\ \A k \in InList :
          /\ info'[k].tracked = info[k].tracked /\ info'[k].parsed = info[k].parsed
          /\ info'[k].hash = info[k].hash /\ info'[k].dirty = info[k].dirty
          /\ info'[k].check = info[k].check /\ info'[k].deleted = info[k].deleted
          /\ k # i => info'[k].doc = info[k].doc
      /\ info'[i].doc = Closed
  BY <1>1, <1>2, ClosedEffect DEF SameGraph
<1>4. KnownText(i)'
  <2>1. KnownText(i)
    BY <1>2 DEF ToldInv, TextIsKnown, KnownText
  <2>2. IsParseRequired(info'[i]) <=> IsParseRequired(info[i])
    BY <1>2, <1>3 DEF IsParseRequired
  <2> QED
    BY <1>1, <1>2, <1>3, <2>1, <2>2 DEF KnownText, IsOpen
<1>5. \A k \in InList \ {i} : SameText(k)
  BY <1>1, <1>3 DEF SameText
<1>6. TextIsKnown'
  BY <1>2, <1>4, <1>5, TextAfterStep DEF ToldInv
<1>7. TrackedIsOnDisk' /\ UpdateChecksAll'
  BY <1>1, <1>2, <1>3, TurnsAreTyped DEF ToldInv, TrackedIsOnDisk, UpdateChecksAll
<1> QED
  BY <1>1, <1>6, <1>7, TurnsAreTyped DEF ToldInv, GoneIsTold

LEMMA ToldWatchEvent ==
  ASSUME Types, Types', ToldInv, NEW f \in Paths, WatchEvent(f)
  PROVE  ToldInv'
<1>1. /\ turn' = Idle /\ timer' /\ disk' = disk /\ InList' = InList
      /\ events' = [events EXCEPT ![f] = "none"] /\ InList \subseteq DOMAIN info
  BY GraphIsTyped DEF WatchEvent, IsIdle, InList, ScheduleReanalysis
<1>2. \A k \in DOMAIN info :
        /\ SameButMarks(info[k], info'[k]) /\ info'[k].tracked = info[k].tracked
        /\ info[k].check => info'[k].check
  BY WatchEffect DEF SameButMarks
<1>3. \A k \in InList : PathOf(k) \in Paths
  BY <1>1 DEF Types, InfoType, ObjectIds, PathOf
<1>4. \A g \in Paths \ {f} : events'[g] = events[g]
  BY <1>1 DEF Types
<1>5. CASE events[f] = "change" /\ disk[f] # Absent /\ f \in Sources
  <2> DEFINE S == {i \in AtPath(f) : DidContentsChangeOnDisk(i)}
  <2>1. /\ info' = MarkFilesDirty(info, S) /\ (update' <=> update)
        /\ unmarked' = IF S = {} THEN unmarked ELSE unmarked \ {f}
    BY <1>5 DEF WatchEvent, ScheduleReanalysis
  <2>2. S \in SUBSET DOMAIN info /\ \A k : k \in S <=> k \in InList /\ PathOf(k) = f /\ DidContentsChangeOnDisk(k)
    BY <1>1 DEF AtPath
  <2> HIDE DEF S
  <2>3. \A k \in DOMAIN info :
          info'[k].dirty <=> info[k].dirty \/ k \in S
    BY <2>1, <2>2, MarkFilesDirtyEffect DEF Types
  <2>4. \A k \in DOMAIN info : info'[k].dirty \in BOOLEAN /\ info[k].dirty \in BOOLEAN
    BY WatchEffect DEF Types, InfoType, Objects
  <2>5. \A k \in InList : SameText(k) \/ KnownText(k)'
    <3> SUFFICES ASSUME NEW k \in InList PROVE SameText(k) \/ KnownText(k)'
      OBVIOUS
    <3>1. CASE k \in S
      <4>1. info'[k].dirty
        BY <1>1, <2>3, <3>1
      <4> QED
        BY <4>1 DEF KnownText, IsParseRequired
    <3>2. CASE k \notin S /\ PathOf(k) = f
      <4>1. ~DidContentsChangeOnDisk(k)' /\ info'[k].dirty = info[k].dirty
        BY <1>1, <1>2, <2>2, <2>3, <2>4, <3>2 DEF DidContentsChangeOnDisk, SameButMarks, IsOpen
      <4>2. KnownText(k)
        BY DEF ToldInv, TextIsKnown, KnownText
      <4> QED
        BY <1>1, <1>2, <4>1, <4>2 DEF KnownText, SameButMarks, IsOpen, IsParseRequired
    <3>3. CASE k \notin S /\ PathOf(k) # f
      <4>1. info'[k].dirty = info[k].dirty /\ (PathOf(k) \in unmarked => PathOf(k) \in unmarked')
        BY <1>1, <2>1, <2>3, <2>4, <3>3
      <4> QED
        BY <1>1, <1>2, <1>3, <1>4, <3>3, <4>1 DEF SameText, SameButMarks
    <3> QED
      BY <3>1, <3>2, <3>3
  <2>6. TextIsKnown'
    BY <1>1, <2>5, TextAfterStep DEF ToldInv
  <2>7. TrackedIsOnDisk'
    BY <1>1, <1>2, <1>3, <1>4, <1>5, <2>1 DEF ToldInv, TrackedIsOnDisk
  <2>8. UpdateChecksAll'
    BY <1>1, <1>2, <2>1, TurnsAreTyped DEF ToldInv, UpdateChecksAll
  <2> QED
    BY <1>1, <2>6, <2>7, <2>8, TurnsAreTyped DEF ToldInv, GoneIsTold, Idle
<1>6. CASE ~(events[f] = "change" /\ disk[f] # Absent /\ f \in Sources)
  <2>1. /\ info' = [i \in DOMAIN info |-> IF i \in InList THEN MarkDirty(info[i]) ELSE info[i]]
        /\ update' <=> update \/ f \in Sources
    BY <1>6 DEF WatchEvent, ScheduleReanalysis
  <2>2. \A k \in InList : info'[k].dirty /\ info'[k].check
    <3> SUFFICES ASSUME NEW k \in InList PROVE info'[k].dirty /\ info'[k].check
      OBVIOUS
    <3>1. k \in DOMAIN info /\ info[k] \in Objects
      BY <1>1 DEF Types, InfoType
    <3>2. info'[k] = MarkDirty(info[k])
      BY <2>1, <3>1
    <3> QED
      BY <3>1, <3>2, MarkIsTyped
  <2>3. TextIsKnown' /\ UpdateChecksAll'
    BY <1>1, <2>2 DEF TextIsKnown, IsParseRequired, UpdateChecksAll
  <2>4. TrackedIsOnDisk'
    <3> SUFFICES ASSUME NEW k \in InList, info'[k].tracked
                 PROVE  /\ PathOf(k) \in Sources
                        /\ disk[PathOf(k)] # Absent \/ events'[PathOf(k)] = "rename" \/ update'
      BY <1>1 DEF TrackedIsOnDisk
    <3>1. /\ PathOf(k) \in Sources
          /\ disk[PathOf(k)] # Absent \/ events[PathOf(k)] = "rename" \/ update
      BY <1>1, <1>2 DEF ToldInv, TrackedIsOnDisk
    <3> QED
      BY <1>3, <1>4, <2>1, <3>1
  <2> QED
    BY <1>1, <2>3, <2>4, TurnsAreTyped DEF ToldInv, GoneIsTold, Idle
<1> QED
  BY <1>5, <1>6

LEMMA ToldAnalyzeTimer ==
  ASSUME Types, Types', ToldInv, AnalyzeTimer
  PROVE  ToldInv'
<1>1. /\ disk' = disk /\ events' = events /\ unmarked' = unmarked /\ listing' = listing
      /\ ~update' /\ "filesLeft" \notin failed'
  BY DEF AnalyzeTimer, histories
<1>2. CASE update
  <2>1. SetTracked /\ turn' = Removing("pass")
    BY <1>2 DEF AnalyzeTimer
  <2>2. ~turn'.gone
    BY <2>1, TurnsAreTyped
  <2>3. InList \subseteq DOMAIN info /\ InList' = InList \cup (DOMAIN info' \ DOMAIN info)
    BY <2>1, SetTrackedEffect, GraphIsTyped
  <2>4. \A k \in DOMAIN info' \ DOMAIN info :
          /\ PathOf(k) \in SourcesOnDisk /\ info'[k].dirty /\ info'[k].check
    BY <2>1, SetTrackedEffect
  <2>5. \A k \in InList :
          /\ info'[k].tracked = (PathOf(k) \in SourcesOnDisk)
          /\ info'[k].doc = info[k].doc /\ info'[k].dirty = info[k].dirty
          /\ info'[k].check = info[k].check /\ info'[k].parsed = info[k].parsed
          /\ info'[k].hash = info[k].hash /\ info'[k].deleted = info[k].deleted
    BY <2>1, <2>3, SetTrackedEffect
  <2>6. TextIsKnown'
    <3>1. \A k \in InList : SameText(k)
      BY <1>1, <2>5 DEF SameText
    <3>2. \A k \in DOMAIN info' \ DOMAIN info : KnownText(k)'
      BY <2>4 DEF KnownText, IsParseRequired
    <3> QED
      BY <2>3, <3>1, <3>2, TextAfterStep DEF ToldInv
  <2>7. TrackedIsOnDisk'
    BY <1>1, <2>3, <2>4, <2>5 DEF TrackedIsOnDisk, SourcesOnDisk
  <2>8. UpdateChecksAll'
    BY <1>2, <2>3, <2>4, <2>5 DEF ToldInv, UpdateChecksAll
  <2> QED
    BY <1>1, <2>2, <2>6, <2>7, <2>8 DEF ToldInv, GoneIsTold
<1>3. CASE ~update
  <2>1. turn' = Pass(info) /\ info' = info /\ list' = list /\ InList' = InList
    BY <1>3 DEF AnalyzeTimer, InList
  <2>2. turn'.at = "pass" /\ ~turn'.gone
    BY <2>1, PassIsTyped, GraphIsTyped, TypesParts
  <2>3. QuietStep
    BY <1>1, <2>1 DEF QuietStep
  <2>4. UpdateChecksAll' /\ GoneIsTold'
    BY <1>1, <2>2 DEF UpdateChecksAll, GoneIsTold
  <2>5. update' = update
    BY <1>3 DEF AnalyzeTimer, Types
  <2> QED
    BY <2>3, <2>4, <2>5, ToldAfterQuietStep
<1> QED
  BY <1>2, <1>3

LEMMA ToldEndUpdate ==
  ASSUME Types, Types', ToldInv, EndUpdate
  PROVE  ToldInv'
<1>1. /\ disk' = disk /\ events' = events /\ unmarked' = unmarked /\ update' = update
      /\ failed' = failed /\ InList' = InList /\ InList \subseteq DOMAIN info
      /\ turn.at = "remove" /\ turn.then = "pass"
  BY GraphIsTyped DEF EndUpdate, InList, AllNeeded, histories
<1>2. turn'.at = "pass" /\ ~turn'.gone
  <2>1. turn' = Pass(info') /\ InfoType(info') /\ ListType(info', list)
    BY EndUpdateEffect DEF EndUpdate
  <2> QED
    BY <2>1, PassIsTyped
<1>3. \A k \in InList :
        /\ info'[k].tracked = info[k].tracked /\ info'[k].doc = info[k].doc
        /\ info'[k].parsed = info[k].parsed /\ info'[k].hash = info[k].hash
        /\ info'[k].deleted = info[k].deleted
        /\ info[k].check => info'[k].check
        /\ info[k].dirty => info'[k].dirty
  BY <1>1, EndUpdateEffect DEF SameGraph
<1>4. \A k \in InList : SameText(k) \/ KnownText(k)'
  <2> SUFFICES ASSUME NEW k \in InList, ~info'[k].dirty PROVE SameText(k)
    BY DEF KnownText, IsParseRequired
  <2>1. info'[k].dirty \in BOOLEAN /\ info[k].dirty \in BOOLEAN
    BY <1>1, EndUpdateEffect DEF Types, InfoType, Objects
  <2> QED
    BY <1>1, <1>3, <2>1 DEF SameText
<1>5. TextIsKnown'
  BY <1>1, <1>4, TextAfterStep DEF ToldInv
<1>6. TrackedIsOnDisk' /\ UpdateChecksAll'
  BY <1>1, <1>3 DEF ToldInv, TrackedIsOnDisk, UpdateChecksAll
<1> QED
  BY <1>1, <1>2, <1>5, <1>6 DEF ToldInv, GoneIsTold

LEMMA TextAfterBind ==
  ASSUME Types, ToldInv, NEW i \in InList, Bind(i), disk' = disk, events' = events,
         unmarked' = unmarked, update' = update
  PROVE  TextIsKnown' /\ TrackedIsOnDisk'
<1>1. i \in DOMAIN info /\ InList \subseteq DOMAIN info
  BY GraphIsTyped
<1>2. CASE UNCHANGED program
  <2>1. QuietStep
    BY <1>2 DEF QuietStep, program, InList
  <2> QED
    BY <1>2, <2>1, TextAfterStep DEF program, SameText, QuietStep, ToldInv, TrackedIsOnDisk
<1>3. CASE Taken(i)
  <2>1. InList' = InList \cup (DOMAIN info' \ DOMAIN info)
    BY <1>3 DEF Taken
  <2>2. \A k \in DOMAIN info' \ DOMAIN info : info'[k].dirty /\ ~info'[k].tracked
    BY <1>3 DEF Taken
  <2>3. \A k \in InList \ {i} :
          /\ info'[k].dirty = info[k].dirty /\ info'[k].parsed = info[k].parsed
          /\ info'[k].hash = info[k].hash /\ info'[k].deleted = info[k].deleted
          /\ info'[k].doc = info[k].doc /\ info'[k].tracked = info[k].tracked
    BY <1>1, <1>3 DEF Taken
  <2>4. /\ info'[i].parsed = TextOf(i) /\ info'[i].deleted = IsGone(i)
        /\ info'[i].doc = info[i].doc /\ (info'[i].tracked => info[i].tracked)
    BY <1>1, <1>3 DEF Taken
  <2>5. KnownText(i)'
    BY <2>4 DEF KnownText, TextOf, IsGone, IsOpen
  <2>6. \A k \in InList \ {i} : SameText(k)
    BY <2>3 DEF SameText
  <2>7. \A k \in DOMAIN info' \ DOMAIN info : KnownText(k)'
    BY <2>2 DEF KnownText, IsParseRequired
  <2>8. TextIsKnown'
    BY <2>1, <2>5, <2>6, <2>7, TextAfterStep DEF ToldInv
  <2>9. TrackedIsOnDisk'
    BY <2>1, <2>2, <2>3, <2>4 DEF ToldInv, TrackedIsOnDisk
  <2> QED
    BY <2>8, <2>9
<1> QED
  BY <1>1, <1>2, <1>3, BindEffect, TypesParts

LEMMA ToldCheckTypes ==
  ASSUME Types, Types', GraphInv, RestInv, ToldInv, SeenInv, CheckTypes
  PROVE  ToldInv'
<1>1. PICK n \in turn.n..Len(list) :
        /\ Due(n) /\ Bind(list[n])
        /\ turn' = [turn EXCEPT !.at = "check", !.n = n + 1, !.file = list[n],
                      !.seen = Seeing(<<>>, PathOf(list[n]), info'[list[n]].parsed),
                      !.todo = info'[list[n]].found, !.gone = @ \/ FoundDeleted]
  BY DEF CheckTypes
<1>2. turn.at = "pass" /\ UNCHANGED <<disk, events, unmarked, update, failed>> /\ turn \in Turns
      /\ list[n] \in InList
  BY GraphIsTyped DEF CheckTypes, histories, Types, TurnType
<1>3. turn'.at = "check" /\ (turn'.gone => turn.gone \/ FoundDeleted)
  BY <1>1, <1>2 DEF Turns
<1>4. Renamed' = Renamed /\ (FoundDeleted => Renamed)
  BY <1>2, SeenCheckTypes DEF Renamed
<1>5. ~update'
  BY <1>2 DEF RestInv, UpdateIsScheduled
<1> QED
  BY <1>1, <1>2, <1>3, <1>4, <1>5, TextAfterBind DEF ToldInv, UpdateChecksAll, GoneIsTold

LEMMA ToldLookUp ==
  ASSUME Types, Types', GraphInv, RestInv, ToldInv, SeenInv, NEW f \in Paths, LookUp(f)
  PROVE  ToldInv'
<1>1. turn.at = "check" /\ UNCHANGED <<disk, events, unmarked, update, failed>> /\ turn \in Turns
  BY DEF LookUp, histories, Types, TurnType
<1>2. ~update'
  BY <1>1 DEF RestInv, UpdateIsScheduled
<1>3. Renamed' = Renamed
  BY <1>1 DEF Renamed
<1>4. CASE AtPath(f) = {}
  <2>1. turn' = [turn EXCEPT !.seen = Seeing(@, f, NoTree)] /\ UNCHANGED program
    BY <1>4 DEF LookUp
  <2>2. turn'.at = "check" /\ turn'.gone = turn.gone
    BY <1>1, <2>1 DEF Turns
  <2>3. QuietStep
    BY <1>1, <2>1 DEF QuietStep, program, InList
  <2>4. UpdateChecksAll' /\ GoneIsTold'
    BY <1>1, <1>2, <1>3, <2>2 DEF ToldInv, UpdateChecksAll, GoneIsTold
  <2> QED
    BY <1>1, <2>3, <2>4, ToldAfterQuietStep
<1>5. CASE AtPath(f) # {}
  <2>1. PICK k \in AtPath(f) :
          /\ Bind(k)
          /\ turn' = [turn EXCEPT
               !.seen = Seeing(@, f, IF IsParseRequired(info'[k]) THEN NoTree ELSE info'[k].parsed),
               !.todo = IF IsParseRequired(info'[k]) THEN @ ELSE @ \cup info'[k].found,
               !.gone = @ \/ FoundDeleted]
    BY <1>5 DEF LookUp
  <2>2. turn'.at = "check" /\ (turn'.gone => turn.gone \/ FoundDeleted)
    BY <1>1, <2>1 DEF Turns
  <2>3. FoundDeleted => Renamed
    BY <1>5, SeenLookUp
  <2>4. k \in InList
    BY DEF AtPath
  <2> QED
    BY <1>1, <1>2, <1>3, <2>1, <2>2, <2>3, <2>4, TextAfterBind
    DEF ToldInv, UpdateChecksAll, GoneIsTold
<1> QED
  BY <1>4, <1>5

LEMMA ToldChecked ==
  ASSUME Types, Types', RestInv, ToldInv, NEW outOfTime \in BOOLEAN, Checked(outOfTime)
  PROVE  ToldInv'
<1>1. turn.at = "check" /\ UNCHANGED <<disk, events, unmarked, listing, update, failed>>
      /\ InList' = InList /\ InList \subseteq DOMAIN info /\ turn \in Turns
  BY GraphIsTyped DEF Checked, InList, histories, Types, TurnType
<1>2. QuietStep
  BY <1>1, CheckedEffect DEF QuietStep, SameGraph
<1>3. ~update'
  BY <1>1 DEF RestInv, UpdateIsScheduled
<1>4. turn'.gone = turn.gone /\ (turn'.at = "remove" => turn'.then = "report")
  <2> DEFINE r == Removing("report")
             b == turn.before
             g == turn.gone
  <2>1. r \in Turns /\ r.at = "remove" /\ r.then = "report"
    BY TurnsAreTyped
  <2>2. \/ turn' = [r EXCEPT !.before = b, !.gone = g, !.more = TRUE]
        \/ turn' = [turn EXCEPT !.at = "pass", !.file = <<>>, !.todo = {}, !.seen = <<>>]
    BY DEF Checked
  <2> HIDE DEF r, b
  <2> QED
    BY <1>1, <2>1, <2>2 DEF Turns
<1>5. "filesLeft" \notin failed'
  BY <1>1 DEF ToldInv, GoneIsTold
<1>6. UpdateChecksAll' /\ GoneIsTold'
  BY <1>1, <1>3, <1>4, <1>5 DEF ToldInv, UpdateChecksAll, GoneIsTold, Renamed
<1> QED
  BY <1>1, <1>2, <1>6, ToldAfterQuietStep

LEMMA ToldEndPass ==
  ASSUME Types, Types', GraphInv, PassInv, RestInv, ToldInv, EndPass
  PROVE  ToldInv'
<1>1. turn.at = "pass" /\ UNCHANGED <<disk, events, unmarked, listing, update, timer>>
      /\ InList' = InList /\ InList \subseteq DOMAIN info
  BY GraphIsTyped DEF EndPass, InList, histories
<1>2. \A k \in InList : info'[k] = info[k]
  <2>1. CASE info' = info
    BY <2>1
  <2>2. CASE info' = Collect(info)
    <3>1. \A k \in DOMAIN info' : info'[k] = info[k]
      BY <2>2, CollectEffect DEF Types
    <3>2. InList \subseteq DOMAIN info'
      BY <2>2, CollectEffect DEF Types
    <3> QED
      BY <3>1, <3>2
  <2> QED
    BY <2>1, <2>2 DEF EndPass
<1>3. QuietStep
  BY <1>1, <1>2 DEF QuietStep
<1>4. ~update' /\ "filesLeft" \notin failed
  BY <1>1 DEF RestInv, UpdateIsScheduled, ToldInv, GoneIsTold
<1>5. "filesLeft" \in failed' => turn.gone
  BY <1>4, LeftOnlyIfGone
<1>6. UpdateChecksAll' /\ GoneIsTold'
  <2>1. CASE FilesToAnalyze(info) # {} /\ turn.opened = {}
    <3>1. turn' = Idle
      BY <2>1 DEF EndPass
    <3>2. turn'.at = "idle" /\ ~turn'.gone
      BY <3>1, TurnsAreTyped DEF Idle
    <3> QED
      BY <1>1, <1>4, <1>5, <3>2 DEF ToldInv, UpdateChecksAll, GoneIsTold, Renamed
  <2>2. CASE ~(FilesToAnalyze(info) # {} /\ turn.opened = {})
    <3> DEFINE r == Removing("report")
               b == turn.before
               g == turn.gone
               more == turn.opened # {}
    <3>1. r \in Turns /\ r.at = "remove" /\ r.then = "report"
      BY TurnsAreTyped
    <3>2. turn' = [r EXCEPT !.before = b, !.gone = g, !.more = more] /\ failed' = failed
      BY <2>2 DEF EndPass
    <3> HIDE DEF r, b, more
    <3>3. turn'.gone = turn.gone /\ turn'.then = "report"
      BY <3>1, <3>2 DEF Turns
    <3> QED
      BY <1>1, <1>4, <3>2, <3>3 DEF ToldInv, UpdateChecksAll, GoneIsTold, Renamed
  <2> QED
    BY <2>1, <2>2
<1> QED
  BY <1>1, <1>3, <1>6, ToldAfterQuietStep

LEMMA ToldEndReport ==
  ASSUME Types, Types', RestInv, ToldInv, EndReport
  PROVE  ToldInv'
<1>1. InList' = InList /\ UNCHANGED <<disk, events, unmarked, listing, update, failed>>
      /\ turn' = Idle /\ turn.at = "remove" /\ turn.then = "report"
  BY DEF EndReport, InList, histories, AllNeeded
<1>2. \A k \in InList :
        /\ info'[k].imports = info[k].imports /\ info'[k].parsed = info[k].parsed
        /\ info'[k].found = info[k].found /\ info'[k].deleted = info[k].deleted
        /\ info'[k].hash = info[k].hash /\ info'[k].doc = info[k].doc
        /\ info'[k].dirty = info[k].dirty /\ info'[k].tracked = info[k].tracked
  BY ReportEffect
<1>3. QuietStep
  BY <1>1, <1>2 DEF QuietStep
<1>4. ~update' /\ "filesLeft" \notin failed'
  BY <1>1 DEF RestInv, UpdateIsScheduled, ToldInv, GoneIsTold
<1>5. UpdateChecksAll' /\ GoneIsTold'
  BY <1>1, <1>4, TurnsAreTyped DEF UpdateChecksAll, GoneIsTold, Idle
<1> QED
  BY <1>1, <1>3, <1>5, ToldAfterQuietStep

LEMMA ToldEndClose ==
  ASSUME Types, Types', ToldInv, EndClose
  PROVE  ToldInv'
<1>1. InList' = InList /\ UNCHANGED <<disk, events, unmarked, listing, update, failed, timer>>
      /\ turn' = Idle
  BY DEF EndClose, InList, histories
<1>2. \A k \in InList :
        /\ info'[k].imports = info[k].imports /\ info'[k].parsed = info[k].parsed
        /\ info'[k].found = info[k].found /\ info'[k].deleted = info[k].deleted
        /\ info'[k].hash = info[k].hash /\ info'[k].doc = info[k].doc
        /\ info'[k].dirty = info[k].dirty /\ info'[k].tracked = info[k].tracked
        /\ info'[k].check = info[k].check
  BY EndCloseEffect
<1>3. QuietStep
  BY <1>1, <1>2 DEF QuietStep
<1>4. UpdateChecksAll' /\ GoneIsTold'
  BY <1>1, <1>2, TurnsAreTyped DEF ToldInv, UpdateChecksAll, GoneIsTold, Idle, Renamed
<1> QED
  BY <1>1, <1>3, <1>4, ToldAfterQuietStep

LEMMA ToldRemoveNext ==
  ASSUME Types, Types', ToldInv, RemoveNext
  PROVE  ToldInv'
<1>1. PICK n \in turn.n..Len(list) :
        /\ ~Needed(n) /\ InList' = InList \ {list[n]}
        /\ turn'.at = "remove" /\ turn'.then = turn.then /\ turn'.gone = turn.gone
        /\ SameGraph(info, info')
        /\ \A j \in DOMAIN info :
             /\ info'[j].tracked = info[j].tracked /\ info'[j].doc = info[j].doc
             /\ info'[j].dirty = info[j].dirty /\ info'[j].check = info[j].check
             /\ info'[j].parsed = info[j].parsed /\ info'[j].hash = info[j].hash
             /\ info'[j].found = info[j].found
  BY RemoveNextEffect
<1>2. UNCHANGED <<disk, events, unmarked, listing, update, failed, timer>>
      /\ InList \subseteq DOMAIN info /\ turn.at = "remove"
  BY GraphIsTyped DEF RemoveNext, histories
<1>3. QuietStep
  BY <1>1, <1>2 DEF QuietStep, SameGraph, Needed
<1>4. UpdateChecksAll' /\ GoneIsTold'
  BY <1>1, <1>2 DEF ToldInv, UpdateChecksAll, GoneIsTold, Renamed
<1> QED
  BY <1>2, <1>3, <1>4, ToldAfterQuietStep

LEMMA ToldForget ==
  ASSUME Types, Types', GraphInv, ToldInv, NEW k \in DOMAIN info, Forget(k)
  PROVE  ToldInv'
<1>1. /\ turn.at = "remove" /\ turn' = [turn EXCEPT !.left = @ \ {k}] /\ failed' = failed
      /\ info' = Forgotten(k) /\ InList' = InList /\ InList \subseteq DOMAIN info
  BY ForgottenIsImporter, GraphIsTyped DEF InList
<1>2. turn'.at = "remove" /\ turn'.then = turn.then /\ turn'.gone = turn.gone
  BY <1>1 DEF Types, TurnType, Turns
<1>3. UNCHANGED <<disk, events, unmarked, listing, update, timer>>
  BY DEF Forget, histories
<1>4. \A i \in InList :
        /\ info'[i].tracked = info[i].tracked /\ info'[i].doc = info[i].doc
        /\ info'[i].dirty = info[i].dirty /\ info'[i].check = info[i].check
        /\ info'[i].parsed = info[i].parsed /\ info'[i].hash = info[i].hash
        /\ info'[i].found = info[i].found
        /\ info'[i].deleted = info[i].deleted /\ info'[i].imports = info[i].imports
  BY <1>1, ForgottenEffect
<1>5. QuietStep
  BY <1>1, <1>3, <1>4 DEF QuietStep
<1>6. UpdateChecksAll' /\ GoneIsTold'
  BY <1>1, <1>2, <1>3, <1>4 DEF ToldInv, UpdateChecksAll, GoneIsTold, Renamed
<1> QED
  BY <1>3, <1>5, <1>6, ToldAfterQuietStep

LEMMA ToldNext ==
  ASSUME Types, Types', GraphInv, PassInv, RestInv, ToldInv, SeenInv, [Next]_vars
  PROVE  ToldInv'
<1>1. CASE Environment
  BY <1>1, ToldEnvironment
<1>2. CASE User
  BY <1>2, ToldSetFileOpened, ToldSetFileClosed, ToldUpdateOpenFileContents DEF User
<1>3. CASE \E f \in Paths : WatchEvent(f)
  BY <1>3, ToldWatchEvent
<1>4. CASE Analysis
  <2>1. CASE \E f \in Paths : LookUp(f)
    BY <2>1, ToldLookUp
  <2>2. CASE \E outOfTime \in BOOLEAN : Checked(outOfTime)
    BY <2>2, ToldChecked
  <2> QED
    BY <1>4, <2>1, <2>2, ToldAnalyzeTimer, ToldEndUpdate, ToldCheckTypes, ToldEndPass,
       ToldEndReport DEF Analysis
<1>5. CASE Removal
  BY <1>5, ToldRemoveNext, ToldEndClose, ToldForget DEF Removal
<1>6. CASE UNCHANGED vars
  BY <1>6, ToldStutter
<1> QED
  BY <1>1, <1>2, <1>3, <1>4, <1>5, <1>6 DEF Next

LEMMA SeenIsKept == Spec => [](ToldInv /\ SeenInv)
<1>1. Init => ToldInv /\ SeenInv
  BY ToldInit, SeenInit
<1>2. /\ Types /\ Types' /\ GraphInv /\ PassInv /\ RestInv
      /\ ToldInv /\ SeenInv /\ [Next]_vars
      => (ToldInv /\ SeenInv)'
  BY ToldNext, SeenNext
<1> QED
  BY <1>1, <1>2, TypesAreKept, GraphIsKept, PassIsKept, RestIsKept, PTL DEF Spec

-----------------------------------------------------------------------------
(* What is fresh when all has settled *)

NowEdges ==
  [g \in Paths |-> IF Now(g) = Absent THEN {} ELSE {h \in ImportsOf[Now(g)] : disk[h] # Absent}]

LEMMA NowIsText ==
  ASSUME Types
  PROVE  /\ \A g \in Paths : Now(g) \in AllTexts \cup {Absent}
         /\ \A k \in InList : /\ IsOpen(info[k]) => Now(PathOf(k)) = info[k].doc
                              /\ ~IsOpen(info[k]) => Now(PathOf(k)) = disk[PathOf(k)]
         /\ IsGraph(NowEdges) /\ DOMAIN NowEdges = Paths
<1>1. InList \subseteq DOMAIN info /\ \A k, m \in InList : PathOf(k) = PathOf(m) => k = m
  BY GraphIsTyped
<1>2. ASSUME NEW k \in InList
      PROVE  /\ IsOpen(info[k]) => Now(PathOf(k)) = info[k].doc
             /\ ~IsOpen(info[k]) => Now(PathOf(k)) = disk[PathOf(k)]
  <2>1. AtPath(PathOf(k)) = {k}
    BY <1>1 DEF AtPath
  <2>2. (CHOOSE m \in AtPath(PathOf(k)) : TRUE) = k
    BY <2>1
  <2> QED
    BY <2>1, <2>2 DEF Now
<1>3. ASSUME NEW g \in Paths PROVE Now(g) \in AllTexts \cup {Absent}
  <2>1. CASE \E k \in AtPath(g) : IsOpen(info[k])
    <3>1. PICK k \in AtPath(g) : IsOpen(info[k])
      BY <2>1
    <3>2. k \in InList /\ PathOf(k) = g /\ info[k] \in Objects
      BY <1>1 DEF AtPath, Types, InfoType
    <3> QED
      BY <1>2, <3>1, <3>2 DEF Objects, IsOpen
  <2>2. CASE ~\E k \in AtPath(g) : IsOpen(info[k])
    BY <2>2 DEF Now, Types
  <2> QED
    BY <2>1, <2>2
<1>4. \A g \in Paths : NowEdges[g] \subseteq Paths
  BY <1>3, TextsAssumption DEF NowEdges
<1> QED
  BY <1>2, <1>3, <1>4 DEF IsGraph, NowEdges

\* What was analysed is what there is, unless a change goes unnoticed.
LEMMA AnalysedIsNow ==
  ASSUME Types, ToldInv, Settled, NEW k \in InList, IsAnalysed(k), ~info[k].deleted,
         ~Unnoticed(PathOf(k))
  PROVE  /\ Now(PathOf(k)) = info[k].parsed
         /\ NowEdges[PathOf(k)] = PathsOf(info[k].imports)
<1>1. k \in DOMAIN info /\ info[k] \in Objects /\ PathOf(k) \in Paths
  BY GraphIsTyped DEF Types, InfoType, ObjectIds, PathOf
<1>2. info[k].parsed # NoTree /\ info[k].parsed \in AllTexts \cup {Empty}
      /\ info[k].parsed \notin {Absent, Closed}
  BY <1>1, TextsAssumption DEF IsAnalysed, Objects, Texts
<1>3. info[k].dirty => info[k].doc = info[k].parsed
  BY DEF IsAnalysed
<1>4. events[PathOf(k)] = "none" /\ PathOf(k) \notin unmarked
  BY <1>1 DEF Settled, Unnoticed
<1>5. ~info[k].dirty => KnownText(k) /\ ~IsParseRequired(info[k])
  BY <1>2 DEF ToldInv, TextIsKnown, KnownText, IsParseRequired
<1>6. Now(PathOf(k)) = info[k].parsed
  <2>1. CASE IsOpen(info[k])
    <3>1. Now(PathOf(k)) = info[k].doc
      BY <2>1, NowIsText
    <3> QED
      BY <1>3, <1>5, <2>1, <3>1 DEF KnownText
  <2>2. CASE ~IsOpen(info[k])
    <3>1. Now(PathOf(k)) = disk[PathOf(k)]
      BY <2>2, NowIsText
    <3>2. ~info[k].dirty
      BY <1>2, <1>3, <2>2 DEF IsOpen
    <3>3. info[k].parsed = disk[PathOf(k)] \/ ~DidContentsChangeOnDisk(k)
      BY <1>4, <1>5, <2>2, <3>2 DEF KnownText
    <3>4. info[k].parsed = disk[PathOf(k)]
      BY <2>2, <3>2, <3>3 DEF Unnoticed, AtPath
    <3> QED
      BY <3>1, <3>4
  <2> QED
    BY <2>1, <2>2
<1>7. NowEdges[PathOf(k)] = {h \in ImportsOf[info[k].parsed] : disk[h] # Absent}
  BY <1>1, <1>2, <1>6 DEF NowEdges
<1>8. ImportsOf[info[k].parsed] \subseteq Paths
  BY <1>2, TextsAssumption
<1>9. PathsOf(info[k].imports) = ImportsOf[info[k].parsed] \cap OnDisk
  BY DEF IsAnalysed, ImportsRight
<1> QED
  BY <1>6, <1>7, <1>8, <1>9 DEF OnDisk

\* When all has settled, a file that is to be checked has been, and what was seen is right.
LEMMA SettledIsSeen ==
  ASSUME Types, RestInv, ToldInv, SeenInv, Settled, NEW i \in InList, ShouldCheckFile(info[i])
  PROVE  SeenRight(i)
<1>1. turn.at = "idle" /\ ~timer
  BY TurnsAreTyped DEF Settled, IsIdle
<1>2. ~Renamed
  BY DEF Settled, Renamed
<1>3. "filesLeft" \notin failed
  BY <1>1, <1>2 DEF ToldInv, GoneIsTold
<1>4. ~info[i].check
  BY <1>1, <1>3 DEF RestInv, AtRest
<1>5. IsRoot(info, i)
  BY DEF ShouldCheckFile, IsRoot
<1> QED
  BY <1>2, <1>4, <1>5 DEF SeenInv, SeenIsRight

\* When nothing is scheduled, nothing happens and the watcher has told of all changes, each
\* file that is to be checked was checked last against the present texts of exactly the files
\* that its imports lead to, or one of these is a file whose change the service does not
\* notice (program.ts, analysis.ts and sourceFile.ts, as driven by service.ts).
THEOREM ChecksAreFresh == Spec => []Fresh
<1>1. ASSUME Types, RestInv, ToldInv, SeenInv, Settled,
             NEW i \in InList, ShouldCheckFile(info[i]),
             NEW S, S = Reached(PathOf(i)), \A f \in S \cup DOMAIN info[i].seen : ~Unnoticed(f)
      PROVE  info[i].seen = [f \in S |-> Now(f)]
  <2> DEFINE seen == info[i].seen
  <2>1. SeenRight(i) /\ i \in DOMAIN info /\ PathOf(i) \in Paths /\ InList \subseteq DOMAIN info
    BY <1>1, SettledIsSeen, GraphIsTyped DEF Types, InfoType, ObjectIds, PathOf
  <2>2. /\ i \in Below(i) /\ Below(i) \subseteq DOMAIN info
        /\ \A k \in Below(i) : PathOf(k) \notin unmarked => info[k].imports \subseteq Below(i)
        /\ \A T \in SUBSET DOMAIN info :
             i \in T /\ (\A k \in T : PathOf(k) \notin unmarked => info[k].imports \subseteq T)
               => Below(i) \subseteq T
    BY <1>1, <2>1, BelowIsLeast
  <2>3. ASSUME NEW k \in Below(i)
        PROVE  /\ PathOf(k) \in DOMAIN seen /\ seen[PathOf(k)] = Now(PathOf(k))
               /\ PathOf(k) \notin unmarked /\ PathOf(k) \in Paths
               /\ NowEdges[PathOf(k)] = PathsOf(info[k].imports)
    <3>1. AsSeen(k, seen)
      BY <2>1, <2>3 DEF SeenRight
    <3>2. k \in InList /\ ~info[k].deleted /\ PathOf(k) \in DOMAIN seen
      BY <3>1 DEF AsSeen
    <3>3. ~Unnoticed(PathOf(k))
      BY <1>1, <3>2
    <3>4. PathOf(k) \notin unmarked
      BY <3>3 DEF Unnoticed
    <3>5. seen[PathOf(k)] = info[k].parsed /\ IsAnalysed(k)
      BY <3>1, <3>4 DEF AsSeen
    <3>6. PathOf(k) \in Paths
      BY <1>1, <2>1, <3>2 DEF Types, InfoType, ObjectIds, PathOf
    <3> QED
      BY <1>1, <3>2, <3>3, <3>4, <3>5, <3>6, AnalysedIsNow
  <2>4. DOMAIN seen = PathsOf(Below(i))
    <3>1. DOMAIN seen \subseteq PathsOf(Below(i))
      BY <2>1, <2>3 DEF SeenRight
    <3> QED
      BY <2>3, <3>1 DEF PathsOf
  <2>5. S = Closure(NowEdges, {PathOf(i)})
    BY <1>1 DEF Reached, NowEdges
  <2>6. /\ PathOf(i) \in S /\ S \subseteq Paths /\ IsClosed(NowEdges, S)
        /\ \A T \in SUBSET Paths : PathOf(i) \in T /\ IsClosed(NowEdges, T) => S \subseteq T
    <3>1. IsGraph(NowEdges) /\ DOMAIN NowEdges = Paths /\ {PathOf(i)} \subseteq DOMAIN NowEdges
      BY <1>1, <2>1, NowIsText
    <3>2. /\ {PathOf(i)} \subseteq Closure(NowEdges, {PathOf(i)})
          /\ Closure(NowEdges, {PathOf(i)}) \subseteq DOMAIN NowEdges
          /\ IsClosed(NowEdges, Closure(NowEdges, {PathOf(i)}))
          /\ \A T \in SUBSET DOMAIN NowEdges :
               {PathOf(i)} \subseteq T /\ IsClosed(NowEdges, T)
                 => Closure(NowEdges, {PathOf(i)}) \subseteq T
      BY <3>1, ClosureIsLeast
    <3> QED
      BY <2>5, <3>1, <3>2
  <2>7. S \subseteq PathsOf(Below(i))
    <3>1. PathsOf(Below(i)) \in SUBSET Paths /\ PathOf(i) \in PathsOf(Below(i))
      BY <2>2, <2>3 DEF PathsOf
    <3>2. ASSUME NEW f \in PathsOf(Below(i)) PROVE NowEdges[f] \subseteq PathsOf(Below(i))
      <4>1. PICK k \in Below(i) : PathOf(k) = f
        BY <3>2 DEF PathsOf
      <4>2. info[k].imports \subseteq Below(i) /\ NowEdges[f] = PathsOf(info[k].imports)
        BY <2>2, <2>3, <4>1
      <4> QED
        BY <4>2 DEF PathsOf
    <3>3. IsClosed(NowEdges, PathsOf(Below(i)))
      BY <3>2 DEF IsClosed
    <3> QED
      BY <2>6, <3>1, <3>3
  <2>8. PathsOf(Below(i)) \subseteq S
    <3> DEFINE T == {k \in Below(i) : PathOf(k) \in S}
    <3>1. i \in T /\ T \in SUBSET DOMAIN info
      BY <2>2, <2>6
    <3>2. ASSUME NEW k \in T PROVE info[k].imports \subseteq T
      <4>1. PathsOf(info[k].imports) \subseteq S
        BY <2>3, <2>6, <3>2 DEF IsClosed
      <4>2. info[k].imports \subseteq Below(i)
        BY <2>2, <2>3, <3>2
      <4> QED
        BY <4>1, <4>2 DEF PathsOf
    <3> HIDE DEF T
    <3>3. Below(i) \subseteq T
      BY <2>2, <3>1, <3>2
    <3> QED
      BY <3>3 DEF PathsOf, T
  <2>9. DOMAIN seen = S /\ \A f \in S : seen[f] = Now(f)
    BY <2>3, <2>4, <2>7, <2>8 DEF PathsOf
  <2>10. seen = [f \in DOMAIN seen |-> seen[f]]
    <3>1. info[i] \in Objects
      BY <1>1, <2>1 DEF Types, InfoType
    <3>2. seen \in Seens
      BY <3>1 DEF Objects
    <3> HIDE DEF seen
    <3> QED
      BY <3>2 DEF Seens
  <2> HIDE DEF seen
  <2>11. seen = [f \in S |-> Now(f)]
    BY <2>9, <2>10
  <2> QED
    BY <2>11 DEF seen
<1>2. Types /\ RestInv /\ ToldInv /\ SeenInv => Fresh
  BY <1>1 DEF Fresh
<1> QED
  BY <1>2, TypesAreKept, RestIsKept, SeenIsKept, PTL
=============================================================================
