-------------------------- MODULE CongruenceProofs --------------------------
(***************************************************************************)
(* What follows from the promises of an e-graph, whatever keeps them: when *)
(* it is complete, the classes are the smallest congruence that contains   *)
(* what it was told.                                                       *)
(***************************************************************************)
EXTENDS Congruence, TLAPS

\* Terms are made of terms.
Formed ==
  /\ DOMAIN term = Made /\ class \in [Made -> Made]
  /\ \A i \in Made : term[i] \in Nodes(Made)

(***************************************************************************)
(* A node over some classes is one over more.                              *)
(***************************************************************************)
LEMMA NodesGrow ==
  ASSUME NEW S, NEW T, S \subseteq T
  PROVE  Nodes(S) \subseteq Nodes(T)
<1> SUFFICES ASSUME NEW n \in Nodes(S)
             PROVE  n \in Nodes(T)
  OBVIOUS
<1>1. PICK o \in Ops : n \in [op : {o}, args : [1..Arity[o] -> S]]
  BY DEF Nodes
<1>2. n \in [op : {o}, args : [1..Arity[o] -> T]]
  BY <1>1
<1> QED
  BY <1>2 DEF Nodes

(***************************************************************************)
(* The children of a node are ids over which it is one.                    *)
(***************************************************************************)
LEMMA Args ==
  ASSUME NEW S, NEW n \in Nodes(S)
  PROVE  \A k \in DOMAIN n.args : n.args[k] \in S
<1>1. PICK o \in Ops : n \in [op : {o}, args : [1..Arity[o] -> S]]
  BY DEF Nodes
<1> QED
  BY <1>1

(***************************************************************************)
(* A join leaves the terms as they are and puts two classes together.      *)
(***************************************************************************)
LEMMA JoinIs ==
  ASSUME Formed, NEW i \in Made, NEW j \in Made, Join(i, j)
  PROVE  /\ Formed' /\ Made' = Made /\ term' = term
         /\ \A k, l \in Made : class'[k] = class'[l] =>
              \/ class[k] = class[l]
              \/ class[k] = class[i] /\ class[l] = class[j]
              \/ class[k] = class[j] /\ class[l] = class[i]
<1>1. DOMAIN class' = Made /\ Made' = Made /\ term' = term
  BY DEF Join, Joined, Made
<1>2. class' \in [Made -> Made]
  BY DEF Join, Joined, Formed
<1>3. Formed'
  BY <1>1, <1>2 DEF Formed, Nodes
<1>4. ASSUME NEW k \in Made, NEW l \in Made, class'[k] = class'[l]
      PROVE  \/ class[k] = class[l]
             \/ class[k] = class[i] /\ class[l] = class[j]
             \/ class[k] = class[j] /\ class[l] = class[i]
  BY <1>4 DEF Join, Joined
<1> QED
  BY <1>1, <1>3, <1>4

(***************************************************************************)
(* A new id is a class of its own, with the node for which it was made.    *)
(***************************************************************************)
LEMMA IncludeIs ==
  ASSUME Formed, NEW i \in Ids \ Made, NEW n \in Nodes(Made), Include(i, n)
  PROVE  /\ Formed' /\ Made' = Made \cup {i}
         /\ \A k \in Made : class'[k] = class[k] /\ term'[k] = term[k]
         /\ class'[i] = i /\ term'[i] = n
<1>1. /\ class' = [j \in Made \cup {i} |-> IF j = i THEN i ELSE class[j]]
      /\ term' = [j \in Made \cup {i} |-> IF j = i THEN n ELSE term[j]]
  BY DEF Include
<1>2. Made' = Made \cup {i} /\ DOMAIN term' = Made'
  BY <1>1 DEF Made
<1>3. /\ \A k \in Made : class'[k] = class[k] /\ term'[k] = term[k]
      /\ class'[i] = i /\ term'[i] = n
  BY <1>1
<1>4. class' \in [Made' -> Made']
  BY <1>1, <1>2 DEF Formed
<1>5. \A j \in Made' : term'[j] \in Nodes(Made')
  BY <1>2, <1>3, NodesGrow DEF Formed
<1>6. Formed'
  BY <1>2, <1>4, <1>5 DEF Formed, Nodes
<1> QED
  BY <1>2, <1>3, <1>6

(***************************************************************************)
(* Terms are made of terms at all times.                                   *)
(***************************************************************************)
LEMMA AlwaysFormed == Spec => []Formed
<1>1. Init => Formed
  BY DEF Init, Formed, Made
<1>2. Formed /\ [Next]_vars => Formed'
  <2> SUFFICES ASSUME Formed, [Next]_vars
               PROVE  Formed'
    OBVIOUS
  <2>1. CASE \E i \in Ids \ Made, n \in Nodes(Made) : Include(i, n)
    BY <2>1, IncludeIs
  <2>2. CASE \E i, j \in Made : Tell(i, j) \/ Derive(i, j)
    BY <2>2, JoinIs DEF Tell, Derive
  <2>3. CASE UNCHANGED <<term, class>>
    BY <2>3 DEF Formed, Made, Nodes
  <2> QED
    BY <2>1, <2>2, <2>3 DEF Next, Begin, Finish, vars
<1> QED
  BY <1>1, <1>2, PTL DEF Spec

(***************************************************************************)
(* A complete e-graph knows all that follows from what it knows: equal     *)
(* operators on equal children are equal, and stay so until it is told     *)
(* something new.                                                          *)
(***************************************************************************)
THEOREM CompleteIsCongruent == Spec => [](complete => Congruent)
<1>1. Init => (complete => Congruent)
  BY DEF Init, Congruent, Made
<1>2. Formed /\ (complete => Congruent) /\ [Next]_vars => (complete => Congruent)'
  <2> SUFFICES ASSUME Formed, complete => Congruent, [Next]_vars, complete'
               PROVE  Congruent'
    OBVIOUS
  <2>1. ASSUME NEW i \in Ids \ Made, NEW n \in Nodes(Made), Include(i, n)
        PROVE  Congruent'
    <3>1. /\ Made' = Made \cup {i} /\ complete
          /\ \A k \in Made : class'[k] = class[k] /\ term'[k] = term[k]
          /\ class'[i] = i /\ term'[i] = n
      BY <2>1, IncludeIs DEF Include
    <3>2. \A k \in Made : Over(term[k]) # Over(n)
      BY <2>1, <3>1 DEF Include
    <3>3. ASSUME NEW k \in Made' PROVE Over(term[k])' = Over(term'[k])
      <4>1. \A l \in DOMAIN term'[k].args : term'[k].args[l] \in Made
        BY <3>1, Args DEF Formed
      <4> QED
        BY <3>1, <4>1 DEF Over
    <3>4. ASSUME NEW k \in Made', NEW l \in Made', Over(term[k])' = Over(term[l])'
          PROVE  class'[k] = class'[l]
      <4>1. CASE k \in Made /\ l \in Made
        BY <3>1, <3>3, <3>4, <4>1 DEF Congruent
      <4>2. CASE k = i \/ l = i
        BY <3>1, <3>2, <3>3, <3>4, <4>2
      <4> QED
        BY <3>1, <4>1, <4>2
    <3> QED
      BY <3>4 DEF Congruent
  <2>2. CASE \E i, j \in Made : Tell(i, j) \/ Derive(i, j)
    BY <2>2 DEF Tell, Derive, Join
  <2>3. CASE Begin \/ Finish \/ UNCHANGED vars
    BY <2>3 DEF Begin, Finish, vars, Congruent, Made, Over
  <2> QED
    BY <2>1, <2>2, <2>3 DEF Next
<1> QED
  BY <1>1, <1>2, AlwaysFormed, PTL DEF Spec

-----------------------------------------------------------------------------
(* What the terms mean: a value for each id. *)

\* Equal operators on equal values have equal values.
Models(value) ==
  \A i, j \in Made :
    /\ term[i].op = term[j].op /\ DOMAIN term[i].args = DOMAIN term[j].args
    /\ \A k \in DOMAIN term[i].args : value[term[i].args[k]] = value[term[j].args[k]]
    => value[i] = value[j]

\* A step that tells something tells it of ids with equal values.
ToldTrue(value) ==
  (\E i, j \in Made : Tell(i, j)) => \E i, j \in Made : Tell(i, j) /\ value[i] = value[j]

\* What is known to be equal has equal values.
True(value) == \A i, j \in Made : class[i] = class[j] => value[i] = value[j]

(***************************************************************************)
(* An e-graph knows nothing that does not follow: in every meaning of the  *)
(* operators in which what it was told holds, all that it knows holds.     *)
(***************************************************************************)
THEOREM KnowsOnlyWhatFollows ==
  ASSUME NEW CONSTANT value
  PROVE  Spec /\ []Models(value) /\ [][ToldTrue(value)]_vars => []True(value)
<1>1. Init => True(value)
  BY DEF Init, True, Made
<1>2. Formed /\ Formed' /\ Models(value) /\ True(value) /\ [Next]_vars /\ [ToldTrue(value)]_vars
        => True(value)'
  <2> SUFFICES ASSUME Formed, Formed', Models(value), True(value), [Next]_vars,
                      [ToldTrue(value)]_vars
               PROVE  True(value)'
    OBVIOUS
  <2>1. ASSUME NEW i \in Ids \ Made, NEW n \in Nodes(Made), Include(i, n)
        PROVE  True(value)'
    BY <2>1, IncludeIs DEF True, Formed
  <2>2. ASSUME NEW i \in Made, NEW j \in Made, Join(i, j), value[i] = value[j]
        PROVE  True(value)'
    <3>1. /\ Made' = Made
          /\ \A k, l \in Made : class'[k] = class'[l] =>
               \/ class[k] = class[l]
               \/ class[k] = class[i] /\ class[l] = class[j]
               \/ class[k] = class[j] /\ class[l] = class[i]
      BY <2>2, JoinIs
    <3> QED
      BY <2>2, <3>1 DEF True
  <2>3. ASSUME NEW i \in Made, NEW j \in Made, Derive(i, j)
        PROVE  value[i] = value[j]
    <3>1. Over(term[i]) = Over(term[j])
      BY <2>3 DEF Derive
    <3>2. term[i].op = term[j].op /\ DOMAIN term[i].args = DOMAIN term[j].args
      BY <3>1 DEF Over
    <3>3. ASSUME NEW k \in DOMAIN term[i].args
          PROVE  value[term[i].args[k]] = value[term[j].args[k]]
      <4>1. term[i].args[k] \in Made /\ term[j].args[k] \in Made
        BY <3>2, Args DEF Formed
      <4>2. class[term[i].args[k]] = class[term[j].args[k]]
        <5>1. /\ Over(term[i]).args[k] = class[term[i].args[k]]
              /\ Over(term[j]).args[k] = class[term[j].args[k]]
          BY <3>2 DEF Over
        <5> QED
          BY <3>1, <5>1
      <4> QED
        BY <4>1, <4>2 DEF True
    <3> QED
      BY <3>2, <3>3 DEF Models
  <2>4. ASSUME NEW i \in Made, NEW j \in Made, Tell(i, j)
        PROVE  \E k, l \in Made : Join(k, l) /\ value[k] = value[l]
    <3>1. Joined(i, j)[j] # class[j] /\ Joined(j, i)[i] # class[i]
      BY <2>4 DEF Tell, Join, Joined
    <3>2. class' # class
      BY <2>4, <3>1 DEF Tell, Join
    <3> QED
      BY <2>4, <3>2 DEF ToldTrue, vars, Tell
  <2>5. CASE Begin \/ Finish \/ UNCHANGED vars
    BY <2>5 DEF Begin, Finish, vars, True, Made
  <2> QED
    BY <2>1, <2>2, <2>3, <2>4, <2>5 DEF Next, Tell, Derive
<1> QED
  BY <1>1, <1>2, AlwaysFormed, PTL DEF Spec
=============================================================================
