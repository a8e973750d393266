------------------------------- MODULE EGraph -------------------------------
(***************************************************************************)
(* The e-graph of egraph/rs/egraph.rs: classes of expressions that are     *)
(* known to be equal.  A node is an operator applied to classes.  add()    *)
(* and union() leave the graph in disorder, rebuild() puts it in order:    *)
(* equal operators on equal classes are equal again.                       *)
(*                                                                         *)
(* rebuild() is a loop over two work lists, a step per entry here.  It is  *)
(* entered only if the first list is not empty: if the second alone is not *)
(* it panics.  Lists are sets: neither the order in which a list is worked *)
(* off nor how often an entry is in it matters to what is claimed here.    *)
(*                                                                         *)
(* The analysis of classes is the one that collects facts: a node has the  *)
(* facts of its operator and of its children, a class those of its nodes.  *)
(* Sets of facts can be equal, smaller, larger or neither, so all outcomes *)
(* of merge() occur.  Its hook modify() is the default one, it does        *)
(* nothing.                                                                *)
(***************************************************************************)
EXTENDS Integers

CONSTANTS
  Ids,          \* identities of classes
  Ops,          \* operators
  Arity,        \* the number of children that each takes
  Facts,        \* what the analysis finds
  FactsOf       \* the facts of each operator

ASSUME ArityAssumption == Arity \in [Ops -> Nat]
ASSUME FactsAssumption == FactsOf \in [Ops -> SUBSET Facts]

VARIABLES
  leader,       \* unionfind: of each id made, the class that it stands for
  memo,         \* the class in which a node was found, of the nodes seen
  classes,      \* per class: its nodes, its parents and its data
  pending,      \* parents of classes that were merged, and new nodes
  reanalyze,    \* analysis_pending: parents of classes whose data changed
  classesByOp,  \* per operator, the classes with a node of it
  phase,        \* "idle", "rebuilding" (in process_unions()) or "panicked" there
  origin,       \* history: the node for which each id was made
  dirty         \* history: was a union made since the last rebuild?

vars == <<leader, memo, classes, pending, reanalyze, classesByOp, phase,
          origin, dirty>>

Made == DOMAIN leader

NodesOver(S) == UNION {[op : {o}, args : [1..Arity[o] -> S]] : o \in Ops}

Children(n) == {n.args[k] : k \in DOMAIN n.args}

\* A parent, or an entry of a work list: a node and the class that it is in.
EntriesOver(S) == [node : NodesOver(S), class : S]

Put(f, x, y) == [z \in DOMAIN f \cup {x} |-> IF z = x THEN y ELSE f[z]]

\* update_children() with f.
Canon(f, n) == [op |-> n.op, args |-> [k \in DOMAIN n.args |-> f[n.args[k]]]]

\* N::make().
Make(n) == FactsOf[n.op] \cup UNION {classes[leader[k]].data : k \in Children(n)}

-----------------------------------------------------------------------------
Empty == [x \in {} |-> x]

Init ==
  /\ leader = Empty /\ memo = Empty /\ classes = Empty /\ origin = Empty
  /\ pending = {} /\ reanalyze = {}
  /\ classesByOp = [o \in Ops |-> {}]
  /\ phase = "idle" /\ dirty = FALSE

\* The new node becomes a parent of each child.  Wrong form: as one in the child's class.
ParentInChild(n, id) ==
  [c \in DOMAIN classes |->
     IF c \in Children(n)
     THEN [classes[c] EXCEPT !.parents = @ \cup {[node |-> n, class |-> c]}] ELSE classes[c]]

WithParent(n, id) ==
  [c \in DOMAIN classes |->
     IF c \in Children(n)
     THEN [classes[c] EXCEPT !.parents = @ \cup {[node |-> n, class |-> id]}] ELSE classes[c]]

\* add() of a node that lookup() does not find; otherwise nothing changes.
Add(given) ==
  LET n  == Canon(leader, given)
      id == CHOOSE i \in Ids : i \notin Made
  IN  /\ phase = "idle"
      /\ Ids \ Made # {}
      /\ n \notin DOMAIN memo
      /\ leader' = Put(leader, id, id)
      /\ classes' = Put(WithParent(n, id), id,
                        [nodes |-> {n}, parents |-> {}, data |-> Make(n)])
      /\ pending' = pending \cup {[node |-> n, class |-> id]}
      /\ memo' = Put(memo, n, id)
      /\ origin' = Put(origin, id, n)
      /\ UNCHANGED <<reanalyze, classesByOp, phase, dirty>>

\* Parents of the classes a and b to be analysed again: of the class that has less than the
\* other, of both if neither has all.  Wrong form: of the class that has more.
ReanalyzeMore(a, b) ==
  (IF classes[a].data \subseteq classes[b].data THEN {} ELSE classes[a].parents) \cup
  (IF classes[b].data \subseteq classes[a].data THEN {} ELSE classes[b].parents)

Reanalyze(a, b) ==
  (IF classes[b].data \subseteq classes[a].data THEN {} ELSE classes[a].parents) \cup
  (IF classes[a].data \subseteq classes[b].data THEN {} ELSE classes[b].parents)

\* Wrong form of Merged: the nodes of d are lost.
MergedLosingNodes(c, d) == [nodes |-> c.nodes, parents |-> c.parents \cup d.parents,
                            data |-> c.data \cup d.data]

Merged(c, d) == [nodes |-> c.nodes \cup d.nodes, parents |-> c.parents \cup d.parents,
                 data |-> c.data \cup d.data]

\* union() of two classes into a, which has no fewer parents than b in the code and is any
\* of the two here; rest is what else is pending.  Wrong forms: the parents of a are taken
\* to be pending; only b itself follows a.
MergeAndRedoA(a, b, rest) ==
  /\ leader' = [i \in Made |-> IF leader[i] = b THEN a ELSE leader[i]]
  /\ classes' = [c \in DOMAIN classes \ {b} |->
                   IF c = a THEN Merged(classes[a], classes[b]) ELSE classes[c]]
  /\ pending' = rest \cup classes[a].parents
  /\ reanalyze' = reanalyze \cup Reanalyze(a, b)
  /\ dirty' = TRUE

MergeOnlyB(a, b, rest) ==
  /\ leader' = [leader EXCEPT ![b] = a]
  /\ classes' = [c \in DOMAIN classes \ {b} |->
                   IF c = a THEN Merged(classes[a], classes[b]) ELSE classes[c]]
  /\ pending' = rest \cup classes[b].parents
  /\ reanalyze' = reanalyze \cup Reanalyze(a, b)
  /\ dirty' = TRUE

Merge(a, b, rest) ==
  /\ leader' = [i \in Made |-> IF leader[i] = b THEN a ELSE leader[i]]
  /\ classes' = [c \in DOMAIN classes \ {b} |->
                   IF c = a THEN Merged(classes[a], classes[b]) ELSE classes[c]]
  /\ pending' = rest \cup classes[b].parents
  /\ reanalyze' = reanalyze \cup Reanalyze(a, b)
  /\ dirty' = TRUE

\* union() of ids that are not known to be equal; otherwise nothing changes.
Union(i, j) ==
  /\ phase = "idle"
  /\ leader[i] # leader[j]
  /\ \/ Merge(leader[i], leader[j], pending)
     \/ Merge(leader[j], leader[i], pending)
  /\ UNCHANGED <<memo, classesByOp, phase, origin>>

\* process_unions() begins.  With no pending node its loop is not entered, and the assertion
\* behind it finds what the analysis has still to do.
Rebuild ==
  /\ phase = "idle"
  /\ phase' = IF pending = {} /\ reanalyze # {} THEN "panicked" ELSE "rebuilding"
  /\ UNCHANGED <<leader, memo, classes, pending, reanalyze, classesByOp, origin, dirty>>

\* A turn of the first loop of process_unions(): the node goes to memo as it is now, and if
\* it was there with another class then the two are equal.
ProcessUnion(e) ==
  LET n == Canon(leader, e.node)
  IN  /\ phase = "rebuilding"
      /\ memo' = Put(memo, n, e.class)
      /\ IF n \in DOMAIN memo /\ leader[memo[n]] # leader[e.class]
         THEN \/ Merge(leader[memo[n]], leader[e.class], pending \ {e})
              \/ Merge(leader[e.class], leader[memo[n]], pending \ {e})
         ELSE /\ pending' = pending \ {e}
              /\ UNCHANGED <<leader, classes, reanalyze, dirty>>
      /\ UNCHANGED <<classesByOp, phase, origin>>

\* A turn of the second loop.  Wrong form: parents are analysed again in any case.
AnalyzeForEver(e) ==
  LET c == leader[e.class]
  IN  /\ phase = "rebuilding" /\ pending = {}
      /\ classes' = [classes EXCEPT ![c].data = @ \cup Make(e.node)]
      /\ reanalyze' = (reanalyze \ {e}) \cup classes[c].parents
      /\ UNCHANGED <<leader, memo, pending, classesByOp, phase, origin, dirty>>

ProcessAnalysis(e) ==
  LET c == leader[e.class]
  IN  /\ phase = "rebuilding" /\ pending = {}
      /\ classes' = [classes EXCEPT ![c].data = @ \cup Make(e.node)]
      /\ reanalyze' = (reanalyze \ {e}) \cup
           (IF Make(e.node) \subseteq classes[c].data THEN {} ELSE classes[c].parents)
      /\ UNCHANGED <<leader, memo, pending, classesByOp, phase, origin, dirty>>

\* rebuild_classes(), at the end.
RebuildClasses ==
  LET nodes == [c \in DOMAIN classes |-> {Canon(leader, n) : n \in classes[c].nodes}]
  IN  /\ phase = "rebuilding" /\ pending = {} /\ reanalyze = {}
      /\ classes' = [c \in DOMAIN classes |-> [classes[c] EXCEPT !.nodes = nodes[c]]]
      /\ classesByOp' = [o \in Ops |-> {c \in DOMAIN classes : \E n \in nodes[c] : n.op = o}]
      /\ phase' = "idle" /\ dirty' = FALSE
      /\ UNCHANGED <<leader, memo, pending, reanalyze, origin>>

User ==
  \/ \E n \in NodesOver(Made) : Add(n)
  \/ \E i, j \in Made : Union(i, j)
  \/ Rebuild

RebuildStep ==
  \/ \E e \in pending : ProcessUnion(e)
  \/ \E e \in reanalyze : ProcessAnalysis(e)
  \/ RebuildClasses

Next == User \/ RebuildStep

Spec == Init /\ [][Next]_vars

FairSpec == Spec /\ WF_vars(RebuildStep)

-----------------------------------------------------------------------------
(* Properties *)

\* The types, and that an id stands for a class that exists and stands for itself.
TypeOK ==
  /\ Made \subseteq Ids /\ leader \in [Made -> Made]
  /\ DOMAIN classes = {i \in Made : leader[i] = i}
  /\ \A i \in Made : leader[leader[i]] = leader[i]
  /\ DOMAIN memo \subseteq NodesOver(Made) /\ memo \in [DOMAIN memo -> Made]
  /\ classes \in [DOMAIN classes -> [nodes : SUBSET NodesOver(Made),
                                     parents : SUBSET EntriesOver(Made), data : SUBSET Facts]]
  /\ pending \subseteq EntriesOver(Made) /\ reanalyze \subseteq EntriesOver(Made)
  /\ classesByOp \in [Ops -> SUBSET Made]
  /\ phase \in {"idle", "rebuilding", "panicked"} /\ dirty \in BOOLEAN
  /\ origin \in [Made -> NodesOver(Made)]

\* Once rebuilt, all that follows from what union() was told is known: equal operators on
\* equal children are equal, and no two classes hold the same node.
Congruent ==
  ~dirty => \A i, j \in Made :
    Canon(leader, origin[i]) = Canon(leader, origin[j]) => leader[i] = leader[j]

\* check_memo(): once rebuilt, lookup() finds each node of each class there.
MemoRight ==
  ~dirty => \A c \in DOMAIN classes : \A n \in classes[c].nodes :
    n \in DOMAIN memo /\ leader[memo[n]] = c

\* No node is lost or strays: a class has those for which its ids were made.
NodesKept ==
  \A c \in DOMAIN classes :
    {Canon(leader, n) : n \in classes[c].nodes}
      = {Canon(leader, origin[i]) : i \in {j \in Made : leader[j] = c}}

\* Once rebuilt, the data of a class are those of its nodes taken together.
AnalysisRight ==
  ~dirty => \A c \in DOMAIN classes : classes[c].data = UNION {Make(n) : n \in classes[c].nodes}

\* The e-graph knows what it was told and what follows, see Congruence: rebuild() joins two
\* classes only if they have a node in common, and ends when no two have.
Abstract == INSTANCE Congruence WITH term <- origin, class <- leader,
              rebuilding <- phase # "idle", complete <- ~dirty

KnowsWhatFollows == Abstract!Spec

\* A rebuild that does not panic when it begins comes to an end and returns.
RebuildEnds == phase = "rebuilding" ~> phase = "idle"

\* The assertion of process_unions(): when its loop is over, or was not entered, the analysis
\* has nothing left to do.
AnalysisDrained == phase # "panicked"
=============================================================================
