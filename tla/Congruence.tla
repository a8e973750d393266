----------------------------- MODULE Congruence -----------------------------
(***************************************************************************)
(* What an EGraph promises (egraph/rs/egraph.rs, the comments of add(),    *)
(* union() and rebuild()), with nothing said of memo, parents, work lists  *)
(* or the analysis: of the terms that were added it knows what union() was *)
(* told, while it rebuilds it learns what follows and nothing else, and    *)
(* when that is done it knows all that follows.                            *)
(***************************************************************************)
EXTENDS Integers

CONSTANTS Ids, Ops, Arity

VARIABLES
  term,        \* of each id made, the operator and the ids it is applied to
  class,       \* of each id made, the one that stands for its class
  rebuilding,
  complete     \* is all that follows known?

vars == <<term, class, rebuilding, complete>>

Made == DOMAIN class

Nodes(S) == UNION {[op : {o}, args : [1..Arity[o] -> S]] : o \in Ops}

\* A node with the classes of its children.
Over(n) == [op |-> n.op, args |-> [k \in DOMAIN n.args |-> class[n.args[k]]]]

Init ==
  /\ term = [i \in {} |-> i] /\ class = [i \in {} |-> i]
  /\ rebuilding = FALSE /\ complete = TRUE

\* add() of what is not there yet, as far as is known: what is there may be overlooked only
\* while not all that follows is known.
Include(i, n) ==
  /\ ~rebuilding
  /\ complete => \A j \in Made : Over(term[j]) # Over(n)
  /\ class' = [j \in Made \cup {i} |-> IF j = i THEN i ELSE class[j]]
  /\ term' = [j \in Made \cup {i} |-> IF j = i THEN n ELSE term[j]]
  /\ UNCHANGED <<rebuilding, complete>>

\* One of the two classes is joined to the other.
Joined(i, j) == [k \in Made |-> IF class[k] = class[j] THEN class[i] ELSE class[k]]

Join(i, j) ==
  /\ class[i] # class[j]
  /\ class' \in {Joined(i, j), Joined(j, i)}
  /\ complete' = FALSE
  /\ UNCHANGED <<term, rebuilding>>

\* union().
Tell(i, j) == ~rebuilding /\ Join(i, j)

\* What rebuild() learns: equal operators on equal children are equal.
Derive(i, j) == rebuilding /\ Over(term[i]) = Over(term[j]) /\ Join(i, j)

Congruent == \A i, j \in Made : Over(term[i]) = Over(term[j]) => class[i] = class[j]

Begin == ~rebuilding /\ rebuilding' = TRUE /\ UNCHANGED <<term, class, complete>>

Finish ==
  /\ rebuilding /\ Congruent
  /\ rebuilding' = FALSE /\ complete' = TRUE
  /\ UNCHANGED <<term, class>>

Next ==
  \/ \E i \in Ids \ Made, n \in Nodes(Made) : Include(i, n)
  \/ \E i, j \in Made : Tell(i, j) \/ Derive(i, j)
  \/ Begin
  \/ Finish

Spec == Init /\ [][Next]_vars
=============================================================================
