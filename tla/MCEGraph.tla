------------------------------ MODULE MCEGraph ------------------------------
(***************************************************************************)
(* Instances of EGraph for TLC.                                            *)
(***************************************************************************)
EXTENDS EGraph

CONSTANTS x, y, f, g

Arities == [o \in Ops |-> IF o \in {x, y} THEN 0 ELSE IF o = f THEN 1 ELSE 2]
OwnFact == [o \in Ops |-> {o} \cap Facts]
=============================================================================
