-------------------------- MODULE MCServiceClient --------------------------
(***************************************************************************)
(* Small instances of ServiceClient for TLC.                               *)
(***************************************************************************)
EXTENDS ServiceClient, TLC

CONSTANTS d1, d2, t1, t2

Symmetry == Permutations({d1, d2}) \cup Permutations({t1, t2})

Interrupted == {"crash", "fatal", "restart"}
Everything  == {"crash", "fatal", "restart", "error"}
=============================================================================
