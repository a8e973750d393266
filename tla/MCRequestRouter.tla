--------------------------- MODULE MCRequestRouter ---------------------------
(* Instances of RequestRouter for TLC. *)
EXTENDS RequestRouter

OneOfEach == {"updateOpen", "configure", "geterr"}
=============================================================================
