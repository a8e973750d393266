------------------------------ MODULE MCGetErr ------------------------------
(* Instances of GetErr for TLC. *)
EXTENDS GetErr

CONSTANTS d1, d2, d3

TwoDocs   == {d1, d2}
ThreeDocs == {d1, d2, d3}
=============================================================================
