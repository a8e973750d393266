----------------------------- MODULE MCPyProgram -----------------------------
(***************************************************************************)
(* Instances of PyProgram for TLC: an application that may import a        *)
(* module, which may import a library.                                     *)
(***************************************************************************)
EXTENDS PyProgram

CONSTANTS app, mod, lib, a, b, m1, m2, l1, l2

AllFiles == {app, mod, lib}
Contents == (app :> {a, b}) @@ (mod :> {m1, m2}) @@ (lib :> {l1, l2})
Imports  == (a :> {mod}) @@ (m1 :> {lib}) @@ [t \in {b, m2, l1, l2, Empty} |-> {}]
AllThere == {(app :> a) @@ (mod :> m1) @@ (lib :> l1)}
NoLib    == {(app :> a) @@ (mod :> m1) @@ (lib :> Absent)}

\* The texts of the library are alike: they import nothing, and it has none at first.
LibTexts == Permutations({l1, l2})
=============================================================================
