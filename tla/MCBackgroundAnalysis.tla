------------------------ MODULE MCBackgroundAnalysis ------------------------
(* An instance of BackgroundAnalysis for TLC: one module that another imports. *)
EXTENDS BackgroundAnalysis, TLC

CONSTANTS lib, app

ImportersOf == (lib :> {app}) @@ (app :> {})
=============================================================================
