------------------------------ MODULE Promises ------------------------------
(***************************************************************************)
(* What ITsServer.executeImpl promises its callers, with nothing said of   *)
(* queues, sequence numbers or messages (server.ts, interface ITsServer):  *)
(* each request executed yields at most one promise, the promise is        *)
(* settled at most once, and none is left open by a connection that has    *)
(* reported its own end.                                                   *)
(***************************************************************************)
CONSTANT Requests

VARIABLES
  promise,   \* per request: "none", "pending", or what it was settled with
  down       \* the connection has reported an exit or an error

vars == <<promise, down>>

Settlements == {"success", "noContent", "error", "cancelled", "completed"}

Init ==
  /\ promise = [r \in Requests |-> "none"]
  /\ down = FALSE

\* A promise is made, and may be settled at once (its request cannot be
\* written); other promises may be settled in the same turn of the loop.
Evolves(r) ==
  \/ promise'[r] = promise[r]
  \/ promise[r] = "pending" /\ promise'[r] \in Settlements
  \/ promise[r] = "none" /\ promise'[r] \in {"pending"} \cup Settlements

MadeNow == {r \in Requests : promise[r] = "none" /\ promise'[r] # "none"}

\* The connection works: one request is executed, or promises are settled.
Turn ==
  /\ ~down
  /\ down' = FALSE
  /\ promise' \in [Requests -> {"none", "pending"} \cup Settlements]
  /\ \A r \in Requests : Evolves(r)
  /\ \A r, q \in MadeNow : r = q

\* The connection ends: whatever is pending is cancelled.
GoDown ==
  /\ ~down
  /\ down' = TRUE
  /\ promise' = [r \in Requests |-> IF promise[r] = "pending" THEN "cancelled" ELSE promise[r]]

Next == Turn \/ GoDown

Spec == Init /\ [][Next]_vars

\* No promise stays pending for ever.
EventuallySettled == \A r \in Requests : promise[r] = "pending" ~> promise[r] # "pending"

FairSpec == Spec /\ EventuallySettled
=============================================================================
