------------------------------- MODULE GetErr -------------------------------
(***************************************************************************)
(* When diagnostics are asked for: the other half of BufferSyncSupport     *)
(* (semcode/direct/src/server/buffer.ts) with PendingDiags, GetErrRequest  *)
(* and the Delayer of utils/base.ts.                                       *)
(*                                                                         *)
(* What the server does with a 'geterr' and how it comes and goes is left  *)
(* to TsServer and ServiceClient; here it is up, down or errored.  A       *)
(* server started in the middle of a handler (by a flush) is one started   *)
(* just before it, with one exception: SendGetErr.                         *)
(***************************************************************************)
EXTENDS Naturals

CONSTANTS
  Docs,            \* documents, each of a kind of its own (JavaScript, TypeScript)
  Semantic,        \* those the server can check, given its capabilities
  ProjectDiags     \* configuration.enableProjectDiags

ASSUME DocsAssumption == Semantic \subseteq Docs /\ ProjectDiags \in BOOLEAN

\* Two objects GetErrRequest are enough: one that is pending and its successor.
NoRequest == 0
Requests  == 1..2

VARIABLES
  syncedBuffers,   \* the open documents
  validate,        \* the documents whose kind is validated
  pendingDiags,    \* PendingDiags, without the times that order it
  delayer,         \* diagnosticDelayer: its time-out is "off", it is "set" and has a task, or
                   \* it is "empty": set, but the task is gone
  pendingGetErr,   \* the GetErrRequest that counts
  getErr,          \* per request: "free", "running" or "immediate" (nothing to ask)
  server,          \* serverState: "up", "down" or "errored"
  \* History, for the properties:
  owed,            \* documents whose diagnostics were requested and not received
  asked            \* those of them that pendingGetErr will bring as they are now

vars == <<syncedBuffers, validate, pendingDiags, delayer, pendingGetErr, getErr, server, owed, asked>>

TypeOK ==
  /\ syncedBuffers \subseteq Docs /\ validate \subseteq Docs
  /\ pendingDiags \subseteq syncedBuffers
  /\ delayer \in {"off", "set", "empty"}
  /\ pendingGetErr \in Requests \cup {NoRequest}
  /\ getErr \in [Requests -> {"free", "running", "immediate"}]
  /\ server \in {"up", "down", "errored"}
  /\ owed \subseteq syncedBuffers \cap Semantic
  /\ asked \subseteq Semantic

Init ==
  /\ syncedBuffers = {} /\ validate \in SUBSET Docs
  /\ pendingDiags = {} /\ delayer = "off"
  /\ pendingGetErr = NoRequest /\ getErr = [r \in Requests |-> "free"]
  /\ server = "up"
  /\ owed = {} /\ asked = {}

-----------------------------------------------------------------------------
(* GetErrRequest *)

\* onDone(): the callback that executeGetErrRequest is given.  Wrong form: it does
\* not look whose callback it is.
OnDoneOfAny(current, request) == NoRequest

OnDone(current, request) == IF current = request THEN NoRequest ELSE current

\* cancel(): the connection settles a cancelled request at once, and its callback
\* runs as a microtask when the handler is done with `current' pending.
Cancelled(request) ==
  [r \in Requests |-> IF r = request /\ getErr[r] = "running" THEN "free" ELSE getErr[r]]

AfterCancel(current, request) ==
  IF request # NoRequest /\ getErr[request] = "running" THEN OnDone(current, request) ELSE current

-----------------------------------------------------------------------------
(* Requests for diagnostics. *)

\* History: the diagnostics of these documents are wanted anew.
Want(docs) ==
  /\ owed' = owed \cup (docs \cap Semantic)
  /\ asked' = asked \ docs

\* pendingDiags.set() for these and triggerDiags().  Wrong form: no trigger.
RequestWithoutTrigger(docs) ==
  /\ pendingDiags' = pendingDiags \cup docs
  /\ delayer' = delayer
  /\ Want(docs)

Request(docs) ==
  /\ pendingDiags' = pendingDiags \cup docs
  /\ delayer' = "set"
  /\ Want(docs)

\* Give up the request that is under way, and trigger another.
CancelAndTrigger ==
  /\ getErr' = Cancelled(pendingGetErr)
  /\ pendingGetErr' = AfterCancel(NoRequest, pendingGetErr)
  /\ delayer' = "set"
  /\ asked' = {}
  /\ UNCHANGED <<pendingDiags, owed>>

OpenTextDocument(d) ==
  /\ d \notin syncedBuffers
  /\ syncedBuffers' = syncedBuffers \cup {d}
  /\ IF d \in validate THEN Request({d}) ELSE UNCHANGED <<pendingDiags, delayer, owed, asked>>
  /\ UNCHANGED <<validate, pendingGetErr, getErr, server>>

\* onDidChangeTextDocument(): an edit of a document that is not validated starts the
\* request under way anew.  Wrong form: it only cancels it.
ChangeAndCancel(d) ==
  /\ d \in syncedBuffers
  /\ \/ d \in validate /\ Request({d}) /\ UNCHANGED <<pendingGetErr, getErr>>
     \/ /\ d \notin validate
        /\ getErr' = Cancelled(pendingGetErr)
        /\ pendingGetErr' = AfterCancel(NoRequest, pendingGetErr)
        /\ asked' = {}
        /\ UNCHANGED <<pendingDiags, delayer, owed>>
  /\ UNCHANGED <<syncedBuffers, validate, server>>

ChangeTextDocument(d) ==
  /\ d \in syncedBuffers
  /\ \/ d \in validate /\ Request({d}) /\ UNCHANGED <<pendingGetErr, getErr>>
     \/ d \notin validate /\ pendingGetErr # NoRequest /\ CancelAndTrigger
     \/ /\ d \notin validate /\ pendingGetErr = NoRequest
        /\ UNCHANGED <<pendingDiags, delayer, pendingGetErr, getErr, owed, asked>>
  /\ UNCHANGED <<syncedBuffers, validate, server>>

\* closeResource(): the close of a document the server never got to know asks for
\* nothing (wasBufferOpen, see ServiceClient).
CloseResource(d) ==
  /\ d \in syncedBuffers
  /\ syncedBuffers' = syncedBuffers \ {d}
  /\ LET others == (syncedBuffers \ {d}) \cap validate
     IN  \/ /\ pendingDiags' = (pendingDiags \ {d}) \cup others
            /\ delayer' = "set"
            /\ owed' = (owed \ {d}) \cup (others \cap Semantic)
            /\ asked' = asked \ (others \cup {d})
         \/ /\ pendingDiags' = pendingDiags \ {d}
            /\ delayer' = delayer
            /\ owed' = owed \ {d}
            /\ asked' = asked \ {d}
  /\ UNCHANGED <<validate, pendingGetErr, getErr, server>>

\* requestAllDiags() of reloadProjects(), and of the editors that become visible.
RequestAllDiags ==
  /\ Request(syncedBuffers \cap validate)
  /\ UNCHANGED <<syncedBuffers, validate, pendingGetErr, getErr, server>>

RequestVisible(docs) ==
  /\ docs \cap syncedBuffers \cap validate # {}
  /\ Request(docs \cap syncedBuffers \cap validate)
  /\ UNCHANGED <<syncedBuffers, validate, pendingGetErr, getErr, server>>

\* getErr(): a server says 'projectsUpdatedInBackground', perhaps one given up.
GetErrFor(docs) ==
  /\ docs \cap syncedBuffers # {}
  /\ Request(docs \cap syncedBuffers)
  /\ UNCHANGED <<syncedBuffers, validate, pendingGetErr, getErr, server>>

UpdateConfig(kinds) ==
  /\ validate' = kinds
  /\ UNCHANGED <<syncedBuffers, pendingDiags, delayer, pendingGetErr, getErr, server, owed, asked>>

\* interruptGetErr(): a query of the user goes first.  If it throws (there is no
\* server) nothing is triggered.
InterruptGetErr ==
  /\ pendingGetErr # NoRequest /\ ~ProjectDiags
  /\ \/ CancelAndTrigger
     \/ /\ server # "up"
        /\ getErr' = Cancelled(pendingGetErr)
        /\ pendingGetErr' = AfterCancel(NoRequest, pendingGetErr)
        /\ asked' = {}
        /\ UNCHANGED <<pendingDiags, delayer, owed>>
  /\ UNCHANGED <<syncedBuffers, validate, server>>

-----------------------------------------------------------------------------
(* sendPendingDiags(), when the delayer's time has come. *)

\* What it asks for: pendingDiags and all open documents, to which the files of
\* the last request that are still open add nothing.  Wrong form: only what is pending.
OnlyPending == pendingDiags

FilesToAsk == pendingDiags \cup syncedBuffers

\* There is nothing open.
SendNothing ==
  /\ FilesToAsk = {}
  /\ getErr' = Cancelled(pendingGetErr)
  /\ pendingGetErr' = AfterCancel(NoRequest, pendingGetErr)
  /\ pendingDiags' = {}
  /\ delayer' = "off"
  /\ asked' = {}
  /\ UNCHANGED <<server, owed>>

\* The server can check none of it: the request is done before it is made, and
\* setImmediate() calls back.
SendImmediate(r) ==
  /\ FilesToAsk # {} /\ FilesToAsk \cap Semantic = {}
  /\ r # pendingGetErr
  /\ getErr' = [Cancelled(pendingGetErr) EXCEPT ![r] = "immediate"]
  /\ pendingGetErr' = AfterCancel(r, pendingGetErr)
  /\ pendingDiags' = {}
  /\ delayer' = "off"
  /\ asked' = {}
  /\ UNCHANGED <<server, owed>>

\* 'geterr' is executed.  If that starts a server, the start (see ServerStarts) wants the
\* diagnostics of all validated documents and triggers the delayer, in the middle of the
\* delayer's own task: the trigger sets a new time-out, and its task is wiped when the running
\* one returns.  But the 'geterr' goes to the new server, and it asks for all open documents.
SendGetErr(r) ==
  /\ FilesToAsk \cap Semantic # {}
  /\ server # "errored"
  /\ r # pendingGetErr
  /\ getErr' = [Cancelled(pendingGetErr) EXCEPT ![r] = "running"]
  /\ pendingGetErr' = AfterCancel(r, pendingGetErr)
  /\ pendingDiags' = {}
  /\ delayer' = IF server = "down" THEN "empty" ELSE "off"
  /\ server' = "up"
  /\ owed' = IF server = "down" THEN owed \cup (syncedBuffers \cap validate \cap Semantic) ELSE owed
  /\ asked' = FilesToAsk \cap Semantic

\* service() throws: there is no server, and none is started.
SendFails ==
  /\ FilesToAsk \cap Semantic # {}
  /\ server # "up"
  /\ getErr' = Cancelled(pendingGetErr)
  /\ pendingGetErr' = AfterCancel(NoRequest, pendingGetErr)
  /\ delayer' = "off"
  /\ asked' = {}
  /\ UNCHANGED <<pendingDiags, server, owed>>

RunTask ==
  /\ delayer = "set"
  /\ SendNothing \/ SendFails \/ \E r \in Requests : SendImmediate(r) \/ SendGetErr(r)

NoTask ==
  /\ delayer = "empty"
  /\ delayer' = "off"
  /\ UNCHANGED <<pendingDiags, pendingGetErr, getErr, server, owed, asked>>

\* A time-out runs after the setImmediate() callbacks of the turn before.
DelayElapses ==
  /\ \A r \in Requests : getErr[r] # "immediate"
  /\ RunTask \/ NoTask
  /\ UNCHANGED <<syncedBuffers, validate>>

\* The server has checked all files ('requestCompleted'), or answers an error.
GetErrCompleted(r) ==
  /\ server = "up"
  /\ getErr[r] = "running"
  /\ getErr' = [getErr EXCEPT ![r] = "free"]
  /\ pendingGetErr' = OnDone(pendingGetErr, r)
  /\ owed' = owed \ asked
  /\ asked' = {}
  /\ UNCHANGED <<syncedBuffers, validate, pendingDiags, delayer, server>>

ImmediateDone(r) ==
  /\ getErr[r] = "immediate"
  /\ getErr' = [getErr EXCEPT ![r] = "free"]
  /\ pendingGetErr' = OnDone(pendingGetErr, r)
  /\ UNCHANGED <<syncedBuffers, validate, pendingDiags, delayer, server, owed, asked>>

-----------------------------------------------------------------------------
(* The server comes and goes. *)

\* startService(): serviceStarted() resets, with reset() cancelling the request under
\* way, and onTsServerStarted makes clientHost call requestAllDiags().
ServerStarts ==
  /\ server' = "up"
  /\ getErr' = Cancelled(pendingGetErr)
  /\ pendingGetErr' = AfterCancel(pendingGetErr, pendingGetErr)
  /\ pendingDiags' = syncedBuffers \cap validate
  /\ delayer' = "set"
  /\ owed' = owed \cup (syncedBuffers \cap validate \cap Semantic)
  /\ asked' = {}
  /\ UNCHANGED <<syncedBuffers, validate>>

\* It exits or errs: the connection settles the request as cancelled.
ServerEnds ==
  /\ server' \in {"down", "errored"}
  /\ getErr' = Cancelled(pendingGetErr)
  /\ pendingGetErr' = AfterCancel(pendingGetErr, pendingGetErr)
  /\ asked' = {}
  /\ UNCHANGED <<syncedBuffers, validate, pendingDiags, delayer, owed>>

-----------------------------------------------------------------------------
Progress ==
  \/ DelayElapses
  \/ \E r \in Requests : GetErrCompleted(r) \/ ImmediateDone(r)

Next ==
  \/ \E d \in Docs : OpenTextDocument(d) \/ ChangeTextDocument(d) \/ CloseResource(d)
  \/ \E docs \in SUBSET Docs : GetErrFor(docs) \/ RequestVisible(docs) \/ UpdateConfig(docs)
  \/ RequestAllDiags
  \/ InterruptGetErr
  \/ Progress
  \/ ServerStarts
  \/ ServerEnds

Spec == Init /\ [][Next]_vars

\* Time-outs and callbacks come, and the server finishes what it is asked.
Fairness ==
  /\ WF_vars(DelayElapses)
  /\ \A r \in Requests : WF_vars(GetErrCompleted(r)) /\ WF_vars(ImmediateDone(r))

FairSpec == Spec /\ Fairness

-----------------------------------------------------------------------------
(* Properties. *)

(***************************************************************************)
(* One 'geterr' at a time: none is under way but the one that the client   *)
(* would cancel, however requests are cancelled, completed and replaced    *)
(* (the identity check in sendPendingDiags's callback).                    *)
(***************************************************************************)
OneGetErr ==
  /\ \A r \in Requests : getErr[r] = "running" => pendingGetErr = r
  /\ pendingGetErr # NoRequest => getErr[pendingGetErr] # "free"

(***************************************************************************)
(* No request for diagnostics is forgotten while the server is up: for     *)
(* each document whose diagnostics are wanted, the delayer is set with a   *)
(* task or the 'geterr' under way was sent after the last edit of that     *)
(* document and names it.  It holds across cancellations by edits, queries *)
(* and restarts, and for the requests whose time-out lost its task.        *)
(***************************************************************************)
NothingForgotten ==
  server = "up" => \A d \in owed :
    delayer = "set" \/ (pendingGetErr # NoRequest /\ getErr[pendingGetErr] = "running" /\ d \in asked)

(***************************************************************************)
(* Quick fixes are held back while hasPendingDiags(); that they are not    *)
(* held back for ever rests on a time-out being set that has a task.       *)
(***************************************************************************)
PendingIsScheduled == server = "up" /\ pendingDiags # {} => delayer = "set"

(***************************************************************************)
(* When the user and the server's projects come to rest, all diagnostics   *)
(* wanted arrive, unless the server is gone.                               *)
(***************************************************************************)
AtRest == <>[][Progress]_vars

DiagsArrive == AtRest => []<>(owed = {} \/ server # "up")
=============================================================================
