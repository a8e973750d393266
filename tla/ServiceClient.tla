--------------------------- MODULE ServiceClient ---------------------------
(***************************************************************************)
(* The life of the tsserver behind the extension and the documents it is   *)
(* told about: class ServiceClient of semcode/direct/src/client.ts         *)
(* (startService, serviceExited, service, fatalError, restartTsServer,     *)
(* dispose) with the BufferSynchronizer and the SyncBuffers of             *)
(* server/buffer.ts.                                                       *)
(*                                                                         *)
(* The connection is TsServer, seen from outside: requests reach a server  *)
(* in an order that no request changes with respect to an edit             *)
(* (TsServer!FenceOrder), so what matters of a server is the text it will  *)
(* hold once it has read everything executed so far.                       *)
(*                                                                         *)
(* Every action is one callback of the extension host's event loop.        *)
(***************************************************************************)
EXTENDS Integers

CONSTANTS
  Docs,          \* documents of a mode the extension handles
  Texts,         \* the texts a document can have
  Closed,        \* "text" of a document that is not open
  Garbled,       \* text of a document that was changed from another text
  Batching,      \* is the server's API at least 3.4 (supportsBatching)?
  RestartLimit,  \* how many exits are restarted whatever happens: 5
  Insiders,      \* is the editor an insiders build?
  Disturbances   \* what may disturb a server, out of:
                 \* "crash", "error" (an 'error' event), "fatal" (a non-recoverable
                 \* request fails), "restart" (the user restarts the server)

ASSUME TextsAssumption == Closed \notin Texts /\ Garbled \notin Texts /\ Closed # Garbled
ASSUME SwitchesAssumption == Batching \in BOOLEAN /\ Insiders \in BOOLEAN
ASSUME LimitAssumption == RestartLimit \in Nat

VARIABLES
  docs,            \* the editor's text of each document, or Closed
  buffer,          \* syncedBuffers: "none", or the state of the SyncBuffer
  pending,         \* BufferSynchronizer._pending
  serverState,     \* ServiceClient.serverState
  proc,            \* the process of the current token
  stray,           \* how the processes of earlier tokens that have not exited are
  view,            \* the text of each document the current server will hold
  resent,          \* was every open document opened on the current server?
  isRestarting,
  numberRestarts,
  fatallyCrashed,  \* hasServerFatallyCrashedTooManyTimes
  prompting,       \* _isPromptingAfterCrash
  quick,           \* restarts in a row less than 10 s after the last start,
                   \* counted up to RestartLimit + 1
  listening,       \* has the client been started?
  disposed,        \* isDisposed
  mistaken,        \* history: was an exit taken for that of a server which the user had
                   \* replaced, and no server been told of the documents since?
  commands         \* parity of the commands executed: makes each one a step

docVars     == <<docs, buffer>>
serverVars  == <<serverState, proc, stray, resent>>
restartVars == <<isRestarting, numberRestarts, fatallyCrashed, prompting, quick,
                 mistaken>>
lifeVars    == <<listening, disposed>>
vars == <<docVars, pending, serverVars, view, restartVars, lifeVars, commands>>

\* BufferOp: CloseOp, OpenOp and ChangeOp; the edits of a change fit one text.
NoOp            == [type |-> "none"]
CloseOp         == [type |-> "close"]
OpenOp(text)    == [type |-> "open", text |-> text]
ChangeOp(t, u)  == [type |-> "change", from |-> t, text |-> u]
Ops == {NoOp, CloseOp} \cup {OpenOp(t) : t \in Texts}
       \cup {ChangeOp(t, u) : t \in Texts, u \in Texts}

Alive == {"running", "killed"}

TypeOK ==
  /\ docs \in [Docs -> Texts \cup {Closed}]
  /\ buffer \in [Docs -> {"none", "Initial", "Open"}]
  /\ pending \in [Docs -> Ops]
  /\ serverState \in {"None", "Running", "Errored"}
  /\ proc \in Alive \cup {"none", "exited"}
  /\ stray \in SUBSET Alive
  /\ view \in [Docs -> Texts \cup {Closed, Garbled}]
  /\ resent \in BOOLEAN
  /\ isRestarting \in BOOLEAN
  /\ numberRestarts \in 0..RestartLimit
  /\ fatallyCrashed \in BOOLEAN
  /\ prompting \in BOOLEAN
  /\ quick \in 0..RestartLimit + 1
  /\ listening \in BOOLEAN
  /\ disposed \in BOOLEAN
  /\ mistaken \in BOOLEAN
  /\ commands \in BOOLEAN

NoPending   == [d \in Docs |-> NoOp]
NothingOpen == [d \in Docs |-> Closed]

\* Documents may be open in the editor before the extension is activated.
Init ==
  /\ docs \in [Docs -> Texts \cup {Closed}]
  /\ buffer = [d \in Docs |-> "none"]
  /\ pending = NoPending
  /\ serverState = "None"
  /\ proc = "none"
  /\ stray = {}
  /\ view = NothingOpen
  /\ resent = FALSE
  /\ isRestarting = FALSE
  /\ numberRestarts = 0
  /\ fatallyCrashed = FALSE
  /\ prompting = FALSE
  /\ quick = 0
  /\ listening = FALSE
  /\ disposed = FALSE
  /\ mistaken = FALSE
  /\ commands = FALSE

-----------------------------------------------------------------------------
(* The documents on the server. *)

\* What tsserver makes of an operation on a document it has as text v.
Apply(op, v) ==
  CASE op.type = "none"   -> v
    [] op.type = "close"  -> Closed
    [] op.type = "open"   -> op.text
    [] op.type = "change" -> IF v = op.from THEN op.text ELSE Garbled

\* flush() on a running server: all that is pending goes out as one
\* 'updateOpen', or nowhere if the server does not know that command.
Flushed == IF Batching THEN [d \in Docs |-> Apply(pending[d], view[d])] ELSE view

\* updatePending(): a close takes back an open that is still pending; a second
\* operation on a document waits until the first is flushed.  Wrong form: it
\* replaces the first.
ReplacePending(d, op) == pending' = [pending EXCEPT ![d] = op] /\ view' = view

UpdatePending(d, op) ==
  IF op.type = "close" /\ pending[d].type = "open"
  THEN pending' = [pending EXCEPT ![d] = NoOp] /\ view' = view
  ELSE IF pending[d] # NoOp
       THEN pending' = [NoPending EXCEPT ![d] = op] /\ view' = Flushed
       ELSE pending' = [pending EXCEPT ![d] = op] /\ view' = view

\* open(), change() or close() of the synchronizer on a running server.
Synchronize(d, op) ==
  IF Batching
  THEN UpdatePending(d, op)
  ELSE pending' = NoPending /\ view' = [view EXCEPT ![d] = Apply(op, @)]

\* SyncBuffer.open() of each open document on a server that has none.
OpenAll ==
  LET Op(d) == IF docs[d] = Closed THEN NoOp ELSE OpenOp(docs[d])
  IN  /\ buffer' = [d \in Docs |-> IF docs[d] = Closed THEN "none" ELSE "Open"]
      /\ IF Batching
         THEN pending' = [d \in Docs |-> Op(d)] /\ view' = NothingOpen
         ELSE pending' = NoPending /\ view' = docs

-----------------------------------------------------------------------------
(* Starting and losing a server. *)

CanStart == ~disposed /\ ~fatallyCrashed

\* startService() with a new token: the old process, if it has not exited, is
\* no longer listened to.
NewServer(old) ==
  /\ serverState' = "Running"
  /\ proc' = "running"
  /\ stray' = stray \cup ({old} \cap Alive)

\* startService(true): 'onResendModels', reinitialize(); configuring a plugin
\* flushes what that left pending.
StartAndResend(old) ==
  /\ NewServer(old)
  /\ resent' = TRUE
  /\ \/ OpenAll
     \/ /\ buffer' = [d \in Docs |-> IF docs[d] = Closed THEN "none" ELSE "Open"]
        /\ pending' = NoPending
        /\ view' = docs

\* The constructor and ensureServiceStarted(), and listen() once it is ready.
EnsureServiceStarted ==
  /\ ~listening /\ CanStart
  /\ listening' = TRUE
  /\ NewServer(proc)
  /\ resent' = TRUE
  /\ OpenAll
  /\ UNCHANGED <<docs, restartVars, disposed, commands>>

\* executeImpl(), as far as service(): on a server that is running, on one
\* started now without resending anything, or not at all because it throws.
\* beforeCommand() has dropped what was pending in the last two cases.
Available == serverState = "None" /\ CanStart

StartLazily(forgotten) ==
  /\ Available
  /\ NewServer(proc)
  /\ resent' = (forgotten = {})

Throws ==
  /\ serverState # "Running" /\ ~Available
  /\ pending' = NoPending
  /\ UNCHANGED <<serverVars, view>>

Buffers == {d \in Docs : buffer[d] # "none"}

\* execute(), executeAsync() or executeWithoutWaitingForResponse() of a command
\* other than those that synchronize documents.  Wrong form: what is pending
\* waits for the next edit.
CommandUnflushed ==
  /\ listening
  /\ serverState = "Running"
  /\ commands' = ~commands
  /\ UNCHANGED <<docVars, pending, view, serverVars, restartVars, lifeVars>>

Command ==
  /\ listening
  /\ \/ /\ serverState = "Running"
        /\ view' = Flushed
        /\ pending' = NoPending
        /\ commands' = ~commands
        /\ UNCHANGED serverVars
     \/ /\ StartLazily(Buffers)
        /\ view' = NothingOpen
        /\ pending' = NoPending
        /\ commands' = ~commands
     \/ Throws /\ commands' = commands
  /\ UNCHANGED <<docVars, restartVars, lifeVars>>

\* A document event: the operation goes to the synchronizer while the server is
\* running.  Otherwise the API version is the default one, so it is executed as
\* a command of its own.
Send(d, op, forgotten) ==
  \/ /\ serverState = "Running"
     /\ Synchronize(d, op)
     /\ UNCHANGED serverVars
  \/ /\ StartLazily(forgotten)
     /\ view' = [NothingOpen EXCEPT ![d] = Apply(op, Closed)]
     /\ pending' = NoPending

Editing == listening /\ ~disposed

\* openTextDocument(): the buffer is registered before it is opened, and stays
\* in its initial state if that throws.
OpenDoc(d, text) ==
  /\ Editing
  /\ docs[d] = Closed
  /\ docs' = [docs EXCEPT ![d] = text]
  /\ \/ /\ Send(d, OpenOp(text), Buffers)
        /\ buffer' = [buffer EXCEPT ![d] = "Open"]
     \/ /\ Throws
        /\ buffer' = [buffer EXCEPT ![d] = "Initial"]
  /\ UNCHANGED <<restartVars, lifeVars, commands>>

\* onDidChangeTextDocument(): a buffer in the wrong state is only logged.
ChangeDoc(d, text) ==
  /\ Editing
  /\ docs[d] \notin {Closed, text}
  /\ docs' = [docs EXCEPT ![d] = text]
  /\ Send(d, ChangeOp(docs[d], text), Buffers) \/ Throws
  /\ UNCHANGED <<buffer, restartVars, lifeVars, commands>>

\* closeResource(): SyncBuffer.close() says nothing of a buffer that was never
\* opened.
CloseDoc(d) ==
  /\ Editing
  /\ docs[d] # Closed
  /\ docs' = [docs EXCEPT ![d] = Closed]
  /\ buffer' = [buffer EXCEPT ![d] = "none"]
  /\ IF buffer[d] = "Open"
     THEN Send(d, CloseOp, Buffers \ {d}) \/ Throws
     ELSE UNCHANGED <<pending, serverVars, view>>
  /\ UNCHANGED <<restartVars, lifeVars, commands>>

-----------------------------------------------------------------------------
(* serviceExited(true): restart, unless too many exits were not enough to    *)
(* keep the server up for 10 s.  age is the time since the last start: under *)
(* 10 s or more (a third class, 5 minutes, only decides about a message).    *)
(***************************************************************************)
Ages == {"fast", "slow"}

TooManyLate == numberRestarts > RestartLimit  \* wrong form: counts one less

TooMany == numberRestarts + 1 > RestartLimit

\* On an insiders build the first failure after an answered prompt starts the
\* count over, if it was a TsServerError that fatalError() kept.
AskFirst == ~TooMany /\ Insiders /\ ~prompting /\ serverState = "Errored"

NoteExit(age) ==
  /\ numberRestarts' = IF TooMany \/ AskFirst THEN 0 ELSE numberRestarts + 1
  /\ fatallyCrashed' = (fatallyCrashed \/ (TooMany /\ age = "fast"))
  /\ prompting' = (prompting \/ AskFirst)
  /\ quick' = IF age = "slow" THEN 0
              ELSE IF quick > RestartLimit THEN quick ELSE quick + 1

\* Wrong form: the state is kept.
KeepState ==
  /\ proc' = "exited"
  /\ UNCHANGED <<serverState, stray, resent, buffer, pending, view>>

NotRestarted ==
  /\ serverState' = "None"
  /\ proc' = "exited"
  /\ UNCHANGED <<stray, resent, buffer, pending, view>>

\* onExit() of the current process.  The exit of one that restartTsServer()
\* replaced never gets here, so the next one is taken for it.  Wrong form: an
\* errored client is not given a new server.
ExitOfErrored(age) ==
  /\ proc = "killed" \/ (proc = "running" /\ "crash" \in Disturbances)
  /\ isRestarting' = FALSE
  /\ NoteExit(age)
  /\ mistaken' = mistaken
  /\ IF serverState = "Errored" \/ disposed \/ fatallyCrashed'
     THEN NotRestarted
     ELSE StartAndResend("exited")
  /\ UNCHANGED <<docs, lifeVars, commands>>

ProcExit(age) ==
  /\ \/ proc = "killed"
     \/ proc = "running" /\ "crash" \in Disturbances
  /\ isRestarting' = FALSE
  /\ IF isRestarting
     THEN /\ NotRestarted
          /\ mistaken' = TRUE
          /\ UNCHANGED <<numberRestarts, fatallyCrashed, prompting, quick>>
     ELSE /\ NoteExit(age)
          /\ IF disposed \/ fatallyCrashed'
             THEN NotRestarted /\ mistaken' = mistaken
             ELSE StartAndResend("exited") /\ mistaken' = FALSE
  /\ UNCHANGED <<docs, lifeVars, commands>>

\* onExit() of an earlier process: its token is out of date.
StrayExit(status) ==
  /\ status \in stray
  /\ status = "running" => "crash" \in Disturbances
  /\ stray' = stray \ {status}
  /\ UNCHANGED <<docVars, pending, serverState, proc, resent, view, restartVars, lifeVars, commands>>

\* onError() of the current process, and serviceExited(false): the process is
\* not stopped.
ProcError ==
  /\ "error" \in Disturbances
  /\ proc = "running"
  /\ serverState' = "None"
  /\ UNCHANGED <<docVars, pending, proc, stray, resent, view, restartVars, lifeVars, commands>>

\* fatalError(): the state tells only of a TsServerError.  Wrong form: the client
\* no longer waits for the process it killed.
FatalErrorForgets(isTsServerError) ==
  /\ "fatal" \in Disturbances
  /\ serverState = "Running"
  /\ proc' = "killed"
  /\ serverState' = IF isTsServerError THEN "None" ELSE "Running"
  /\ UNCHANGED <<docVars, pending, stray, resent, view, restartVars, lifeVars, commands>>

FatalError(isTsServerError) ==
  /\ "fatal" \in Disturbances
  /\ serverState = "Running"
  /\ proc' = "killed"
  /\ serverState' = IF isTsServerError THEN "Errored" ELSE "Running"
  /\ UNCHANGED <<docVars, pending, stray, resent, view, restartVars, lifeVars, commands>>

PromptAnswered ==
  /\ prompting
  /\ prompting' = FALSE
  /\ UNCHANGED <<docVars, pending, serverVars, view, isRestarting, numberRestarts,
                 fatallyCrashed, quick, mistaken, lifeVars, commands>>

\* restartTsServer(): isRestarting is set only if there was a server to kill.
RestartTsServer ==
  /\ "restart" \in Disturbances
  /\ Editing
  /\ isRestarting' = (isRestarting \/ serverState = "Running")
  /\ IF CanStart
     THEN StartAndResend(IF serverState = "Running" THEN "killed" ELSE proc) /\ mistaken' = FALSE
     ELSE /\ serverState' = "None"
          /\ mistaken' = mistaken
          /\ proc' = IF serverState = "Running" THEN "killed" ELSE proc
          /\ UNCHANGED <<stray, resent, buffer, pending, view>>
  /\ UNCHANGED <<docs, numberRestarts, fatallyCrashed, prompting, quick, lifeVars, commands>>

\* Wrong form: the server is forgotten instead of killed.
DisposeUnkilled ==
  /\ listening /\ ~disposed
  /\ disposed' = TRUE
  /\ UNCHANGED <<docVars, pending, serverVars, view, restartVars, listening, commands>>

Dispose ==
  /\ listening /\ ~disposed
  /\ disposed' = TRUE
  /\ proc' = IF serverState = "Running" THEN "killed" ELSE proc
  /\ UNCHANGED <<docVars, pending, serverState, stray, resent, view, restartVars, listening, commands>>

-----------------------------------------------------------------------------
EditDoc ==
  \E d \in Docs :
    \/ \E text \in Texts : OpenDoc(d, text) \/ ChangeDoc(d, text)
    \/ CloseDoc(d)

Exit == \E age \in Ages : ProcExit(age)

Next ==
  \/ EnsureServiceStarted
  \/ Command
  \/ EditDoc
  \/ Exit
  \/ \E status \in Alive : StrayExit(status)
  \/ ProcError
  \/ \E isTsServerError \in BOOLEAN : FatalError(isTsServerError)
  \/ PromptAnswered
  \/ RestartTsServer
  \/ Dispose

Spec == Init /\ [][Next]_vars

\* The operating system ends a killed process, and its exit is reported.
Fairness == WF_vars(proc = "killed" /\ Exit)

FairSpec == Spec /\ Fairness

-----------------------------------------------------------------------------
(* Properties. *)

(***************************************************************************)
(* The server's text of every document, once it has read what is on its    *)
(* way and what is still pending, is the editor's: across opens, changes   *)
(* and closes batched in any way, and across restarts, as long as the      *)
(* current server was started by a call that opened the documents again    *)
(* (BufferSynchronizer, reinitialize and startService).                    *)
(***************************************************************************)
InSync ==
  serverState = "Running" /\ resent
    => \A d \in Docs : Apply(pending[d], view[d]) = docs[d]

\* What makes InSync inductive.  The comment on updatePending, "Open then
\* close. No need to do anything", is right because a document with a pending
\* open is not open on the server.
OpenIsNew(d)  == pending[d].type = "open" => view[d] = Closed
BufferOpen(d) == docs[d] # Closed => buffer[d] = "Open"

SyncInv ==
  /\ TypeOK
  /\ InSync
  /\ serverState = "Running" /\ resent => \A d \in Docs : OpenIsNew(d) /\ BufferOpen(d)
  /\ listening => \A d \in Docs : buffer[d] = "none" => docs[d] = Closed
  /\ ~Batching => pending = NoPending

(***************************************************************************)
(* A command is executed on the text the user sees: whatever edits are     *)
(* batched, they are written before it (beforeCommand and flush).          *)
(***************************************************************************)
CommandSeesText ==
  [][commands' # commands /\ resent' => view' = docs']_vars

(***************************************************************************)
(* The server is never started without the documents that are open:        *)
(* whether processes crash, are killed by fatalError or replaced by the    *)
(* user, no command or edit finds the client without a server, so that it  *)
(* would start one by itself.  The exception is an exit that was taken for *)
(* that of a replaced server (isRestarting): it restarts nothing, until    *)
(* the next exit or the user starts a server (serviceExited and service).  *)
(***************************************************************************)
NeverForgotten == serverState = "Running" => resent \/ mistaken

(***************************************************************************)
(* No process is left running that the client does not use: one that is    *)
(* replaced or disposed of is killed first (restartTsServer, fatalError    *)
(* and dispose; unlike onError).                                           *)
(***************************************************************************)
OneServer ==
  /\ "running" \notin stray
  /\ proc = "running" => serverState = "Running" /\ ~disposed

(***************************************************************************)
(* A server that keeps dying within 10 s of its start is restarted at most *)
(* RestartLimit times in a row and then no more (serviceExited).           *)
(***************************************************************************)
RestartsEnd ==
  /\ quick <= RestartLimit \/ fatallyCrashed
  /\ fatallyCrashed => serverState = "None"

(***************************************************************************)
(* A server that fatalError() kills is replaced, unless the client is      *)
(* disposed of, gives up, or has taken an exit for that of a server which  *)
(* the user replaced (fatalError, onExit and serviceExited).               *)
(***************************************************************************)
KilledIsReplaced ==
  proc = "killed" ~> (proc = "running" \/ disposed \/ fatallyCrashed \/ mistaken)

\* No error sticks: an errored client becomes usable again when the process it
\* killed has exited.
ErrorsPass == serverState = "Errored" ~> serverState # "Errored"
=============================================================================
