---------------------------- MODULE RequestRouter ----------------------------
(***************************************************************************)
(* Several tsserver processes behind one ITsServer: RequestRouter with     *)
(* SyntaxRoutingTsServer and GetErrRoutingTsServer (server.ts), put        *)
(* together by TsServerSpawner.spawn (spawner.ts).                         *)
(*                                                                         *)
(* Each process sits behind a connection of its own, of which this module  *)
(* says only what TsServer is shown to do: a promise is settled at most    *)
(* once, and the exit or an error of the process resolves those that are   *)
(* pending as cancelled.  The handlers a router attaches to the promises   *)
(* run as microtasks: after the handler that settled the promise, before   *)
(* anything else happens, in the order in which they were attached.        *)
(***************************************************************************)
EXTENDS Naturals, Sequences

CONSTANTS
  SeparateSyntax,   \* separateSyntaxServer: syntax and semantic, else one main server
  SeparateDiags,    \* enableProjectDiags: a third process for 'geterr'
  DynamicRouting,   \* enableDynamicRouting: tsserver 4.0 and later
  Commands,         \* the commands that are executed
  MaxCommands       \* bound: how many

\* One name for each way a command can go.  "lens" is 'references' executed by a
\* code lens, the only command with an execution target.
SharedCommands == {"change", "updateOpen", "configure"}
SyntaxAlways   == {"navtree"}
SyntaxAllowed  == {"completions", "lens"}
SemanticOnly   == {"geterr", "projectInfo"}
AllCommands    == SharedCommands \cup SyntaxAlways \cup SyntaxAllowed \cup SemanticOnly \cup {"getCodeFixes"}

ExpectsResult(c)  == c # "change"
Cancellable(c)    == c \notin {"change", "updateOpen"}
NonRecoverable(c) == c = "updateOpen"
OnSemanticOnly(c) == c = "lens"   \* executionTarget: ExecTarget.Semantic

ASSUME LayoutAssumption ==
  /\ SeparateSyntax \in BOOLEAN /\ SeparateDiags \in BOOLEAN /\ DynamicRouting \in BOOLEAN
  /\ SeparateSyntax \/ SeparateDiags
ASSUME CommandsAssumption == Commands \subseteq AllCommands /\ MaxCommands \in Nat

\* spawn(): the process that the composite stands or falls with, and the others.
Primary     == IF SeparateSyntax THEN "semantic" ELSE "main"
Secondaries == (IF SeparateSyntax THEN {"syntax"} ELSE {})
               \cup (IF SeparateDiags THEN {"diagnostics"} ELSE {})
Servers     == {Primary} \cup Secondaries

\* The servers whose promises a router sees, in its order.  The promise that
\* SyntaxRoutingTsServer returns for a shared command is that of its first server.
FirstOfPrimary == IF SeparateSyntax THEN "syntax" ELSE Primary
Routers        == (IF SeparateSyntax THEN {"syntaxRouting"} ELSE {})
                  \cup (IF SeparateDiags THEN {"getErrRouting"} ELSE {})
Members(router) == IF router = "syntaxRouting" THEN {"syntax", "semantic"}
                                               ELSE {"diagnostics", FirstOfPrimary}
First == IF SeparateDiags THEN "diagnostics" ELSE "syntax"

VARIABLES
  executed,        \* the commands, in the order of executeImpl
  handed,          \* per server: which of them it was given, in order
  promise,         \* per server and command: the promise of its connection
  requestStates,   \* per router and shared command: requestStates of its servers
  tasks,           \* microtasks: promises' handlers that have not run yet
  fatal,           \* per command: how often delegate.onFatalError was called
  projectLoading,  \* SyntaxRoutingTsServer._projectLoading
  proc, killed,    \* per server: the process, and whether kill() was called
  inUse            \* the client still executes commands here

vars == <<executed, handed, promise, requestStates, tasks, fatal, projectLoading,
          proc, killed, inUse>>

Ids == 1..MaxCommands

\* The handler of a router, or the client's catch(), of the promise of a server.
Tasks == [listener: Routers \cup {"client"}, id: Ids, server: Servers]

\* "error" is a TsServerError, "unwritten" what process.write threw; "destroyed"
\* is the Cancelled response that the end of a process resolves its promises with.
Rejected == {"error", "unwritten"}
Resolved == {"answered", "cancelled", "destroyed"}

TypeOK ==
  /\ executed \in Seq(Commands) /\ Len(executed) <= MaxCommands
  /\ handed \in [Servers -> Seq(Ids)]
  /\ promise \in [Servers -> [Ids -> {"none", "pending"} \cup Rejected \cup Resolved]]
  /\ requestStates \in [Routers -> [Ids -> [Servers -> {"Unresolved", "Resolved", "Errored"}]]]
  /\ tasks \subseteq Tasks
  /\ fatal \in [Ids -> Nat]
  /\ projectLoading \in BOOLEAN /\ inUse \in BOOLEAN
  /\ proc \in [Servers -> {"running", "exited"}] /\ killed \in [Servers -> BOOLEAN]

Init ==
  /\ executed = <<>>
  /\ handed = [s \in Servers |-> <<>>]
  /\ promise = [s \in Servers |-> [i \in Ids |-> "none"]]
  /\ requestStates = [r \in Routers |-> [i \in Ids |-> [s \in Servers |-> "Unresolved"]]]
  /\ tasks = {}
  /\ fatal = [i \in Ids |-> 0]
  /\ projectLoading = TRUE
  /\ proc = [s \in Servers |-> "running"]
  /\ killed = [s \in Servers |-> FALSE]
  /\ inUse = TRUE

\* Anything but a microtask waits until there is none left.
Idle == tasks = {}

-----------------------------------------------------------------------------
(* execute(): a shared command goes to every server, another to the first  *)
(* whose canRun() says yes.                                                *)

RunsOnSyntax(c) ==
  /\ ~OnSemanticOnly(c)
  /\ \/ c \in SyntaxAlways
     \/ DynamicRouting /\ projectLoading /\ c \in SyntaxAllowed

Route(c) ==
  CASE SeparateDiags /\ c = "geterr"      -> "diagnostics"
    [] SeparateSyntax /\ RunsOnSyntax(c)  -> "syntax"
    [] OTHER                              -> Primary

\* Wrong form: an edit goes to the server that would answer a query.
TargetsOneForChange(c) == IF c \in SharedCommands \ {"change"} THEN Servers ELSE {Route(c)}

Targets(c) == IF c \in SharedCommands THEN Servers ELSE {Route(c)}

Execute(c) ==
  /\ Idle /\ inUse /\ Len(executed) < MaxCommands
  /\ executed' = Append(executed, c)
  /\ LET id == Len(executed) + 1
     IN  /\ handed' = [s \in Servers |-> IF s \in Targets(c) THEN Append(handed[s], id) ELSE handed[s]]
         /\ promise' = [s \in Servers |->
              IF s \in Targets(c) /\ ExpectsResult(c) THEN [promise[s] EXCEPT ![id] = "pending"]
                                                      ELSE promise[s]]
  /\ UNCHANGED <<requestStates, tasks, fatal, projectLoading, proc, killed, inUse>>

-----------------------------------------------------------------------------
(* Promises are settled, and their handlers run. *)

Shared(id) == id \in 1..Len(executed) /\ executed[id] \in SharedCommands

\* Who listens to the promise of a server: the inner router before the outer,
\* and last the client's catch() on the promise it was returned.
Hears(listener, s, id) ==
  /\ Shared(id)
  /\ IF listener = "client" THEN s = First /\ NonRecoverable(executed[id])
     ELSE listener \in Routers /\ s \in Members(listener)

\* These servers' connections settle these commands in this way.  It is done by one
\* handler, so no microtask is left of an earlier one.
Settle(servers, ids, result) ==
  LET Settles(s, i) == s \in servers /\ i \in ids /\ promise[s][i] = "pending"
  IN  /\ promise' = [s \in Servers |-> [i \in Ids |->
           IF Settles(s, i) THEN result ELSE promise[s][i]]]
      /\ tasks' = {t \in Tasks : Settles(t.server, t.id) /\ Hears(t.listener, t.server, t.id)}

\* Commands are settled one after the other, each on the servers in the order it was given
\* to them, and the handlers of a promise run in the order in which they were attached.
Turn ==
  [diagnostics |-> 1, syntax |-> 2, semantic |-> 3, main |-> 4,
   syntaxRouting |-> 1, getErrRouting |-> 2, client |-> 3]

Precedes(t, u) ==
  \/ t.id < u.id
  \/ t.id = u.id /\ Turn[t.server] < Turn[u.server]
  \/ t.id = u.id /\ t.server = u.server /\ Turn[t.listener] < Turn[u.listener]

\* A response, or a write that throws.
Answer(s, id, result) ==
  /\ Idle
  /\ promise[s][id] = "pending"
  /\ proc[s] = "running" /\ ~killed[s]
  /\ Settle({s}, {id}, result)
  /\ UNCHANGED <<executed, handed, requestStates, fatal, projectLoading, proc, killed, inUse>>

\* The token of a command fires.  A router hands it on unless one of its servers
\* has resolved; the inner router is itself behind the outer one.  Wrong form:
\* it is handed on in any case.
HandsOnAlways(router, id) == TRUE

HandsOn(router, id) == \A s \in Members(router) : requestStates[router][id][s] # "Resolved"

ReachedByCancel(id) ==
  LET outer == SeparateDiags => HandsOn("getErrRouting", id)
      inner == SeparateSyntax => HandsOn("syntaxRouting", id)
  IN  {s \in Servers : ~Shared(id) \/ (outer /\ (s = "diagnostics" \/ inner))}

Cancel(id) ==
  /\ Idle
  /\ id <= Len(executed) /\ Cancellable(executed[id])
  /\ Settle(ReachedByCancel(id), {id}, "cancelled")
  /\ UNCHANGED <<executed, handed, requestStates, fatal, projectLoading, proc, killed, inUse>>

\* ServiceClient.fatalError(), while this is the server the client uses.  It gives
\* the server up at once for a TsServerError only.  Wrong form: it kills for a
\* TsServerError only.
FatalErrorOfServer(err) ==
  /\ killed' = [s \in Servers |-> killed[s] \/ (inUse /\ err = "error")]
  /\ inUse' = (inUse /\ err # "error")

FatalError(err) ==
  /\ killed' = [s \in Servers |-> killed[s] \/ inUse]
  /\ inUse' = (inUse /\ err # "error")

\* The router's two handlers: of the promise that resolves, and of the one that
\* is rejected.  Wrong form: only a rejection that comes last is noticed.
OnResolvedUnchecked(router, id, s) ==
  /\ requestStates' = [requestStates EXCEPT ![router][id][s] = "Resolved"]
  /\ UNCHANGED <<fatal, killed, inUse>>

OnResolved(router, id, s) ==
  /\ requestStates' = [requestStates EXCEPT ![router][id][s] = "Resolved"]
  /\ LET errored == {e \in Members(router) : requestStates[router][id][e] = "Errored"}
     IN  \/ /\ errored # {}
            /\ fatal' = [fatal EXCEPT ![id] = @ + 1]
            /\ \E e \in errored : FatalError(promise[e][id])
         \/ errored = {} /\ UNCHANGED <<fatal, killed, inUse>>

OnRejected(router, id, s) ==
  /\ requestStates' = [requestStates EXCEPT ![router][id][s] = "Errored"]
  /\ \/ /\ \E o \in Members(router) : requestStates[router][id][o] = "Resolved"
        /\ fatal' = [fatal EXCEPT ![id] = @ + 1]
        /\ FatalError(promise[s][id])
     \/ /\ \A o \in Members(router) : requestStates[router][id][o] # "Resolved"
        /\ UNCHANGED <<fatal, killed, inUse>>

\* The client's catch() of a non-recoverable command.
OnReturned(id, s) ==
  /\ IF promise[s][id] \in Rejected THEN FatalError(promise[s][id]) ELSE UNCHANGED <<killed, inUse>>
  /\ UNCHANGED <<requestStates, fatal>>

RunTask ==
  \E t \in tasks :
    /\ \A u \in tasks \ {t} : Precedes(t, u)
    /\ tasks' = tasks \ {t}
    /\ \/ t.listener = "client" /\ OnReturned(t.id, t.server)
       \/ /\ t.listener # "client"
          /\ IF promise[t.server][t.id] \in Rejected
             THEN OnRejected(t.listener, t.id, t.server)
             ELSE OnResolved(t.listener, t.id, t.server)
    /\ UNCHANGED <<executed, handed, promise, projectLoading, proc>>

-----------------------------------------------------------------------------
(* The processes, and what their events do. *)

\* The exit of the primary server is reported, and takes the others along.
\* Wrong form: the others are left to themselves.
PrimaryExitAlone ==
  /\ Idle
  /\ proc[Primary] = "running"
  /\ proc' = [proc EXCEPT ![Primary] = "exited"]
  /\ inUse' = FALSE
  /\ Settle({Primary}, Ids, "destroyed")
  /\ UNCHANGED <<executed, handed, requestStates, fatal, projectLoading, killed>>

PrimaryExit ==
  /\ Idle
  /\ proc[Primary] = "running"
  /\ proc' = [proc EXCEPT ![Primary] = "exited"]
  /\ inUse' = FALSE
  /\ killed' = [s \in Servers |-> killed[s] \/ s \in Secondaries]
  /\ Settle({Primary}, Ids, "destroyed")
  /\ UNCHANGED <<executed, handed, requestStates, fatal, projectLoading>>

\* The exit of another server is reported to nobody.  Wrong form: its promises are
\* left as they are.
SecondaryExitUnsettled(s) ==
  /\ Idle
  /\ proc[s] = "running"
  /\ proc' = [proc EXCEPT ![s] = "exited"]
  /\ UNCHANGED <<executed, handed, promise, requestStates, tasks, fatal, projectLoading, killed, inUse>>

SecondaryExit(s) ==
  /\ Idle
  /\ proc[s] = "running"
  /\ proc' = [proc EXCEPT ![s] = "exited"]
  /\ Settle({s}, Ids, "destroyed")
  /\ UNCHANGED <<executed, handed, requestStates, fatal, projectLoading, killed, inUse>>

\* An 'error' event: the client drops the server without killing it.  That of the
\* syntax server is not listened to.
ProcError(s) ==
  /\ Idle
  /\ ~killed[s]
  /\ inUse' = (inUse /\ s = "syntax")
  /\ Settle({s}, Ids, "destroyed")
  /\ UNCHANGED <<executed, handed, requestStates, fatal, projectLoading, proc, killed>>

\* kill(): by the client, which has a new server or none afterwards.
Kill ==
  /\ Idle /\ inUse
  /\ inUse' = FALSE
  /\ killed' = [s \in Servers |-> TRUE]
  /\ UNCHANGED <<executed, handed, promise, requestStates, tasks, fatal, projectLoading, proc>>

\* The events of the semantic server that SyntaxRoutingTsServer looks at:
\* 'projectLoadingStart', 'projectLoadingFinish' and diagnostics.
SemanticEvent(loading) ==
  /\ Idle /\ SeparateSyntax
  /\ ~killed["semantic"] /\ proc["semantic"] = "running"
  /\ projectLoading' = loading
  /\ UNCHANGED <<executed, handed, promise, requestStates, tasks, fatal, proc, killed, inUse>>

-----------------------------------------------------------------------------
Next ==
  \/ \E c \in Commands : Execute(c)
  \/ \E s \in Servers, i \in Ids, result \in {"answered", "error", "unwritten"} : Answer(s, i, result)
  \/ \E i \in Ids : Cancel(i)
  \/ RunTask
  \/ PrimaryExit
  \/ \E s \in Secondaries : SecondaryExit(s)
  \/ \E s \in Servers : ProcError(s)
  \/ Kill
  \/ \E loading \in BOOLEAN : SemanticEvent(loading)

Spec == Init /\ [][Next]_vars

(***************************************************************************)
(* Microtasks run, and a killed process exits: the operating system's part *)
(* of kill().  That a server answers is not assumed.                       *)
(***************************************************************************)
Fairness ==
  /\ WF_vars(RunTask)
  /\ WF_vars(killed[Primary] /\ PrimaryExit)
  /\ \A s \in Secondaries : WF_vars(killed[s] /\ SecondaryExit(s))

FairSpec == Spec /\ Fairness

-----------------------------------------------------------------------------
(* Properties. *)

(***************************************************************************)
(* The servers must agree on the text and the configuration they work on.  *)
(* A shared command that one server carried out and another refused is     *)
(* fatal as soon as each has settled it, in whichever order they do, and   *)
(* nothing else is: also when three servers are compared two and two, by   *)
(* one router behind another (RequestRouter.execute).                      *)
(***************************************************************************)
Diverged(id) ==
  /\ Shared(id)
  /\ \E s \in Servers : promise[s][id] \in Rejected
  /\ \E s \in Servers : promise[s][id] \in Resolved

SettledByAll(id) == \A s \in Servers : promise[s][id] # "pending"

DivergenceIsFatal ==
  Idle => \A id \in Ids :
    /\ fatal[id] > 0 => Diverged(id)
    /\ Diverged(id) /\ SettledByAll(id) => fatal[id] > 0

(***************************************************************************)
(* A server is not used on once two servers have diverged: every process   *)
(* is killed or the client has turned away from the composite already.     *)
(***************************************************************************)
DivergedIsStopped ==
  Idle /\ inUse => \A id \in Ids :
    Diverged(id) /\ SettledByAll(id) => \A s \in Servers : killed[s]

(***************************************************************************)
(* A router does not withdraw a shared command from one of its servers     *)
(* once it has the other's answer, in any layout: the cancellation handler *)
(* of RequestRouter.execute asks requestStates, and these must be true     *)
(* whenever a token can fire.                                              *)
(*                                                                         *)
(* It does not follow that all servers carry the command out or none does. *)
(* One may have, with its answer still in the pipe: no router can tell     *)
(* that (the state is Unresolved), the other server loses the command, and *)
(* both promises resolve as cancelled.  And of three servers the outer     *)
(* router sees two: it may cancel the diagnostics server although the      *)
(* semantic one has answered.                                              *)
(***************************************************************************)
Withdrawn(s, id) == promise[s][id] # "cancelled" /\ promise'[s][id] = "cancelled"

NoLateWithdrawal ==
  [][\A r \in Routers, id \in Ids : \A s, o \in Members(r) :
       Shared(id) /\ promise[s][id] = "answered" => ~Withdrawn(o, id)]_vars

(***************************************************************************)
(* Whichever server a query is routed to, while projects load and after,   *)
(* that server has been given every edit and every configuration executed  *)
(* before the query, and no later one, ahead of it.                        *)
(***************************************************************************)
Before(id) == {i \in Ids : i < id /\ Shared(i)}

QueriesSeeEdits ==
  \A s \in Servers : \A k \in 1..Len(handed[s]) :
    {handed[s][j] : j \in 1..k - 1} \cap {i \in Ids : Shared(i)} = Before(handed[s][k])

(***************************************************************************)
(* When the primary server is gone or the composite has been killed, no    *)
(* process stays behind, whatever state the others were in.                *)
(***************************************************************************)
Ended == proc[Primary] = "exited" \/ killed[Primary]

NoProcessLeft == Ended ~> \A s \in Servers : proc[s] = "exited"

(***************************************************************************)
(* And no caller waits for ever: what was asked of a server while it ran   *)
(* is settled when the composite has come to its end.                      *)
(***************************************************************************)
NoPromiseLeft ==
  \A s \in Servers, id \in Ids :
    (promise[s][id] = "pending" /\ proc[s] = "running" /\ Ended) ~> promise[s][id] # "pending"
=============================================================================
