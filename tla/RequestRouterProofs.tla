------------------------ MODULE RequestRouterProofs ------------------------
(***************************************************************************)
(* Theorems about RequestRouter, for every layout of the servers, any      *)
(* commands and any number of them.                                        *)
(*                                                                         *)
(* What a server is given depends on the routing alone (RouteInv).  What   *)
(* becomes of shared commands depends on promises and microtasks           *)
(* (StateInv): a router knows of every promise that is settled, or has a   *)
(* microtask that will tell it.                                            *)
(***************************************************************************)
EXTENDS RequestRouter, SequenceTheorems, TLAPS

\* Each server has been given every shared command, and nothing that was not executed.
HandedOut ==
  /\ executed \in Seq(Commands) /\ Len(executed) <= MaxCommands
  /\ handed \in [Servers -> Seq(Ids)]
  /\ \A s \in Servers : \A k \in 1..Len(handed[s]) : handed[s][k] <= Len(executed)
  /\ \A s \in Servers : \A i \in Ids :
       Shared(i) => \E k \in 1..Len(handed[s]) : handed[s][k] = i

RouteInv == HandedOut /\ QueriesSeeEdits

routeVars == <<executed, handed>>

\* A command that is executed gets the next number.
LEMMA NextId ==
  ASSUME HandedOut, NEW c \in Commands, Execute(c)
  PROVE  LET id == Len(executed) + 1
         IN  /\ id \in Ids /\ Len(executed) \in Nat
             /\ executed' \in Seq(Commands) /\ Len(executed') = id
             /\ \A i \in Ids : i # id => (Shared(i)' <=> Shared(i))
             /\ \A i \in Ids : Shared(i)' => i <= id
             /\ \A i \in Ids : Shared(i) => i < id
             /\ \A i \in Ids : i = id => (Shared(i)' <=> c \in SharedCommands)
<1> DEFINE id == Len(executed) + 1
<1>1. /\ Len(executed) \in Nat /\ executed' = Append(executed, c)
      /\ Len(executed) < MaxCommands /\ MaxCommands \in Nat
  BY CommandsAssumption, LenProperties DEF HandedOut, Execute
<1>2. /\ executed' \in Seq(Commands) /\ Len(executed') = id
      /\ \A i \in 1..Len(executed) : executed'[i] = executed[i]
      /\ executed'[id] = c
  BY <1>1, AppendProperties DEF HandedOut
<1>3. id \in Ids
  BY <1>1 DEF Ids
<1>4. \A i \in Ids : i # id => (Shared(i)' <=> Shared(i))
  BY <1>1, <1>2 DEF Shared, Ids
<1>5. /\ \A i \in Ids : Shared(i)' => i <= id
      /\ \A i \in Ids : Shared(i) => i < id
      /\ \A i \in Ids : i = id => (Shared(i)' <=> c \in SharedCommands)
  <2>1. \A i : Shared(i) <=> i \in 1..Len(executed) /\ executed[i] \in SharedCommands
    BY DEF Shared
  <2>2. \A i : Shared(i)' <=> i \in 1..id /\ executed'[i] \in SharedCommands
    BY <1>2 DEF Shared
  <2>3. id \in 1..id
    BY <1>1
  <2>4. \A i \in Ids : i = id => (Shared(i)' <=> c \in SharedCommands)
    BY <1>2, <2>2, <2>3
  <2> QED
    BY <1>1, <2>1, <2>2, <2>4 DEF Ids
<1> QED
  BY <1>1, <1>2, <1>3, <1>4, <1>5

\* A server that is not among the targets is given nothing; then the command is not shared.
LEMMA HandedBefore ==
  ASSUME HandedOut, NEW c \in Commands, Execute(c), NEW s \in Servers
  PROVE  LET id == Len(executed) + 1
         IN  \/ /\ s \in Targets(c)
                /\ handed'[s] \in Seq(Ids) /\ Len(handed'[s]) = Len(handed[s]) + 1
                /\ Len(handed[s]) \in Nat
                /\ \A k \in 1..Len(handed[s]) : handed'[s][k] = handed[s][k]
                /\ handed'[s][Len(handed[s]) + 1] = id
             \/ c \notin SharedCommands /\ handed'[s] = handed[s]
<1> DEFINE id == Len(executed) + 1
<1>1. id \in Ids
  BY NextId
<1>2. handed'[s] = IF s \in Targets(c) THEN Append(handed[s], id) ELSE handed[s]
  BY DEF Execute
<1>3. handed[s] \in Seq(Ids)
  BY DEF HandedOut
<1>4. CASE s \in Targets(c)
  <2>1. handed'[s] = Append(handed[s], id)
    BY <1>2, <1>4
  <2> QED
    BY <1>1, <1>3, <1>4, <2>1, AppendProperties, LenProperties
<1>5. CASE s \notin Targets(c)
  BY <1>2, <1>5 DEF Targets
<1> QED
  BY <1>4, <1>5

LEMMA ExecuteKeepsHandedOut ==
  ASSUME HandedOut, NEW c \in Commands, Execute(c)
  PROVE  HandedOut'
<1> DEFINE id == Len(executed) + 1
<1>1. /\ executed' \in Seq(Commands) /\ Len(executed') = id /\ Len(executed) \in Nat
      /\ id \in Ids
  BY NextId
<1>2. id <= MaxCommands
  BY <1>1 DEF Ids
<1>3. handed' \in [Servers -> Seq(Ids)]
  <2>1. DOMAIN handed' = Servers /\ handed' = [s \in Servers |-> handed'[s]]
    BY DEF Execute
  <2>2. \A s \in Servers : handed'[s] \in Seq(Ids)
    BY HandedBefore DEF HandedOut
  <2> QED
    BY <2>1, <2>2
<1>4. ASSUME NEW s \in Servers, NEW k \in 1..Len(handed'[s])
      PROVE  handed'[s][k] <= id
  <2>1. handed[s] \in Seq(Ids) /\ Len(handed[s]) \in Nat
    BY LenProperties DEF HandedOut
  <2>2. \A j \in 1..Len(handed[s]) : handed[s][j] \in Nat /\ handed[s][j] <= Len(executed)
    <3>1. \A j \in 1..Len(handed[s]) : handed[s][j] \in Ids
      BY <2>1, ElementOfSeq
    <3>2. Ids \subseteq Nat
      BY CommandsAssumption DEF Ids
    <3> QED
      BY <3>1, <3>2 DEF HandedOut
  <2>3. CASE k \in 1..Len(handed[s]) /\ handed'[s][k] = handed[s][k]
    BY <1>1, <2>2, <2>3
  <2>4. CASE k = Len(handed[s]) + 1 /\ handed'[s][k] = id
    BY <1>1, <2>4
  <2> QED
    BY <2>1, <2>3, <2>4, HandedBefore
<1>5. ASSUME NEW s \in Servers, NEW i \in Ids, Shared(i)'
      PROVE  \E k \in 1..Len(handed'[s]) : handed'[s][k] = i
  <2>1. CASE i = id
    <3>1. c \in SharedCommands
      BY <1>5, <2>1, NextId
    <3>2. Len(handed[s]) + 1 \in 1..Len(handed'[s]) /\ handed'[s][Len(handed[s]) + 1] = id
      BY <3>1, HandedBefore
    <3> QED
      BY <2>1, <3>2
  <2>2. CASE i # id
    <3>1. PICK k \in 1..Len(handed[s]) : handed[s][k] = i
      BY <1>5, <2>2, NextId DEF HandedOut
    <3> QED
      BY <3>1, HandedBefore
  <2> QED
    BY <2>1, <2>2
<1> QED
  BY <1>1, <1>2, <1>3, <1>4, <1>5 DEF HandedOut

LEMMA ExecuteKeepsOrder ==
  ASSUME RouteInv, NEW c \in Commands, Execute(c)
  PROVE  QueriesSeeEdits'
<1> USE DEF RouteInv
<1> DEFINE id == Len(executed) + 1
<1> SUFFICES ASSUME NEW s \in Servers, NEW k \in 1..Len(handed'[s])
             PROVE  {handed'[s][j] : j \in 1..k - 1} \cap {i \in Ids : Shared(i)'}
                      = {i \in Ids : i < handed'[s][k] /\ Shared(i)'}
  BY DEF QueriesSeeEdits, Before
<1>1. Len(executed) \in Nat /\ id \in Ids
  BY NextId
<1>2. handed[s] \in Seq(Ids) /\ Len(handed[s]) \in Nat /\ DOMAIN handed[s] = 1..Len(handed[s])
  BY LenProperties DEF HandedOut
<1>3. \A j \in 1..Len(handed[s]) : /\ handed'[s][j] = handed[s][j]
                                   /\ handed[s][j] \in Ids /\ handed[s][j] < id
  <2>1. \A j \in 1..Len(handed[s]) :
          handed[s][j] \in Ids /\ handed[s][j] <= Len(executed)
    BY <1>2, ElementOfSeq DEF HandedOut
  <2>2. \A j \in 1..Len(handed[s]) : handed'[s][j] = handed[s][j]
    BY HandedBefore
  <2> QED
    BY <1>1, <2>1, <2>2 DEF Ids
<1>4. CASE k \in 1..Len(handed[s])
  <2>1. {handed[s][j] : j \in 1..k - 1} \cap {i \in Ids : Shared(i)}
          = {i \in Ids : i < handed[s][k] /\ Shared(i)}
    BY <1>4 DEF QueriesSeeEdits, Before
  <2>2. {handed'[s][j] : j \in 1..k - 1} = {handed[s][j] : j \in 1..k - 1}
    BY <1>2, <1>3, <1>4
  <2>3. \A j \in 1..k - 1 : handed[s][j] # id
    BY <1>1, <1>2, <1>3, <1>4 DEF Ids
  <2>4. {handed[s][j] : j \in 1..k - 1} \cap {i \in Ids : Shared(i)'}
          = {handed[s][j] : j \in 1..k - 1} \cap {i \in Ids : Shared(i)}
    BY <2>3, NextId
  <2>5. {i \in Ids : i < handed[s][k] /\ Shared(i)'} = {i \in Ids : i < handed[s][k] /\ Shared(i)}
    BY <1>1, <1>3, <1>4, NextId DEF Ids
  <2> QED
    BY <1>3, <1>4, <2>1, <2>2, <2>4, <2>5
<1>5. CASE k \notin 1..Len(handed[s])
  <2>1. k = Len(handed[s]) + 1 /\ handed'[s][k] = id
    BY <1>2, <1>5, HandedBefore
  <2>2. {handed'[s][j] : j \in 1..k - 1} = {handed[s][j] : j \in 1..Len(handed[s])}
    BY <1>2, <1>3, <2>1
  <2>3. \A i \in Ids : i < id => (Shared(i)' <=> Shared(i))
    BY <1>1, NextId DEF Ids
  <2>4. \A i \in Ids : Shared(i) => \E j \in 1..Len(handed[s]) : handed[s][j] = i
    BY DEF HandedOut
  <2>5. \A i \in Ids : i \in {handed[s][j] : j \in 1..Len(handed[s])} /\ Shared(i)'
                       <=> i < id /\ Shared(i)'
    BY <1>3, <2>3, <2>4
  <2> QED
    BY <2>1, <2>2, <2>5
<1> QED
  BY <1>4, <1>5

-----------------------------------------------------------------------------
LEMMA InitRoutes == Init => RouteInv
<1> SUFFICES ASSUME Init PROVE RouteInv
  OBVIOUS
<1>1. /\ executed = <<>> /\ Len(executed) = 0
      /\ \A s \in Servers : handed[s] = <<>> /\ Len(handed[s]) = 0
      /\ handed \in [Servers -> Seq(Ids)]
  BY EmptySeq DEF Init
<1>2. executed \in Seq(Commands) /\ Len(executed) <= MaxCommands
  BY <1>1, CommandsAssumption, EmptySeq
<1>3. \A i \in Ids : ~Shared(i)
  BY <1>1 DEF Shared
<1>4. \A s \in Servers : 1..Len(handed[s]) = {}
  BY <1>1
<1> QED
  BY <1>1, <1>2, <1>3, <1>4 DEF RouteInv, HandedOut, QueriesSeeEdits

\* Nothing but a command executed gives a server anything.
LEMMA NextRoutes == RouteInv /\ [Next]_vars => RouteInv'
<1> SUFFICES ASSUME RouteInv, [Next]_vars PROVE RouteInv'
  OBVIOUS
<1>1. ASSUME NEW c \in Commands, Execute(c)
      PROVE  RouteInv'
  <2>1. HandedOut'
    BY <1>1, ExecuteKeepsHandedOut DEF RouteInv
  <2>2. QueriesSeeEdits'
    BY <1>1, ExecuteKeepsOrder
  <2> QED
    BY <2>1, <2>2 DEF RouteInv
<1>2. ASSUME UNCHANGED routeVars
      PROVE  RouteInv'
  <2>1. executed' = executed /\ handed' = handed
    BY <1>2 DEF routeVars
  <2>2. HandedOut'
    BY <2>1 DEF RouteInv, HandedOut, Shared
  <2>3. QueriesSeeEdits'
    BY <2>1 DEF RouteInv, QueriesSeeEdits, Before, Shared
  <2> QED
    BY <2>2, <2>3 DEF RouteInv
<1>3. ASSUME NEW s \in Servers, NEW i \in Ids, NEW result, Answer(s, i, result)
      PROVE  UNCHANGED routeVars
  BY <1>3 DEF Answer, routeVars
<1>4. ASSUME NEW i \in Ids, Cancel(i)
      PROVE  UNCHANGED routeVars
  BY <1>4 DEF Cancel, routeVars
<1>5. RunTask => UNCHANGED routeVars
  BY DEF RunTask, routeVars
<1>6. PrimaryExit => UNCHANGED routeVars
  BY DEF PrimaryExit, routeVars
<1>7. ASSUME NEW s \in Secondaries, SecondaryExit(s)
      PROVE  UNCHANGED routeVars
  BY <1>7 DEF SecondaryExit, routeVars
<1>8. ASSUME NEW s \in Servers, ProcError(s)
      PROVE  UNCHANGED routeVars
  BY <1>8 DEF ProcError, routeVars
<1>9. Kill => UNCHANGED routeVars
  BY DEF Kill, routeVars
<1>10. ASSUME NEW loading \in BOOLEAN, SemanticEvent(loading)
       PROVE  UNCHANGED routeVars
  BY <1>10 DEF SemanticEvent, routeVars
<1>11. CASE UNCHANGED vars
  BY <1>2, <1>11 DEF vars, routeVars
<1> QED
  BY <1>1, <1>2, <1>3, <1>4, <1>5, <1>6, <1>7, <1>8, <1>9, <1>10, <1>11 DEF Next

\* The server a query is routed to, by whatever layout and whatever projects do, has been
\* given all edits and configurations before it and none after it (RequestRouter.execute).
THEOREM QueriesComeAfterEdits == Spec => []QueriesSeeEdits
<1>1. RouteInv => QueriesSeeEdits
  BY DEF RouteInv
<1> QED
  BY <1>1, InitRoutes, NextRoutes, PTL DEF Spec

-----------------------------------------------------------------------------
(* What becomes of shared commands. *)

Outcomes == Rejected \cup Resolved

\* A promise is made when its command is executed, and for all servers or none.
Made ==
  /\ \A s \in Servers, id \in Ids : id > Len(executed) => promise[s][id] = "none"
  /\ \A s, o \in Servers, id \in Ids :
       Shared(id) /\ promise[s][id] = "none" => promise[o][id] = "none"

\* Microtasks are the handlers of promises that are settled.
TasksHear ==
  \A t \in tasks : Hears(t.listener, t.server, t.id) /\ promise[t.server][t.id] \in Outcomes

\* What a router knows of a promise is so, and what it does not know it will be told.
HeardOf ==
  \A r \in Routers, id \in Ids : \A s \in Members(r) :
    /\ requestStates[r][id][s] = "Resolved" => Shared(id) /\ promise[s][id] \in Resolved
    /\ requestStates[r][id][s] = "Errored" => Shared(id) /\ promise[s][id] \in Rejected
    /\ requestStates[r][id][s] = "Unresolved" /\ Shared(id) /\ promise[s][id] \in Outcomes
         => [listener |-> r, id |-> id, server |-> s] \in tasks

\* onFatalError is called for a command just if some router knows of two outcomes.
Clash(r, id) ==
  \E a, b \in Members(r) : requestStates[r][id][a] = "Resolved" /\ requestStates[r][id][b] = "Errored"

FatalIffClash == \A id \in Ids : fatal[id] > 0 <=> \E r \in Routers : Clash(r, id)

\* And then the client does not use the composite, or has killed it.
Stopped == \A id \in Ids : fatal[id] > 0 /\ inUse => \A s \in Servers : killed[s]

StateInv == TypeOK /\ Made /\ TasksHear /\ HeardOf /\ FatalIffClash /\ Stopped

LEMMA Layout ==
  /\ \A r \in Routers : Members(r) \subseteq Servers
  /\ Routers \subseteq {"syntaxRouting", "getErrRouting"} /\ "client" \notin Routers
  /\ Primary \in Servers /\ Secondaries \subseteq Servers
  /\ Rejected \cap Resolved = {} /\ "pending" \notin Outcomes /\ "none" \notin Outcomes
BY LayoutAssumption
   DEF Routers, Members, Servers, Primary, Secondaries, FirstOfPrimary, Rejected, Resolved, Outcomes

\* The routers compare the servers two and two, and so that none is left out: if some
\* servers are unlike the others, a router sees it.
LEMMA RoutersCompareAll ==
  ASSUME NEW S, NEW a \in Servers, NEW b \in Servers, a \in S, b \notin S
  PROVE  \E r \in Routers : \E c, d \in Members(r) : c \in S /\ d \notin S
<1>1. CASE SeparateSyntax /\ ~SeparateDiags
  <2>1. /\ Servers = {"semantic", "syntax"} /\ "syntaxRouting" \in Routers
        /\ Members("syntaxRouting") = {"syntax", "semantic"}
    BY <1>1 DEF Servers, Primary, Secondaries, Routers, Members
  <2> QED
    BY <2>1
<1>2. CASE ~SeparateSyntax /\ SeparateDiags
  <2>1. /\ Servers = {"main", "diagnostics"} /\ "getErrRouting" \in Routers
        /\ Members("getErrRouting") = {"diagnostics", "main"}
    BY <1>2 DEF Servers, Primary, Secondaries, Routers, Members, FirstOfPrimary
  <2> QED
    BY <2>1
<1>3. CASE SeparateSyntax /\ SeparateDiags
  <2>1. /\ Servers = {"semantic", "syntax", "diagnostics"}
        /\ "getErrRouting" \in Routers /\ "syntaxRouting" \in Routers
        /\ Members("syntaxRouting") = {"syntax", "semantic"}
        /\ Members("getErrRouting") = {"diagnostics", "syntax"}
    BY <1>3 DEF Servers, Primary, Secondaries, Routers, Members, FirstOfPrimary
  <2>2. CASE "syntax" \in S
    BY <2>1, <2>2
  <2>3. CASE "syntax" \notin S
    BY <2>1, <2>3
  <2> QED
    BY <2>2, <2>3
<1> QED
  BY <1>1, <1>2, <1>3, LayoutAssumption

-----------------------------------------------------------------------------
(* Settling promises. *)

LEMMA Settling ==
  ASSUME StateInv, Idle, NEW servers, NEW ids, NEW result \in Outcomes,
         Settle(servers, ids, result), UNCHANGED <<executed, requestStates>>
  PROVE  /\ promise' \in [Servers -> [Ids -> {"none", "pending"} \cup Rejected \cup Resolved]]
         /\ tasks' \subseteq Tasks
         /\ Made' /\ TasksHear' /\ HeardOf'
         /\ \A s \in Servers, id \in Ids :
              promise'[s][id] = IF s \in servers /\ id \in ids /\ promise[s][id] = "pending"
                                THEN result ELSE promise[s][id]
<1> DEFINE Settles(s, i) == s \in servers /\ i \in ids /\ promise[s][i] = "pending"
<1>1. /\ promise' = [s \in Servers |-> [i \in Ids |-> IF Settles(s, i) THEN result ELSE promise[s][i]]]
      /\ tasks' = {t \in Tasks : Settles(t.server, t.id) /\ Hears(t.listener, t.server, t.id)}
  BY DEF Settle
<1> HIDE DEF Settles
<1>2. \A s \in Servers, i \in Ids : promise'[s][i] = IF Settles(s, i) THEN result ELSE promise[s][i]
  BY <1>1
<1>3. promise \in [Servers -> [Ids -> {"none", "pending"} \cup Outcomes]]
  BY DEF StateInv, TypeOK, Outcomes
<1>4. promise' \in [Servers -> [Ids -> {"none", "pending"} \cup Outcomes]]
  BY <1>1, <1>3
<1>5. tasks' \subseteq Tasks
  BY <1>1
<1>6. \A id : Shared(id)' <=> Shared(id)
  BY DEF Shared
<1>7. \A s \in Servers, i \in Ids : Settles(s, i) => promise[s][i] = "pending"
  BY DEF Settles
<1>8. Made'
  <2>1. \A s \in Servers, i \in Ids : promise'[s][i] = "none" <=> promise[s][i] = "none"
    BY <1>2, <1>7, Layout
  <2> QED
    BY <1>6, <2>1 DEF StateInv, Made
<1>9. TasksHear'
  <2> SUFFICES ASSUME NEW t \in tasks'
               PROVE  Hears(t.listener, t.server, t.id)' /\ promise'[t.server][t.id] \in Outcomes
    BY DEF TasksHear
  <2>1. t.server \in Servers /\ t.id \in Ids
    BY <1>5 DEF Tasks
  <2>2. Settles(t.server, t.id) /\ Hears(t.listener, t.server, t.id)
    BY <1>1
  <2>3. Hears(t.listener, t.server, t.id)'
    BY <1>6, <2>2 DEF Hears
  <2> QED
    BY <1>2, <2>1, <2>2, <2>3
<1>10. HeardOf'
  <2> SUFFICES ASSUME NEW r \in Routers, NEW id \in Ids, NEW s \in Members(r)
               PROVE  /\ requestStates[r][id][s] = "Resolved" => Shared(id) /\ promise'[s][id] \in Resolved
                      /\ requestStates[r][id][s] = "Errored" => Shared(id) /\ promise'[s][id] \in Rejected
                      /\ requestStates[r][id][s] = "Unresolved" /\ Shared(id) /\ promise'[s][id] \in Outcomes
                           => [listener |-> r, id |-> id, server |-> s] \in tasks'
    BY <1>6 DEF HeardOf
  <2>1. s \in Servers
    BY Layout
  <2>2. /\ requestStates[r][id][s] = "Resolved" => Shared(id) /\ promise[s][id] \in Resolved
        /\ requestStates[r][id][s] = "Errored" => Shared(id) /\ promise[s][id] \in Rejected
        /\ requestStates[r][id][s] = "Unresolved" /\ Shared(id) => promise[s][id] \notin Outcomes
    BY DEF StateInv, HeardOf, Idle
  <2>3. promise[s][id] \in Outcomes => promise'[s][id] = promise[s][id]
    BY <1>2, <1>7, <2>1, Layout
  <2>4. ASSUME requestStates[r][id][s] = "Unresolved", Shared(id), promise'[s][id] \in Outcomes
        PROVE  [listener |-> r, id |-> id, server |-> s] \in tasks'
    <3>1. Settles(s, id)
      BY <1>2, <2>1, <2>2, <2>4
    <3>2. Hears(r, s, id)
      BY <2>4, Layout DEF Hears
    <3>3. [listener |-> r, id |-> id, server |-> s] \in Tasks
      BY <2>1 DEF Tasks
    <3> QED
      BY <1>1, <3>1, <3>2, <3>3
  <2> QED
    BY <2>2, <2>3, <2>4 DEF Outcomes
<1> QED
  BY <1>2, <1>4, <1>5, <1>8, <1>9, <1>10 DEF Settles, Outcomes

\* What an action that settles promises and tells no router of it keeps.
LEMMA SettlingKeeps ==
  ASSUME StateInv, Idle, NEW servers, NEW ids, NEW result \in Outcomes,
         Settle(servers, ids, result), UNCHANGED <<executed, handed, requestStates, fatal>>,
         projectLoading' \in BOOLEAN, inUse' \in BOOLEAN,
         proc' \in [Servers -> {"running", "exited"}], killed' \in [Servers -> BOOLEAN],
         inUse' => inUse, \A s \in Servers : killed[s] => killed'[s]
  PROVE  StateInv'
<1>1. TypeOK'
  BY Settling DEF StateInv, TypeOK
<1>2. FatalIffClash'
  BY DEF StateInv, FatalIffClash, Clash
<1>3. Stopped'
  BY DEF StateInv, Stopped
<1> QED
  BY <1>1, <1>2, <1>3, Settling DEF StateInv

-----------------------------------------------------------------------------
(* The handlers of promises. *)

\* A router is told of a settled promise: what it notes down is so, so it knows no less.
LEMMA Noting ==
  ASSUME StateInv, NEW t \in tasks, t.listener \in Routers, NEW state \in {"Resolved", "Errored"},
         state = IF promise[t.server][t.id] \in Rejected THEN "Errored" ELSE "Resolved",
         requestStates' = [requestStates EXCEPT ![t.listener][t.id][t.server] = state],
         tasks' = tasks \ {t}, UNCHANGED <<executed, promise>>
  PROVE  /\ requestStates' \in [Routers -> [Ids -> [Servers -> {"Unresolved", "Resolved", "Errored"}]]]
         /\ \A r \in Routers, i \in Ids, s \in Servers :
              requestStates'[r][i][s] = IF r = t.listener /\ i = t.id /\ s = t.server THEN state
                                        ELSE requestStates[r][i][s]
         /\ t.id \in Ids /\ t.server \in Members(t.listener) /\ t.server \in Servers
         /\ TasksHear' /\ HeardOf'
<1>1. t.id \in Ids /\ t.server \in Servers
  BY DEF StateInv, TypeOK, Tasks
<1>2. /\ t.server \in Members(t.listener) /\ Shared(t.id)
      /\ promise[t.server][t.id] \in Outcomes
  BY Layout DEF StateInv, TasksHear, Hears
<1>3. /\ requestStates' \in [Routers -> [Ids -> [Servers -> {"Unresolved", "Resolved", "Errored"}]]]
      /\ \A r \in Routers, i \in Ids, s \in Servers :
           requestStates'[r][i][s] = IF r = t.listener /\ i = t.id /\ s = t.server THEN state
                                     ELSE requestStates[r][i][s]
  BY <1>1 DEF StateInv, TypeOK
<1>4. \A id : Shared(id)' <=> Shared(id)
  BY DEF Shared
<1>5. TasksHear'
  <2>1. \A u \in tasks : Hears(u.listener, u.server, u.id)' <=> Hears(u.listener, u.server, u.id)
    BY <1>4 DEF Hears
  <2> QED
    BY <2>1 DEF StateInv, TasksHear
<1>6. HeardOf'
  <2> SUFFICES ASSUME NEW r \in Routers, NEW id \in Ids, NEW s \in Members(r)
               PROVE  /\ requestStates'[r][id][s] = "Resolved" => Shared(id) /\ promise[s][id] \in Resolved
                      /\ requestStates'[r][id][s] = "Errored" => Shared(id) /\ promise[s][id] \in Rejected
                      /\ requestStates'[r][id][s] = "Unresolved" /\ Shared(id) /\ promise[s][id] \in Outcomes
                           => [listener |-> r, id |-> id, server |-> s] \in tasks'
    BY <1>4 DEF HeardOf
  <2>1. s \in Servers
    BY Layout
  <2>2. CASE r = t.listener /\ id = t.id /\ s = t.server
    <3>1. requestStates'[r][id][s] = state
      BY <1>3, <2>1, <2>2
    <3>2. promise[s][id] \in Outcomes /\ Shared(id)
      BY <1>2, <2>2
    <3>3. CASE promise[s][id] \in Rejected
      BY <2>2, <3>1, <3>2, <3>3
    <3>4. CASE promise[s][id] \notin Rejected
      BY <2>2, <3>1, <3>2, <3>4 DEF Outcomes
    <3> QED
      BY <3>3, <3>4
  <2>3. CASE ~(r = t.listener /\ id = t.id /\ s = t.server)
    <3>1. requestStates'[r][id][s] = requestStates[r][id][s]
      BY <1>3, <2>1, <2>3
    <3>2. [listener |-> r, id |-> id, server |-> s] # t
      BY <2>3
    <3> QED
      BY <3>1, <3>2 DEF StateInv, HeardOf
  <2> QED
    BY <2>2, <2>3
<1> QED
  BY <1>1, <1>2, <1>3, <1>5, <1>6

\* The client stops the composite when onFatalError is called.
LEMMA Stopping ==
  ASSUME StateInv, NEW err, FatalError(err)
  PROVE  /\ killed' \in [Servers -> BOOLEAN] /\ inUse' \in BOOLEAN /\ (inUse' => inUse)
         /\ inUse' => \A s \in Servers : killed'[s]
BY DEF StateInv, TypeOK, FatalError

LEMMA ResolvedKeeps ==
  ASSUME StateInv, NEW t \in tasks, t.listener \in Routers,
         promise[t.server][t.id] \notin Rejected, OnResolved(t.listener, t.id, t.server),
         tasks' = tasks \ {t}, UNCHANGED <<executed, handed, promise, projectLoading, proc>>
  PROVE  StateInv'
<1> DEFINE r == t.listener
           id == t.id
           s == t.server
           errored == {e \in Members(r) : requestStates[r][id][e] = "Errored"}
<1>1. requestStates' = [requestStates EXCEPT ![r][id][s] = "Resolved"]
  BY DEF OnResolved
<1>2. /\ requestStates' \in [Routers -> [Ids -> [Servers -> {"Unresolved", "Resolved", "Errored"}]]]
      /\ \A q \in Routers, i \in Ids, o \in Servers :
           requestStates'[q][i][o] = IF q = r /\ i = id /\ o = s THEN "Resolved" ELSE requestStates[q][i][o]
      /\ id \in Ids /\ s \in Members(r) /\ s \in Servers
      /\ TasksHear' /\ HeardOf'
  BY <1>1, Noting
<1>3. s \notin errored
  BY <1>2 DEF StateInv, HeardOf
<1>4. Made'
  BY DEF StateInv, Made, Shared
<1>5. \A q \in Routers, i \in Ids : q # r \/ i # id => (Clash(q, i)' <=> Clash(q, i))
  <2>1. \A q \in Routers, i \in Ids : q # r \/ i # id =>
          \A o \in Members(q) : requestStates'[q][i][o] = requestStates[q][i][o]
    BY <1>2, Layout
  <2> QED
    BY <2>1 DEF Clash
<1>6. Clash(r, id)' <=> errored # {}
  <2>1. \A o \in Members(r) :
          requestStates'[r][id][o] = IF o = s THEN "Resolved" ELSE requestStates[r][id][o]
    BY <1>2, Layout
  <2>2. ASSUME NEW e \in errored
        PROVE  Clash(r, id)'
    <3>1. e \in Members(r) /\ requestStates'[r][id][e] = "Errored" /\ requestStates'[r][id][s] = "Resolved"
      BY <1>2, <1>3, <2>1
    <3> QED
      BY <1>2, <3>1 DEF Clash
  <2>3. ASSUME Clash(r, id)'
        PROVE  errored # {}
    <3>1. PICK e \in Members(r) : requestStates'[r][id][e] = "Errored"
      BY <2>3 DEF Clash
    <3> QED
      BY <2>1, <3>1
  <2> QED
    BY <2>2, <2>3
<1>7. CASE errored # {} /\ fatal' = [fatal EXCEPT ![id] = @ + 1]
           /\ \E e \in errored : FatalError(promise[e][id])
  <2>1. /\ fatal' \in [Ids -> Nat] /\ fatal'[id] > 0
        /\ \A i \in Ids : i # id => fatal'[i] = fatal[i]
    BY <1>2, <1>7 DEF StateInv, TypeOK
  <2>2. FatalIffClash'
    <3>1. ASSUME NEW i \in Ids, i # id
          PROVE  fatal'[i] > 0 <=> \E q \in Routers : Clash(q, i)'
      BY <1>5, <2>1, <3>1 DEF StateInv, FatalIffClash
    <3>2. \E q \in Routers : Clash(q, id)'
      BY <1>6, <1>7
    <3> QED
      BY <2>1, <3>1, <3>2 DEF FatalIffClash
  <2>3. /\ killed' \in [Servers -> BOOLEAN] /\ inUse' \in BOOLEAN
        /\ inUse' => \A o \in Servers : killed'[o]
    BY <1>7, Stopping
  <2>4. TypeOK'
    BY <1>2, <2>1, <2>3 DEF StateInv, TypeOK
  <2> QED
    BY <1>2, <1>4, <2>2, <2>3, <2>4 DEF StateInv, Stopped
<1>8. CASE errored = {} /\ UNCHANGED <<fatal, killed, inUse>>
  <2>1. ~Clash(r, id) /\ ~Clash(r, id)'
    BY <1>6, <1>8 DEF Clash
  <2>2. FatalIffClash'
    <3>1. \A q \in Routers, i \in Ids : Clash(q, i)' <=> Clash(q, i)
      BY <1>5, <2>1
    <3> QED
      BY <1>8, <3>1 DEF StateInv, FatalIffClash
  <2>3. Stopped'
    BY <1>8 DEF StateInv, Stopped
  <2>4. TypeOK'
    BY <1>2, <1>8 DEF StateInv, TypeOK
  <2> QED
    BY <1>2, <1>4, <2>2, <2>3, <2>4 DEF StateInv
<1> QED
  BY <1>7, <1>8 DEF OnResolved

LEMMA RejectedKeeps ==
  ASSUME StateInv, NEW t \in tasks, t.listener \in Routers,
         promise[t.server][t.id] \in Rejected, OnRejected(t.listener, t.id, t.server),
         tasks' = tasks \ {t}, UNCHANGED <<executed, handed, promise, projectLoading, proc>>
  PROVE  StateInv'
<1> DEFINE r == t.listener
           id == t.id
           s == t.server
           resolved == {e \in Members(r) : requestStates[r][id][e] = "Resolved"}
<1>1. requestStates' = [requestStates EXCEPT ![r][id][s] = "Errored"]
  BY DEF OnRejected
<1>2. /\ requestStates' \in [Routers -> [Ids -> [Servers -> {"Unresolved", "Resolved", "Errored"}]]]
      /\ \A q \in Routers, i \in Ids, o \in Servers :
           requestStates'[q][i][o] = IF q = r /\ i = id /\ o = s THEN "Errored" ELSE requestStates[q][i][o]
      /\ id \in Ids /\ s \in Members(r) /\ s \in Servers
      /\ TasksHear' /\ HeardOf'
  BY <1>1, Noting
<1>3. s \notin resolved
  BY <1>2, Layout DEF StateInv, HeardOf
<1>4. Made'
  BY DEF StateInv, Made, Shared
<1>5. \A q \in Routers, i \in Ids : q # r \/ i # id => (Clash(q, i)' <=> Clash(q, i))
  <2>1. \A q \in Routers, i \in Ids : q # r \/ i # id =>
          \A o \in Members(q) : requestStates'[q][i][o] = requestStates[q][i][o]
    BY <1>2, Layout
  <2> QED
    BY <2>1 DEF Clash
<1>6. Clash(r, id)' <=> resolved # {}
  <2>1. \A o \in Members(r) :
          requestStates'[r][id][o] = IF o = s THEN "Errored" ELSE requestStates[r][id][o]
    BY <1>2, Layout
  <2>2. ASSUME NEW e \in resolved
        PROVE  Clash(r, id)'
    <3>1. e \in Members(r) /\ requestStates'[r][id][e] = "Resolved" /\ requestStates'[r][id][s] = "Errored"
      BY <1>2, <1>3, <2>1
    <3> QED
      BY <1>2, <3>1 DEF Clash
  <2>3. ASSUME Clash(r, id)'
        PROVE  resolved # {}
    <3>1. PICK e \in Members(r) : requestStates'[r][id][e] = "Resolved"
      BY <2>3 DEF Clash
    <3> QED
      BY <2>1, <3>1
  <2> QED
    BY <2>2, <2>3
<1>7. CASE resolved # {} /\ fatal' = [fatal EXCEPT ![id] = @ + 1]
           /\ FatalError(promise[s][id])
  <2>1. /\ fatal' \in [Ids -> Nat] /\ fatal'[id] > 0
        /\ \A i \in Ids : i # id => fatal'[i] = fatal[i]
    BY <1>2, <1>7 DEF StateInv, TypeOK
  <2>2. FatalIffClash'
    <3>1. ASSUME NEW i \in Ids, i # id
          PROVE  fatal'[i] > 0 <=> \E q \in Routers : Clash(q, i)'
      BY <1>5, <2>1, <3>1 DEF StateInv, FatalIffClash
    <3>2. \E q \in Routers : Clash(q, id)'
      BY <1>6, <1>7
    <3> QED
      BY <2>1, <3>1, <3>2 DEF FatalIffClash
  <2>3. /\ killed' \in [Servers -> BOOLEAN] /\ inUse' \in BOOLEAN
        /\ inUse' => \A o \in Servers : killed'[o]
    BY <1>7, Stopping
  <2>4. TypeOK'
    BY <1>2, <2>1, <2>3 DEF StateInv, TypeOK
  <2> QED
    BY <1>2, <1>4, <2>2, <2>3, <2>4 DEF StateInv, Stopped
<1>8. CASE resolved = {} /\ UNCHANGED <<fatal, killed, inUse>>
  <2>1. ~Clash(r, id) /\ ~Clash(r, id)'
    BY <1>6, <1>8 DEF Clash
  <2>2. FatalIffClash'
    <3>1. \A q \in Routers, i \in Ids : Clash(q, i)' <=> Clash(q, i)
      BY <1>5, <2>1
    <3> QED
      BY <1>8, <3>1 DEF StateInv, FatalIffClash
  <2>3. Stopped'
    BY <1>8 DEF StateInv, Stopped
  <2>4. TypeOK'
    BY <1>2, <1>8 DEF StateInv, TypeOK
  <2> QED
    BY <1>2, <1>4, <2>2, <2>3, <2>4 DEF StateInv
<1> QED
  BY <1>7, <1>8 DEF OnRejected

\* The client's catch() tells no router anything.
LEMMA ReturnedKeeps ==
  ASSUME StateInv, NEW t \in tasks, t.listener = "client", OnReturned(t.id, t.server),
         tasks' = tasks \ {t}, UNCHANGED <<executed, handed, promise, projectLoading, proc>>
  PROVE  StateInv'
<1>1. UNCHANGED <<requestStates, fatal>>
  BY DEF OnReturned
<1>2. /\ killed' \in [Servers -> BOOLEAN] /\ inUse' \in BOOLEAN /\ (inUse' => inUse)
      /\ UNCHANGED <<killed, inUse>> \/ (inUse' => \A s \in Servers : killed'[s])
  <2>1. CASE FatalError(promise[t.server][t.id])
    BY <2>1, Stopping
  <2>2. CASE UNCHANGED <<killed, inUse>>
    BY <2>2 DEF StateInv, TypeOK
  <2> QED
    BY <2>1, <2>2 DEF OnReturned
<1>3. \A r \in Routers, id \in Ids, s \in Servers : [listener |-> r, id |-> id, server |-> s] # t
  BY Layout
<1>4. HeardOf'
  <2>1. ASSUME NEW r \in Routers, NEW id \in Ids, NEW s \in Members(r)
        PROVE  [listener |-> r, id |-> id, server |-> s] \in tasks
                 => [listener |-> r, id |-> id, server |-> s] \in tasks'
    BY <1>3, Layout
  <2> QED
    BY <1>1, <2>1 DEF StateInv, HeardOf, Shared
<1>5. TasksHear'
  BY DEF StateInv, TasksHear, Hears, Shared
<1>6. Made' /\ FatalIffClash'
  BY <1>1 DEF StateInv, Made, Shared, FatalIffClash, Clash
<1>7. Stopped'
  BY <1>1, <1>2 DEF StateInv, Stopped
<1>8. TypeOK'
  BY <1>1, <1>2 DEF StateInv, TypeOK
<1> QED
  BY <1>4, <1>5, <1>6, <1>7, <1>8 DEF StateInv

LEMMA RunTaskKeeps ==
  ASSUME StateInv, RunTask
  PROVE  StateInv'
<1>1. PICK t \in tasks :
        /\ tasks' = tasks \ {t}
        /\ \/ t.listener = "client" /\ OnReturned(t.id, t.server)
           \/ /\ t.listener # "client"
              /\ IF promise[t.server][t.id] \in Rejected
                 THEN OnRejected(t.listener, t.id, t.server)
                 ELSE OnResolved(t.listener, t.id, t.server)
        /\ UNCHANGED <<executed, handed, promise, projectLoading, proc>>
  BY DEF RunTask
<1>2. t.listener # "client" => t.listener \in Routers
  BY DEF StateInv, TypeOK, Tasks
<1>3. CASE t.listener = "client"
  BY <1>1, <1>3, ReturnedKeeps
<1>4. CASE t.listener # "client" /\ promise[t.server][t.id] \in Rejected
  BY <1>1, <1>2, <1>4, RejectedKeeps
<1>5. CASE t.listener # "client" /\ promise[t.server][t.id] \notin Rejected
  BY <1>1, <1>2, <1>5, ResolvedKeeps
<1> QED
  BY <1>3, <1>4, <1>5

-----------------------------------------------------------------------------
(* The other actions. *)

LEMMA ExecuteKeeps ==
  ASSUME StateInv, HandedOut, NEW c \in Commands, Execute(c)
  PROVE  StateInv'
<1> DEFINE id == Len(executed) + 1
           Promised(s) == s \in Targets(c) /\ ExpectsResult(c)
<1>1. /\ id \in Ids /\ Len(executed) \in Nat /\ Ids \subseteq Nat
      /\ executed' \in Seq(Commands) /\ Len(executed') = id /\ Len(executed') <= MaxCommands
      /\ \A i \in Ids : i # id => (Shared(i)' <=> Shared(i))
      /\ \A i \in Ids : Shared(i) => i < id
      /\ \A i \in Ids : i = id => (Shared(i)' <=> c \in SharedCommands)
  BY NextId, CommandsAssumption DEF Ids
<1>2. tasks = {} /\ UNCHANGED <<requestStates, tasks, fatal, projectLoading, proc, killed, inUse>>
  BY DEF Execute, Idle
<1>3. /\ promise' \in [Servers -> [Ids -> {"none", "pending"} \cup Outcomes]]
      /\ \A s \in Servers, i \in Ids :
           promise'[s][i] = IF Promised(s) /\ i = id THEN "pending" ELSE promise[s][i]
  <2>1. promise' = [s \in Servers |->
          IF Promised(s) THEN [promise[s] EXCEPT ![id] = "pending"] ELSE promise[s]]
    BY DEF Execute
  <2>2. promise \in [Servers -> [Ids -> {"none", "pending"} \cup Outcomes]]
    BY DEF StateInv, TypeOK, Outcomes
  <2> HIDE DEF Promised
  <2>3. \A s \in Servers : promise'[s] \in [Ids -> {"none", "pending"} \cup Outcomes]
    BY <1>1, <2>1, <2>2
  <2>4. \A s \in Servers, i \in Ids :
          promise'[s][i] = IF Promised(s) /\ i = id THEN "pending" ELSE promise[s][i]
    BY <1>1, <2>1, <2>2
  <2> QED
    BY <2>1, <2>3, <2>4
<1>4. \A s \in Servers : promise[s][id] = "none" /\ (c \in SharedCommands => s \in Targets(c))
  BY <1>1 DEF StateInv, Made, Targets
<1> HIDE DEF id, Promised
<1>5. Made'
  <2>1. ASSUME NEW s \in Servers, NEW i \in Ids, i > Len(executed')
        PROVE  promise'[s][i] = "none"
    <3>1. i # id /\ i > Len(executed)
      BY <1>1, <2>1 DEF id
    <3> QED
      BY <1>3, <3>1 DEF StateInv, Made
  <2>2. ASSUME NEW s \in Servers, NEW o \in Servers, NEW i \in Ids, Shared(i)', promise'[s][i] = "none"
        PROVE  promise'[o][i] = "none"
    <3>1. CASE i = id
      <4>1. c \in SharedCommands
        BY <1>1, <2>2, <3>1
      <4> QED
        BY <1>3, <1>4, <2>2, <3>1, <4>1 DEF Promised
    <3>2. CASE i # id
      BY <1>1, <1>3, <2>2, <3>2 DEF StateInv, Made
    <3> QED
      BY <3>1, <3>2
  <2> QED
    BY <2>1, <2>2 DEF Made
<1>6. HeardOf'
  <2> SUFFICES ASSUME NEW r \in Routers, NEW i \in Ids, NEW s \in Members(r)
               PROVE  /\ requestStates[r][i][s] = "Resolved" => Shared(i)' /\ promise'[s][i] \in Resolved
                      /\ requestStates[r][i][s] = "Errored" => Shared(i)' /\ promise'[s][i] \in Rejected
                      /\ requestStates[r][i][s] = "Unresolved" /\ Shared(i)' /\ promise'[s][i] \in Outcomes
                           => [listener |-> r, id |-> i, server |-> s] \in tasks'
    BY <1>2 DEF HeardOf
  <2>1. s \in Servers
    BY Layout
  <2>2. CASE i = id
    <3>1. ~Shared(i)
      <4>1. i \in Nat
        BY <1>1
      <4> QED
        BY <1>1, <2>2, <4>1
    <3>2. requestStates[r][i][s] \notin {"Resolved", "Errored"}
      BY <3>1 DEF StateInv, HeardOf
    <3>3. promise'[s][i] \notin Outcomes
      BY <1>3, <1>4, <2>1, <2>2, Layout
    <3> QED
      BY <3>2, <3>3
  <2>3. CASE i # id
    BY <1>1, <1>2, <1>3, <2>1, <2>3 DEF StateInv, HeardOf
  <2> QED
    BY <2>2, <2>3
<1>7. TasksHear'
  BY <1>2 DEF TasksHear
<1>8. FatalIffClash' /\ Stopped'
  BY <1>2 DEF StateInv, FatalIffClash, Clash, Stopped
<1>9. handed' \in [Servers -> Seq(Ids)]
  BY ExecuteKeepsHandedOut DEF HandedOut
<1>10. TypeOK'
  BY <1>1, <1>2, <1>3, <1>9 DEF StateInv, TypeOK, Outcomes
<1> QED
  BY <1>5, <1>6, <1>7, <1>8, <1>10 DEF StateInv

LEMMA InitState == Init => StateInv
<1> SUFFICES ASSUME Init PROVE StateInv
  OBVIOUS
<1>1. \A i \in Ids : ~Shared(i)
  BY EmptySeq DEF Init, Shared
<1>2. TypeOK
  BY InitRoutes DEF Init, TypeOK, RouteInv, HandedOut
<1>3. Made /\ TasksHear
  BY <1>1 DEF Init, Made, TasksHear
<1>4. \A r \in Routers, i \in Ids : \A s \in Members(r) : requestStates[r][i][s] = "Unresolved"
  BY Layout DEF Init
<1>5. HeardOf /\ FatalIffClash
  BY <1>1, <1>4 DEF Init, HeardOf, FatalIffClash, Clash
<1>6. Stopped
  BY DEF Init, Stopped
<1> QED
  BY <1>2, <1>3, <1>5, <1>6 DEF StateInv

LEMMA NextState == StateInv /\ RouteInv /\ [Next]_vars => StateInv'
<1> SUFFICES ASSUME StateInv, RouteInv, [Next]_vars PROVE StateInv'
  OBVIOUS
<1>0. /\ projectLoading \in BOOLEAN /\ inUse \in BOOLEAN
      /\ proc \in [Servers -> {"running", "exited"}] /\ killed \in [Servers -> BOOLEAN]
  BY DEF StateInv, TypeOK
<1>1. ASSUME NEW c \in Commands, Execute(c)
      PROVE  StateInv'
  BY <1>1, ExecuteKeeps DEF RouteInv
<1>2. ASSUME NEW s \in Servers, NEW i \in Ids, NEW result \in {"answered", "error", "unwritten"},
             Answer(s, i, result)
      PROVE  StateInv'
  <2>1. result \in Outcomes
    BY DEF Outcomes, Rejected, Resolved
  <2> QED
    BY <1>0, <1>2, <2>1, SettlingKeeps DEF Answer
<1>3. ASSUME NEW i \in Ids, Cancel(i)
      PROVE  StateInv'
  <2>1. "cancelled" \in Outcomes
    BY DEF Outcomes, Resolved
  <2> QED
    BY <1>0, <1>3, <2>1, SettlingKeeps DEF Cancel
<1>4. RunTask => StateInv'
  BY RunTaskKeeps
<1> DEFINE destroyed == "destroyed"
<1>5. destroyed \in Outcomes
  BY DEF Outcomes, Resolved
<1>6. ASSUME PrimaryExit
      PROVE  StateInv'
  BY <1>0, <1>5, <1>6, SettlingKeeps DEF PrimaryExit
<1>7. ASSUME NEW s \in Secondaries, SecondaryExit(s)
      PROVE  StateInv'
  BY <1>0, <1>5, <1>7, SettlingKeeps DEF SecondaryExit
<1>8. ASSUME NEW s \in Servers, ProcError(s)
      PROVE  StateInv'
  BY <1>0, <1>5, <1>8, SettlingKeeps DEF ProcError
<1> DEFINE asked == <<executed, handed, promise, requestStates, tasks, fatal>>
<1>9. ASSUME UNCHANGED asked, projectLoading' \in BOOLEAN, proc' = proc,
             inUse' \in BOOLEAN, killed' \in [Servers -> BOOLEAN],
             inUse' => inUse /\ killed' = killed
      PROVE  StateInv'
  <2>1. TypeOK'
    BY <1>9 DEF StateInv, TypeOK
  <2>2. Made' /\ TasksHear' /\ HeardOf'
    BY <1>9 DEF StateInv, Made, TasksHear, HeardOf, Hears, Shared
  <2>3. FatalIffClash' /\ Stopped'
    BY <1>9 DEF StateInv, FatalIffClash, Clash, Stopped
  <2> QED
    BY <2>1, <2>2, <2>3 DEF StateInv
<1>10. Kill => StateInv'
  BY <1>0, <1>9 DEF Kill
<1>11. ASSUME NEW loading \in BOOLEAN, SemanticEvent(loading)
       PROVE  StateInv'
  BY <1>0, <1>9, <1>11 DEF SemanticEvent
<1>12. CASE UNCHANGED vars
  BY <1>0, <1>9, <1>12 DEF vars
<1> QED
  BY <1>1, <1>2, <1>3, <1>4, <1>6, <1>7, <1>8, <1>10, <1>11, <1>12 DEF Next

-----------------------------------------------------------------------------
THEOREM StateHolds == Spec => [](RouteInv /\ StateInv)
<1>1. Init => RouteInv /\ StateInv
  BY InitRoutes, InitState
<1>2. RouteInv /\ StateInv /\ [Next]_vars => (RouteInv /\ StateInv)'
  BY NextRoutes, NextState
<1> QED
  BY <1>1, <1>2, PTL DEF Spec

THEOREM TypeCorrect == Spec => []TypeOK
<1>1. StateInv => TypeOK
  BY DEF StateInv
<1> QED
  BY <1>1, StateHolds, PTL

LEMMA ClashIsDivergence ==
  ASSUME StateInv, Idle, NEW id \in Ids
  PROVE  /\ fatal[id] > 0 => Diverged(id)
         /\ Diverged(id) /\ SettledByAll(id) => fatal[id] > 0
<1>1. ASSUME fatal[id] > 0
      PROVE  Diverged(id)
  <2>1. PICK r \in Routers : Clash(r, id)
    BY <1>1 DEF StateInv, FatalIffClash
  <2>2. PICK a \in Members(r), b \in Members(r) :
          requestStates[r][id][a] = "Resolved" /\ requestStates[r][id][b] = "Errored"
    BY <2>1 DEF Clash
  <2>3. Shared(id) /\ promise[a][id] \in Resolved /\ promise[b][id] \in Rejected
    BY <2>2 DEF StateInv, HeardOf
  <2>4. a \in Servers /\ b \in Servers
    BY Layout
  <2> QED
    BY <2>3, <2>4 DEF Diverged
<1>2. ASSUME Diverged(id), SettledByAll(id)
      PROVE  fatal[id] > 0
  <2>1. PICK a \in Servers, b \in Servers : promise[a][id] \in Rejected /\ promise[b][id] \in Resolved
    BY <1>2 DEF Diverged
  <2>2. \A s \in Servers : promise[s][id] \in Outcomes
    <3>1. \A s \in Servers : promise[s][id] # "none"
      BY <1>2, <2>1, Layout DEF StateInv, Made, Diverged, Outcomes
    <3> QED
      BY <1>2, <3>1 DEF StateInv, TypeOK, SettledByAll, Outcomes
  <2> DEFINE S == {s \in Servers : promise[s][id] \in Rejected}
  <2>3. a \in S /\ b \notin S
    BY <2>1, Layout
  <2>4. PICK r \in Routers : \E c, d \in Members(r) : c \in S /\ d \notin S
    BY <2>3, RoutersCompareAll
  <2>5. PICK c \in Members(r), d \in Members(r) : c \in S /\ d \notin S
    BY <2>4
  <2>6. /\ c \in Servers /\ d \in Servers
        /\ promise[c][id] \in Rejected /\ promise[d][id] \in Resolved
    BY <2>2, <2>5, Layout DEF Outcomes
  <2>7. /\ requestStates[r][id][c] \in {"Unresolved", "Resolved", "Errored"}
        /\ requestStates[r][id][d] \in {"Unresolved", "Resolved", "Errored"}
    BY <2>6 DEF StateInv, TypeOK
  <2>8. requestStates[r][id][c] = "Errored" /\ requestStates[r][id][d] = "Resolved"
    BY <1>2, <2>2, <2>6, <2>7, Layout DEF StateInv, HeardOf, Idle, Diverged
  <2> QED
    BY <2>8 DEF StateInv, FatalIffClash, Clash
<1> QED
  BY <1>1, <1>2

\* A shared command on which the servers' answers diverge is reported as fatal, and nothing
\* else is, in every layout and whatever else goes on (RequestRouter.execute).
THEOREM DivergenceIsNoticed == Spec => []DivergenceIsFatal
<1>1. StateInv => DivergenceIsFatal
  BY ClashIsDivergence DEF DivergenceIsFatal
<1> QED
  BY <1>1, StateHolds, PTL

\* After that the composite is not used on without being killed (ServiceClient.fatalError).
THEOREM DivergenceStops == Spec => []DivergedIsStopped
<1>1. StateInv => DivergedIsStopped
  BY ClashIsDivergence DEF DivergedIsStopped, StateInv, Stopped
<1> QED
  BY <1>1, StateHolds, PTL

-----------------------------------------------------------------------------
(* Cancelling. *)

\* No router reaches a server that it shares with one whose answer it has.
LEMMA AnswerIsHeard ==
  ASSUME StateInv, Idle, NEW r \in Routers, NEW id \in Ids, NEW s \in Members(r), NEW o \in Members(r),
         Shared(id), promise[s][id] = "answered"
  PROVE  o \notin ReachedByCancel(id)
<1>1. promise[s][id] \in Outcomes /\ promise[s][id] \notin Rejected
  BY Layout DEF Outcomes, Resolved
<1>2. requestStates[r][id][s] \in {"Unresolved", "Resolved", "Errored"}
  BY Layout DEF StateInv, TypeOK
<1>3. requestStates[r][id][s] = "Resolved"
  BY <1>1, <1>2 DEF StateInv, HeardOf, Idle
<1>4. ~HandsOn(r, id)
  BY <1>3 DEF HandsOn
<1>5. CASE r = "getErrRouting"
  BY <1>4, <1>5 DEF ReachedByCancel, Routers
<1>6. CASE r = "syntaxRouting"
  <2>1. SeparateSyntax /\ o # "diagnostics"
    BY <1>6 DEF Routers, Members
  <2> QED
    BY <1>4, <1>6, <2>1 DEF ReachedByCancel
<1> QED
  BY <1>5, <1>6, Layout

LEMMA SettlingWithdrawsNone ==
  ASSUME StateInv, Idle, NEW servers, NEW ids, NEW result \in Outcomes,
         Settle(servers, ids, result), UNCHANGED <<executed, requestStates>>,
         NEW o \in Servers, NEW id \in Ids,
         result = "cancelled" => ~(o \in servers /\ id \in ids)
  PROVE  ~Withdrawn(o, id)
BY Settling DEF Withdrawn

\* A router that has one server's answer does not withdraw the command from the other, in any
\* layout and whatever else goes on (the cancellation handler of RequestRouter.execute).
THEOREM NoneWithdrawnLate == Spec => NoLateWithdrawal
<1> DEFINE NoneWithdrawn ==
      \A r \in Routers, id \in Ids : \A s, o \in Members(r) :
        Shared(id) /\ promise[s][id] = "answered" => ~Withdrawn(o, id)
           destroyed == "destroyed"
           cancelled == "cancelled"
<1>1. ASSUME RouteInv, StateInv, [Next]_vars
      PROVE  [NoneWithdrawn]_vars
  <2> SUFFICES ASSUME NEW r \in Routers, NEW id \in Ids, NEW s \in Members(r), NEW o \in Members(r),
                      Shared(id), promise[s][id] = "answered", Withdrawn(o, id)
               PROVE  FALSE
    OBVIOUS
  <2>1. o \in Servers /\ promise'[o][id] # promise[o][id]
    BY Layout DEF Withdrawn
  <2>2. destroyed \in Outcomes /\ cancelled \in Outcomes
    BY DEF Outcomes, Resolved
  <2>3. ASSUME NEW c \in Commands, Execute(c)
        PROVE  FALSE
    <3>1. promise'[o] = promise[o] \/ promise'[o] = [promise[o] EXCEPT ![Len(executed) + 1] = "pending"]
      BY <2>1, <2>3 DEF Execute
    <3>2. promise[o] \in [Ids -> {"none", "pending"} \cup Rejected \cup Resolved]
      BY <1>1, <2>1 DEF StateInv, TypeOK
    <3>3. promise'[o][id] = promise[o][id] \/ promise'[o][id] = "pending"
      BY <3>1, <3>2
    <3> QED
      BY <3>3 DEF Withdrawn
  <2>4. ASSUME NEW x \in Servers, NEW i \in Ids, NEW result \in {"answered", "error", "unwritten"},
               Answer(x, i, result)
        PROVE  FALSE
    <3>1. result \in Outcomes /\ result # "cancelled"
      BY DEF Outcomes, Rejected, Resolved
    <3> QED
      BY <1>1, <2>1, <2>4, <3>1, SettlingWithdrawsNone DEF Answer
  <2>5. ASSUME NEW i \in Ids, Cancel(i)
        PROVE  FALSE
    <3>1. Idle /\ Settle(ReachedByCancel(i), {i}, cancelled) /\ UNCHANGED <<executed, requestStates>>
      BY <2>5 DEF Cancel
    <3>2. ~(o \in ReachedByCancel(i) /\ id \in {i})
      BY <1>1, <3>1, AnswerIsHeard
    <3> QED
      BY <1>1, <2>1, <2>2, <3>1, <3>2, SettlingWithdrawsNone
  <2>6. CASE PrimaryExit
    BY <1>1, <2>1, <2>2, <2>6, SettlingWithdrawsNone DEF PrimaryExit
  <2>7. ASSUME NEW x \in Secondaries, SecondaryExit(x)
        PROVE  FALSE
    BY <1>1, <2>1, <2>2, <2>7, SettlingWithdrawsNone DEF SecondaryExit
  <2>8. ASSUME NEW x \in Servers, ProcError(x)
        PROVE  FALSE
    BY <1>1, <2>1, <2>2, <2>8, SettlingWithdrawsNone DEF ProcError
  <2>9. CASE RunTask \/ Kill
    BY <2>1, <2>9 DEF RunTask, Kill
  <2>10. ASSUME NEW loading \in BOOLEAN, SemanticEvent(loading)
         PROVE  FALSE
    BY <2>1, <2>10 DEF SemanticEvent
  <2>11. CASE UNCHANGED vars
    BY <2>1, <2>11 DEF vars
  <2> QED
    BY <1>1, <2>3, <2>4, <2>5, <2>6, <2>7, <2>8, <2>9, <2>10, <2>11 DEF Next
<1>2. RouteInv /\ StateInv /\ [Next]_vars => [NoneWithdrawn]_vars
  BY <1>1
<1> QED
  BY <1>2, StateHolds, PTL DEF Spec, NoLateWithdrawal

-----------------------------------------------------------------------------
(* What NoProcessLeft and NoPromiseLeft rest on. *)

EndReachesAll == Ended => \A s \in Servers : killed[s] \/ proc[s] = "exited"

\* What is done to the processes by a step that ends none of them.
LEMMA KillingAll ==
  ASSUME TypeOK, EndReachesAll, proc' = proc,
         \/ killed' = killed
         \/ killed' = [s \in Servers |-> TRUE]
         \/ \E b \in BOOLEAN : killed' = [s \in Servers |-> killed[s] \/ b]
  PROVE  EndReachesAll'
<1>0. Primary \in Servers
  BY DEF Servers
<1>1. CASE killed' = killed
  BY <1>1 DEF EndReachesAll, Ended
<1>2. CASE \A s \in Servers : killed'[s]
  BY <1>2 DEF EndReachesAll
<1>3. ASSUME NEW b \in BOOLEAN, killed' = [s \in Servers |-> killed[s] \/ b]
      PROVE  EndReachesAll'
  <2>1. CASE b
    <3>1. \A s \in Servers : killed'[s]
      BY <1>3, <2>1
    <3> QED
      BY <1>2, <3>1
  <2>2. CASE ~b
    <3>1. \A s \in Servers : killed'[s] <=> killed[s]
      BY <1>3, <2>2
    <3> QED
      BY <1>0, <3>1 DEF EndReachesAll, Ended
  <2> QED
    BY <2>1, <2>2
<1> QED
  BY <1>1, <1>2, <1>3

\* When the primary process has exited or was killed every other one has or was, too: also when
\* a router's onFatalError, and not the client, is what gave the composite up.
THEOREM AllAreEnded == Spec => []EndReachesAll
<1>1. Init => EndReachesAll
  <2>1. Primary \in Servers
    BY DEF Servers
  <2> QED
    BY <2>1 DEF Init, EndReachesAll, Ended
<1>2. ASSUME TypeOK, EndReachesAll, [Next]_vars
      PROVE  EndReachesAll'
  <2>1. CASE RunTask
    <3>1. PICK t \in tasks : /\ proc' = proc
                             /\ \/ OnReturned(t.id, t.server)
                                \/ OnRejected(t.listener, t.id, t.server)
                                \/ OnResolved(t.listener, t.id, t.server)
      BY <2>1 DEF RunTask
    <3>2. killed' = killed \/ killed' = [s \in Servers |-> killed[s] \/ inUse]
      BY <3>1 DEF OnReturned, OnRejected, OnResolved, FatalError
    <3> QED
      BY <1>2, <3>1, <3>2, KillingAll DEF TypeOK
  <2>2. CASE PrimaryExit
    <3>1. \A s \in Servers : s = Primary \/ s \in Secondaries
      BY DEF Servers
    <3>2. /\ proc'[Primary] = "exited"
          /\ \A s \in Secondaries : killed'[s]
      BY <1>2, <2>2 DEF PrimaryExit, TypeOK, Servers
    <3> QED
      BY <3>1, <3>2 DEF EndReachesAll
  <2>3. ASSUME NEW x \in Secondaries, SecondaryExit(x)
        PROVE  EndReachesAll'
    <3>1. Primary \in Servers /\ Primary \notin Secondaries
      BY DEF Servers, Primary, Secondaries
    <3>2. /\ killed' = killed
          /\ \A s \in Servers : proc'[s] = IF s = x THEN "exited" ELSE proc[s]
      BY <1>2, <2>3 DEF SecondaryExit, TypeOK
    <3> QED
      BY <1>2, <2>3, <3>1, <3>2 DEF EndReachesAll, Ended
  <2>4. CASE Kill
    BY <1>2, <2>4, KillingAll DEF Kill
  <2>5. CASE UNCHANGED <<proc, killed>>
    BY <1>2, <2>5, KillingAll
  <2>6. ASSUME NEW c \in Commands, Execute(c)
        PROVE  UNCHANGED <<proc, killed>>
    BY <2>6 DEF Execute
  <2>7. ASSUME NEW s, NEW i, NEW result, Answer(s, i, result) \/ Cancel(i)
        PROVE  UNCHANGED <<proc, killed>>
    BY <2>7 DEF Answer, Cancel
  <2>8. ASSUME NEW s \in Servers, ProcError(s)
        PROVE  UNCHANGED <<proc, killed>>
    BY <2>8 DEF ProcError
  <2>9. ASSUME NEW loading \in BOOLEAN, SemanticEvent(loading)
        PROVE  UNCHANGED <<proc, killed>>
    BY <2>9 DEF SemanticEvent
  <2>10. CASE UNCHANGED vars
    BY <2>5, <2>10 DEF vars
  <2> QED
    BY <1>2, <2>1, <2>2, <2>3, <2>4, <2>5, <2>6, <2>7, <2>8, <2>9, <2>10 DEF Next
<1>3. TypeOK /\ EndReachesAll /\ [Next]_vars => EndReachesAll'
  BY <1>2
<1> QED
  BY <1>1, <1>3, TypeCorrect, PTL DEF Spec

\* The exit of a process settles every promise of its connection, with the same step: nothing
\* that was asked of it stays open (CallbackMap.destroy, and what the routers hear of it).
ExitSettles ==
  \A s \in Servers : proc[s] = "running" /\ proc'[s] = "exited" =>
    \A id \in Ids : promise'[s][id] # "pending"

THEOREM NoPromiseOutlivesItsProcess == Spec => [][ExitSettles]_vars
<1>1. ASSUME TypeOK, [Next]_vars
      PROVE  [ExitSettles]_vars
  <2>1. proc' = proc => ExitSettles
    BY DEF ExitSettles
  <2>2. ASSUME NEW x \in Servers, Settle({x}, Ids, "destroyed"), proc' = [proc EXCEPT ![x] = "exited"]
        PROVE  ExitSettles
    <3>1. \A s \in Servers : s # x => proc'[s] = proc[s]
      BY <1>1, <2>2 DEF TypeOK
    <3>2. \A id \in Ids : promise'[x][id] = IF promise[x][id] = "pending" THEN "destroyed" ELSE promise[x][id]
      BY <2>2 DEF Settle
    <3> QED
      BY <3>1, <3>2 DEF ExitSettles
  <2>3. CASE PrimaryExit
    BY <2>2, <2>3 DEF PrimaryExit, Servers
  <2>4. ASSUME NEW x \in Secondaries, SecondaryExit(x)
        PROVE  ExitSettles
    BY <2>2, <2>4 DEF SecondaryExit, Servers
  <2>5. CASE RunTask \/ Kill
    BY <2>1, <2>5 DEF RunTask, Kill
  <2>6. ASSUME NEW c \in Commands, Execute(c)
        PROVE  ExitSettles
    BY <2>1, <2>6 DEF Execute
  <2>7. ASSUME NEW s, NEW i, NEW result, Answer(s, i, result) \/ Cancel(i)
        PROVE  ExitSettles
    BY <2>1, <2>7 DEF Answer, Cancel
  <2>8. ASSUME NEW s \in Servers, ProcError(s)
        PROVE  ExitSettles
    BY <2>1, <2>8 DEF ProcError
  <2>9. ASSUME NEW loading \in BOOLEAN, SemanticEvent(loading)
        PROVE  ExitSettles
    BY <2>1, <2>9 DEF SemanticEvent
  <2> QED
    BY <1>1, <2>3, <2>4, <2>5, <2>6, <2>7, <2>8, <2>9 DEF Next
<1>2. TypeOK /\ [Next]_vars => [ExitSettles]_vars
  BY <1>1
<1> QED
  BY <1>2, TypeCorrect, PTL DEF Spec
=============================================================================
