---------------------------- MODULE GetErrProofs ----------------------------
(***************************************************************************)
(* Theorems about GetErr, for any documents and whatever the server can    *)
(* check: TypeOK, OneGetErr, NothingForgotten and PendingIsScheduled are   *)
(* inductive together.                                                     *)
(***************************************************************************)
EXTENDS GetErr, TLAPS

IInv == TypeOK /\ OneGetErr /\ NothingForgotten /\ PendingIsScheduled

LEMMA RequestsFacts == NoRequest \notin Requests
  BY DEF NoRequest, Requests

LEMMA InitIInv == Init => IInv
  BY DocsAssumption, RequestsFacts
  DEF Init, IInv, TypeOK, OneGetErr, NothingForgotten, PendingIsScheduled

-----------------------------------------------------------------------------
(***************************************************************************)
(* After the pending request was cancelled none is under way, and one that *)
(* is pending next is not cleared by the callback of its predecessor.      *)
(***************************************************************************)
LEMMA CancelPending ==
  ASSUME TypeOK, OneGetErr
  PROVE  /\ Cancelled(pendingGetErr) \in [Requests -> {"free", "immediate"}]
         /\ AfterCancel(NoRequest, pendingGetErr) = NoRequest
         /\ \A r \in Requests \ {pendingGetErr} : AfterCancel(r, pendingGetErr) = r
         /\ AfterCancel(pendingGetErr, pendingGetErr) \in {NoRequest, pendingGetErr}
         /\ AfterCancel(pendingGetErr, pendingGetErr) # NoRequest =>
              Cancelled(pendingGetErr)[pendingGetErr] # "free"
<1> USE RequestsFacts DEF TypeOK, OneGetErr
<1>1. Cancelled(pendingGetErr) \in [Requests -> {"free", "immediate"}]
  BY DEF Cancelled
<1>2. \A c : AfterCancel(c, pendingGetErr) \in {c, NoRequest}
  BY DEF AfterCancel, OnDone
<1>3. \A c : c # pendingGetErr => AfterCancel(c, pendingGetErr) = c
  BY DEF AfterCancel, OnDone
<1>4. AfterCancel(NoRequest, pendingGetErr) = NoRequest
  BY <1>2
<1>5. ASSUME AfterCancel(pendingGetErr, pendingGetErr) # NoRequest
      PROVE  Cancelled(pendingGetErr)[pendingGetErr] # "free"
  BY <1>5 DEF AfterCancel, OnDone, Cancelled
<1> QED
  BY <1>1, <1>2, <1>3, <1>4, <1>5

(***************************************************************************)
(* What a step does to the documents: nothing that is requested is lost as *)
(* long as the delayer is set afterwards or the request stays as it is.    *)
(***************************************************************************)
LEMMA RequestKeeps ==
  ASSUME IInv, NEW docs \in SUBSET syncedBuffers', syncedBuffers \subseteq syncedBuffers',
         syncedBuffers' \subseteq Docs, Request(docs), UNCHANGED <<validate, pendingGetErr, getErr, server>>
  PROVE  IInv'
<1> USE DocsAssumption DEF IInv, Request, Want
<1>1. TypeOK'
  BY DEF TypeOK
<1>2. OneGetErr'
  BY DEF OneGetErr
<1>3. NothingForgotten' /\ PendingIsScheduled'
  BY DEF NothingForgotten, PendingIsScheduled
<1> QED
  BY <1>1, <1>2, <1>3

LEMMA CancelKeeps ==
  ASSUME IInv, CancelAndTrigger, UNCHANGED <<syncedBuffers, validate, server>>
  PROVE  IInv'
<1> USE CancelPending, RequestsFacts DEF IInv, CancelAndTrigger
<1>1. TypeOK'
  BY DEF TypeOK
<1>2. OneGetErr'
  BY DEF OneGetErr
<1>3. NothingForgotten' /\ PendingIsScheduled'
  BY DEF NothingForgotten, PendingIsScheduled
<1> QED
  BY <1>1, <1>2, <1>3

LEMMA UnchangedKeeps == IInv /\ UNCHANGED vars => IInv'
  BY DEF IInv, TypeOK, OneGetErr, NothingForgotten, PendingIsScheduled, vars

-----------------------------------------------------------------------------
(* One lemma per action that is more than one of these. *)

LEMMA OpenKeeps == ASSUME IInv, NEW d \in Docs, OpenTextDocument(d) PROVE IInv'
<1>1. CASE d \in validate
  BY <1>1, RequestKeeps DEF OpenTextDocument, IInv, TypeOK
<1>2. CASE d \notin validate
  BY <1>2, DocsAssumption
  DEF OpenTextDocument, IInv, TypeOK, OneGetErr, NothingForgotten, PendingIsScheduled
<1> QED
  BY <1>1, <1>2

LEMMA ChangeKeeps == ASSUME IInv, NEW d \in Docs, ChangeTextDocument(d) PROVE IInv'
<1>1. CASE d \in validate /\ Request({d}) /\ UNCHANGED <<pendingGetErr, getErr>>
  BY <1>1, RequestKeeps DEF ChangeTextDocument, IInv, TypeOK
<1>2. CASE CancelAndTrigger
  BY <1>2, CancelKeeps DEF ChangeTextDocument
<1>3. CASE UNCHANGED <<pendingDiags, delayer, pendingGetErr, getErr, owed, asked>>
  BY <1>3, UnchangedKeeps DEF ChangeTextDocument, vars
<1> QED
  BY <1>1, <1>2, <1>3 DEF ChangeTextDocument

LEMMA CloseKeeps == ASSUME IInv, NEW d \in Docs, CloseResource(d) PROVE IInv'
<1> USE DocsAssumption DEF IInv, CloseResource
<1>1. TypeOK'
  BY DEF TypeOK
<1>2. OneGetErr'
  BY DEF OneGetErr
<1>3. NothingForgotten'
  BY DEF NothingForgotten
<1>4. PendingIsScheduled'
  BY DEF PendingIsScheduled
<1> QED
  BY <1>1, <1>2, <1>3, <1>4

LEMMA UpdateConfigKeeps == ASSUME IInv, NEW kinds \in SUBSET Docs, UpdateConfig(kinds) PROVE IInv'
  BY DEF UpdateConfig, IInv, TypeOK, OneGetErr, NothingForgotten, PendingIsScheduled

LEMMA InterruptKeeps == ASSUME IInv, InterruptGetErr PROVE IInv'
<1>1. CASE CancelAndTrigger
  BY <1>1, CancelKeeps DEF InterruptGetErr
<1>2. CASE server # "up" /\ ~CancelAndTrigger
  <2> USE <1>2, CancelPending, RequestsFacts DEF IInv, InterruptGetErr
  <2>1. TypeOK'
    BY DEF TypeOK
  <2>2. OneGetErr'
    BY DEF OneGetErr
  <2>3. NothingForgotten' /\ PendingIsScheduled'
    BY DEF NothingForgotten, PendingIsScheduled
  <2> QED
    BY <2>1, <2>2, <2>3
<1> QED
  BY <1>1, <1>2 DEF InterruptGetErr

LEMMA SendNothingKeeps ==
  ASSUME IInv, RunTask, SendNothing, UNCHANGED <<syncedBuffers, validate>>
  PROVE  IInv'
<1> USE CancelPending, RequestsFacts, DocsAssumption DEF IInv, RunTask, SendNothing, FilesToAsk
<1>1. TypeOK'
  BY DEF TypeOK
<1>2. OneGetErr'
  BY DEF OneGetErr
<1>3. NothingForgotten'
  BY DEF NothingForgotten, TypeOK
<1>4. PendingIsScheduled'
  BY DEF PendingIsScheduled
<1> QED
  BY <1>1, <1>2, <1>3, <1>4

LEMMA SendFailsKeeps ==
  ASSUME IInv, RunTask, SendFails, UNCHANGED <<syncedBuffers, validate>>
  PROVE  IInv'
<1> USE CancelPending, RequestsFacts, DocsAssumption DEF IInv, RunTask, SendFails
<1>1. TypeOK'
  BY DEF TypeOK
<1>2. OneGetErr'
  BY DEF OneGetErr
<1>3. NothingForgotten' /\ PendingIsScheduled'
  BY DEF NothingForgotten, PendingIsScheduled
<1> QED
  BY <1>1, <1>2, <1>3

LEMMA SendImmediateKeeps ==
  ASSUME IInv, RunTask, NEW r \in Requests, SendImmediate(r), UNCHANGED <<syncedBuffers, validate>>
  PROVE  IInv'
<1> USE CancelPending, RequestsFacts, DocsAssumption DEF IInv, SendImmediate, FilesToAsk
<1>1. pendingGetErr' = r /\ getErr' = [Cancelled(pendingGetErr) EXCEPT ![r] = "immediate"]
  OBVIOUS
<1>2. syncedBuffers' = syncedBuffers /\ validate' = validate
  OBVIOUS
<1>3. TypeOK'
  BY <1>1, <1>2 DEF TypeOK
<1>4. OneGetErr'
  BY <1>1 DEF OneGetErr
<1>5. NothingForgotten'
  BY DEF NothingForgotten, TypeOK
<1>6. PendingIsScheduled'
  BY DEF PendingIsScheduled
<1> QED
  BY <1>3, <1>4, <1>5, <1>6

LEMMA SendGetErrKeeps ==
  ASSUME IInv, RunTask, NEW r \in Requests, SendGetErr(r), UNCHANGED <<syncedBuffers, validate>>
  PROVE  IInv'
<1> USE CancelPending, RequestsFacts, DocsAssumption DEF IInv, SendGetErr, FilesToAsk
<1>1. pendingGetErr' = r /\ getErr' = [Cancelled(pendingGetErr) EXCEPT ![r] = "running"]
  OBVIOUS
<1>2. syncedBuffers' = syncedBuffers /\ validate' = validate
  OBVIOUS
<1>3. TypeOK'
  BY <1>1, <1>2 DEF TypeOK
<1>4. OneGetErr'
  BY <1>1 DEF OneGetErr
<1>5. NothingForgotten'
  <2>1. getErr'[r] = "running"
    BY <1>1
  <2> QED
    BY <1>1, <2>1 DEF NothingForgotten, TypeOK
<1>6. PendingIsScheduled'
  BY DEF PendingIsScheduled
<1> QED
  BY <1>3, <1>4, <1>5, <1>6

(***************************************************************************)
(* A time-out that lost its task takes nothing with it.                    *)
(***************************************************************************)
LEMMA NoTaskKeeps ==
  ASSUME IInv, NoTask, UNCHANGED <<syncedBuffers, validate>>
  PROVE  IInv'
  BY DEF IInv, NoTask, TypeOK, OneGetErr, NothingForgotten, PendingIsScheduled

LEMMA CompletedKeeps ==
  ASSUME IInv, NEW r \in Requests, GetErrCompleted(r) PROVE IInv'
<1> USE RequestsFacts DEF IInv, GetErrCompleted
<1>1. pendingGetErr = r /\ pendingGetErr' = NoRequest
  BY DEF OneGetErr, OnDone
<1>2. TypeOK'
  BY <1>1 DEF TypeOK
<1>3. OneGetErr'
  BY <1>1 DEF OneGetErr, TypeOK
<1>4. NothingForgotten'
  BY DEF NothingForgotten
<1>5. PendingIsScheduled'
  BY DEF PendingIsScheduled
<1> QED
  BY <1>2, <1>3, <1>4, <1>5

LEMMA ImmediateDoneKeeps ==
  ASSUME IInv, NEW r \in Requests, ImmediateDone(r) PROVE IInv'
<1> USE RequestsFacts DEF IInv, ImmediateDone, OnDone
<1>1. TypeOK'
  BY DEF TypeOK
<1>2. OneGetErr'
  BY DEF OneGetErr, TypeOK
<1>3. NothingForgotten'
  BY DEF NothingForgotten, TypeOK, OneGetErr
<1>4. PendingIsScheduled'
  BY DEF PendingIsScheduled
<1> QED
  BY <1>1, <1>2, <1>3, <1>4

LEMMA ServerStartsKeeps == ASSUME IInv, ServerStarts PROVE IInv'
<1> USE CancelPending, RequestsFacts, DocsAssumption DEF IInv, ServerStarts
<1>1. TypeOK'
  BY DEF TypeOK
<1>2. OneGetErr'
  BY DEF OneGetErr
<1>3. NothingForgotten' /\ PendingIsScheduled'
  BY DEF NothingForgotten, PendingIsScheduled
<1> QED
  BY <1>1, <1>2, <1>3

LEMMA ServerEndsKeeps == ASSUME IInv, ServerEnds PROVE IInv'
<1> USE CancelPending, RequestsFacts DEF IInv, ServerEnds
<1>1. TypeOK'
  BY DEF TypeOK
<1>2. OneGetErr'
  BY DEF OneGetErr
<1>3. NothingForgotten' /\ PendingIsScheduled'
  BY DEF NothingForgotten, PendingIsScheduled
<1> QED
  BY <1>1, <1>2, <1>3

-----------------------------------------------------------------------------
LEMMA NextKeeps == IInv /\ [Next]_vars => IInv'
<1> SUFFICES ASSUME IInv, [Next]_vars PROVE IInv'
  OBVIOUS
<1>1. CASE UNCHANGED vars
  BY <1>1, UnchangedKeeps
<1>2. ASSUME NEW d \in Docs, OpenTextDocument(d) \/ ChangeTextDocument(d) \/ CloseResource(d)
      PROVE  IInv'
  BY <1>2, OpenKeeps, ChangeKeeps, CloseKeeps
<1>3. ASSUME NEW docs \in SUBSET Docs, GetErrFor(docs) \/ RequestVisible(docs) PROVE IInv'
  BY <1>3, RequestKeeps DEF GetErrFor, RequestVisible, IInv, TypeOK
<1>4. ASSUME NEW docs \in SUBSET Docs, UpdateConfig(docs) PROVE IInv'
  BY <1>4, UpdateConfigKeeps
<1>5. CASE RequestAllDiags
  BY <1>5, RequestKeeps DEF RequestAllDiags, IInv, TypeOK
<1>6. CASE InterruptGetErr
  BY <1>6, InterruptKeeps
<1>7. CASE DelayElapses
  BY <1>7, NoTaskKeeps, SendNothingKeeps, SendFailsKeeps, SendImmediateKeeps, SendGetErrKeeps
  DEF DelayElapses, RunTask
<1>8. ASSUME NEW r \in Requests, GetErrCompleted(r) \/ ImmediateDone(r) PROVE IInv'
  BY <1>8, CompletedKeeps, ImmediateDoneKeeps
<1>9. CASE ServerStarts \/ ServerEnds
  BY <1>9, ServerStartsKeeps, ServerEndsKeeps
<1> QED
  BY <1>1, <1>2, <1>3, <1>4, <1>5, <1>6, <1>7, <1>8, <1>9 DEF Next, Progress

LEMMA Inductive == Spec => []IInv
<1>1. Init => IInv
  BY InitIInv
<1>2. IInv /\ [Next]_vars => IInv'
  BY NextKeeps
<1> QED
  BY <1>1, <1>2, PTL DEF Spec

(***************************************************************************)
(* The diagnostics scheduler's variables have their types: in particular   *)
(* no document that is closed has diagnostics pending (closeResource).     *)
(***************************************************************************)
THEOREM TypeCorrect == Spec => []TypeOK
<1>1. IInv => TypeOK
  BY DEF IInv
<1> QED
  BY <1>1, Inductive, PTL

(***************************************************************************)
(* There is one 'geterr' at a time, and it is the one pendingGetErr names: *)
(* the callback of a request that was replaced never clears its successor. *)
(***************************************************************************)
THEOREM NeverTwoGetErrs == Spec => []OneGetErr
<1>1. IInv => OneGetErr
  BY DEF IInv
<1> QED
  BY <1>1, Inductive, PTL

(***************************************************************************)
(* No request for diagnostics is forgotten by sendPendingDiags,            *)
(* interruptGetErr or the restart of a server, while a server runs: not    *)
(* those either that a server made while 'geterr' started it, whose        *)
(* time-out fires without a task, since that 'geterr' asks for them.       *)
(***************************************************************************)
THEOREM RequestsAreKept == Spec => []NothingForgotten
<1>1. IInv => NothingForgotten
  BY DEF IInv
<1> QED
  BY <1>1, Inductive, PTL

(***************************************************************************)
(* While a server runs, hasPendingDiags() is true only until a time-out    *)
(* that is set (triggerDiags).                                             *)
(***************************************************************************)
THEOREM PendingWillBeSent == Spec => []PendingIsScheduled
<1>1. IInv => PendingIsScheduled
  BY DEF IInv
<1> QED
  BY <1>1, Inductive, PTL

-----------------------------------------------------------------------------
(* What DiagsArrive rests on *)

Unfinished == {r \in Requests : getErr[r] # "free"}

(***************************************************************************)
(* A server that is down is started, or else the time-out is used up, or   *)
(* else one of the two requests ends.                                      *)
(***************************************************************************)
Advances ==
  \/ server = "down" /\ server' = "up"
  \/ server' = server /\ delayer # "off" /\ delayer' = "off"
  \/ /\ server' = server /\ delayer' = delayer
     /\ Unfinished' \subseteq Unfinished /\ Unfinished' # Unfinished

(***************************************************************************)
(* There is a time-out with a task to come, or a callback, or an answer of *)
(* the server; a time-out without a task is not counted.                   *)
(***************************************************************************)
Busy ==
  \/ delayer = "set"
  \/ \E r \in Requests : getErr[r] = "immediate" \/ (server = "up" /\ getErr[r] = "running")

(***************************************************************************)
(* Time-outs, callbacks and answers come to an end by themselves: each one *)
(* advances, so that sendPendingDiags, which starts a server and is        *)
(* triggered by its start, does not go round for ever.                     *)
(***************************************************************************)
THEOREM ProgressAdvances == Spec => [][Progress => Advances]_vars
<1>1. ASSUME IInv, Progress
      PROVE  Advances
  <2>1. CASE DelayElapses
    <3>1. CASE RunTask /\ SendNothing
      BY <3>1 DEF RunTask, SendNothing, Advances
    <3>2. CASE RunTask /\ SendFails
      BY <3>2 DEF RunTask, SendFails, Advances
    <3>3. ASSUME RunTask, NEW r \in Requests, SendImmediate(r)
          PROVE  Advances
      BY <3>3 DEF RunTask, SendImmediate, Advances
    <3>4. ASSUME RunTask, NEW r \in Requests, SendGetErr(r)
          PROVE  Advances
      <4>1. server \in {"up", "down"} /\ server' = "up"
        BY <1>1, <3>4 DEF SendGetErr, IInv, TypeOK
      <4>2. CASE server = "down"
        BY <4>1, <4>2 DEF Advances
      <4>3. CASE server = "up"
        <5>1. delayer # "off" /\ delayer' = "off"
          BY <3>4, <4>3 DEF RunTask, SendGetErr
        <5> QED
          BY <4>1, <4>3, <5>1 DEF Advances
      <4> QED
        BY <4>1, <4>2, <4>3
    <3>5. CASE NoTask
      BY <3>5 DEF NoTask, Advances
    <3> QED
      BY <2>1, <3>1, <3>2, <3>3, <3>4, <3>5 DEF DelayElapses, RunTask
  <2>2. ASSUME NEW r \in Requests, GetErrCompleted(r) \/ ImmediateDone(r)
        PROVE  Advances
    <3>1. /\ server' = server /\ delayer' = delayer
          /\ getErr[r] # "free" /\ getErr' = [getErr EXCEPT ![r] = "free"]
      BY <2>2 DEF GetErrCompleted, ImmediateDone
    <3>2. getErr'[r] = "free" /\ \A q \in Requests : q # r => getErr'[q] = getErr[q]
      BY <1>1, <3>1 DEF IInv, TypeOK
    <3>3. r \in Unfinished /\ Unfinished' = Unfinished \ {r}
      BY <3>1, <3>2 DEF Unfinished
    <3> QED
      BY <3>1, <3>3 DEF Advances
  <2> QED
    BY <1>1, <2>1, <2>2 DEF Progress
<1>2. IInv /\ [Next]_vars => [Progress => Advances]_vars
  BY <1>1
<1> QED
  BY <1>2, Inductive, PTL DEF Spec

(***************************************************************************)
(* When nothing is to come any more, all diagnostics wanted have arrived   *)
(* or the server is gone.                                                  *)
(***************************************************************************)
THEOREM ArrivedOrBusy == Spec => [](owed = {} \/ server # "up" \/ Busy)
<1>1. IInv => owed = {} \/ server # "up" \/ Busy
  BY DEF IInv, TypeOK, NothingForgotten, Busy
<1> QED
  BY <1>1, Inductive, PTL
=============================================================================
