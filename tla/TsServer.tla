------------------------------ MODULE TsServer ------------------------------
(***************************************************************************)
(* One connection to a tsserver process: class ProcBasedTsServer of        *)
(* semcode/direct/src/server/server.ts with its RequestQueue and           *)
(* CallbackMap (utils.ts) and the process it writes to (process.ts).       *)
(*                                                                         *)
(* The client runs in one event loop: every handler below is one atomic    *)
(* action, up to and including the sendNextRequests() it ends with.  The   *)
(* tsserver program is outside the repository; the Server* actions say     *)
(* only what the client relies on: it reads its input in order and answers *)
(* each request that expects an answer exactly once, unless it dies.       *)
(***************************************************************************)
EXTENDS RequestQueue, FiniteSets

CONSTANTS
  MaxRequests,   \* bound: how many requests are executed on the connection
  MaxAhead,      \* bound: the server sends an event of its own only while fewer
                 \* messages than this are unread
  Kinds,         \* the kinds of request that callers execute
  Observed       \* does the owner stop using a server that exits or errors?
                 \* TRUE: the main server (client.ts resets its state to None)
                 \* FALSE: the syntax server behind SyntaxRoutingTsServer, which
                 \* nothing watches

ASSUME BoundsAssumption == MaxRequests \in Nat /\ MaxAhead \in Nat
ASSUME KindsAssumption  == Kinds \subseteq RequestKind
ASSUME ObservedAssumption == Observed \in BOOLEAN

VARIABLES
  sequenceNumber,    \* RequestQueue.sequenceNumber
  queue,             \* RequestQueue.queue
  callbacks,         \* CallbackMap: the requests whose promise can be settled
  pendingResponses,  \* _pendingResponses
  outcome,           \* what became of the promise executeImpl returned
  written,           \* every item handed to process.write, in order
  nread,             \* how many of them the server is past
  working,           \* asynchronous requests the server is working on
  stdout,            \* messages of the server the client has not seen
  proc,              \* the process: "running" or "exited"
  killed,            \* kill() was called: the reader is disposed
  errored            \* an 'error' event was delivered

clientVars == <<sequenceNumber, queue, callbacks, pendingResponses, outcome, written>>
serverVars == <<nread, working, stdout>>
healthVars == <<proc, killed, errored>>
vars == <<clientVars, serverVars, healthVars>>

Seqs == 0..MaxRequests - 1

Results == {"success", "noContent", "error"}
Settled == Results \cup {"cancelled", "completed"}

Response(s, result) == [type |-> "response", seq |-> s, result |-> result]
RequestCompleted(s) == [type |-> "requestCompleted", seq |-> s]
Event               == [type |-> "event"]
Messages == {Response(s, r) : s \in Seqs, r \in Results}
            \cup {RequestCompleted(s) : s \in Seqs} \cup {Event}

TypeOK ==
  /\ sequenceNumber \in 0..MaxRequests
  /\ queue \in Seq(Item(Seqs))
  /\ callbacks \in SUBSET Seqs
  /\ pendingResponses \in SUBSET Seqs
  /\ outcome \in [Seqs -> {"none", "pending"} \cup Settled]
  /\ written \in Seq(Item(Seqs))
  /\ nread \in 0..Len(written)
  /\ working \in SUBSET Seqs
  /\ stdout \in Seq(Messages)
  /\ proc \in {"running", "exited"}
  /\ killed \in BOOLEAN
  /\ errored \in BOOLEAN

Init ==
  /\ sequenceNumber = 0
  /\ queue = <<>>
  /\ callbacks = {}
  /\ pendingResponses = {}
  /\ outcome = [s \in Seqs |-> "none"]
  /\ written = <<>>
  /\ nread = 0
  /\ working = {}
  /\ stdout = <<>>
  /\ proc = "running"
  /\ killed = FALSE
  /\ errored = FALSE

-----------------------------------------------------------------------------
(***************************************************************************)
(* sendNextRequests(): while no response is awaited, dequeue and write.    *)
(* An item holds the others back if it expects a response, is not          *)
(* asynchronous and stays in _pendingResponses: a write that throws takes  *)
(* the item out again, but only by way of its callback.                    *)
(***************************************************************************)
Awaited(item) == item.kind.expectsResponse /\ ~item.kind.isAsync

HoldsBack(item, cbs) ==
  Awaited(item) /\ (item.kind.writable \/ item.seq \notin cbs)

\* How many items the loop sends: up to and including the first that holds
\* the others back.
SentCount(q, pending, cbs) ==
  IF pending # {} THEN 0
  ELSE CHOOSE n \in 0..Len(q) :
         /\ \A i \in 1..n - 1 : ~HoldsBack(q[i], cbs)
         /\ n < Len(q) => n > 0 /\ HoldsBack(q[n], cbs)

\* The requests whose write throws while their promise can still be rejected.
FailedWrites(sent, cbs) ==
  {s \in cbs : \E i \in 1..Len(sent) : sent[i].seq = s /\ ~sent[i].kind.writable}

NowAwaited(sent, cbs) ==
  {s \in Seqs : \E i \in 1..Len(sent) : sent[i].seq = s /\ HoldsBack(sent[i], cbs)}

\* sendNextRequests() at the end of a handler that has left the client with
\* these values.
SendNextRequests(q, pending, cbs, out) ==
  LET n      == SentCount(q, pending, cbs)
      sent   == SubSeq(q, 1, n)
      failed == FailedWrites(sent, cbs)
  IN  /\ queue' = SubSeq(q, n + 1, Len(q))
      /\ written' = written \o sent
      /\ pendingResponses' = pending \cup NowAwaited(sent, cbs)
      /\ callbacks' = cbs \ failed
      /\ outcome' = [s \in Seqs |-> IF s \in failed THEN "error" ELSE out[s]]

-----------------------------------------------------------------------------
(* The client. *)

\* Whether the owner of the connection still executes requests on it.
InUse == ~killed /\ (Observed => proc = "running" /\ ~errored)

\* executeImpl(): create the request and its promise, enqueue, send.
ExecuteImpl(kind) ==
  /\ InUse
  /\ sequenceNumber < MaxRequests
  /\ sequenceNumber' = sequenceNumber + 1
  /\ LET s == sequenceNumber
         q == Enqueue(queue, [seq |-> s, kind |-> kind])
     IN  IF kind.expectsResponse
         THEN SendNextRequests(q, pendingResponses, callbacks \cup {s},
                               [outcome EXCEPT ![s] = "pending"])
         ELSE SendNextRequests(q, pendingResponses, callbacks, outcome)
  /\ UNCHANGED <<serverVars, healthVars>>

\* A caller cancels the token it passed: every caller of a request with a
\* response passes one that may fire, except for the edits ('updateOpen').
Cancellable(s) ==
  \E i \in 1..Len(written \o queue) :
    LET item == (written \o queue)[i]
    IN  item.seq = s /\ item.kind.expectsResponse /\ ~IsFence(item)

\* fetchCallback(): only a request that still has a callback stops being
\* awaited.
GoOnAwaiting(s) == pendingResponses  \* wrong form: nothing is forgotten

StopAwaiting(s) ==
  IF s \in callbacks THEN pendingResponses \ {s} ELSE pendingResponses

SettledWith(s, result) ==
  IF s \in callbacks THEN [outcome EXCEPT ![s] = result] ELSE outcome

\* tryCancelRequest(): it does not send the requests it may have unblocked.
TryCancelRequest(s) ==
  /\ Cancellable(s)
  /\ queue' = DeletePending(queue, s)
  /\ callbacks' = callbacks \ {s}
  /\ pendingResponses' = StopAwaiting(s)
  /\ outcome' = SettledWith(s, "cancelled")
  /\ UNCHANGED <<sequenceNumber, written, serverVars, healthVars>>

\* The reader delivers messages until kill() disposes it: also those that
\* were in the pipe when the process exited.
Receive(message) ==
  /\ ~killed
  /\ stdout # <<>>
  /\ Head(stdout) = message
  /\ stdout' = Tail(stdout)
  /\ UNCHANGED <<sequenceNumber, nread, working, healthVars>>

\* dispatchMessage() of a response: dispatchResponse(), then send.  Wrong form:
\* the 'finally' that sends is missing.
ReceiveWithoutSending(s, result) ==
  /\ Receive(Response(s, result))
  /\ pendingResponses' = StopAwaiting(s)
  /\ callbacks' = callbacks \ {s}
  /\ outcome' = SettledWith(s, result)
  /\ UNCHANGED <<queue, written>>

ReceiveResponse(s, result) ==
  /\ Receive(Response(s, result))
  /\ SendNextRequests(queue, StopAwaiting(s), callbacks \ {s}, SettledWith(s, result))

\* dispatchMessage() of 'requestCompleted': the callback is taken without
\* fetchCallback(), so _pendingResponses is left alone.  Wrong form: the callback
\* is looked up but not taken.
CompleteAndKeepCallback(s) ==
  /\ Receive(RequestCompleted(s))
  /\ SendNextRequests(queue, pendingResponses, callbacks, SettledWith(s, "completed"))

ReceiveRequestCompleted(s) ==
  /\ Receive(RequestCompleted(s))
  /\ SendNextRequests(queue, pendingResponses, callbacks \ {s}, SettledWith(s, "completed"))

\* dispatchMessage() of any other event: the listeners of onEvent are not part
\* of the connection; what they execute is an ExecuteImpl of its own.
ReceiveEvent ==
  /\ Receive(Event)
  /\ SendNextRequests(queue, pendingResponses, callbacks, outcome)

\* CallbackMap.destroy(): every promise left is resolved as cancelled.  Wrong
\* forms: the map is only cleared; the promises are resolved with nothing.
ClearCallbacks ==
  /\ callbacks' = {}
  /\ outcome' = outcome

ResolveWithNothing ==
  /\ callbacks' = {}
  /\ outcome' = [s \in Seqs |-> IF s \in callbacks THEN "undefined" ELSE outcome[s]]

DestroyCallbacks ==
  /\ callbacks' = {}
  /\ outcome' = [s \in Seqs |-> IF s \in callbacks THEN "cancelled" ELSE outcome[s]]

\* The process exits, by itself or by the signal of kill(), and the 'exit'
\* event is delivered.  _pendingResponses and the queue keep what they hold.
ProcessExit ==
  /\ proc = "running"
  /\ proc' = "exited"
  /\ DestroyCallbacks
  /\ UNCHANGED <<sequenceNumber, queue, pendingResponses, written, serverVars, killed, errored>>

\* An 'error' event: the process could not be started, or the reader got a
\* message that is not JSON, which is then lost.  The process is not stopped.
ProcessError ==
  /\ ~killed
  /\ errored' = TRUE
  /\ \/ stdout' = stdout
     \/ stdout # <<>> /\ stdout' = Tail(stdout)
  /\ DestroyCallbacks
  /\ UNCHANGED <<sequenceNumber, queue, pendingResponses, written, nread, working, proc, killed>>

\* kill(): signal the process and dispose the reader.
Kill ==
  /\ ~killed
  /\ killed' = TRUE
  /\ UNCHANGED <<clientVars, serverVars, proc, errored>>

-----------------------------------------------------------------------------
(* The tsserver process. *)

\* The next request in the pipe: one whose write threw never got there.
NextToRead(i) ==
  /\ i \in nread + 1..Len(written)
  /\ written[i].kind.writable
  /\ \A j \in nread + 1..i - 1 : ~written[j].kind.writable

\* The server takes a request and answers it, starts on it, or has nothing to
\* say about it ('configure' is answered though no one waits for the answer).
ServerRead(i) ==
  /\ proc = "running"
  /\ NextToRead(i)
  /\ nread' = i
  /\ LET s == written[i].seq
         Answer == \E r \in Results : stdout' = Append(stdout, Response(s, r))
     IN  IF written[i].kind.isAsync
         THEN working' = working \cup {s} /\ stdout' = stdout
         ELSE /\ working' = working
              /\ \/ Answer
                 \/ ~written[i].kind.expectsResponse /\ stdout' = stdout
  /\ UNCHANGED <<clientVars, healthVars>>

ServerComplete(s) ==
  /\ proc = "running"
  /\ s \in working
  /\ working' = working \ {s}
  /\ stdout' = Append(stdout, RequestCompleted(s))
  /\ UNCHANGED <<clientVars, nread, healthVars>>

ServerEvent ==
  /\ proc = "running"
  /\ Len(stdout) < MaxAhead
  /\ stdout' = Append(stdout, Event)
  /\ UNCHANGED <<clientVars, nread, working, healthVars>>

-----------------------------------------------------------------------------
ReceiveMessage ==
  \/ \E s \in Seqs, r \in Results : ReceiveResponse(s, r)
  \/ \E s \in Seqs : ReceiveRequestCompleted(s)
  \/ ReceiveEvent

Server ==
  \/ \E i \in 1..Len(written) : ServerRead(i)
  \/ \E s \in Seqs : ServerComplete(s)
  \/ ServerEvent

Next ==
  \/ \E kind \in Kinds : ExecuteImpl(kind)
  \/ \E s \in Seqs : TryCancelRequest(s)
  \/ ReceiveMessage
  \/ ProcessExit
  \/ ProcessError
  \/ Kill
  \/ Server

Spec == Init /\ [][Next]_vars

(***************************************************************************)
(* What the event loop and the operating system give: a message in the     *)
(* pipe is read, a killed process exits; and what the client takes from    *)
(* the server: it goes on reading and finishes what it works on.           *)
(***************************************************************************)
Fairness ==
  /\ WF_vars(ReceiveMessage)
  /\ WF_vars(killed /\ ProcessExit)
  /\ WF_vars(\E i \in 1..Len(written) : ServerRead(i))
  /\ \A s \in Seqs : WF_vars(ServerComplete(s))

FairSpec == Spec /\ Fairness

-----------------------------------------------------------------------------
(* Properties. *)

(***************************************************************************)
(* An edit of a document is a barrier all the way to the process: however  *)
(* requests are queued, reordered, cancelled and sent, none reaches the    *)
(* server on the other side of an edit than the one it was executed on.    *)
(* A request is thus answered for exactly the document it was asked about  *)
(* (getQueueingType's fence commands and RequestQueue.enqueue).            *)
(***************************************************************************)
FenceOrder == FenceOrdered(written \o queue)

\* What makes FenceOrder inductive: every number in use is one given out.
NumbersGivenOut ==
  \A i \in 1..Len(written \o queue) : (written \o queue)[i].seq < sequenceNumber

FenceInv == TypeOK /\ FenceOrder /\ NumbersGivenOut

(***************************************************************************)
(* Between two edits the queue serves the requests that are not low        *)
(* priority first, and each class in the order it was executed             *)
(* (RequestQueue.enqueue).                                                 *)
(***************************************************************************)
QueueDiscipline == Disciplined(queue)

(***************************************************************************)
(* A promise can be settled exactly as long as it is pending: no callback  *)
(* is dropped without settling its promise and none outlives it, whichever *)
(* of the answer, the cancellation, a failing write and the end of the     *)
(* process comes first (CallbackMap with fetchCallback and destroy).       *)
(***************************************************************************)
PendingIffCallback ==
  \A s \in Seqs : s \in callbacks <=> outcome[s] = "pending"

\* What makes the promises inductive: those of requests still to come are not
\* made, and a connection that is no longer used has no callback left.
Down == proc = "exited" \/ errored

PromiseInv ==
  /\ TypeOK
  /\ PendingIffCallback
  /\ \A s \in Seqs : s >= sequenceNumber => outcome[s] = "none"
  /\ Observed /\ Down => callbacks = {}

(***************************************************************************)
(* No request waits in the queue for nothing: while the server is up, a    *)
(* queue that is not empty is waiting for an answer the server still owes, *)
(* and the message that brings it will send the queue.  Cancelling the     *)
(* request in flight empties _pendingResponses without sending, so this    *)
(* rests on the server answering the cancelled request all the same.       *)
(***************************************************************************)
Up == proc = "running" /\ ~errored /\ ~killed

Unread(s) ==
  \E i \in nread + 1..Len(written) :
    written[i].seq = s /\ written[i].kind.writable /\ Awaited(written[i])

Answered(s) ==
  \E i \in 1..Len(stdout) : stdout[i].type = "response" /\ stdout[i].seq = s

Owed == {s \in Seqs : Unread(s) \/ Answered(s)}

NoStall == Up /\ queue # <<>> => Owed # {}

(***************************************************************************)
(* Every request the client waits for is one the server still owes an      *)
(* answer: _pendingResponses never keeps a number that nothing will remove *)
(* while the server is up, whatever was cancelled in between.              *)
(***************************************************************************)
PendingIsOwed == Up => pendingResponses \subseteq Owed /\ pendingResponses \subseteq callbacks

(***************************************************************************)
(* What callers are promised: see Promises.  The connection is down when   *)
(* it has reported its exit or an error.                                   *)
(***************************************************************************)
Abstract == INSTANCE Promises WITH
  Requests <- Seqs, promise <- outcome, down <- Down
PromisesSafety == Abstract!Spec
PromisesKept   == Abstract!FairSpec
=============================================================================
