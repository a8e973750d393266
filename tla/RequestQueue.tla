---------------------------- MODULE RequestQueue ----------------------------
(***************************************************************************)
(* The queue in which a tsserver connection holds requests until they may  *)
(* be written (semcode/direct/src/server/utils.ts, class RequestQueue).    *)
(* The module has no state of its own: a queue is a sequence of items and  *)
(* each method is an operator on sequences.                                *)
(***************************************************************************)
EXTENDS Integers, Sequences, SequencesExt

\* enum RequestQueueType
QueueTypes == {"Normal", "LowPriority", "Fence"}

\* What decides how a request travels.  The payload of a request is left out,
\* except whether process.write can serialise it: JSON.stringify (or the
\* structured clone of a worker) throws on the same request every time.
RequestKind == [queueingType: QueueTypes, expectsResponse: BOOLEAN,
                isAsync: BOOLEAN, writable: BOOLEAN]

\* interface RequestItem, with createRequest's sequence number.
Item(seqs) == [seq: seqs, kind: RequestKind]

IsFence(item) == item.kind.queueingType = "Fence"
IsLow(item)   == item.kind.queueingType = "LowPriority"

(***************************************************************************)
(* enqueue(): a Normal item overtakes the low-priority items at the tail,  *)
(* and nothing else; every other item goes to the tail.                    *)
(***************************************************************************)
\* Wrong forms: a Normal item jumps the whole queue; it overtakes nothing.
HeadStart(q)     == 1
AfterAllStart(q) == Len(q) + 1

TailStart(q) ==
  CHOOSE i \in 1..Len(q) + 1 :
    /\ \A j \in i..Len(q) : IsLow(q[j])
    /\ i > 1 => ~IsLow(q[i - 1])

Enqueue(q, item) ==
  IF item.kind.queueingType = "Normal"
  THEN InsertAt(q, TailStart(q), item)
  ELSE Append(q, item)

(***************************************************************************)
(* tryDeletePendingRequest(): the queue without the item of that number,   *)
(* of which there is at most one.                                          *)
(***************************************************************************)
Queued(q, s) == \E i \in 1..Len(q) : q[i].seq = s

DeletePending(q, s) ==
  IF Queued(q, s)
  THEN RemoveAt(q, CHOOSE i \in 1..Len(q) : q[i].seq = s)
  ELSE q

(***************************************************************************)
(* The order in which items may reach the server.  A fence (an edit of a   *)
(* document) is a barrier: no request is moved across it, in either        *)
(* direction.                                                              *)
(***************************************************************************)
FenceOrdered(q) ==
  \A i, j \in 1..Len(q) :
    i < j /\ (IsFence(q[i]) \/ IsFence(q[j])) => q[i].seq < q[j].seq

(***************************************************************************)
(* Between two fences the items that are not low priority come first, and  *)
(* each class is in the order it was enqueued.                             *)
(***************************************************************************)
Disciplined(q) ==
  \A i, j \in 1..Len(q) : i < j =>
    /\ IsLow(q[i]) = IsLow(q[j]) => q[i].seq < q[j].seq
    /\ IsLow(q[i]) /\ ~IsLow(q[j]) => \E k \in i + 1..j : IsFence(q[k])

=============================================================================
