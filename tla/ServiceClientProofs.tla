------------------------ MODULE ServiceClientProofs ------------------------
(***************************************************************************)
(* Proofs about ServiceClient, for any documents, texts and limits.        *)
(***************************************************************************)
EXTENDS ServiceClient, TLAPS

(***************************************************************************)
(* Types.  What an operation makes of a text is a text.                    *)
(***************************************************************************)
\* Apply() stays within the texts a server can have.
LEMMA ApplyType ==
  ASSUME NEW op \in Ops, NEW v \in Texts \cup {Closed, Garbled}
  PROVE  Apply(op, v) \in Texts \cup {Closed, Garbled}
BY TextsAssumption DEF Apply, Ops, NoOp, CloseOp, OpenOp, ChangeOp

\* A flush leaves a text for every document.
LEMMA FlushedType ==
  ASSUME pending \in [Docs -> Ops], view \in [Docs -> Texts \cup {Closed, Garbled}]
  PROVE  Flushed \in [Docs -> Texts \cup {Closed, Garbled}]
BY ApplyType DEF Flushed

\* Operations and the absence of them are in Ops.
LEMMA OpsType ==
  /\ NoPending \in [Docs -> Ops]
  /\ CloseOp \in Ops
  /\ \A t \in Texts : OpenOp(t) \in Ops
  /\ \A t, u \in Texts : ChangeOp(t, u) \in Ops
BY DEF NoPending, Ops

\* The operations are told apart by their type.
LEMMA OpsDiffer ==
  /\ NoOp.type = "none" /\ CloseOp.type = "close"
  /\ \A t : OpenOp(t).type = "open" /\ OpenOp(t).text = t
  /\ \A t, u : /\ ChangeOp(t, u).type = "change"
               /\ ChangeOp(t, u).from = t /\ ChangeOp(t, u).text = u
BY DEF NoOp, CloseOp, OpenOp, ChangeOp

\* What each kind of operation makes of a text.
LEMMA ApplyValue ==
  /\ \A v : Apply(NoOp, v) = v
  /\ \A v : Apply(CloseOp, v) = Closed
  /\ \A t, v : Apply(OpenOp(t), v) = t
  /\ \A t, u : Apply(ChangeOp(t, u), t) = u
BY OpsDiffer DEF Apply

\* What a step of the synchronizer does to its two variables has their types.
LEMMA SynchronizeType ==
  ASSUME TypeOK, NEW d \in Docs, NEW op \in Ops, Synchronize(d, op)
  PROVE  /\ pending' \in [Docs -> Ops]
         /\ view' \in [Docs -> Texts \cup {Closed, Garbled}]
<1> pending \in [Docs -> Ops] /\ view \in [Docs -> Texts \cup {Closed, Garbled}]
  BY DEF TypeOK
<1> NoOp \in Ops
  BY DEF Ops
<1>1. Apply(op, view[d]) \in Texts \cup {Closed, Garbled}
  BY ApplyType
<1>2. CASE Batching
  BY <1>2, OpsType, FlushedType DEF Synchronize, UpdatePending
<1>3. CASE ~Batching
  BY <1>1, <1>3, OpsType DEF Synchronize
<1> QED BY <1>2, <1>3

\* Opening every document gives its three variables values of their types.
LEMMA OpenAllType ==
  ASSUME TypeOK, OpenAll
  PROVE  /\ buffer' \in [Docs -> {"none", "Initial", "Open"}]
         /\ pending' \in [Docs -> Ops]
         /\ view' \in [Docs -> Texts \cup {Closed, Garbled}]
<1>1. NoOp \in Ops /\ \A d \in Docs : docs[d] # Closed => OpenOp(docs[d]) \in Ops
  BY OpsType DEF TypeOK, Ops
<1>2. buffer' \in [Docs -> {"none", "Initial", "Open"}]
  BY DEF OpenAll
<1>3. pending' \in [Docs -> Ops]
  BY <1>1, OpsType DEF OpenAll
<1>4. view' \in [Docs -> Texts \cup {Closed, Garbled}]
  BY DEF OpenAll, NothingOpen, TypeOK
<1> QED BY <1>2, <1>3, <1>4

\* So does a start with the documents opened again.
LEMMA StartAndResendType ==
  ASSUME TypeOK, NEW old \in Alive \cup {"none", "exited"}, StartAndResend(old)
  PROVE  /\ buffer' \in [Docs -> {"none", "Initial", "Open"}]
         /\ pending' \in [Docs -> Ops]
         /\ view' \in [Docs -> Texts \cup {Closed, Garbled}]
         /\ serverState' = "Running" /\ proc' = "running"
         /\ stray' \in SUBSET Alive /\ resent' = TRUE
<1>1. /\ serverState' = "Running" /\ proc' = "running"
      /\ stray' \in SUBSET Alive /\ resent' = TRUE
  BY DEF StartAndResend, NewServer, TypeOK
<1>2. CASE OpenAll
  BY <1>1, <1>2, OpenAllType
<1>3. CASE /\ buffer' = [d \in Docs |-> IF docs[d] = Closed THEN "none" ELSE "Open"]
           /\ pending' = NoPending
           /\ view' = docs
  BY <1>1, <1>3, OpsType DEF TypeOK
<1> QED BY <1>2, <1>3 DEF StartAndResend

\* A lazy start keeps the server's variables in their types.
LEMMA StartLazilyType ==
  ASSUME TypeOK, NEW forgotten, StartLazily(forgotten)
  PROVE  /\ serverState' = "Running" /\ proc' = "running"
         /\ stray' \in SUBSET Alive /\ resent' \in BOOLEAN
BY DEF StartLazily, NewServer, TypeOK

\* A document event keeps the types, whether the server is there or not.
LEMMA SendType ==
  ASSUME TypeOK, NEW d \in Docs, NEW op \in Ops, NEW forgotten,
         Send(d, op, forgotten) \/ Throws
  PROVE  /\ pending' \in [Docs -> Ops]
         /\ view' \in [Docs -> Texts \cup {Closed, Garbled}]
         /\ serverState' \in {"None", "Running", "Errored"}
         /\ proc' \in Alive \cup {"none", "exited"}
         /\ stray' \in SUBSET Alive /\ resent' \in BOOLEAN
<1>1. CASE Synchronize(d, op) /\ UNCHANGED serverVars
  BY <1>1, SynchronizeType DEF serverVars, TypeOK
<1>2. CASE /\ StartLazily(forgotten)
           /\ view' = [NothingOpen EXCEPT ![d] = Apply(op, Closed)]
           /\ pending' = NoPending
  <2>1. Apply(op, Closed) \in Texts \cup {Closed, Garbled}
    BY ApplyType
  <2>2. view' \in [Docs -> Texts \cup {Closed, Garbled}]
    BY <1>2, <2>1 DEF NothingOpen
  <2> QED BY <1>2, <2>2, StartLazilyType, OpsType DEF Alive
<1>3. CASE Throws
  BY <1>3, OpsType DEF Throws, serverVars, TypeOK
<1> QED BY <1>1, <1>2, <1>3 DEF Send

(***************************************************************************)
(* Every step keeps the types.                                             *)
(***************************************************************************)
LEMMA TypeInit ==
  ASSUME Init
  PROVE  TypeOK
<1>1. view \in [Docs -> Texts \cup {Closed, Garbled}]
  BY DEF Init, NothingOpen
<1>2. pending \in [Docs -> Ops]
  BY OpsType DEF Init
<1>3. 0 \in 0..RestartLimit /\ 0 \in 0..RestartLimit + 1
  BY LimitAssumption
<1>4. buffer \in [Docs -> {"none", "Initial", "Open"}]
  BY DEF Init
<1> QED BY <1>1, <1>2, <1>3, <1>4 DEF Init, TypeOK

\* The bookkeeping of an exit keeps its types.
LEMMA NoteExitType ==
  ASSUME TypeOK, NEW age, NoteExit(age)
  PROVE  /\ numberRestarts' \in 0..RestartLimit
         /\ fatallyCrashed' \in BOOLEAN
         /\ prompting' \in BOOLEAN
         /\ quick' \in 0..RestartLimit + 1
<1>1. numberRestarts' \in 0..RestartLimit
  BY LimitAssumption DEF NoteExit, TooMany, TypeOK
<1>2. quick' \in 0..RestartLimit + 1
  BY LimitAssumption DEF NoteExit, TypeOK
<1>3. fatallyCrashed' \in BOOLEAN /\ prompting' \in BOOLEAN
  BY Zenon DEF NoteExit, TypeOK, TooMany, AskFirst
<1> QED BY <1>1, <1>2, <1>3

\* One step per action.
LEMMA TypeStep ==
  ASSUME TypeOK, [Next]_vars
  PROVE  TypeOK'
<1> USE DEF docVars, serverVars, restartVars, lifeVars
<1>1. CASE EnsureServiceStarted
  <2>1. OpenAll /\ NewServer(proc)
    BY <1>1 DEF EnsureServiceStarted
  <2>2. stray' \in SUBSET Alive
    BY <2>1 DEF NewServer, TypeOK
  <2>3. listening' \in BOOLEAN /\ resent' \in BOOLEAN
    BY <1>1 DEF EnsureServiceStarted
  <2> QED BY <1>1, <2>1, <2>2, <2>3, OpenAllType DEF EnsureServiceStarted, NewServer, TypeOK, Alive
<1>2. CASE Command
  <2>1. commands' \in BOOLEAN
    BY <1>2, Zenon DEF Command, TypeOK
  <2>2. CASE /\ view' = Flushed
             /\ pending' = NoPending
             /\ UNCHANGED serverVars
    BY <1>2, <2>1, <2>2, FlushedType, OpsType DEF Command, TypeOK
  <2>3. CASE /\ StartLazily(Buffers)
             /\ view' = NothingOpen
             /\ pending' = NoPending
    <3>1. view' \in [Docs -> Texts \cup {Closed, Garbled}]
      BY <2>3 DEF NothingOpen
    <3> QED BY <1>2, <2>1, <2>3, <3>1, StartLazilyType, OpsType DEF Command, TypeOK, Alive
  <2>4. CASE Throws
    BY <1>2, <2>1, <2>4, OpsType DEF Command, Throws, TypeOK
  <2> QED BY <1>2, <2>2, <2>3, <2>4 DEF Command
<1>3. ASSUME NEW d \in Docs, NEW text \in Texts, OpenDoc(d, text)
      PROVE  TypeOK'
  <2>1. OpenOp(text) \in Ops /\ (Send(d, OpenOp(text), Buffers) \/ Throws)
    BY <1>3, OpsType DEF OpenDoc
  <2>2. docs' \in [Docs -> Texts \cup {Closed}]
    BY <1>3 DEF OpenDoc, TypeOK
  <2>3. buffer' \in [Docs -> {"none", "Initial", "Open"}]
    BY <1>3 DEF OpenDoc, TypeOK
  <2> QED BY <1>3, <2>1, <2>2, <2>3, SendType DEF OpenDoc, TypeOK
<1>4. ASSUME NEW d \in Docs, NEW text \in Texts, ChangeDoc(d, text)
      PROVE  TypeOK'
  <2>1. docs[d] \in Texts
    BY <1>4 DEF ChangeDoc, TypeOK
  <2>2. /\ ChangeOp(docs[d], text) \in Ops
        /\ Send(d, ChangeOp(docs[d], text), Buffers) \/ Throws
    BY <1>4, <2>1, OpsType DEF ChangeDoc
  <2>3. docs' \in [Docs -> Texts \cup {Closed}]
    BY <1>4 DEF ChangeDoc, TypeOK
  <2> QED BY <1>4, <2>2, <2>3, SendType DEF ChangeDoc, TypeOK
<1>5. ASSUME NEW d \in Docs, CloseDoc(d)
      PROVE  TypeOK'
  <2>1. docs' \in [Docs -> Texts \cup {Closed}]
    BY <1>5 DEF CloseDoc, TypeOK
  <2>2. buffer' \in [Docs -> {"none", "Initial", "Open"}]
    BY <1>5 DEF CloseDoc, TypeOK
  <2>3. CASE Send(d, CloseOp, Buffers \ {d}) \/ Throws
    BY <1>5, <2>1, <2>2, <2>3, OpsType, SendType DEF CloseDoc, TypeOK
  <2>4. CASE UNCHANGED <<pending, serverVars, view>>
    BY <1>5, <2>1, <2>2, <2>4 DEF CloseDoc, TypeOK
  <2> QED BY <1>5, <2>3, <2>4 DEF CloseDoc
<1>6. ASSUME NEW age \in Ages, ProcExit(age)
      PROVE  TypeOK'
  <2>1. /\ numberRestarts' \in 0..RestartLimit /\ fatallyCrashed' \in BOOLEAN
        /\ prompting' \in BOOLEAN /\ quick' \in 0..RestartLimit + 1
        /\ mistaken' \in BOOLEAN
    BY <1>6, NoteExitType DEF ProcExit, TypeOK
  <2>2. CASE NotRestarted
    BY <1>6, <2>1, <2>2 DEF ProcExit, NotRestarted, TypeOK
  <2>3. CASE StartAndResend("exited")
    BY <1>6, <2>1, <2>3, StartAndResendType DEF ProcExit, TypeOK, Alive
  <2> QED BY <1>6, <2>2, <2>3 DEF ProcExit
<1>7. ASSUME NEW status \in Alive, StrayExit(status)
      PROVE  TypeOK'
  BY <1>7 DEF StrayExit, TypeOK
<1>8. CASE ProcError
  BY <1>8 DEF ProcError, TypeOK
<1>9. ASSUME NEW isTsServerError \in BOOLEAN, FatalError(isTsServerError)
      PROVE  TypeOK'
  BY <1>9 DEF FatalError, TypeOK, Alive
<1>10. CASE PromptAnswered
  BY <1>10 DEF PromptAnswered, TypeOK
<1>11. CASE RestartTsServer
  <2>1. isRestarting' \in BOOLEAN /\ mistaken' \in BOOLEAN
    BY <1>11, Zenon DEF RestartTsServer, TypeOK
  <2> DEFINE old == IF serverState = "Running" THEN "killed" ELSE proc
  <2>2. old \in Alive \cup {"none", "exited"}
    BY DEF TypeOK, Alive
  <2>3. CASE StartAndResend(old)
    BY <1>11, <2>1, <2>2, <2>3, StartAndResendType DEF RestartTsServer, TypeOK, Alive
  <2>4. CASE /\ serverState' = "None"
             /\ proc' = old
             /\ UNCHANGED <<stray, resent, buffer, pending, view>>
    BY <1>11, <2>1, <2>2, <2>4 DEF RestartTsServer, TypeOK
  <2> QED BY <1>11, <2>3, <2>4 DEF RestartTsServer
<1>12. CASE Dispose
  BY <1>12 DEF Dispose, TypeOK, Alive
<1>13. CASE UNCHANGED vars
  BY <1>13 DEF vars, TypeOK
<1> QED
  BY <1>1, <1>2, <1>3, <1>4, <1>5, <1>6, <1>7, <1>8, <1>9, <1>10, <1>11, <1>12, <1>13
     DEF Next, EditDoc, Exit

\* The variables have their types in every state the client can reach.
THEOREM TypeCorrect == Spec => []TypeOK
<1>1. Init => TypeOK
  BY TypeInit
<1>2. TypeOK /\ [Next]_vars => TypeOK'
  BY TypeStep
<1> QED BY <1>1, <1>2, PTL DEF Spec

-----------------------------------------------------------------------------
(***************************************************************************)
(* The server's documents.  SyncInv asks for more than InSync: a document  *)
(* with a pending open is not open on the server, so that a close may take *)
(* the open back, and the buffer of an open document is open, so that its  *)
(* close is sent.                                                          *)
(***************************************************************************)
TextSynced(d) == Apply(pending[d], view[d]) = docs[d] /\ OpenIsNew(d)
Synced == \A d \in Docs : TextSynced(d) /\ BufferOpen(d)

\* Opening every document on a new server brings it in sync.
LEMMA OpenAllSyncs ==
  ASSUME TypeOK, OpenAll, docs' = docs
  PROVE  Synced' /\ (~Batching => pending' = NoPending)
<1>1. ASSUME NEW d \in Docs
      PROVE  TextSynced(d)' /\ BufferOpen(d)'
  <2>1. BufferOpen(d)'
    BY DEF OpenAll, BufferOpen
  <2>2. CASE Batching /\ docs[d] = Closed
    <3>1. pending'[d] = NoOp /\ view'[d] = Closed
      BY <2>2 DEF OpenAll, NothingOpen
    <3> QED BY <2>1, <2>2, <3>1, ApplyValue DEF TextSynced, OpenIsNew
  <2>3. CASE Batching /\ docs[d] # Closed
    <3>1. pending'[d] = OpenOp(docs[d]) /\ view'[d] = Closed
      BY <2>3 DEF OpenAll, NothingOpen
    <3> QED BY <2>1, <3>1, ApplyValue DEF TextSynced, OpenIsNew
  <2>4. CASE ~Batching
    <3>1. pending'[d] = NoOp /\ view'[d] = docs[d]
      BY <2>4 DEF OpenAll, NoPending
    <3> QED BY <2>1, <3>1, ApplyValue, OpsDiffer DEF TextSynced, OpenIsNew
  <2> QED BY <2>2, <2>3, <2>4
<1>2. ~Batching => pending' = NoPending
  BY DEF OpenAll
<1> QED BY <1>1, <1>2 DEF Synced

\* So does a start with the documents opened again, flushed or not.
LEMMA StartAndResendSyncs ==
  ASSUME TypeOK, NEW old, StartAndResend(old), docs' = docs
  PROVE  Synced' /\ (~Batching => pending' = NoPending)
<1>1. CASE OpenAll
  BY <1>1, OpenAllSyncs
<1>2. CASE /\ buffer' = [d \in Docs |-> IF docs[d] = Closed THEN "none" ELSE "Open"]
           /\ pending' = NoPending
           /\ view' = docs
  <2>1. ASSUME NEW d \in Docs
        PROVE  TextSynced(d)' /\ BufferOpen(d)'
    <3>1. pending'[d] = NoOp /\ view'[d] = docs[d]
      BY <1>2 DEF NoPending
    <3>2. BufferOpen(d)'
      BY <1>2 DEF BufferOpen
    <3> QED BY <3>1, <3>2, ApplyValue, OpsDiffer DEF TextSynced, OpenIsNew
  <2> QED BY <1>2, <2>1 DEF Synced
<1> QED BY <1>1, <1>2 DEF StartAndResend

\* A flush of a server in sync leaves it with the texts of the editor.
LEMMA FlushedIsDocs ==
  ASSUME TypeOK, \A d \in Docs : TextSynced(d), ~Batching => pending = NoPending
  PROVE  Flushed = docs
<1>1. docs \in [Docs -> Texts \cup {Closed}] /\ view \in [Docs -> Texts \cup {Closed, Garbled}]
  BY DEF TypeOK
<1>2. CASE Batching
  BY <1>1, <1>2 DEF Flushed, TextSynced
<1>3. CASE ~Batching
  <2>1. \A d \in Docs : view[d] = docs[d]
    BY <1>3, ApplyValue DEF NoPending, TextSynced
  <2> QED BY <1>1, <1>3, <2>1 DEF Flushed
<1> QED BY <1>2, <1>3

\* A document event keeps a running server in sync: the operation takes the
\* document from the text it had to the one it has now, and an open is only
\* made of a document that was closed.
LEMMA SynchronizeSyncs ==
  ASSUME TypeOK, \A e \in Docs : TextSynced(e), ~Batching => pending = NoPending,
         NEW d \in Docs, NEW op \in Ops, NEW c,
         op.type # "none",
         Apply(op, docs[d]) = c,
         op.type = "close" => c = Closed,
         op.type = "open" => docs[d] = Closed,
         docs' = [docs EXCEPT ![d] = c],
         Synchronize(d, op)
  PROVE  /\ \A e \in Docs : TextSynced(e)'
         /\ ~Batching => pending' = NoPending
<1>t. /\ docs \in [Docs -> Texts \cup {Closed}]
      /\ pending \in [Docs -> Ops]
      /\ view \in [Docs -> Texts \cup {Closed, Garbled}]
  BY DEF TypeOK
<1>f. Flushed = docs
  BY FlushedIsDocs
<1>d. /\ docs'[d] = c
      /\ \A e \in Docs : e # d => docs'[e] = docs[e]
  BY <1>t
\* It is enough that each document has the right operation pending over the
\* right text.
<1>s. ASSUME NEW e \in Docs,
             \/ e = d /\ pending'[e] = op /\ view'[e] = docs[e]
             \/ e = d /\ pending'[e] = NoOp /\ view'[e] = c
             \/ e # d /\ pending'[e] = NoOp /\ view'[e] = docs[e]
             \/ e # d /\ pending'[e] = pending[e] /\ view'[e] = view[e]
      PROVE  TextSynced(e)'
  <2>1. CASE e = d /\ pending'[e] = op /\ view'[e] = docs[e]
    BY <2>1, <1>d DEF TextSynced, OpenIsNew
  <2>2. CASE pending'[e] = NoOp /\ view'[e] = docs'[e]
    BY <2>2, ApplyValue, OpsDiffer DEF TextSynced, OpenIsNew
  <2>3. CASE e # d /\ pending'[e] = pending[e] /\ view'[e] = view[e]
    BY <2>3, <1>d DEF TextSynced, OpenIsNew
  <2> QED BY <1>s, <2>1, <2>2, <2>3, <1>d
<1>1. CASE ~Batching
  <2>1. pending' = NoPending /\ view' = [view EXCEPT ![d] = Apply(op, view[d])]
    BY <1>1 DEF Synchronize
  <2>2. \A e \in Docs : view[e] = docs[e]
    BY <1>1, ApplyValue DEF NoPending, TextSynced
  <2>3. ASSUME NEW e \in Docs
        PROVE  TextSynced(e)'
    <3>1. pending'[e] = NoOp
      BY <2>1 DEF NoPending
    <3>2. CASE e = d
      BY <3>1, <3>2, <2>1, <2>2, <1>t, <1>s
    <3>3. CASE e # d
      BY <3>1, <3>3, <2>1, <2>2, <1>t, <1>s
    <3> QED BY <3>2, <3>3
  <2> QED BY <2>1, <2>3
<1>2. CASE Batching /\ op.type = "close" /\ pending[d].type = "open"
  <2>1. pending' = [pending EXCEPT ![d] = NoOp] /\ view' = view
    BY <1>2 DEF Synchronize, UpdatePending
  <2>2. view[d] = c
    BY <1>2 DEF TextSynced, OpenIsNew
  <2>3. ASSUME NEW e \in Docs
        PROVE  TextSynced(e)'
    BY <2>1, <2>2, <1>t, <1>s
  <2> QED BY <1>2, <2>3
<1>3. CASE /\ Batching /\ ~(op.type = "close" /\ pending[d].type = "open")
           /\ pending[d] # NoOp
  <2>1. pending' = [NoPending EXCEPT ![d] = op] /\ view' = docs
    BY <1>3, <1>f DEF Synchronize, UpdatePending
  <2>2. ASSUME NEW e \in Docs
        PROVE  TextSynced(e)'
    <3>1. pending'[e] = IF e = d THEN op ELSE NoOp
      BY <2>1 DEF NoPending
    <3> QED BY <3>1, <2>1, <1>s
  <2> QED BY <1>3, <2>2
<1>4. CASE /\ Batching /\ ~(op.type = "close" /\ pending[d].type = "open")
           /\ pending[d] = NoOp
  <2>1. pending' = [pending EXCEPT ![d] = op] /\ view' = view
    BY <1>4 DEF Synchronize, UpdatePending
  <2>2. view[d] = docs[d]
    BY <1>4, ApplyValue DEF TextSynced
  <2>3. ASSUME NEW e \in Docs
        PROVE  TextSynced(e)'
    <3>1. CASE e = d
      BY <3>1, <2>1, <2>2, <1>t, <1>s
    <3>2. CASE e # d
      BY <3>2, <2>1, <1>t, <1>s
    <3> QED BY <3>1, <3>2
  <2> QED BY <1>4, <2>3
<1> QED BY <1>1, <1>2, <1>3, <1>4

\* A document event on a server that is running, or started for it: what the
\* lazy start forgets makes it not resent.
LEMMA SendSyncs ==
  ASSUME SyncInv,
         NEW d \in Docs, NEW op \in Ops, NEW c, NEW forgotten,
         op.type # "none",
         Apply(op, docs[d]) = c,
         op.type = "close" => c = Closed,
         op.type = "open" => docs[d] = Closed,
         docs' = [docs EXCEPT ![d] = c],
         forgotten = {} => /\ Apply(op, Closed) = c
                           /\ \A e \in Docs : e # d => docs[e] = Closed,
         Send(d, op, forgotten)
  PROVE  /\ ~Batching => pending' = NoPending
         /\ serverState' = "Running" /\ resent' =>
              /\ \A e \in Docs : TextSynced(e)'
              /\ \/ serverState = "Running" /\ resent
                 \/ forgotten = {}
<1>1. CASE serverState = "Running" /\ Synchronize(d, op) /\ UNCHANGED serverVars
  <2>1. CASE resent
    <3>1. \A e \in Docs : TextSynced(e)
      BY <1>1, <2>1 DEF SyncInv, InSync, TextSynced
    <3>2. TypeOK /\ (~Batching => pending = NoPending)
      BY DEF SyncInv
    <3> QED BY <1>1, <2>1, <3>1, <3>2, SynchronizeSyncs DEF serverVars
  <2>2. CASE ~resent
    BY <1>1, <2>2 DEF serverVars, Synchronize
  <2> QED BY <2>1, <2>2
<1>2. CASE /\ StartLazily(forgotten)
           /\ view' = [NothingOpen EXCEPT ![d] = Apply(op, Closed)]
           /\ pending' = NoPending
  <2>1. CASE forgotten = {}
    <3>1. docs \in [Docs -> Texts \cup {Closed}]
      BY DEF SyncInv, TypeOK
    <3>2. ASSUME NEW e \in Docs
          PROVE  TextSynced(e)'
      <4>1. pending'[e] = NoOp
        BY <1>2 DEF NoPending
      <4>2. view'[e] = docs'[e]
        BY <1>2, <2>1, <3>1 DEF NothingOpen
      <4> QED BY <4>1, <4>2, ApplyValue, OpsDiffer DEF TextSynced, OpenIsNew
    <3> QED BY <1>2, <2>1, <3>2
  <2>2. CASE forgotten # {}
    BY <1>2, <2>2 DEF StartLazily
  <2> QED BY <2>1, <2>2
<1> QED BY <1>1, <1>2 DEF Send

\* SyncInv is what its parts are, with the names used here.
LEMMA SyncInvParts ==
  SyncInv <=> /\ TypeOK
              /\ serverState = "Running" /\ resent => Synced
              /\ listening => \A d \in Docs : buffer[d] = "none" => docs[d] = Closed
              /\ ~Batching => pending = NoPending
BY DEF SyncInv, InSync, Synced, TextSynced

\* Before the client is started no server runs.
LEMMA SyncInit ==
  ASSUME Init
  PROVE  SyncInv
BY TypeInit, SyncInvParts DEF Init

\* One step per action.
LEMMA SyncStep ==
  ASSUME SyncInv, [Next]_vars
  PROVE  SyncInv'
<1> USE DEF docVars, serverVars, restartVars, lifeVars
<1>t. TypeOK /\ TypeOK'
  BY TypeStep DEF SyncInv
<1>p. /\ serverState = "Running" /\ resent => Synced
      /\ listening => \A d \in Docs : buffer[d] = "none" => docs[d] = Closed
      /\ ~Batching => pending = NoPending
  BY SyncInvParts
<1>q. ASSUME serverState' = "Running" /\ resent' => Synced',
             listening' => \A d \in Docs : buffer'[d] = "none" => docs'[d] = Closed,
             ~Batching => pending' = NoPending
      PROVE  SyncInv'
  <2>1. NoPending' = NoPending
    BY DEF NoPending
  <2> QED BY <1>t, <1>q, <2>1 DEF SyncInv, InSync, Synced, TextSynced
\* A step that leaves the documents alone and starts no server.
<1>u. ASSUME docs' = docs, buffer' = buffer, pending' = pending, view' = view,
             resent' = resent, listening' = listening,
             serverState' = "Running" => serverState = "Running"
      PROVE  SyncInv'
  BY <1>p, <1>q, <1>u DEF Synced, TextSynced, BufferOpen, OpenIsNew
\* A step that starts a server and opens the documents again.
<1>r. ASSUME NEW old, StartAndResend(old), docs' = docs
      PROVE  SyncInv'
  <2>1. Synced' /\ (~Batching => pending' = NoPending)
    BY <1>r, <1>t, StartAndResendSyncs
  <2>2. \A d \in Docs : buffer'[d] = "none" => docs'[d] = Closed
    BY <1>r DEF StartAndResend, OpenAll
  <2> QED BY <1>q, <2>1, <2>2
<1>b. docs \in [Docs -> Texts \cup {Closed}] /\ buffer \in [Docs -> {"none", "Initial", "Open"}]
  BY <1>t DEF TypeOK
<1>1. CASE EnsureServiceStarted
  <2>1. OpenAll /\ docs' = docs
    BY <1>1 DEF EnsureServiceStarted
  <2>2. Synced' /\ (~Batching => pending' = NoPending)
    BY <1>t, <2>1, OpenAllSyncs
  <2>3. \A d \in Docs : buffer'[d] = "none" => docs'[d] = Closed
    BY <2>1 DEF OpenAll
  <2> QED BY <1>q, <2>2, <2>3
<1>2. CASE Command
  <2>0. listening /\ docs' = docs /\ buffer' = buffer /\ listening' = listening
    BY <1>2 DEF Command
  <2>1. pending' = NoPending
    BY <1>2 DEF Command, Throws
  <2>2. ASSUME view' = docs, \A d \in Docs : BufferOpen(d)'
        PROVE  Synced'
    <3>1. ASSUME NEW d \in Docs
          PROVE  TextSynced(d)'
      <4>1. pending'[d] = NoOp /\ view'[d] = docs'[d]
        BY <2>0, <2>1, <2>2 DEF NoPending
      <4> QED BY <4>1, ApplyValue, OpsDiffer DEF TextSynced, OpenIsNew
    <3> QED BY <2>2, <3>1 DEF Synced
  <2>3. CASE serverState = "Running" /\ view' = Flushed /\ UNCHANGED serverVars
    <3>1. CASE resent
      <4>1. view' = docs
        BY <1>p, <1>t, <2>3, <3>1, FlushedIsDocs DEF Synced
      <4>2. \A d \in Docs : BufferOpen(d)'
        BY <1>p, <2>0, <2>3, <3>1 DEF Synced, BufferOpen
      <4> QED BY <1>p, <1>q, <2>0, <2>1, <2>2, <4>1, <4>2
    <3>2. CASE ~resent
      BY <1>p, <1>q, <2>0, <2>1, <2>3, <3>2
    <3> QED BY <3>1, <3>2
  <2>4. CASE StartLazily(Buffers) /\ view' = NothingOpen
    <3>1. CASE Buffers = {}
      <4>1. \A d \in Docs : docs[d] = Closed
        BY <1>p, <2>0, <3>1 DEF Buffers
      <4>2. view' = docs
        BY <1>b, <2>4, <4>1 DEF NothingOpen
      <4>3. \A d \in Docs : BufferOpen(d)'
        BY <2>0, <4>1 DEF BufferOpen
      <4> QED BY <1>p, <1>q, <2>0, <2>1, <2>2, <4>2, <4>3
    <3>2. CASE Buffers # {}
      BY <1>p, <1>q, <2>0, <2>1, <2>4, <3>2 DEF StartLazily
    <3> QED BY <3>1, <3>2
  <2>5. CASE Throws
    BY <1>p, <1>q, <2>0, <2>1, <2>5 DEF Throws
  <2> QED BY <1>2, <2>3, <2>4, <2>5 DEF Command
<1>3. ASSUME NEW d \in Docs, NEW text \in Texts, OpenDoc(d, text)
      PROVE  SyncInv'
  <2>0. /\ docs[d] = Closed /\ docs' = [docs EXCEPT ![d] = text]
        /\ listening /\ listening' = listening
    BY <1>3 DEF OpenDoc, Editing
  <2>1. CASE Send(d, OpenOp(text), Buffers) /\ buffer' = [buffer EXCEPT ![d] = "Open"]
    <3>1. OpenOp(text) \in Ops /\ OpenOp(text).type = "open"
      BY OpsType, OpsDiffer
    <3>2. Apply(OpenOp(text), docs[d]) = text /\ Apply(OpenOp(text), Closed) = text
      BY ApplyValue
    <3>3. Buffers = {} => \A e \in Docs : docs[e] = Closed
      BY <1>p, <2>0 DEF Buffers
    <3>4. /\ ~Batching => pending' = NoPending
          /\ serverState' = "Running" /\ resent' =>
               /\ \A e \in Docs : TextSynced(e)'
               /\ (serverState = "Running" /\ resent) \/ Buffers = {}
      BY <2>0, <2>1, <3>1, <3>2, <3>3, SendSyncs
    <3>5. ASSUME serverState' = "Running", resent', NEW e \in Docs
          PROVE  BufferOpen(e)'
      <4>1. CASE e = d
        BY <1>b, <2>1, <4>1 DEF BufferOpen
      <4>2. CASE e # d
        BY <1>b, <1>p, <2>0, <2>1, <3>3, <3>4, <3>5, <4>2 DEF Synced, BufferOpen
      <4> QED BY <4>1, <4>2
    <3>6. \A e \in Docs : buffer'[e] = "none" => docs'[e] = Closed
      BY <1>b, <1>p, <2>0, <2>1
    <3> QED BY <1>q, <3>4, <3>5, <3>6 DEF Synced
  <2>2. CASE Throws /\ buffer' = [buffer EXCEPT ![d] = "Initial"]
    <3>1. \A e \in Docs : buffer'[e] = "none" => docs'[e] = Closed
      BY <1>b, <1>p, <2>0, <2>2
    <3> QED BY <1>q, <2>2, <3>1 DEF Throws
  <2> QED BY <1>3, <2>1, <2>2 DEF OpenDoc
<1>4. ASSUME NEW d \in Docs, NEW text \in Texts, ChangeDoc(d, text)
      PROVE  SyncInv'
  <2>0. /\ docs[d] \in Texts /\ docs' = [docs EXCEPT ![d] = text]
        /\ listening /\ listening' = listening /\ buffer' = buffer
    BY <1>4, <1>b DEF ChangeDoc, Editing
  <2>1. \A e \in Docs : buffer'[e] = "none" => docs'[e] = Closed
    BY <1>b, <1>p, <2>0, TextsAssumption
  <2> DEFINE op == ChangeOp(docs[d], text)
  <2>2. CASE Send(d, op, Buffers)
    <3>1. op \in Ops /\ op.type = "change" /\ Apply(op, docs[d]) = text
      BY <2>0, OpsType, OpsDiffer, ApplyValue
    <3>2. d \in Buffers
      BY <1>p, <2>0, TextsAssumption DEF Buffers
    <3> HIDE DEF op
    <3>3. /\ ~Batching => pending' = NoPending
          /\ serverState' = "Running" /\ resent' =>
               /\ \A e \in Docs : TextSynced(e)'
               /\ (serverState = "Running" /\ resent) \/ Buffers = {}
      BY <2>0, <2>2, <3>1, <3>2, SendSyncs
    <3>4. ASSUME serverState' = "Running", resent', NEW e \in Docs
          PROVE  BufferOpen(e)'
      <4>1. BufferOpen(e)
        BY <1>p, <3>2, <3>3, <3>4 DEF Synced
      <4>2. docs'[e] # Closed => docs[e] # Closed
        BY <1>b, <2>0, TextsAssumption
      <4> QED BY <2>0, <4>1, <4>2 DEF BufferOpen
    <3> QED BY <1>q, <2>1, <3>3, <3>4 DEF Synced
  <2>3. CASE Throws
    BY <1>q, <2>1, <2>3 DEF Throws
  <2> QED BY <1>4, <2>2, <2>3 DEF ChangeDoc
<1>5. ASSUME NEW d \in Docs, CloseDoc(d)
      PROVE  SyncInv'
  <2>0. /\ docs[d] # Closed /\ docs' = [docs EXCEPT ![d] = Closed]
        /\ buffer' = [buffer EXCEPT ![d] = "none"]
        /\ listening /\ listening' = listening
    BY <1>5 DEF CloseDoc, Editing
  <2>1. \A e \in Docs : buffer'[e] = "none" => docs'[e] = Closed
    BY <1>b, <1>p, <2>0
  <2>2. CASE Send(d, CloseOp, Buffers \ {d})
    <3>1. CloseOp \in Ops /\ CloseOp.type = "close"
      BY OpsType, OpsDiffer
    <3>2. Apply(CloseOp, docs[d]) = Closed /\ Apply(CloseOp, Closed) = Closed
      BY ApplyValue
    <3>3. Buffers \ {d} = {} => \A e \in Docs : e # d => docs[e] = Closed
      BY <1>p, <2>0 DEF Buffers
    <3>4. /\ ~Batching => pending' = NoPending
          /\ serverState' = "Running" /\ resent' =>
               /\ \A e \in Docs : TextSynced(e)'
               /\ (serverState = "Running" /\ resent) \/ Buffers \ {d} = {}
      BY <2>0, <2>2, <3>1, <3>2, <3>3, SendSyncs
    <3>5. ASSUME serverState' = "Running", resent', NEW e \in Docs
          PROVE  BufferOpen(e)'
      <4>1. CASE e = d
        BY <1>b, <2>0, <4>1 DEF BufferOpen
      <4>2. CASE e # d
        BY <1>b, <1>p, <2>0, <3>3, <3>4, <3>5, <4>2 DEF Synced, BufferOpen
      <4> QED BY <4>1, <4>2
    <3> QED BY <1>q, <2>1, <3>4, <3>5 DEF Synced
  <2>3. CASE Throws
    BY <1>q, <2>1, <2>3 DEF Throws
  <2>4. CASE buffer[d] # "Open" /\ UNCHANGED <<pending, serverVars, view>>
    <3>1. ~(serverState' = "Running" /\ resent')
      BY <1>p, <2>0, <2>4 DEF Synced, BufferOpen
    <3> QED BY <1>p, <1>q, <2>1, <2>4, <3>1
  <2> QED BY <1>5, <2>2, <2>3, <2>4 DEF CloseDoc
<1>6. ASSUME NEW age \in Ages, ProcExit(age)
      PROVE  SyncInv'
  <2>1. CASE NotRestarted
    BY <1>6, <1>u, <2>1 DEF ProcExit, NotRestarted
  <2>2. CASE StartAndResend("exited")
    BY <1>6, <1>r, <2>2 DEF ProcExit
  <2> QED BY <1>6, <2>1, <2>2 DEF ProcExit
<1>7. ASSUME NEW status \in Alive, StrayExit(status)
      PROVE  SyncInv'
  BY <1>7, <1>u DEF StrayExit
<1>8. CASE ProcError
  BY <1>8, <1>u DEF ProcError
<1>9. ASSUME NEW isTsServerError \in BOOLEAN, FatalError(isTsServerError)
      PROVE  SyncInv'
  BY <1>9, <1>u DEF FatalError
<1>10. CASE PromptAnswered
  BY <1>10, <1>u DEF PromptAnswered
<1>11. CASE RestartTsServer
  <2>1. CASE CanStart
    BY <1>11, <1>r, <2>1 DEF RestartTsServer
  <2>2. CASE ~CanStart
    BY <1>11, <1>u, <2>2 DEF RestartTsServer
  <2> QED BY <2>1, <2>2
<1>12. CASE Dispose
  BY <1>12, <1>u DEF Dispose
<1>13. CASE UNCHANGED vars
  BY <1>13, <1>u DEF vars
<1> QED
  BY <1>1, <1>2, <1>3, <1>4, <1>5, <1>6, <1>7, <1>8, <1>9, <1>10, <1>11, <1>12, <1>13
     DEF Next, EditDoc, Exit

\* SyncInv is an invariant.
LEMMA SyncAlways == Spec => []SyncInv
<1>1. Init => SyncInv
  BY SyncInit
<1>2. SyncInv /\ [Next]_vars => SyncInv'
  BY SyncStep
<1> QED BY <1>1, <1>2, PTL DEF Spec

\* The running server has, or will have, the text of every document: whatever
\* the documents and texts, and however often servers fail and are restarted.
THEOREM ServerInSync == Spec => []InSync
<1>1. SyncInv => InSync
  BY DEF SyncInv
<1> QED BY <1>1, SyncAlways, PTL

\* Every command is executed on the texts the user sees.
THEOREM CommandsSeeText == Spec => CommandSeesText
<1> USE DEF docVars, serverVars, restartVars, lifeVars
<1>1. SyncInv /\ [Next]_vars => [commands' # commands /\ resent' => view' = docs']_vars
  <2> SUFFICES ASSUME SyncInv, Next, commands' # commands, resent'
               PROVE  view' = docs'
    BY DEF vars
  <2>t. TypeOK
    BY DEF SyncInv
  <2>1. Command
    <3>1. ~(\E text \in Texts, d \in Docs : OpenDoc(d, text) \/ ChangeDoc(d, text))
      BY DEF OpenDoc, ChangeDoc
    <3>2. ~(\E d \in Docs : CloseDoc(d))
      BY DEF CloseDoc
    <3>3. ~EnsureServiceStarted /\ ~Exit
      BY DEF EnsureServiceStarted, Exit, ProcExit
    <3>4. ~(\E status \in Alive : StrayExit(status)) /\ ~ProcError /\ ~PromptAnswered
      BY DEF StrayExit, ProcError, PromptAnswered
    <3>5. ~(\E isTsServerError \in BOOLEAN : FatalError(isTsServerError))
      BY DEF FatalError
    <3>6. ~RestartTsServer /\ ~Dispose
      BY DEF RestartTsServer, Dispose
    <3> QED BY <3>1, <3>2, <3>3, <3>4, <3>5, <3>6 DEF Next, EditDoc
  <2>2. listening /\ docs' = docs
    BY <2>1 DEF Command
  <2>3. CASE serverState = "Running" /\ view' = Flushed /\ UNCHANGED serverVars
    <3>1. (\A d \in Docs : TextSynced(d)) /\ (~Batching => pending = NoPending)
      BY <2>3, SyncInvParts DEF Synced
    <3> QED BY <2>t, <2>2, <2>3, <3>1, FlushedIsDocs
  <2>4. CASE StartLazily(Buffers) /\ view' = NothingOpen
    <3>1. Buffers = {}
      BY <2>4 DEF StartLazily
    <3>2. \A d \in Docs : docs[d] = Closed
      BY <2>2, <3>1, SyncInvParts DEF Buffers
    <3> QED BY <2>t, <2>2, <2>4, <3>2 DEF NothingOpen, TypeOK
  <2> QED BY <2>1, <2>3, <2>4 DEF Command
<1> QED BY <1>1, SyncAlways, PTL DEF Spec, CommandSeesText

-----------------------------------------------------------------------------
(***************************************************************************)
(* The processes.                                                          *)
(***************************************************************************)
OneServerInv ==
  /\ OneServer
  /\ ~listening => proc = "none" /\ serverState = "None"

\* Without 'error' events every process the client stops using was killed.
LEMMA OneServerStep ==
  ASSUME "error" \notin Disturbances, OneServerInv, [Next]_vars
  PROVE  OneServerInv'
<1> USE DEF docVars, serverVars, restartVars, lifeVars
\* A start that replaces a process which does not run.
<1>n. ASSUME NEW old, NewServer(old), old # "running", ~disposed', listening'
      PROVE  OneServerInv'
  BY <1>n DEF NewServer, OneServerInv, OneServer
\* A step that starts nothing and leaves no running process behind.
<1>k. ASSUME stray' \subseteq stray, listening' = listening,
             proc' = "running" => proc = "running" /\ serverState' = serverState /\ disposed' = disposed,
             proc = "none" => proc' = "none",
             serverState = "None" => serverState' = "None"
      PROVE  OneServerInv'
  BY <1>k DEF OneServerInv, OneServer
<1>1. CASE EnsureServiceStarted
  <2>1. NewServer(proc) /\ proc # "running" /\ ~disposed' /\ listening'
    BY <1>1 DEF EnsureServiceStarted, CanStart, OneServerInv
  <2> QED BY <2>1, <1>n
<1>2. ASSUME NEW forgotten, StartLazily(forgotten), listening, UNCHANGED lifeVars
      PROVE  OneServerInv'
  <2>1. NewServer(proc) /\ proc # "running" /\ ~disposed' /\ listening'
    BY <1>2 DEF StartLazily, Available, CanStart, OneServerInv, OneServer
  <2> QED BY <2>1, <1>n
<1>3. ASSUME UNCHANGED serverVars, UNCHANGED lifeVars
      PROVE  OneServerInv'
  BY <1>3, <1>k
<1>4. CASE Command
  BY <1>2, <1>3, <1>4 DEF Command, Throws
<1>5. CASE EditDoc
  <2>1. ASSUME NEW d, NEW op, NEW forgotten, Send(d, op, forgotten) \/ Throws,
               listening, UNCHANGED lifeVars
        PROVE  OneServerInv'
    BY <1>2, <1>3, <2>1 DEF Send, Throws
  <2>2. ASSUME NEW d \in Docs, NEW text \in Texts, OpenDoc(d, text)
        PROVE  OneServerInv'
    BY <2>1, <2>2 DEF OpenDoc, Editing
  <2>3. ASSUME NEW d \in Docs, NEW text \in Texts, ChangeDoc(d, text)
        PROVE  OneServerInv'
    BY <2>1, <2>3 DEF ChangeDoc, Editing
  <2>4. ASSUME NEW d \in Docs, CloseDoc(d)
        PROVE  OneServerInv'
    BY <1>3, <2>1, <2>4 DEF CloseDoc, Editing
  <2> QED BY <1>5, <2>2, <2>3, <2>4 DEF EditDoc
<1>6. ASSUME NEW age \in Ages, ProcExit(age)
      PROVE  OneServerInv'
  <2>1. CASE NotRestarted
    BY <1>6, <1>k, <2>1 DEF ProcExit, NotRestarted
  <2>2. CASE StartAndResend("exited") /\ ~disposed
    <3>1. NewServer("exited") /\ ~disposed' /\ listening'
      BY <1>6, <2>2 DEF ProcExit, StartAndResend, OneServerInv
    <3> QED BY <3>1, <1>n
  <2> QED BY <1>6, <2>1, <2>2 DEF ProcExit
<1>7. ASSUME NEW status \in Alive, StrayExit(status)
      PROVE  OneServerInv'
  BY <1>7, <1>k DEF StrayExit
<1>8. CASE ProcError
  BY <1>8 DEF ProcError
<1>9. ASSUME NEW isTsServerError \in BOOLEAN, FatalError(isTsServerError)
      PROVE  OneServerInv'
  BY <1>9 DEF FatalError, OneServerInv, OneServer
<1>10. CASE PromptAnswered
  BY <1>10, <1>3 DEF PromptAnswered
<1>11. CASE RestartTsServer
  <2> DEFINE old == IF serverState = "Running" THEN "killed" ELSE proc
  <2>1. old # "running" /\ listening' /\ ~disposed'
    BY <1>11 DEF RestartTsServer, Editing, OneServerInv, OneServer
  <2>2. CASE StartAndResend(old)
    BY <1>n, <2>1, <2>2 DEF StartAndResend
  <2>3. CASE proc' = old /\ stray' = stray
    BY <2>1, <2>3, <1>11 DEF OneServerInv, OneServer
  <2> QED BY <1>11, <2>2, <2>3 DEF RestartTsServer
<1>12. CASE Dispose
  BY <1>12 DEF Dispose, OneServerInv, OneServer
<1>13. CASE UNCHANGED vars
  BY <1>13, <1>3 DEF vars
<1> QED
  BY <1>1, <1>4, <1>5, <1>6, <1>7, <1>8, <1>9, <1>10, <1>11, <1>12, <1>13
     DEF Next, Exit

\* If no process reports an error, none is left running unused.
THEOREM NoOrphans == "error" \notin Disturbances => (Spec => []OneServer)
<1> SUFFICES ASSUME "error" \notin Disturbances
             PROVE  Spec => []OneServer
  OBVIOUS
<1>1. Init => OneServerInv
  BY DEF Init, OneServerInv, OneServer
<1>2. OneServerInv /\ [Next]_vars => OneServerInv'
  BY OneServerStep
<1>3. OneServerInv => OneServer
  BY DEF OneServerInv
<1> QED BY <1>1, <1>2, <1>3, PTL DEF Spec

\* Quick exits in a row are among those that count.
RestartsInv ==
  /\ TypeOK
  /\ RestartsEnd
  /\ quick <= numberRestarts \/ fatallyCrashed

\* On a build that never starts the count over, the count bounds them.
LEMMA RestartsStep ==
  ASSUME ~Insiders, RestartsInv, [Next]_vars
  PROVE  RestartsInv'
<1> USE DEF docVars, serverVars, restartVars, lifeVars
<1>t. TypeOK /\ TypeOK'
  BY TypeStep DEF RestartsInv
\* A step that is not an exit, and starts a server only if it may.
<1>k. ASSUME UNCHANGED <<numberRestarts, fatallyCrashed, quick>>,
             serverState = "None" /\ ~CanStart => serverState' = "None"
      PROVE  RestartsInv'
  BY <1>k, <1>t DEF RestartsInv, RestartsEnd, CanStart
<1>1. CASE EnsureServiceStarted
  BY <1>1, <1>k DEF EnsureServiceStarted
<1>2. CASE Command
  BY <1>2, <1>k DEF Command, StartLazily, Available, Throws
<1>3. CASE EditDoc
  <2>1. UNCHANGED <<numberRestarts, fatallyCrashed, quick>>
    BY <1>3 DEF EditDoc, OpenDoc, ChangeDoc, CloseDoc
  <2>2. serverState = "None" /\ ~CanStart => serverState' = "None"
    BY <1>3 DEF EditDoc, OpenDoc, ChangeDoc, CloseDoc, Send, StartLazily, Available, Throws
  <2> QED BY <1>k, <2>1, <2>2
<1>4. ASSUME NEW age \in Ages, ProcExit(age)
      PROVE  RestartsInv'
  <2>1. CASE isRestarting
    BY <1>4, <1>k, <2>1 DEF ProcExit, NotRestarted
  <2>2. CASE ~isRestarting
    <3>1. NoteExit(age)
      BY <1>4, <2>2 DEF ProcExit
    <3>2. fatallyCrashed' => serverState' = "None"
      BY <1>4, <2>2 DEF ProcExit, NotRestarted
    <3>3. quick' <= numberRestarts' \/ fatallyCrashed'
      <4>1. /\ numberRestarts \in 0..RestartLimit /\ numberRestarts' \in 0..RestartLimit
            /\ quick \in 0..RestartLimit + 1 /\ quick' \in 0..RestartLimit + 1
        BY <1>t DEF TypeOK
      <4>2. CASE fatallyCrashed \/ (TooMany /\ age = "fast")
        BY <3>1, <4>2, Zenon DEF NoteExit
      <4>3. CASE age = "slow"
        <5>1. quick' = 0
          BY <3>1, <4>3 DEF NoteExit
        <5> QED BY <4>1, <5>1, LimitAssumption
      <4>4. CASE ~fatallyCrashed /\ ~TooMany /\ age # "slow"
        <5>1. numberRestarts' = numberRestarts + 1
          BY <3>1, <4>4 DEF NoteExit, AskFirst
        <5>2. quick' <= quick + 1
          BY <3>1, <4>1, <4>4, LimitAssumption DEF NoteExit
        <5> QED BY <4>1, <4>4, <5>1, <5>2, LimitAssumption DEF RestartsInv
      <4>5. age = "fast" \/ age = "slow"
        BY DEF Ages
      <4> QED BY <4>2, <4>3, <4>4, <4>5
    <3>4. quick' <= RestartLimit \/ fatallyCrashed'
      BY <1>t, <3>3, LimitAssumption DEF TypeOK
    <3> QED BY <1>t, <3>2, <3>3, <3>4 DEF RestartsInv, RestartsEnd
  <2> QED BY <2>1, <2>2
<1>5. ASSUME NEW status \in Alive, StrayExit(status)
      PROVE  RestartsInv'
  BY <1>5, <1>k DEF StrayExit
<1>6. CASE ProcError
  BY <1>6, <1>k DEF ProcError
<1>7. ASSUME NEW isTsServerError \in BOOLEAN, FatalError(isTsServerError)
      PROVE  RestartsInv'
  BY <1>7, <1>k DEF FatalError
<1>8. CASE PromptAnswered
  BY <1>8, <1>k DEF PromptAnswered
<1>9. CASE RestartTsServer
  BY <1>9, <1>k DEF RestartTsServer
<1>10. CASE Dispose
  BY <1>10, <1>k DEF Dispose
<1>11. CASE UNCHANGED vars
  BY <1>11, <1>k DEF vars
<1> QED
  BY <1>1, <1>2, <1>3, <1>4, <1>5, <1>6, <1>7, <1>8, <1>9, <1>10, <1>11 DEF Next, Exit

\* Restarts come to an end on a release build, whatever the limit.
THEOREM RestartsAreBounded == ~Insiders => (Spec => []RestartsEnd)
<1> SUFFICES ASSUME ~Insiders
             PROVE  Spec => []RestartsEnd
  OBVIOUS
<1>1. Init => RestartsInv
  <2>1. ASSUME Init
        PROVE  TypeOK /\ quick = 0 /\ numberRestarts = 0 /\ ~fatallyCrashed
    BY <2>1, TypeInit DEF Init
  <2> QED BY <2>1, LimitAssumption DEF RestartsInv, RestartsEnd
<1>2. RestartsInv /\ [Next]_vars => RestartsInv'
  BY RestartsStep
<1>3. RestartsInv => RestartsEnd
  BY DEF RestartsInv
<1> QED BY <1>1, <1>2, <1>3, PTL DEF Spec

(***************************************************************************)
(* The client has no server to start by itself: it is up, or on its way to *)
(* a new process, unless it is disposed of, has given up or has mistaken   *)
(* an exit.                                                                *)
(***************************************************************************)
NeverForgottenInv ==
  /\ NeverForgotten
  /\ ~listening => serverState = "None" /\ proc = "none"
  /\ listening /\ serverState = "None" => disposed \/ fatallyCrashed \/ mistaken

LEMMA NeverForgottenStep ==
  ASSUME "error" \notin Disturbances
  PROVE  NeverForgottenInv /\ [Next]_vars => NeverForgottenInv'
<1> SUFFICES ASSUME NeverForgottenInv, [Next]_vars
             PROVE  NeverForgottenInv'
  OBVIOUS
<1> USE DEF NeverForgottenInv, NeverForgotten
<1>1. CASE EnsureServiceStarted
  BY <1>1 DEF EnsureServiceStarted, NewServer, restartVars
<1>2. listening /\ Available => mistaken
  BY DEF Available, CanStart
<1>3. ASSUME listening, UNCHANGED <<restartVars, lifeVars>>,
             UNCHANGED serverVars \/ (\E forgotten : StartLazily(forgotten))
      PROVE  NeverForgottenInv'
  BY <1>2, <1>3 DEF restartVars, lifeVars, serverVars, StartLazily, NewServer
<1>4. CASE Command
  <2>1. UNCHANGED serverVars \/ (\E forgotten : StartLazily(forgotten))
    BY <1>4 DEF Command, Throws
  <2> QED
    BY <1>3, <1>4, <2>1 DEF Command
<1>5. CASE EditDoc
  <2>1. ASSUME NEW d \in Docs, NEW text \in Texts, OpenDoc(d, text) \/ ChangeDoc(d, text)
        PROVE  NeverForgottenInv'
    <3>1. listening /\ UNCHANGED <<restartVars, lifeVars>>
      BY <2>1 DEF OpenDoc, ChangeDoc, Editing
    <3>2. UNCHANGED serverVars \/ (\E forgotten : StartLazily(forgotten))
      BY <2>1 DEF OpenDoc, ChangeDoc, Send, Throws
    <3> QED
      BY <1>3, <3>1, <3>2
  <2>2. ASSUME NEW d \in Docs, CloseDoc(d)
        PROVE  NeverForgottenInv'
    <3>1. listening /\ UNCHANGED <<restartVars, lifeVars>>
      BY <2>2 DEF CloseDoc, Editing
    <3>2. UNCHANGED serverVars \/ (\E forgotten : StartLazily(forgotten))
      BY <2>2 DEF CloseDoc, Send, Throws
    <3> QED
      BY <1>3, <3>1, <3>2
  <2> QED
    BY <1>5, <2>1, <2>2 DEF EditDoc
<1>6. ASSUME NEW age \in Ages, ProcExit(age)
      PROVE  NeverForgottenInv'
  <2>1. UNCHANGED lifeVars /\ listening
    BY <1>6 DEF ProcExit
  <2>2. CASE isRestarting
    BY <1>6, <2>1, <2>2 DEF ProcExit, NotRestarted, lifeVars
  <2>3. CASE ~isRestarting /\ (disposed \/ fatallyCrashed')
    BY <1>6, <2>1, <2>3 DEF ProcExit, NotRestarted, lifeVars
  <2>4. CASE ~isRestarting /\ ~(disposed \/ fatallyCrashed')
    BY <1>6, <2>1, <2>4 DEF ProcExit, StartAndResend, NewServer, lifeVars
  <2> QED
    BY <2>2, <2>3, <2>4
<1>7. ASSUME NEW status \in Alive, StrayExit(status)
      PROVE  NeverForgottenInv'
  BY <1>7 DEF StrayExit, restartVars, lifeVars
<1>8. ASSUME NEW isTsServerError \in BOOLEAN, FatalError(isTsServerError)
      PROVE  NeverForgottenInv'
  BY <1>8 DEF FatalError, restartVars, lifeVars
<1>9. CASE PromptAnswered
  BY <1>9 DEF PromptAnswered, serverVars, lifeVars
<1>10. CASE Dispose
  BY <1>10 DEF Dispose, restartVars
<1>11. ~ProcError
  BY DEF ProcError
<1>12. CASE RestartTsServer
  <2>1. UNCHANGED lifeVars /\ listening
    BY <1>12 DEF RestartTsServer, Editing
  <2>2. CASE CanStart
    BY <1>12, <2>1, <2>2 DEF RestartTsServer, StartAndResend, NewServer, lifeVars
  <2>3. CASE ~CanStart
    BY <1>12, <2>1, <2>3 DEF RestartTsServer, CanStart, lifeVars
  <2> QED
    BY <2>2, <2>3
<1>13. CASE UNCHANGED vars
  BY <1>13 DEF vars, serverVars, restartVars, lifeVars
<1> QED
  BY <1>1, <1>4, <1>5, <1>6, <1>7, <1>8, <1>9, <1>10, <1>11, <1>12, <1>13 DEF Next, Exit

(***************************************************************************)
(* However often processes crash, are killed by fatalError or replaced by  *)
(* the user, no server is used that was not told of the open documents,    *)
(* unless an exit was mistaken before (serviceExited, service).            *)
(***************************************************************************)
THEOREM NoServerForgets ==
  "error" \notin Disturbances => (Spec => []NeverForgotten)
<1> SUFFICES ASSUME "error" \notin Disturbances
             PROVE  Spec => []NeverForgotten
  OBVIOUS
<1>1. Init => NeverForgottenInv
  BY DEF Init, NeverForgottenInv, NeverForgotten
<1>2. NeverForgottenInv /\ [Next]_vars => NeverForgottenInv'
  BY NeverForgottenStep
<1>3. NeverForgottenInv => NeverForgotten
  BY DEF NeverForgottenInv
<1> QED
  BY <1>1, <1>2, <1>3, PTL DEF Spec
-----------------------------------------------------------------------------
(***************************************************************************)
(* What a killed process leads to.  The two theorems are the part of       *)
(* ErrorsPass and KilledIsReplaced that needs no fairness: all that is     *)
(* left to the system is to end a process that was killed.                 *)
(***************************************************************************)
ErrorAwaitsExit == serverState = "Errored" => proc = "killed"

LEMMA ErrorAwaitsExitStep ==
  ASSUME ErrorAwaitsExit, [Next]_vars
  PROVE  ErrorAwaitsExit'
<1> USE DEF docVars, serverVars, restartVars, lifeVars
<1>r. ASSUME NEW old, NewServer(old)
      PROVE  ErrorAwaitsExit'
  BY <1>r DEF NewServer, ErrorAwaitsExit
<1>n. ASSUME serverState' = "None"
      PROVE  ErrorAwaitsExit'
  BY <1>n DEF ErrorAwaitsExit
<1>u. ASSUME UNCHANGED <<serverState, proc>>
      PROVE  ErrorAwaitsExit'
  BY <1>u DEF ErrorAwaitsExit
<1>1. CASE EnsureServiceStarted
  BY <1>1, <1>r DEF EnsureServiceStarted
<1>2. CASE Command
  BY <1>2, <1>r, <1>u DEF Command, StartLazily, Throws
<1>3. ASSUME NEW d, NEW op, NEW forgotten, Send(d, op, forgotten) \/ Throws
      PROVE  ErrorAwaitsExit'
  BY <1>3, <1>r, <1>u DEF Send, StartLazily, Throws
<1>4. CASE EditDoc
  BY <1>3, <1>4, <1>u DEF EditDoc, OpenDoc, ChangeDoc, CloseDoc
<1>5. ASSUME NEW age \in Ages, ProcExit(age)
      PROVE  ErrorAwaitsExit'
  BY <1>5, <1>n, <1>r DEF ProcExit, NotRestarted, StartAndResend
<1>6. ASSUME NEW status \in Alive, StrayExit(status)
      PROVE  ErrorAwaitsExit'
  BY <1>6, <1>u DEF StrayExit
<1>7. CASE ProcError
  BY <1>7, <1>n DEF ProcError
<1>8. ASSUME NEW isTsServerError \in BOOLEAN, FatalError(isTsServerError)
      PROVE  ErrorAwaitsExit'
  BY <1>8 DEF FatalError, ErrorAwaitsExit
<1>9. CASE PromptAnswered
  BY <1>9, <1>u DEF PromptAnswered
<1>10. CASE RestartTsServer
  BY <1>10, <1>n, <1>r DEF RestartTsServer, StartAndResend
<1>11. CASE Dispose
  BY <1>11 DEF Dispose, ErrorAwaitsExit
<1>12. CASE UNCHANGED vars
  BY <1>12, <1>u DEF vars
<1> QED
  BY <1>1, <1>2, <1>4, <1>5, <1>6, <1>7, <1>8, <1>9, <1>10, <1>11, <1>12 DEF Next, Exit

\* An errored client has a killed process whose exit will tell it to go on,
\* whatever disturbs it: no error can stick (fatalError and onExit).
THEOREM ErrorsAwaitAnExit == Spec => [](serverState = "Errored" => proc = "killed")
<1>1. Init => ErrorAwaitsExit
  BY DEF Init, ErrorAwaitsExit
<1>2. ErrorAwaitsExit /\ [Next]_vars => ErrorAwaitsExit'
  BY ErrorAwaitsExitStep
<1> QED BY <1>1, <1>2, PTL DEF Spec, ErrorAwaitsExit

\* The client stops waiting for a process it killed only for a running one,
\* unless it is disposed of, has given up or mistakes the exit.
Replaces ==
  proc = "killed" => proc' \in {"killed", "running"} \/ disposed' \/ fatallyCrashed' \/ mistaken'

LEMMA ReplacesStep ==
  ASSUME [Next]_vars
  PROVE  Replaces
<1> USE DEF docVars, serverVars, restartVars, lifeVars
<1>r. ASSUME NEW old, NewServer(old)
      PROVE  Replaces
  BY <1>r DEF NewServer, Replaces
<1>u. ASSUME proc' = proc
      PROVE  Replaces
  BY <1>u DEF Replaces
<1>1. CASE EnsureServiceStarted
  BY <1>1, <1>r DEF EnsureServiceStarted
<1>2. CASE Command
  BY <1>2, <1>r, <1>u DEF Command, StartLazily, Throws
<1>3. ASSUME NEW d, NEW op, NEW forgotten, Send(d, op, forgotten) \/ Throws
      PROVE  Replaces
  BY <1>3, <1>r, <1>u DEF Send, StartLazily, Throws
<1>4. CASE EditDoc
  BY <1>3, <1>4, <1>u DEF EditDoc, OpenDoc, ChangeDoc, CloseDoc
<1>5. ASSUME NEW age \in Ages, ProcExit(age)
      PROVE  Replaces
  <2>1. CASE isRestarting \/ disposed \/ fatallyCrashed'
    BY <1>5, <2>1 DEF ProcExit, Replaces
  <2>2. CASE ~(isRestarting \/ disposed \/ fatallyCrashed')
    BY <1>5, <1>r, <2>2 DEF ProcExit, StartAndResend
  <2> QED BY <2>1, <2>2
<1>6. ASSUME NEW status \in Alive, StrayExit(status)
      PROVE  Replaces
  BY <1>6, <1>u DEF StrayExit
<1>7. CASE ProcError
  BY <1>7, <1>u DEF ProcError
<1>8. ASSUME NEW isTsServerError \in BOOLEAN, FatalError(isTsServerError)
      PROVE  Replaces
  BY <1>8 DEF FatalError, Replaces
<1>9. CASE PromptAnswered
  BY <1>9, <1>u DEF PromptAnswered
<1>10. CASE RestartTsServer
  <2>1. CASE CanStart
    BY <1>10, <1>r, <2>1 DEF RestartTsServer, StartAndResend
  <2>2. CASE ~CanStart
    BY <1>10, <2>2 DEF RestartTsServer, Replaces
  <2> QED BY <2>1, <2>2
<1>11. CASE Dispose
  BY <1>11 DEF Dispose, Replaces
<1>12. CASE UNCHANGED vars
  BY <1>12, <1>u DEF vars
<1> QED
  BY <1>1, <1>2, <1>4, <1>5, <1>6, <1>7, <1>8, <1>9, <1>10, <1>11, <1>12 DEF Next, Exit

\* However the processes crash, whatever fatalError() kills and whenever the user
\* restarts the server, the exit of a killed process starts the next one, unless the
\* client takes it for the exit of a server that was replaced (isRestarting).
THEOREM KilledGoesOn == Spec => [][Replaces]_vars
<1>1. [Next]_vars => [Replaces]_vars
  BY ReplacesStep
<1> QED BY <1>1, PTL DEF Spec
=============================================================================
