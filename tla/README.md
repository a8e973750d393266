# Models of SemPat

SemPat is two programs in one repository: `semcode/`, an editor extension in
TypeScript that talks to language servers, and `src/`, Julia (and some Rust)
libraries for parsing, matching, rewriting, interpreting and formatting code.
This directory models the parts whose correctness depends on the *order* in
which things happen, in TLA+, checks them with TLC and proves the main results
with TLAPS. Paths below are relative to the repository; `direct/` stands for
`semcode/direct/src/`.

## 1. Inventory

### 1.1 The TypeScript extension

| component | state | operations | interacts with | hard because |
|---|---|---|---|---|
| tsserver connection (`direct/server/server.ts` `ProcBasedTsServer`, `utils.ts` `RequestQueue`, `CallbackMap`) | queue, sequence number, callbacks, `_pendingResponses` | `executeImpl`, `tryCancelRequest`, `dispatchMessage`, exit and error handlers, `kill` | writes to the process, its reader calls back; the client listens to exit, error, events | answers, cancellations, failing writes and the end of the process come in any order; the queue reorders |
| service client (`direct/client.ts` `ServiceClient`) | `serverState`, token, `isRestarting`, `numberRestarts`, `hasServerFatallyCrashedTooManyTimes`, `_isPromptingAfterCrash` | `startService`, `serviceExited`, `service`, `fatalError`, `restartTsServer`, `dispose` | owns one connection at a time, restarts it, tells the synchronizer | late exits of earlier processes, servers started lazily, restart storms |
| document synchronizer (`direct/server/buffer.ts`) | `syncedBuffers`, `_pending`, buffer states | open, change, close, `flush`, `reset`, `reinitialize` | called by the editor; every command of the client flushes first | batched edits must reach the right server, in order, before the command |
| diagnostics scheduling (`buffer.ts` second half, `utils/base.ts` `Delayer`) | pending diagnostics, the 'geterr' in flight, a time-out | `requestDiag`, `sendPendingDiags`, `interruptGetErr`, `closeResource` | requests on the connection, events from it | timers and callbacks of requests that were replaced |
| request routing (`server.ts` `RequestRouter`, `GetErrRoutingTsServer`, `SyntaxRoutingTsServer`, `spawner.ts`) | state of each shared request, `_projectLoading` | `execute`, cancellation, exits, `kill` | two or three connections, `fatalError` of the client | the servers must stay in step |
| Python analysis service (`analyzer/py/service.ts`, `backgroundAnalysisProgram.ts`, `analysis.ts`, `server/analyzer.ts`) | analysis timer, cancellation source, messages between two threads, the slice under way | open, change, close, invalidate, schedule, analyse in slices, pause and resume | a worker thread, a program on each side | an analysis is cancelled while its answer is in the pipe, or before the worker took it up |
| Python program (`analyzer/py/program.ts`, `sourceFile.ts`) | source files with parse results, importers and imports, dirty marks, diagnostics versions; the resolver's cached listings | `setFileOpened`, `markFilesDirty`, `analyze`, `_updateSourceFileImports`, `_removeUnneededFiles`, `getDiags` | driven by the service, reads the disk, is told of changes by watchers | what was analysed must be found out of date, however files come, go and import each other |
| file based cancellation (`server/cancel.ts`) | a file per token | `cancel`, `isCancellationRequested`, `dispose` | between processes and threads | races on the file |
| diagnostics on display (`features/diagnostic.ts`, `features/lang.ts`) | diagnostics per file and kind, settings per language, delayed updates | `updateDiags`, `setValidate`, `delete` | events of the connection, the editor's collection | delayed updates of files that are gone |
| message framing (`process.ts` `ProtocolBuffer`, `Reader`) | bytes, expected length | `append`, `tryReadContentLength`, `tryReadContent` | feeds the connection | chunks cut anywhere |
| processes and versions (`process.ts`, `spawner.ts`, `version.ts`) | none that changes | fork, arguments, version choice | used once per start | - |
| cached responses (`utils.ts` `CachedResponse`) | one promise and its document version | `execute` | outline, semantic tokens | cancellation of a shared promise |
| Python binder, checker, evaluator, parser | trees and type caches | pure functions of files | - | size, not order |
| Rust and Python language clients, features, REPL, HTML server | small | set-up and translation of requests | the connections above | `LangCache` evicts |

### 1.2 The Julia and Rust libraries

| component | state | operations | hard because |
|---|---|---|---|
| e-graph in Rust (`src/egraph/rs`) | union-find, classes with parents and data, hash-cons, two work lists, index by operator | `add`, `union`, `rebuild` | congruence and the analysis are only restored by `rebuild`, whose work lists are out of date while it runs |
| e-graph in Julia (`src/egraph/*.jl`) | the same in fewer operations | `addexpr!`, `merge!`, `rebuild!`, saturation | the same |
| interpreter (`src/interpret`) | frames, breakpoints | stepping | stepping through callees and exceptions |
| parser, scanner, formatter, matcher, lenses, traits, categorical algebra, subtype checker | none between calls | pure functions | - |

`PROJECT.json` lists the same components with what is modelled of each, and the
hazards of the code with the properties that would catch each.

## 2. Plan

Done, in this order:

1. `RequestQueue`, `TsServer` against `Promises`: the connection everything else uses.
2. `ServiceClient`: the server's life and the documents it is told about.
3. `RequestRouter`: several connections behind one.
4. `GetErr`: when diagnostics are asked for.
5. `BackgroundAnalysis`: analyses of Python files on a worker thread.
6. `PyProgram`: what such an analysis keeps and invalidates.
7. `EGraph` against `Congruence`: adding, uniting and rebuilding.
8. Proofs of the invariants of all of these, of the two refinements, and of the part
   of each liveness property that needs no fairness.

What could follow, most useful first: `DiagsMgr` (a delayed update never brings back a deleted
file), `ProtocolBuffer` as a refinement of a parser of the whole stream, `CachedResponse`, the
schedulers of the e-graph's `Runner`. Section 7 says why they come last.

Composition: `ServiceClient` and `RequestRouter` use of a connection what `TsServer` shows of
it, stated in each module where it is used; `TsServer` implements `Promises`, `EGraph` implements `Congruence`; `GetErr` uses of the
client whether a server is up; `BackgroundAnalysis` takes of a program that files are checked one
by one and which files a change marks, what `PyProgram` has in detail.

## 3. Modules

* `RequestQueue` - the queue as operators on sequences. `Enqueue` is `enqueue`: a
  normal request is inserted before the low-priority requests at the tail, anything else
  is appended. `FenceOrdered` says what an edit is: a barrier; `Disciplined` what priorities are.
* `Promises` - the abstract specification of a connection: a table of promises, each
  pending, then settled, and none pending after the connection went down. It knows
  nothing of queues or messages.
* `TsServer` - one connection, its process included. Each handler of the event loop is an
  action. `SendNextRequests` is the loop `sendNextRequests()`, taken whole: it computes how
  many items are sent (`SentCount`), which writes throw (`FailedWrites`) and which requests
  hold the queue back afterwards. `written` is what was handed to `process.write`, `stdout`
  what the server has said and the reader has not delivered. The payload of a request is
  left out; its kind (queueing type, expects a response, asynchronous, serialisable) is all
  that the code looks at. The tsserver program is not in the repository: `ServerRead`,
  `ServerComplete` and `ServerEvent` say what the client relies on.
* `ServiceClient` - the client with one server after the other and the synchronizer.
  A connection appears as `view`: the text of each document the current server will hold
  when it has read everything handed to it. That is what `TsServer` justifies: no request
  changes its place relative to an edit (`FenceOrder`). Tokens are not numbered: `proc` is
  the process of the current token and `stray` says how the earlier ones are, which is
  all `this.token !== mytoken` distinguishes. `resent` records whether the current server
  was started with the documents opened again. `quick`, `mistaken` (the last exit was taken for that of a
  replaced server, and no server was started with the documents since) and `commands` only observe.
* `RequestRouter` - the composites of `spawner.ts`: syntax and semantic server, main and
  diagnostics server, or all three with one router behind the other. A connection is the
  promise of each command; a router is what it does when a promise is settled. These
  handlers are microtasks: `tasks` holds those that have not run, `Precedes` says in which order they
  do (that in which they were attached), and `Idle` guards every other action, since nothing else
  happens before. `handed` is what each server was given, in order; `fatal` counts the calls of
  `onFatalError`. A command stands for all that are routed alike.
* `GetErr` - the diagnostics half of `BufferSyncSupport`. `delayer` is the one time-out of
  `Delayer`: off, set with a task, or set with its task gone. The last is what `Delayer` makes of a trigger
  inside its own task (`base.ts:466-467` wipes the task after the running one), as when the 'geterr' that it sends
  starts a server: that time-out goes off and does nothing. `pendingGetErr` and `getErr` the requests: at most two objects matter at a time, the
  pending one and its successor. A cancelled request settles at once and its callback runs as
  a microtask, so both are part of the handler that cancels (`Cancelled`, `AfterCancel`). `owed`
  and `asked` only observe: which documents' diagnostics are wanted, and which of them the
  request in flight will bring as they are now.
* `BackgroundAnalysis` - the scheduling half of `AnalyzerService` on the main thread, the
  worker, and the token that both look at. A *chain* is one analysis: a job `analyze` and the jobs
  `resumeAnalysis` that follow each `analysisPaused`. `inbox` is the worker's message queue, `port`
  the answer of each chain on its way back, `pipes` the cancellation files. The worker checks a file
  per step and looks for the file of its token between them; a slice may end after any file.
  A finished chain is used again for a later analysis, so their number bounds those alive at a time only.
* `PyProgram` - `Program` with its `SourceFile`s, the disk, and the watchers that tell of changes
  later. An object is known by its path and an age, so that one may be out of the list, while another still refers to
  it, beside its successor at the same path; `Collect` drops those nothing refers to. A text stands for
  contents; all that is known of it is what it imports. A check *sees* the texts of all files it can
  reach, and `seen` records them. One thread runs one turn at a time, but a turn is long and the disk does not wait:
  each round of its loops is a step. `turn` says which loop, and how far it is. `AnalyzeTimer` begins a turn, `EndUpdate` ends its update of the tracked files;
  `CheckTypes`, `LookUp` and `Checked` are a check, from the file through the paths it imports to its end; `EndPass` and `EndReport`
  end the pass and `getDiags()`. `RemoveNext` and `Forget` are `_removeUnneededFiles()`, which the update, the report and the closing of a file run.
  What the code finds by recursion over imports is here the least set that is closed under them (`Closure`): it ends, and
  visits just that set, because it keeps a map of what it has visited. `unmarked` and `hurried` are history: see below.
* `EGraph` - the struct of `egraph.rs` with `add`, `union` and `rebuild`, a step per entry of the
  work lists. `phase` is where `rebuild` is; it ends as "panicked" when it is called with a list for the analysis
  and none for congruence: its loop asks for the latter only (`egraph.rs:488`), and the assertion at its end (512) fails. `origin` is history: the node for which each id was made, from which every other part can be
  told. `Congruence` is what it implements. The analysis is the one that collects the facts of operators: a semilattice in which all
  results of `merge()` occur.
* `Congruence` - the abstract specification of an e-graph, after what the comments of `add`, `union` and `rebuild`
  promise: terms, a class for each, and steps that include a term, are told of an equality, or derive one. It knows
  nothing of hash-cons, parents, work lists or the analysis.
* `MCTsServer`, `MCServiceClient`, `MCRequestRouter`, `MCGetErr`, `MCBackgroundAnalysis`,
  `MCPyProgram`, `MCEGraph` - the constants of the runs.
* `TsServerProofs` (`RequestQueue` included), `ServiceClientProofs`, `RequestRouterProofs`, `GetErrProofs`,
  `BackgroundAnalysisProofs`, `PyProgramProofs`, `EGraphProofs`, `CongruenceProofs` - theorems.

Operators described as a *wrong form* next to a definition are what a plausible slip would
make of it; no specification uses them. Each shows that some property would notice.

## 4. Runs

| run | question | bounds |
|---|---|---|
| `connection` | are promises settled once and at last, and does the queue never wait for nothing? | 3 requests of 5 kinds, 1 unread event |
| `queue_order` | is an edit a barrier, and do low-priority requests wait, also when the owner does not notice the end of the process? | 4 requests of 3 kinds |
| `synchronized` | does the server hold the user's text through batching, failures and restarts, on an insiders build? | 2 documents, 2 texts, 1 free restart |
| `restarts` | without batching, with restarts by the user: are processes left behind, do restarts end, does a killed server come back, is one started without the open documents? | 1 document, 2 texts, 5 free restarts; no 'error' events |
| `two_servers` | is divergence fatal and nothing else; do both servers have the edits before a query? | 2 commands of all 9 classes |
| `three_servers` | is divergence noticed through two routers, does a router withdraw a command when it has an answer, does anything stay behind at the end? | 1 command of 3 classes |
| `diagnostics_requests` | one 'geterr' at a time, none of the requests for diagnostics lost, and do they arrive? | 3 documents, 2 of which the server checks |
| `background_analysis` | is a change ever left unanalysed or a cancellation file left behind, and do the threads come to rest? | 2 files, 2 analyses alive at a time, 2 changes unread; 1.03 million states |
| `python_program` | when all has settled, does what was checked, and is shown, agree with the files as they are, and do passes come to an end? | 3 files: an application that may import a module, which may import a library; the application is rewritten and deleted, the module deleted, the library created and edited; 648,763 states up to symmetry |
| `files_left` | does a pass say that there is nothing more while files are left? (it does) | the same files, one edited, one deleted |
| `egraph` | does a `rebuild` that does not panic end and restore congruence, hash-cons and analysis, and does the e-graph learn only what follows (`KnowsWhatFollows`, the refinement of `Congruence`)? | 4 ids, two constants and one binary operator |
| `rebuild_asserts` | is the analysis done when `rebuild` ends, as it asserts? (it is not) | the same |

Why the bounds are enough. Reordering needs a request in flight, one queued of each class and a
fourth that arrives: four requests. A failing write in the middle of the loop needs two
neighbours: three. The events of the server itself only run `sendNextRequests()`, so one unread
event shows all they do. Two documents are needed for a flush caused by one of them to carry
the other; two texts make a lost or repeated change visible. The restart limit is the code's 5
where the counter is the question, and 1 where it only has to be reached. Divergence is a matter
of one command and its promises, one per server; a query and the edit before it are two commands. Documents
interact in `GetErr` through the request they share: one that the server checks, one that it does
not and one more whose edits meet a request for the others.

In `BackgroundAnalysis` two analyses are alive when one is cancelled and its successor starts; a third would
meet the second as the second met the first. Two files, one importing the other, are a slice that
ends with a file left. In `PyProgram` three files are the shortest chain on which marking the direct importers of
a change is not enough, and two ages let an object outlive its place in the list next to a
successor. Only the application is a source of the project, so what is checked is the application and the library while it is
open; a pass over two sources that mark each other is the question of `files_left`. The library's two texts are alike
(neither imports anything, and it has none at first), which is the symmetry used. In `EGraph` a binary operator over two constants and itself gives four
classes, a class that is its own parent, and a union that makes another follow.
The theorems of section 6 do not depend on any of these bounds.

`CHECK_DEADLOCK FALSE` for `TsServer`, `ServiceClient` and `RequestRouter`: a connection whose process
has exited, a composite that was killed and a client that was disposed of really stop. Also for
`PyProgram`, where everything rests when the files are as analysed and none may be edited, created or
deleted any more, and for `EGraph`, where a panic is the end. The others are checked for deadlock.

### What the code does not provide

Some properties are stated with an exception or checked without a disturbance, because the code has no
answer to it. All are in the hazard list.

* `NeverForgotten` and `KilledIsReplaced` except exits that are `mistaken`. `restartTsServer()` sets
  `isRestarting`, and the exit that would clear it comes from a token that is out of date, so
  the next crash is taken for it: the client goes to state None, and the next command starts a
  server that is told of no document.
* `OneServer` and `NeverForgotten` are not checked with 'error' events, which leave the process running and restart none.
* `NoLateWithdrawal` is about answers that a router has. It does not say that a cancelled command was
  carried out nowhere: a server may have done so with its answer still in the pipe. Then the state is
  `Unresolved`, the cancellation is handed on (`server.ts:309`), takes the command from the other server's queue, and both
  promises resolve as cancelled (183): it is half carried out, and nobody sees it. And of three servers the outer router
  sees two: it may cancel the diagnostics server after the semantic one has answered.
* A 'geterr' that starts a server leaves a time-out without a task behind, so what the start wanted to ask is not
  scheduled. `NothingForgotten` and `DiagsArrive` hold all the same, but only because that
  'geterr' goes to the new server and asks for all open documents (the wrong form `OnlyPending` shows it).
* `Congruent`, `MemoRight`, `AnalysisRight` and `RebuildEnds` are about rebuilds that return: see the second finding.
* `NoPromiseLeft` speaks of what was asked of a server while it ran: the exit of a syntax or
  diagnostics server is reported to nobody, and what is routed to it later waits for ever.
* `NoFileForgotten` excepts an analysis that an internal error ended: nothing sets the timer.
* `Fresh` excepts files whose change goes `Unnoticed`: a document opened with a text other than the one
  analysed is not marked in its importers, nor is one closed without being saved or analysed;
  and `didContentsChangeOnDisk()` compares with what was last *read from disk*, not with what was last analysed.
* `Complete` excepts files closed between an edit and the next pass (`hurried`): the edit forgets the
  version of the diagnostics sent, so they are not taken back.
* `PassesEnd` lets a pass that finds a file deleted leave as many files as it found: it marks the files above
  the deleted one to be checked again, among them open ones that had been checked.
* `ImportsAreKnown` is checked without re-creating a deleted file: an object found deleted stays so, and may
  stand beside its successor, whose importers are others; removing the first then fails an assertion.

### Findings

`files_left` checks what `analysis.ts:38` asserts after each pass:
`filesLeftToAnalyze === 0 || moreToAnalyze`. It does not hold. The trace:

1. An application imports a module. The module is opened and edited to a text that imports nothing, and checked.
2. A library is deleted on disk, which the resolver's cached listing still has. The module is closed, and the
   application is checked.
3. The module is opened a second time, with its text on disk, which imports the library, and closed. That makes the
   module due for a check. Nothing marks the application.
4. In the next pass the loop of `analyze()` passes the application, which needs no check, and checks the module.
   Binding it finds the library by the listing, adds it, reads it, and finds it deleted. `_parseFile()`
   marks every file above it to be checked again (`program.ts:454`): the module and the application.
5. The module's mark is cleared at the end of its check (`sourceFile.ts:607`). The application's stays, and
   the loop has passed it: the pass says that there is nothing more, and the assertion throws.

`analyzeProgram()` reports an error and the timer is not set again. `FilesLeftOnlyIfGone` says when it can happen and
when not: only after a pass that found a file deleted. `Complete` is about passes that ended without it.

`rebuild_asserts` checks what `process_unions()` asserts at its end: `self.analysis_pending.is_empty()`
(`egraph.rs:512`). It does not hold. Its loop runs while there is something in `pending` (488), but `union` may fill
`analysis_pending` alone: add x, y and g(y, y) and rebuild; unite x and y. The class with the parents keeps its id, so no parent
goes to `pending`; its data grow by those of x, so g(y, y) goes to `analysis_pending`. The next
`rebuild` skips the loop and panics. `NoFactsNoPanic` says when it cannot happen: if there are no data. What
`RebuildAdvances` adds is that a rebuild which enters the loop does not panic: each turn of it empties the second list.

## 5. Fairness

`TsServer`: the reader delivers what is in the pipe, a killed process exits, and the server goes on
reading its input and finishes the asynchronous work it began. The first two are given by
the event loop and the operating system; the last two are what the client takes from the
server. Nothing makes a caller execute or cancel a request, and nothing makes a process exit by itself.

`ServiceClient`: the exit of a killed process is reported. That is so for `ChildServerProc`;
`WorkerServerProc` never calls its exit handlers (`process.ts:210`), and nothing is claimed about it.

`RequestRouter`: microtasks run and a killed process exits; that a server answers is not assumed.

`GetErr`: time-outs and callbacks come, and a server that is up finishes a 'geterr'. `DiagsArrive` is about
a user, and projects, that come to rest (`AtRest`): each edit may cancel the request in flight,
so a user who never pauses need never see diagnostics.

`BackgroundAnalysis`: the event loops of both threads turn: a timer that is set goes off, answers are
read, the worker goes on. `AnalysisEnds` is about a user who pauses, for the same reason.

`EGraph`: `rebuild()` is the loop of one call, so `RebuildStep` is weakly fair. A rebuild that panics has ended in another way, and `RebuildEnds` says nothing of it.

`PyProgram` has no temporal property: what holds at rest is stated as safety (`Settled => ...`), and that
passes do not go on for ever by a quantity that falls from one to the next (`PassesEnd`).

## 6. Proofs

Checked by TLAPS for all values of the constants that satisfy the named assumptions. Type correctness is
proved for each of these modules; only `python_program` also checks it.

### Invariants and action properties

* `TsServerProofs`, first about `RequestQueue`: where `Enqueue` and `DeletePending` put the items of a queue, and that
  both, and sending from the head, keep `FenceOrdered` and `Disciplined`. Then `FencesHold`, `DisciplineHolds`, `CallbacksMatchPromises`,
  `AwaitedIsOwed`, `QueueNeverStalls`, `EditsAreKept`. `FenceOrder` speaks of `written \o queue`, which a send does not
  change: only enqueueing and deleting do, and these are the lemmas above. It is not inductive
  alone: a new request must have a larger number than those in use (`NumbersGivenOut`).
  `PendingIffCallback` needs that the promises of requests still to come are not made (`PromiseInv`).
  `NoStall` and `PendingIsOwed` are inductive together (`OwedInv`), with three more facts: numbers
  are used once, a server says only what it has read, and requests still queued have their callbacks.
  `EditsAreKept` is the other half of what `ServiceClient` takes of a connection: no request overtakes an
  edit, and no edit is lost when requests around it are cancelled.
* `ServiceClientProofs`: `ServerInSync`, `CommandsSeeText`, `NoOrphans` (if no process
  reports an error), `RestartsAreBounded` (on a release build), `NoServerForgets` (if no process reports an error). `InSync` is made inductive by
  `SyncInv`: a document with a pending open is not open on the server, so that a close may
  take the open back; the buffer of an open document is open, so that its close is sent; a client
  that listens has a buffer for each open document; nothing is pending for a server that
  does not batch. The core is one lemma about the synchronizer (`SynchronizeSyncs`).
* `RequestRouterProofs`: `QueriesComeAfterEdits`, `DivergenceIsNoticed`, `DivergenceStops` and
  `NoneWithdrawnLate`, all in every layout. Two invariants: `RouteInv` about what servers are given, which depends on
  the routing alone, and `StateInv` about what becomes of shared commands. The latter says that a router knows of
  each promise that is settled, or has a microtask that will tell it (`HeardOf`), and that
  `onFatalError` was called just where some router knows of two outcomes (`FatalIffClash`). When a token fires
  no microtask is left, so what a router does not know has not happened to its promises: that is `NoneWithdrawnLate`. That no
  divergence escapes two routers is `RoutersCompareAll`: each compares a pair of servers, and the pairs connect all.
* `GetErrProofs`: `NeverTwoGetErrs`, `RequestsAreKept`, `PendingWillBeSent`. The four invariants
  are inductive together: `OneGetErr` needs that the handler that replaces the pending request
  cancels it first (`CancelPending`), and `NothingForgotten` needs `OneGetErr` where a request completes: it is
  the pending one, so what it brings is `asked`.
* `BackgroundAnalysisProofs`: `NothingIsForgotten`, `CurrentSeesChanges`, `NoFileLeft`. The invariant adds that a job
  under way still has on its list all that must be checked (`JobInv`), that the token of the current analysis is
  not disposed of before its last answer (`TokenInv`), and that without a timer there is a current
  analysis, which was started after the last change (`SourceInv`).
* `PyProgramProofs`: `ImportersAreKnown`, `SettledIsComplete`, `ChecksAreFresh`, `PassesComeToAnEnd`, `FilesLeftOnlyIfGone`. About `Closure` it needs
  only that it is closed, is the least such set, and grows with the edges. Five invariants, each resting on those before. `GraphInv`: a file
  that is in the list knows its importers and they it (`EdgesAgree`), what it imports is in the list unless a removal is about to
  forget it (`ImportsAreListed`, `RemovalGoesOn`), and an object found deleted was read when the file was not there and is a root no more
  (`DeletedIsGone`); that no file comes back after it was deleted is the assumption `NoneCreatedAgain`. `ForgottenIsImporter` shows that the
  assertion about importers holds, and that a file that loses its last importer always comes later in the list, if at all. `PassInv`: a dirty file is
  marked to be checked (`DirtyIsChecked`), the file under check has been read (`FileIsRead`), and what is left to analyse
  is among what was, unless a file was found gone (`MoreIsLess`). `RestInv`: at rest nothing is marked without the timer being set
  (`AtRest`, `ReportIsDue`), sources on disk are tracked unless an update is scheduled (`SourcesAreTracked`, `UpdateIsScheduled`), and what is shown
  has its diagnostics version (`ShownIsKept`).
  `ChecksAreFresh` rests on two more. `ToldInv`: what was read of a file is its present text, or the watcher will
  tell of it, or the change goes unnoticed (`TextIsKnown`); tracked files are on disk, or their end will be told
  (`TrackedIsOnDisk`, `GoneIsTold`); and an update that is due will mark every file (`UpdateChecksAll`). `SeenInv`: unless the
  watcher is about to tell of a creation or deletion, the resolver's cached listing of the disk is right (`ListingIsRight`), a file that was parsed
  knows its imports (`ParsedIsRight`), a check that is over and need not be repeated has seen just the files below the checked one,
  as they were read last (`SeenIsRight`), and a check under way has seen only files that it can reach (`CheckGoesOn`).
  "Below" follows imports only through files whose change was noticed (`Reach`): the graph behind an unnoticed change is that
  of a text the service has not analysed. That marking reaches far enough is then a fact about paths: a file above a
  changed one is marked, and one that is not has everything below it unchanged.
* `EGraphProofs`: `RebuiltIsCongruent`, `MemoIsRight`, `NodesAreKept`, `AnalysisIsRight`. The invariant says what the
  work lists owe while the graph is in disorder: each node made is found by `memo` in its class or has an entry in
  `pending` (`Covered`), whose entries and those of parents and `memo` are true (`EntriesRight`,
  `MemoHolds`); a node is among the parents of its children, so that a union brings it back
  (`Known`); a class has the data of each of its nodes or an entry in `reanalyze` (`DataThere`), and no
  other (`DataFromNodes`). When both lists are empty, which is how a rebuild that returns leaves them, that is congruence and a right
  analysis. `NoFactsNoPanic` is about the second list alone.

### Refinements

* `ImplementsPromises` (`TsServerProofs`): a connection implements `Promises`. That a
  connection which is down and observed has no callback is what its last step needs; every action maps to a
  step of `Promises` or leaves its variables alone. It assumes `Observed`, and the run `queue_order` shows
  what remains without.
* `ImplementsCongruence` (`EGraphProofs`): an e-graph implements `Congruence`, with `origin`, `leader` and
  `~dirty` for `term`, `class` and `complete`. An addition maps to `Include`, which may overlook a node only while a
  rebuild is due; an entry of `pending` maps to `Derive` if it merges and else to a stutter, and that both nodes it
  compares really are in the two classes is `EntriesRight` and `MemoHolds`; the end of a rebuild maps to
  `Finish`, whose guard is congruence.
* `CongruenceProofs` says what that is worth, where it can be said without work lists: a complete e-graph stays congruent
  (`CompleteIsCongruent`), and whatever an e-graph knows holds in every meaning of the operators in which
  what it was told holds (`KnowsOnlyWhatFollows`: equal operators on equal values have equal values, and each
  `union` was of equal values). `FindIsSound` carries the second over to `EGraph` by the refinement: `find()` is
  sound at any time, also in the middle of a rebuild, and after additions with an out-of-date `memo`.

### What the liveness properties rest on

Liveness under fairness is out of the prover's reach (so is ENABLED), and is checked by TLC on the instances of section
4. What remains of each such property is proved for all instances: the system is never stuck before the goal, and each
step towards it lowers a measure that cannot fall for ever. Fairness adds only that a step which can be taken is.

| liveness property | never stuck | each step counts |
|---|---|---|
| `PromisesKept` | `PendingIsServed`: a pending promise on a server that is up has a message, an unread request or work of the server behind it | `ServiceAdvances`: a weighted sum of queue, unread requests, work and messages falls, though reading a message sends from the queue |
| `DiagsArrive` | `ArrivedOrBusy` | `ProgressAdvances`: lexicographic in the server, the time-out, with a task or without, and the requests not done |
| `AnalysisEnds` | `RestOrBusy`, for two or more chains | `AnalysisAdvances`: lexicographic in the timer, the last change in the inbox, the files to be checked, and the effort that is left for messages and jobs |
| `RebuildEnds` | a turn of the loop can be taken as long as the rebuild has neither returned nor panicked, and it panics only when it is called | `RebuildAdvances`: lexicographic in the classes, the facts that classes lack, and the entries; the last turn returns |
| `ErrorsPass` | `ErrorsAwaitAnExit`: an errored client has a killed process, whatever disturbs it | one exit is enough |
| `KilledIsReplaced` | - | `KilledGoesOn`: a client waits for the killed process until one runs, it is disposed of, it gives up, or it takes the exit for that of a server the user replaced |
| `NoProcessLeft` | `AllAreEnded`: a composite that ended has killed each process, or it has exited | one exit each |
| `NoPromiseLeft` | - | `NoPromiseOutlivesItsProcess`: an exit settles, in the same step, all that was asked of the process |

The measures assume that `Files`, `Chains` and `Facts` are finite, as files, cancellation tokens and the facts of an
analysis are; `RebuildAdvances` would be false of an analysis whose data can grow for ever, and so would be
the end of `rebuild()`.

### Only model-checked

The liveness properties themselves; every invariant and action property that a passing run checks is a theorem, under the
exceptions that section 4 names. What the methods of `Program` that recurse over the import graph compute
is proved only as far as `Closure` says it: that the recursion in the code visits the least closed set is how it was
read, not a theorem.

## 7. Not modelled

See the table of components in `PROJECT.json`. Why the rest of the inventory is left out:

* Diagnostics on display, message framing, cached responses, `LangCache`, the schedulers of `Runner`: sequential
  code with one actor, small enough to be read or tested; the doubtful places are in the hazard list with
  their lines.
* Binder, checker, evaluator, tokenizers, parsers, formatters, matching, categorical algebra: pure
  functions of large data. The evaluator's caches live as long as an evaluator, which a change of files replaces.
* The Julia interpreter: its state is that of Julia's runtime, which is not in the repository.
* The e-graph in Julia: the same structure as the one in Rust.
* Features, language clients, the REPL client: set-up and translation around libraries that keep the state.

Within the modelled components:

* Client and connection: cancellation of requests when a document changes (`execute`, `cancelOnResourceChange`),
  plug-in configuration except that it flushes, telemetry, tracing, log files, version selection and
  the prompts' texts; `ProcBasedTsServer.dispose()`, which the client never calls. A change of
  a document is one edit from one text to another, not a list of ranges.
* `BackgroundAnalysis`: indexing, requests to the worker other than analyses, changes of the
  configuration, a restart of the service.
* `PyProgram`: the builtins import, wildcard and third-party import rules, stub and shadow files, import cycles, internal
  errors in the checker, dropping of caches when memory runs high, configuration changes.
* `EGraph`: the union-find module, which is not in the repository (an id stands for its class); the order
  of lists; which of two classes gives its id to the union (either may); other
  hooks `modify()` than the default; `Runner`, extraction, and the pattern machine.
