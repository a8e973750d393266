------------------------- MODULE BackgroundAnalysis -------------------------
(***************************************************************************)
(* How Python files are analysed on a worker thread: the scheduling half   *)
(* of AnalyzerService (analyzer/py/service.ts), the two ends of the        *)
(* background thread (server/analyzer.ts) and the cancellation tokens      *)
(* that they share through a file (server/cancel.ts).                      *)
(*                                                                         *)
(* Every change resets a timer and cancels the analysis under way; the     *)
(* timer starts a new one, under a token of its own.  The worker reads     *)
(* changes and jobs in order; a job checks files for a slice of time and   *)
(* answers 'analysisPaused', which the main thread turns into the next     *)
(* job, or 'analysisDone'.  Here a chain is one analysis with all its      *)
(* slices.  What a check does is left to PyProgram.                        *)
(***************************************************************************)
EXTENDS Sequences, Naturals

CONSTANTS
  Files,        \* the source files of the workspace, all of them tracked
  Importers,    \* per file, the files to be checked again when it changes
  OnlyOpen,     \* configOptions.checkOnlyOpenFiles
  Chains,       \* analyses that can exist at a time; a finished one is reused
  NoChain,      \* an undefined _backgroundAnalysisCancellationSource
  MaxInbox      \* bound on the changes that wait for the worker

ASSUME ConstantsAssumption ==
  /\ Importers \in [Files -> SUBSET Files]
  /\ OnlyOpen \in BOOLEAN
  /\ NoChain \notin Chains

VARIABLES
  \* Main thread:
  docs,         \* the documents open in the editor
  timer,        \* is _analyzeTimer set?
  update,       \* _requireTrackedFileUpdate
  source,       \* the chain of _backgroundAnalysisCancellationSource
  cancelled,    \* chains whose OwningFileToken was cancelled ...
  disposed,     \* ... and was disposed of
  pipes,        \* chains whose cancellation file exists
  \* Between the threads:
  inbox,        \* messages to the worker
  port,         \* per chain, the answer to its job that is on its way
  \* Worker:
  open,         \* the files that its program knows as open
  toCheck,      \* the files whose isCheckingRequired() holds
  job,          \* the slice being worked on
  \* History:
  failed        \* chains that an internal error ended

mainVars   == <<docs, timer, update, source, cancelled, disposed>>
workerVars == <<open, toCheck>>
vars == <<mainVars, pipes, inbox, port, workerVars, job, failed>>

Changes  == [type : {"setFileOpened", "update", "setFileClosed", "markFilesDirty"}, file : Files]
            \cup [type : {"invalidate", "setTrackedFiles"}]
Jobs     == [type : {"analyze", "resumeAnalysis"}, chain : Chains]
NoJob    == [chain |-> NoChain, todo |-> {}, open |-> FALSE]

TypeOK ==
  /\ docs \subseteq Files /\ timer \in BOOLEAN /\ update \in BOOLEAN
  /\ source \in Chains \cup {NoChain}
  /\ cancelled \subseteq Chains /\ disposed \subseteq Chains /\ pipes \subseteq Chains
  /\ inbox \in Seq(Changes \cup Jobs)
  /\ port \in [Chains -> {"none", "analysisPaused", "analysisDone"}]
  /\ open \subseteq Files /\ toCheck \subseteq Files
  /\ job \in [chain : Chains \cup {NoChain}, todo : SUBSET Files, open : BOOLEAN]
  /\ failed \subseteq Chains

\* The service is set up: setOptions() told the worker of the files and set the timer.
Init ==
  /\ docs = {} /\ timer = TRUE /\ update = FALSE
  /\ source = NoChain /\ cancelled = {} /\ disposed = {} /\ pipes = {}
  /\ inbox = <<>> /\ port = [c \in Chains |-> "none"]
  /\ open = {} /\ toCheck = Files /\ job = NoJob
  /\ failed = {}

Queued(c) == \E i \in DOMAIN inbox : inbox[i] \in Jobs /\ inbox[i].chain = c
Waiting   == \E i \in DOMAIN inbox : inbox[i] \in Changes

\* The chain goes on by itself ...
Working(c) == Queued(c) \/ job.chain = c \/ port[c] = "analysisPaused"

\* ... or at least has an answer to be read.
Live(c) == Working(c) \/ port[c] = "analysisDone"

-----------------------------------------------------------------------------
(* Main thread *)

\* _scheduleReanalysis(): OwningFileToken.cancel() writes the file, once, and not after
\* dispose().  Wrong forms: there always is a token; dispose() does not matter; the timer
\* is left alone while an analysis goes on.
ScheduleAndCancel(requireUpdate) ==
  /\ update' = (update \/ requireUpdate)
  /\ timer' = TRUE
  /\ LET cancels == {source} \ (disposed \cup cancelled)
     IN  cancelled' = cancelled \cup cancels /\ pipes' = pipes \cup cancels

ScheduleAndWrite(requireUpdate) ==
  /\ update' = (update \/ requireUpdate)
  /\ timer' = TRUE
  /\ LET cancels == {source} \cap (Chains \ cancelled)
     IN  cancelled' = cancelled \cup cancels /\ pipes' = pipes \cup cancels

ScheduleOnlyOnce(requireUpdate) ==
  /\ update' = (update \/ requireUpdate)
  /\ timer' = (timer \/ ~Working(source))
  /\ UNCHANGED <<cancelled, pipes>>

ScheduleReanalysis(requireUpdate) ==
  /\ update' = (update \/ requireUpdate)
  /\ timer' = TRUE
  /\ LET cancels == {source} \cap (Chains \ (disposed \cup cancelled))
     IN  cancelled' = cancelled \cup cancels /\ pipes' = pipes \cup cancels

\* One of the service's operations that pass a change on to the worker and schedule.
Change(message, requireUpdate) ==
  /\ Len(inbox) < MaxInbox
  /\ inbox' = Append(inbox, message)
  /\ ScheduleReanalysis(requireUpdate)
  /\ UNCHANGED <<source, disposed, port, workerVars, job, failed>>

SetFileOpened(f) ==
  /\ f \notin docs /\ docs' = docs \cup {f}
  /\ Change([type |-> "setFileOpened", file |-> f], FALSE)

\* setFileOpened with the new contents and markFilesDirty, which follow each other.
UpdateOpenFileContents(f) ==
  /\ f \in docs
  /\ Change([type |-> "update", file |-> f], FALSE)
  /\ UNCHANGED docs

SetFileClosed(f) ==
  /\ f \in docs /\ docs' = docs \ {f}
  /\ Change([type |-> "setFileClosed", file |-> f], FALSE)

\* The source file watcher: a file was changed.
WatchedFileChanged(f) ==
  /\ Change([type |-> "markFilesDirty", file |-> f], FALSE)
  /\ UNCHANGED docs

\* A file was added or removed, or with ~requireUpdate a library or the options changed.
InvalidateAndForceReanalysis(requireUpdate) ==
  /\ Change([type |-> "invalidate"], requireUpdate)
  /\ UNCHANGED docs

\* The analysis timer.  Wrong form: the tracked files are sent after the job.
TrackedFiles == IF update THEN <<[type |-> "setTrackedFiles"]>> ELSE <<>>

StartThenUpdate(c) == <<[type |-> "analyze", chain |-> c]>> \o TrackedFiles

StartAnalysis(c) == TrackedFiles \o <<[type |-> "analyze", chain |-> c]>>

AnalyzeTimer(c) ==
  /\ timer /\ timer' = FALSE
  /\ ~Live(c) /\ c # source
  /\ source' = c
  /\ inbox' = inbox \o StartAnalysis(c)
  /\ update' = FALSE
  /\ cancelled' = cancelled \ {c} /\ disposed' = disposed \ {c} /\ failed' = failed \ {c}
  /\ UNCHANGED <<docs, pipes, port, workerVars, job>>

\* 'analysisPaused' and 'analysisDone': both dispose of the token, which removes its
\* file; a pause makes the next job.
DisposeToken(c) == disposed' = disposed \cup {c} /\ pipes' = pipes \ {c}

ReadPort(c) ==
  /\ port[c] # "none"
  /\ port' = [port EXCEPT ![c] = "none"]
  /\ DisposeToken(c)
  /\ inbox' = IF port[c] = "analysisPaused"
              THEN Append(inbox, [type |-> "resumeAnalysis", chain |-> c]) ELSE inbox
  /\ UNCHANGED <<docs, timer, update, source, cancelled, workerVars, job, failed>>

-----------------------------------------------------------------------------
(* Worker *)

ToTheWorker == <<mainVars, pipes>>

\* The effect of a change on the program.
Apply(message) ==
  \/ /\ message.type \in {"setFileOpened", "update"}
     /\ open' = open \cup {message.file}
     /\ toCheck' = toCheck \cup {message.file}
                     \cup (IF message.type = "update" THEN Importers[message.file] ELSE {})
  \/ /\ message.type = "setFileClosed"
     /\ open' = open \ {message.file} /\ UNCHANGED toCheck
  \/ /\ message.type = "markFilesDirty"   \* if it is not open and its contents changed
     /\ \/ toCheck' = toCheck \cup {message.file} \cup Importers[message.file]
           /\ message.file \notin open
        \/ UNCHANGED toCheck
     /\ UNCHANGED open
  \/ message.type = "invalidate" /\ toCheck' = Files /\ UNCHANGED open
  \/ /\ message.type = "setTrackedFiles"  \* and markAllFilesDirty(false)
     /\ \E changed \in SUBSET (Files \ open) : toCheck' = toCheck \cup changed
     /\ UNCHANGED open

ReadChange ==
  /\ job = NoJob /\ inbox # <<>> /\ Head(inbox) \in Changes
  /\ inbox' = Tail(inbox)
  /\ Apply(Head(inbox))
  /\ UNCHANGED <<ToTheWorker, port, job, failed>>

\* Answer the job of chain c and be done with the slice.
Answer(c, answer) == port' = [port EXCEPT ![c] = answer] /\ job' = NoJob

\* The files that Program.analyze() goes through: those open, or all if none is left.
Slice(c) ==
  LET opened == toCheck \cap open
  IN  [chain |-> c,
       todo  |-> IF opened # {} THEN opened ELSE IF OnlyOpen THEN {} ELSE toCheck,
       open  |-> opened # {}]

\* 'analyze' and 'resumeAnalysis': throwIfCancellationRequested(), which looks for the
\* file at most every 5 ms, and so may miss it.
TakeJob ==
  /\ job = NoJob /\ inbox # <<>> /\ Head(inbox) \in Jobs
  /\ inbox' = Tail(inbox)
  /\ LET c == Head(inbox).chain
     IN  \/ job' = Slice(c) /\ UNCHANGED port
         \/ c \in pipes /\ Answer(c, "analysisDone")
  /\ UNCHANGED <<ToTheWorker, workerVars, failed>>

\* A file is checked; when the time is up the slice ends.
CheckFile(f) ==
  /\ f \in job.todo
  /\ toCheck' = toCheck \ {f}
  /\ \/ job' = [job EXCEPT !.todo = @ \ {f}] /\ UNCHANGED port
     \/ Answer(job.chain, "analysisPaused")
  /\ UNCHANGED <<ToTheWorker, inbox, open, failed>>

\* The evaluator noticed the cancellation in the midst of a file.
NoticeCancel ==
  /\ job.todo # {} /\ job.chain \in pipes
  /\ Answer(job.chain, "analysisDone")
  /\ UNCHANGED <<ToTheWorker, inbox, workerVars, failed>>

\* The checker threw: the file counts as checked, the rest of the files is given up.
InternalError(f) ==
  /\ f \in job.todo
  /\ toCheck' = toCheck \ {f}
  /\ Answer(job.chain, "analysisDone")
  /\ failed' = failed \cup {job.chain}
  /\ UNCHANGED <<ToTheWorker, inbox, open>>

\* There is more to do as long as there were open files.  Wrong form: always.
AlwaysMore(slice) == "analysisPaused"

WhatIsLeft(slice) == IF slice.open THEN "analysisPaused" ELSE "analysisDone"

EndOfSlice ==
  /\ job # NoJob /\ job.chain \in Chains /\ job.todo = {}
  /\ Answer(job.chain, WhatIsLeft(job))
  /\ UNCHANGED <<ToTheWorker, inbox, workerVars, failed>>

-----------------------------------------------------------------------------
User ==
  \/ \E f \in Files : \/ SetFileOpened(f) \/ UpdateOpenFileContents(f) \/ SetFileClosed(f)
                      \/ WatchedFileChanged(f)
  \/ \E requireUpdate \in BOOLEAN : InvalidateAndForceReanalysis(requireUpdate)

Main == \E c \in Chains : AnalyzeTimer(c) \/ ReadPort(c)

Worker ==
  \/ ReadChange \/ TakeJob \/ NoticeCancel \/ EndOfSlice
  \/ \E f \in Files : CheckFile(f) \/ InternalError(f)

Next == User \/ Main \/ Worker

Spec == Init /\ [][Next]_vars

\* The event loops of both threads go on; neither the user nor errors have to.
Fairness ==
  /\ \A c \in Chains : WF_vars(ReadPort(c))
  /\ WF_vars(\E c \in Chains : AnalyzeTimer(c))
  /\ WF_vars(Worker)

FairSpec == Spec /\ Fairness

-----------------------------------------------------------------------------
(* Properties *)

\* What the settings ask to be checked.
Wanted == toCheck \cap (IF OnlyOpen THEN open ELSE Files)

\* As long as there is a change to be read or a file to be checked, the timer is set or
\* the current analysis goes on and nothing will stop it, unless an internal error has:
\* the cancelling and resuming of analyses never leaves a file behind.
NoFileForgotten ==
  Wanted # {} \/ Waiting =>
    \/ timer
    \/ Working(source) /\ source \notin pipes
    \/ source \in failed

\* The current analysis sees the program with every change that was made.
AnalysisSeesChanges == ~timer /\ job.chain = source /\ job # NoJob => ~Waiting

\* A cancellation file goes with an analysis: one that has ended leaves none behind,
\* however its end and its cancellation cross.
NoPipeLeft == \A c \in pipes : Live(c)

\* When the user pauses, the threads come to rest with nothing left to check (or with an
\* internal error): analyses end, also those that were cancelled too late.
AtRest ==
  /\ ~timer /\ inbox = <<>> /\ job = NoJob /\ \A c \in Chains : port[c] = "none"
  /\ Wanted = {} \/ source \in failed

AnalysisEnds == <>[][~User]_vars => <>[]AtRest
=============================================================================
