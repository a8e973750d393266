---------------------- MODULE BackgroundAnalysisProofs ----------------------
(***************************************************************************)
(* Theorems about BackgroundAnalysis, for any files, any number of chains  *)
(* and an inbox of any length.                                             *)
(***************************************************************************)
EXTENDS BackgroundAnalysis, SequenceTheorems, FiniteSetTheorems, WellFoundedInduction, TLAPS

\* The jobs of chain c come after the changes in the inbox.
Ordered(c) ==
  \A i, j \in DOMAIN inbox :
    inbox[i] \in Jobs /\ inbox[i].chain = c /\ inbox[j] \in Changes => j < i

\* A slice that goes through all files has before it all that is left.
JobInv ==
  /\ job.chain = NoChain => job = NoJob
  /\ job # NoJob /\ ~job.open => Wanted \subseteq job.todo

\* The token of the current analysis is not disposed of before it answers.
TokenInv == source \in Chains /\ source \notin disposed => Live(source)

\* Without a timer there is a current analysis, started after the last change.
SourceInv == ~timer => source \in Chains /\ Ordered(source)

IInv ==
  /\ TypeOK /\ JobInv /\ TokenInv /\ SourceInv
  /\ NoPipeLeft /\ AnalysisSeesChanges /\ NoFileForgotten

-----------------------------------------------------------------------------
(* The inbox *)

Message == Changes \cup Jobs

LEMMA MessagesDiffer ==
  /\ \A m \in Changes : m \notin Jobs
  /\ \A c \in Chains : /\ [type |-> "analyze", chain |-> c] \in Jobs
                       /\ [type |-> "resumeAnalysis", chain |-> c] \in Jobs
  /\ [type |-> "setTrackedFiles"] \in Changes
  /\ \A m \in Jobs : m.chain \in Chains
  BY DEF Changes, Jobs

LEMMA AppendElements ==
  ASSUME NEW s \in Seq(Message), NEW m \in Message
  PROVE  /\ Append(s, m) \in Seq(Message)
         /\ Len(s) \in Nat
         /\ DOMAIN s = 1..Len(s)
         /\ DOMAIN Append(s, m) = 1..Len(s) + 1
         /\ \A i \in 1..Len(s) : Append(s, m)[i] = s[i]
         /\ Append(s, m)[Len(s) + 1] = m
  BY AppendProperties, LenProperties

LEMMA AppendChange ==
  ASSUME inbox \in Seq(Message), NEW m \in Changes, inbox' = Append(inbox, m)
  PROVE  /\ inbox' \in Seq(Message)
         /\ Waiting'
         /\ \A c : Queued(c)' <=> Queued(c)
<1>1. m \in Message /\ m \notin Jobs
  BY MessagesDiffer DEF Message
<1> QED
  BY <1>1, AppendElements DEF Waiting, Queued

LEMMA AppendJob ==
  ASSUME inbox \in Seq(Message), NEW m \in Jobs, inbox' = Append(inbox, m)
  PROVE  /\ inbox' \in Seq(Message)
         /\ Waiting' <=> Waiting
         /\ Queued(m.chain)'
         /\ \A c : Queued(c) => Queued(c)'
         /\ \A c : ~Queued(c) /\ c # m.chain => ~Queued(c)'
         /\ \A c : Ordered(c) => Ordered(c)'
         /\ ~Queued(m.chain) => Ordered(m.chain)'
<1>1. m \in Message /\ m \notin Changes
  BY MessagesDiffer DEF Message
<1>2. /\ Waiting' <=> Waiting
      /\ Queued(m.chain)'
      /\ \A c : Queued(c) => Queued(c)'
      /\ \A c : ~Queued(c) /\ c # m.chain => ~Queued(c)'
  BY <1>1, AppendElements DEF Waiting, Queued
<1>3. ASSUME NEW c, Ordered(c) \/ (~Queued(c) /\ c = m.chain)
      PROVE  Ordered(c)'
  <2> SUFFICES ASSUME NEW i \in DOMAIN inbox', NEW j \in DOMAIN inbox',
                      inbox'[i] \in Jobs, inbox'[i].chain = c, inbox'[j] \in Changes
               PROVE  j < i
    BY DEF Ordered
  <2>1. j \in 1..Len(inbox) /\ i \in 1..Len(inbox) + 1 /\ Len(inbox) \in Nat
    BY <1>1, AppendElements
  <2>2. CASE i = Len(inbox) + 1
    BY <2>1, <2>2
  <2>3. CASE i \in 1..Len(inbox)
    BY <1>1, <1>3, <2>1, <2>3, AppendElements DEF Ordered, Queued
  <2> QED
    BY <2>1, <2>2, <2>3
<1> QED
  BY <1>1, <1>2, <1>3, AppendElements

LEMMA TailFacts ==
  ASSUME inbox \in Seq(Message), inbox # <<>>, inbox' = Tail(inbox)
  PROVE  /\ inbox' \in Seq(Message)
         /\ Head(inbox) \in Message
         /\ Waiting' => Waiting
         /\ Head(inbox) \in Changes => Waiting
         /\ Head(inbox) \in Jobs => Queued(Head(inbox).chain)
         /\ \A c : Queued(c)' => Queued(c)
         /\ \A c : Queued(c) => Queued(c)' \/ (Head(inbox) \in Jobs /\ Head(inbox).chain = c)
         /\ \A c : Ordered(c) => Ordered(c)'
         /\ \A c : Ordered(c) /\ Head(inbox) \in Jobs /\ Head(inbox).chain = c => ~Waiting'
<1>1. /\ inbox' \in Seq(Message) /\ Len(inbox') = Len(inbox) - 1
      /\ Head(inbox) = inbox[1] /\ inbox[1] \in Message
      /\ \A i \in 1..Len(inbox) - 1 : inbox'[i] = inbox[i + 1]
      /\ Len(inbox) \in Nat /\ Len(inbox) > 0
  BY HeadTailProperties, EmptySeq, LenProperties, ElementOfSeq
<1>2. DOMAIN inbox = 1..Len(inbox) /\ DOMAIN inbox' = 1..Len(inbox) - 1
  BY <1>1, LenProperties
<1>3. /\ Waiting' => Waiting
      /\ Head(inbox) \in Changes => Waiting
      /\ Head(inbox) \in Jobs => Queued(Head(inbox).chain)
      /\ \A c : Queued(c)' => Queued(c)
  BY <1>1, <1>2 DEF Waiting, Queued
<1>4. ASSUME NEW c, Queued(c)
      PROVE  Queued(c)' \/ (Head(inbox) \in Jobs /\ Head(inbox).chain = c)
  <2>1. PICK i \in 1..Len(inbox) : inbox[i] \in Jobs /\ inbox[i].chain = c
    BY <1>2, <1>4 DEF Queued
  <2>2. CASE i = 1
    BY <1>1, <2>1, <2>2
  <2>3. CASE i > 1
    <3>1. i - 1 \in 1..Len(inbox) - 1 /\ inbox'[i - 1] = inbox[i]
      BY <1>1, <2>3
    <3> QED
      BY <1>2, <2>1, <3>1 DEF Queued
  <2> QED
    BY <2>2, <2>3
<1>5. ASSUME NEW c, Ordered(c)
      PROVE  /\ Ordered(c)'
             /\ Head(inbox) \in Jobs /\ Head(inbox).chain = c => ~Waiting'
  <2>1. \A i \in 1..Len(inbox) - 1 : i + 1 \in DOMAIN inbox
    BY <1>1, <1>2
  <2>2. Ordered(c)'
    BY <1>1, <1>2, <1>5, <2>1 DEF Ordered
  <2>3. ASSUME Head(inbox) \in Jobs, Head(inbox).chain = c, Waiting'
        PROVE  FALSE
    BY <1>1, <1>2, <1>5, <2>1, <2>3 DEF Ordered, Waiting
  <2> QED
    BY <2>2, <2>3
<1> QED
  BY <1>1, <1>3, <1>4, <1>5

LEMMA StartFacts ==
  ASSUME inbox \in Seq(Message), NEW c \in Chains, ~Queued(c),
         inbox' = inbox \o StartAnalysis(c)
  PROVE  /\ inbox' \in Seq(Message)
         /\ Queued(c)'
         /\ \A d : Queued(d) => Queued(d)'
         /\ Ordered(c)'
<1> DEFINE m == [type |-> "analyze", chain |-> c]
           u == [type |-> "setTrackedFiles"]
<1>1. m \in Jobs /\ m.chain = c /\ m \in Message /\ u \in Message /\ u \in Changes /\ u \notin Jobs
  BY MessagesDiffer DEF Message
<1> HIDE DEF m, u
<1>2. CASE ~update
  <2>1. inbox' = Append(inbox, m)
    BY <1>1, <1>2 DEF StartAnalysis, TrackedFiles, m
  <2> QED
    BY <1>1, <2>1, AppendJob
<1>3. CASE update
  <2> DEFINE s == Append(inbox, u)
  <2>1. inbox' = Append(s, m)
    BY <1>1, <1>3 DEF StartAnalysis, TrackedFiles, m, u
  <2>2. /\ s \in Seq(Message) /\ Len(inbox) \in Nat
        /\ DOMAIN inbox = 1..Len(inbox) /\ DOMAIN s = 1..Len(inbox) + 1
        /\ \A i \in 1..Len(inbox) : s[i] = inbox[i]
        /\ s[Len(inbox) + 1] = u
    BY <1>1, AppendElements
  <2> HIDE DEF s
  <2>3. Len(s) = Len(inbox) + 1
    BY <2>2, LenProperties
  <2>4. /\ inbox' \in Seq(Message)
        /\ DOMAIN inbox' = 1..Len(s) + 1
        /\ \A i \in 1..Len(s) : inbox'[i] = s[i]
        /\ inbox'[Len(s) + 1] = m
    BY <1>1, <2>1, <2>2, AppendElements
  <2>5. /\ \A i \in 1..Len(inbox) : inbox'[i] = inbox[i]
        /\ inbox'[Len(inbox) + 1] = u
        /\ inbox'[Len(inbox) + 2] = m
        /\ DOMAIN inbox' = 1..Len(inbox) + 2
    BY <2>2, <2>3, <2>4
  <2>6. Queued(c)'
    <3>1. Len(inbox) + 2 \in DOMAIN inbox'
      BY <2>2, <2>5
    <3> QED
      BY <1>1, <2>5, <3>1 DEF Queued
  <2>7. ASSUME NEW d, Queued(d)
        PROVE  Queued(d)'
    BY <2>2, <2>5, <2>7 DEF Queued
  <2>8. Ordered(c)'
    <3> SUFFICES ASSUME NEW i \in DOMAIN inbox', NEW j \in DOMAIN inbox',
                        inbox'[i] \in Jobs, inbox'[i].chain = c, inbox'[j] \in Changes
                 PROVE  j < i
      BY DEF Ordered
    <3>1. i \notin 1..Len(inbox)
      BY <2>2, <2>5 DEF Queued
    <3>2. i = Len(inbox) + 2
      BY <1>1, <2>2, <2>5, <3>1
    <3>3. j # Len(inbox) + 2
      BY <1>1, <2>5, MessagesDiffer
    <3> QED
      BY <2>2, <2>5, <3>2, <3>3
  <2> QED
    BY <2>4, <2>6, <2>7, <2>8
<1> QED
  BY <1>2, <1>3

-----------------------------------------------------------------------------
LEMMA JobFacts ==
  ASSUME TypeOK
  PROVE  /\ NoJob \in [chain : Chains \cup {NoChain}, todo : SUBSET Files, open : BOOLEAN]
         /\ NoJob.chain = NoChain /\ NoJob.todo = {} /\ NoJob.open = FALSE
         /\ \A c \in Chains : Slice(c) \in [chain : Chains, todo : SUBSET Files, open : BOOLEAN]
         /\ \A c \in Chains : Slice(c).chain = c /\ Slice(c) # NoJob
         /\ \A c \in Chains : ~Slice(c).open => Wanted \subseteq Slice(c).todo
<1>1. \A c \in Chains : Slice(c) \in [chain : Chains, todo : SUBSET Files, open : BOOLEAN]
  BY DEF Slice, TypeOK
<1>2. \A c \in Chains : Slice(c).chain = c
  BY DEF Slice
<1>4. NoJob.chain = NoChain /\ NoJob.todo = {} /\ NoJob.open = FALSE
  BY DEF NoJob
<1>5. \A c \in Chains : Slice(c) # NoJob
  BY <1>2, <1>4, ConstantsAssumption
<1>3. \A c \in Chains : ~Slice(c).open => Wanted \subseteq Slice(c).todo
  BY DEF Slice, Wanted, TypeOK
<1>6. NoJob \in [chain : Chains \cup {NoChain}, todo : SUBSET Files, open : BOOLEAN]
  BY DEF NoJob
<1> QED
  BY <1>1, <1>2, <1>3, <1>4, <1>5, <1>6

LEMMA InitIInv == Init => IInv
<1> SUFFICES ASSUME Init PROVE IInv
  OBVIOUS
<1> USE ConstantsAssumption DEF Init
<1>0. NoJob \in [chain : Chains \cup {NoChain}, todo : SUBSET Files, open : BOOLEAN]
  BY DEF NoJob
<1>1. TypeOK
  <2>1. /\ inbox \in Seq(Changes \cup Jobs)
        /\ port \in [Chains -> {"none", "analysisPaused", "analysisDone"}]
    OBVIOUS
  <2> QED
    BY <1>0, <2>1 DEF TypeOK
<1>2. JobInv /\ AnalysisSeesChanges
  BY DEF JobInv, NoJob, AnalysisSeesChanges
<1>3. TokenInv /\ SourceInv /\ NoPipeLeft /\ NoFileForgotten
  BY DEF TokenInv, SourceInv, NoPipeLeft, NoFileForgotten
<1> QED
  BY <1>1, <1>2, <1>3 DEF IInv

-----------------------------------------------------------------------------
(* One lemma per action, or per group of actions that share an operation. *)

LEMMA ChangeKeeps ==
  ASSUME IInv, NEW m \in Changes, NEW requireUpdate \in BOOLEAN, Change(m, requireUpdate),
         docs' \subseteq Files
  PROVE  IInv'
<1> USE DEF IInv, Change, ScheduleReanalysis
<1>1. inbox \in Seq(Message) /\ inbox' = Append(inbox, m)
  BY DEF TypeOK, Message
<1>2. /\ inbox' \in Seq(Message)
      /\ \A c : Queued(c)' <=> Queued(c)
  BY <1>1, AppendChange
<1>3. TypeOK'
  BY <1>2 DEF TypeOK, Message, mainVars, workerVars
<1>4. JobInv'
  BY DEF JobInv, Wanted, workerVars
<1>5. \A c : Live(c)' <=> Live(c)
  BY <1>2 DEF Live, Working
<1>6. TokenInv'
  BY <1>5 DEF TokenInv
<1>7. NoPipeLeft'
  BY <1>5 DEF NoPipeLeft, TokenInv
<1>8. timer'
  OBVIOUS
<1>9. SourceInv' /\ AnalysisSeesChanges' /\ NoFileForgotten'
  BY <1>8 DEF SourceInv, AnalysisSeesChanges, NoFileForgotten
<1> QED
  BY <1>3, <1>4, <1>6, <1>7, <1>9

LEMMA AnalyzeTimerKeeps == ASSUME IInv, NEW c \in Chains, AnalyzeTimer(c) PROVE IInv'
<1> USE DEF IInv, AnalyzeTimer
<1>1. inbox \in Seq(Message) /\ ~Queued(c) /\ job.chain # c /\ inbox' = inbox \o StartAnalysis(c)
  BY DEF TypeOK, Message, Live, Working
<1>2. /\ inbox' \in Seq(Message) /\ Queued(c)' /\ Ordered(c)'
      /\ \A d : Queued(d) => Queued(d)'
  BY <1>1, StartFacts
<1>3. TypeOK'
  BY <1>2 DEF TypeOK, Message, workerVars
<1>4. JobInv'
  BY DEF JobInv, Wanted, workerVars
<1>5. \A d : Live(d) => Live(d)'
  BY <1>2 DEF Live, Working
<1>6. TokenInv' /\ SourceInv'
  BY <1>2 DEF TokenInv, SourceInv, Live, Working
<1>7. NoPipeLeft'
  BY <1>5 DEF NoPipeLeft
<1>8. AnalysisSeesChanges'
  BY <1>1 DEF AnalysisSeesChanges
<1>9. Working(source)' /\ source' \notin pipes'
  BY <1>2 DEF Working, NoPipeLeft
<1>10. NoFileForgotten'
  BY <1>9 DEF NoFileForgotten
<1> QED
  BY <1>3, <1>4, <1>6, <1>7, <1>8, <1>10

LEMMA ReadPortKeeps == ASSUME IInv, NEW c \in Chains, ReadPort(c) PROVE IInv'
<1> USE DEF IInv, ReadPort, DisposeToken
<1> DEFINE m == [type |-> "resumeAnalysis", chain |-> c]
<1>1. /\ inbox' \in Seq(Message)
      /\ Waiting' <=> Waiting
      /\ \A d : Queued(d) => Queued(d)'
      /\ port[c] = "analysisPaused" => Queued(c)'
      /\ \A d : Ordered(d) => Ordered(d)'
  <2>1. inbox \in Seq(Message)
    BY DEF TypeOK, Message
  <2>2. CASE port[c] = "analysisPaused"
    <3>1. m \in Jobs /\ m.chain = c /\ inbox' = Append(inbox, m)
      BY <2>2, MessagesDiffer
    <3> HIDE DEF m
    <3> QED
      BY <2>1, <3>1, AppendJob
  <2>3. CASE port[c] # "analysisPaused"
    <3>1. inbox' = inbox
      BY <2>3
    <3> QED
      BY <2>1, <2>3, <3>1 DEF Waiting, Queued, Ordered
  <2> QED
    BY <2>2, <2>3
<1>2. TypeOK'
  BY <1>1 DEF TypeOK, Message, workerVars
<1>3. JobInv'
  BY DEF JobInv, Wanted, workerVars
<1>4. \A d \in Chains : d # c => (Live(d) => Live(d)')
  BY <1>1 DEF Live, Working, TypeOK
<1>5. TokenInv' /\ NoPipeLeft'
  BY <1>4 DEF TokenInv, NoPipeLeft, TypeOK
<1>6. SourceInv' /\ AnalysisSeesChanges'
  BY <1>1 DEF SourceInv, AnalysisSeesChanges
<1>7. \A d : Working(d) => Working(d)'
  BY <1>1 DEF Working, TypeOK
<1>8. NoFileForgotten'
  BY <1>1, <1>7 DEF NoFileForgotten, Wanted, workerVars
<1> QED
  BY <1>2, <1>3, <1>5, <1>6, <1>8

LEMMA ReadChangeKeeps == ASSUME IInv, ReadChange PROVE IInv'
<1> USE DEF IInv, ReadChange, ToTheWorker, mainVars
<1>1. inbox \in Seq(Message) /\ Head(inbox) \in Changes /\ Head(inbox) \notin Jobs
  BY MessagesDiffer DEF TypeOK, Message
<1>2. /\ inbox' \in Seq(Message)
      /\ Waiting
      /\ Waiting' => Waiting
      /\ \A c : Queued(c)' <=> Queued(c)
      /\ \A c : Ordered(c) => Ordered(c)'
  BY <1>1, TailFacts
<1>3. open' \subseteq Files /\ toCheck' \subseteq Files
  BY <1>1, ConstantsAssumption DEF Apply, Changes, TypeOK
<1>4. TypeOK'
  BY <1>2, <1>3 DEF TypeOK, Message
<1>5. JobInv'
  BY ConstantsAssumption DEF JobInv, NoJob
<1>6. \A c : Live(c)' <=> Live(c)
  BY <1>2 DEF Live, Working
<1>7. TokenInv' /\ NoPipeLeft' /\ SourceInv'
  BY <1>2, <1>6 DEF TokenInv, NoPipeLeft, SourceInv
<1>8. AnalysisSeesChanges'
  BY DEF AnalysisSeesChanges
<1>9. NoFileForgotten'
  BY <1>2 DEF NoFileForgotten, Working
<1> QED
  BY <1>4, <1>5, <1>7, <1>8, <1>9

LEMMA TakeJobKeeps ==
  ASSUME IInv, NEW c, c = Head(inbox).chain, TakeJob
  PROVE  IInv'
<1> USE DEF IInv, TakeJob, ToTheWorker, mainVars, workerVars
<1>1. inbox \in Seq(Message) /\ Head(inbox) \in Jobs /\ c \in Chains
  BY MessagesDiffer DEF TypeOK, Message
<1>2. /\ inbox' \in Seq(Message)
      /\ Waiting' => Waiting
      /\ \A d : Queued(d)' => Queued(d)
      /\ \A d : d # c => (Queued(d) => Queued(d)')
      /\ \A d : Ordered(d) => Ordered(d)'
      /\ Ordered(c) => ~Waiting'
  BY <1>1, TailFacts
<1>3. \/ job' = Slice(c) /\ port' = port
      \/ c \in pipes /\ job' = NoJob /\ port' = [port EXCEPT ![c] = "analysisDone"]
  BY DEF Answer
<1> HIDE DEF TakeJob
<1>4. /\ UNCHANGED <<docs, timer, update, source, cancelled, disposed, pipes, open, toCheck, failed>>
      /\ job = NoJob
  BY DEF TakeJob
<1>5. TypeOK'
  <2>1. job' \in [chain : Chains \cup {NoChain}, todo : SUBSET Files, open : BOOLEAN]
    BY <1>1, <1>3, JobFacts
  <2>2. port' \in [Chains -> {"none", "analysisPaused", "analysisDone"}]
    BY <1>1, <1>3 DEF TypeOK
  <2> QED
    BY <1>2, <1>4, <2>1, <2>2 DEF TypeOK, Message
<1>6. JobInv'
  <2>1. Wanted' = Wanted
    BY <1>4 DEF Wanted
  <2> QED
    BY <1>1, <1>3, <2>1, JobFacts, ConstantsAssumption DEF JobInv
<1>7. /\ job.chain = NoChain /\ NoChain \notin Chains
      /\ \A d \in Chains : d # c => port'[d] = port[d]
      /\ \/ job' = Slice(c) /\ job'.chain = c
         \/ c \in pipes /\ job' = NoJob /\ port'[c] = "analysisDone"
  BY <1>1, <1>3, <1>4, JobFacts, ConstantsAssumption DEF TypeOK
<1>8. ASSUME NEW d \in Chains
      PROVE  /\ Live(d) => Live(d)'
             /\ Working(d) /\ d \notin pipes => Working(d)'
  <2>1. CASE d = c
    BY <1>7, <2>1 DEF Live, Working
  <2>2. CASE d # c
    BY <1>2, <1>7, <2>2 DEF Live, Working
  <2> QED
    BY <2>1, <2>2
<1>9. TokenInv' /\ NoPipeLeft'
  BY <1>4, <1>8 DEF TokenInv, NoPipeLeft, TypeOK
<1>10. SourceInv'
  BY <1>2, <1>4 DEF SourceInv
<1>11. AnalysisSeesChanges'
  <2> SUFFICES ASSUME ~timer, job'.chain = source, job' # NoJob
               PROVE  ~Waiting'
    BY <1>4 DEF AnalysisSeesChanges
  <2>1. job' = Slice(c) /\ source = c
    BY <1>7
  <2> QED
    BY <1>2, <2>1 DEF SourceInv
<1>12. NoFileForgotten'
  <2> SUFFICES ASSUME Wanted # {} \/ Waiting, ~timer, source \notin failed
               PROVE  Working(source)' /\ source \notin pipes
    BY <1>2, <1>4 DEF NoFileForgotten, Wanted
  <2>1. Working(source) /\ source \notin pipes /\ source \in Chains
    BY DEF NoFileForgotten, SourceInv
  <2> QED
    BY <1>4, <1>8, <2>1
<1> QED
  BY <1>5, <1>6, <1>9, <1>10, <1>11, <1>12

\* A step of the job that ends it with an answer or leaves it to go on.
LEMMA JobStepKeeps ==
  ASSUME IInv, UNCHANGED <<ToTheWorker, inbox, open>>, job # NoJob,
         toCheck' \subseteq toCheck, failed' \subseteq Chains, failed \subseteq failed',
         JobInv', job'.chain = job.chain \/ job' = NoJob,
         job' \in [chain : Chains \cup {NoChain}, todo : SUBSET Files, open : BOOLEAN],
         NEW answer \in {"analysisPaused", "analysisDone"},
         IF job' = NoJob THEN Answer(job.chain, answer) ELSE port' = port,
         answer = "analysisDone" =>
           job.chain \in pipes \/ job.chain \in failed' \/ (Wanted = {} /\ job.chain # NoChain)
  PROVE  IInv'
<1> USE DEF IInv, ToTheWorker, mainVars
<1>1. job.chain \in Chains
  BY DEF TypeOK, JobInv
<1>2. TypeOK'
  BY <1>1 DEF TypeOK, Answer
<1>3. /\ Waiting' <=> Waiting
      /\ \A d : Queued(d)' <=> Queued(d)
      /\ \A d : Ordered(d)' <=> Ordered(d)
  BY DEF Waiting, Queued, Ordered
<1>4. \A d \in Chains : Live(d) => Live(d)'
  BY <1>1, <1>3 DEF Live, Working, TypeOK, Answer
<1>5. TokenInv' /\ NoPipeLeft' /\ SourceInv'
  BY <1>3, <1>4 DEF TokenInv, NoPipeLeft, SourceInv, TypeOK
<1>6. AnalysisSeesChanges'
  BY <1>3 DEF AnalysisSeesChanges
<1>7. NoFileForgotten'
  <2> SUFFICES ASSUME Wanted' # {} \/ Waiting', ~timer, source \notin failed'
               PROVE  Working(source)' /\ source \notin pipes
    BY DEF NoFileForgotten
  <2>1. Wanted' \subseteq Wanted
    BY DEF Wanted
  <2>2. Working(source) /\ source \notin pipes /\ source \in Chains
    BY <1>3, <2>1 DEF NoFileForgotten, SourceInv
  <2>3. CASE source = job.chain
    <3>1. ~Waiting /\ Wanted # {}
      BY <1>3, <2>1, <2>3 DEF AnalysisSeesChanges
    <3>2. job' = NoJob => answer = "analysisPaused"
      BY <2>2, <2>3, <3>1
    <3> QED
      BY <2>2, <2>3, <3>2 DEF Working, Answer, TypeOK
  <2>4. CASE source # job.chain
    BY <1>1, <1>3, <2>2, <2>4 DEF Working, Answer, TypeOK
  <2> QED
    BY <2>2, <2>3, <2>4
<1> QED
  BY <1>2, <1>5, <1>6, <1>7

LEMMA NoJobKeeps == ASSUME job' = NoJob PROVE JobInv'
  BY DEF JobInv, NoJob

LEMMA CheckFileKeeps == ASSUME IInv, NEW f \in Files, CheckFile(f) PROVE IInv'
<1>1. job # NoJob /\ job.chain # NoChain /\ TypeOK /\ JobInv
  BY DEF IInv, CheckFile, NoJob, JobInv
<1>2. CASE job' = [job EXCEPT !.todo = @ \ {f}] /\ UNCHANGED port
  <2>1. /\ job' \in [chain : Chains \cup {NoChain}, todo : SUBSET Files, open : BOOLEAN]
        /\ job'.chain = job.chain /\ job'.todo = job.todo \ {f} /\ job'.open = job.open
    BY <1>1, <1>2 DEF TypeOK
  <2>2. job' # NoJob
    BY <1>1, <2>1 DEF NoJob
  <2>3. JobInv'
    BY <1>1, <2>1 DEF JobInv, Wanted, CheckFile
  <2> QED
    BY <1>1, <1>2, <2>1, <2>2, <2>3, JobStepKeeps DEF IInv, TypeOK, CheckFile
<1>3. CASE Answer(job.chain, "analysisPaused")
  BY <1>1, <1>3, JobStepKeeps, NoJobKeeps, JobFacts DEF IInv, TypeOK, CheckFile, Answer
<1> QED
  BY <1>2, <1>3 DEF CheckFile

LEMMA NoticeCancelKeeps == ASSUME IInv, NoticeCancel PROVE IInv'
<1>1. job # NoJob /\ TypeOK
  BY DEF IInv, NoticeCancel, NoJob
<1> QED
  BY <1>1, JobStepKeeps, NoJobKeeps, JobFacts DEF IInv, TypeOK, NoticeCancel, Answer, workerVars

LEMMA InternalErrorKeeps == ASSUME IInv, NEW f \in Files, InternalError(f) PROVE IInv'
<1>1. job # NoJob /\ TypeOK /\ job.chain \in Chains
  BY DEF IInv, InternalError, NoJob, JobInv, TypeOK
<1> QED
  BY <1>1, JobStepKeeps, NoJobKeeps, JobFacts DEF IInv, TypeOK, InternalError, Answer

LEMMA EndOfSliceKeeps == ASSUME IInv, EndOfSlice PROVE IInv'
<1> DEFINE answer == WhatIsLeft(job)
<1>1. /\ job # NoJob /\ TypeOK /\ job.chain \in Chains /\ job.chain # NoChain
      /\ job' = NoJob /\ Answer(job.chain, answer)
  BY ConstantsAssumption DEF IInv, EndOfSlice, Answer
<1>2. answer \in {"analysisPaused", "analysisDone"}
  BY DEF WhatIsLeft
<1>3. answer = "analysisDone" => Wanted = {}
  BY <1>1 DEF WhatIsLeft, EndOfSlice, IInv, JobInv
<1> HIDE DEF answer
<1> QED
  BY <1>1, <1>2, <1>3, JobStepKeeps, NoJobKeeps, JobFacts DEF IInv, TypeOK, EndOfSlice, workerVars

LEMMA UnchangedKeeps == ASSUME IInv, UNCHANGED vars PROVE IInv'
  BY DEF IInv, vars, mainVars, workerVars, TypeOK, JobInv, TokenInv, SourceInv, NoPipeLeft,
     AnalysisSeesChanges, NoFileForgotten, Wanted, Waiting, Live, Working, Queued, Ordered

LEMMA UserKeeps == ASSUME IInv, User PROVE IInv'
<1>1. docs \subseteq Files
  BY DEF IInv, TypeOK
<1>2. ASSUME NEW f \in Files, SetFileOpened(f) PROVE IInv'
  BY <1>1, <1>2, ChangeKeeps DEF SetFileOpened, Changes
<1>3. ASSUME NEW f \in Files, UpdateOpenFileContents(f) PROVE IInv'
  BY <1>1, <1>3, ChangeKeeps DEF UpdateOpenFileContents, Changes
<1>4. ASSUME NEW f \in Files, SetFileClosed(f) PROVE IInv'
  BY <1>1, <1>4, ChangeKeeps DEF SetFileClosed, Changes
<1>5. ASSUME NEW f \in Files, WatchedFileChanged(f) PROVE IInv'
  BY <1>1, <1>5, ChangeKeeps DEF WatchedFileChanged, Changes
<1>6. ASSUME NEW requireUpdate \in BOOLEAN, InvalidateAndForceReanalysis(requireUpdate)
      PROVE  IInv'
  BY <1>1, <1>6, ChangeKeeps DEF InvalidateAndForceReanalysis, Changes
<1> QED
  BY <1>2, <1>3, <1>4, <1>5, <1>6 DEF User

LEMMA Inductive == IInv /\ [Next]_vars => IInv'
<1> SUFFICES ASSUME IInv, [Next]_vars PROVE IInv'
  OBVIOUS
<1> QED
  BY UserKeeps, AnalyzeTimerKeeps, ReadPortKeeps, ReadChangeKeeps, TakeJobKeeps, NoticeCancelKeeps,
     EndOfSliceKeeps, CheckFileKeeps, InternalErrorKeeps, UnchangedKeeps DEF Next, Main, Worker

LEMMA Invariance == Spec => []IInv
  BY InitIInv, Inductive, PTL DEF Spec

-----------------------------------------------------------------------------
\* The variables have their types: messages, answers and slices are what both ends know.
THEOREM TypeCorrect == Spec => []TypeOK
  BY Invariance, PTL DEF IInv

\* No interleaving of changes, cancellations, pauses and answers leaves the analysis at rest
\* with a change unread or a file unchecked, unless the checker threw.
THEOREM NothingIsForgotten == Spec => []NoFileForgotten
  BY Invariance, PTL DEF IInv

\* A current analysis never runs ahead of a change that is on its way to the worker.
THEOREM CurrentSeesChanges == Spec => []AnalysisSeesChanges
  BY Invariance, PTL DEF IInv

\* However the end of an analysis and its cancellation cross, no file is left behind.
THEOREM NoFileLeft == Spec => []NoPipeLeft
  BY Invariance, PTL DEF IInv

-----------------------------------------------------------------------------
(* The analysis comes to rest *)

\* A slice goes through files that are to be checked, one for open files through all of them.
SliceInv ==
  /\ job.todo \subseteq toCheck
  /\ job.open => job.todo = toCheck \cap open

\* How far the worker has to read for the last change.
LastIn(s) ==
  CHOOSE n \in 0..Len(s) : /\ n > 0 => s[n] \in Changes
                           /\ \A i \in n + 1..Len(s) : s[i] \notin Changes

LastChange == LastIn(inbox)

Paused == {c \in Chains : port[c] = "analysisPaused"}
Done   == {c \in Chains : port[c] = "analysisDone"}

\* What a job costs at most: a slice that has checked all the open files is followed by
\* 'analysisPaused', a 'resumeAnalysis' and a slice for the other files, which is followed by
\* 'analysisDone'.
JobLeft == IF job = NoJob THEN 0 ELSE IF job.open /\ job.todo = {} THEN 7 ELSE 4

Effort == 5 * Len(inbox) + 6 * Cardinality(Paused) + Cardinality(Done) + JobLeft

\* The timer, the changes to be read, the files to be checked and the effort for answers and
\* jobs get less, what comes first counting most.
Progress ==
  \/ timer /\ ~timer'
  \/ timer' = timer /\ LastChange' < LastChange
  \/ /\ timer' = timer /\ LastChange' = LastChange
     /\ Cardinality(toCheck') < Cardinality(toCheck)
  \/ /\ timer' = timer /\ LastChange' = LastChange /\ toCheck' = toCheck
     /\ Effort' < Effort

\* One of the two threads has something that it can do.
Busy ==
  \/ timer /\ \E c \in Chains : ~Live(c) /\ c # source
  \/ \E c \in Chains : port[c] # "none"
  \/ inbox # <<>> \/ job # NoJob

LEMMA LastInIs ==
  ASSUME NEW s \in Seq(Message)
  PROVE  /\ LastIn(s) \in 0..Len(s)
         /\ LastIn(s) > 0 => s[LastIn(s)] \in Changes
         /\ \A i \in 1..Len(s) : i > LastIn(s) => s[i] \notin Changes
<1> DEFINE T == {n \in 0..Len(s) : \A i \in n + 1..Len(s) : s[i] \notin Changes}
           Is(n) == /\ n > 0 => s[n] \in Changes
                    /\ \A i \in n + 1..Len(s) : s[i] \notin Changes
<1>1. Len(s) \in Nat
  BY LenProperties
<1>2. T \subseteq Nat /\ Len(s) \in T
  BY <1>1
<1>3. PICK m \in T : \A i \in T : ~(<<i, m>> \in OpToRel(<, Nat))
  <2> HIDE DEF T
  <2> QED
    BY <1>2, NatLessThanWellFounded, WFMin
<1>4. \A i \in T : ~(i < m)
  <2>1. \A i \in T : <<i, m>> \in OpToRel(<, Nat) <=> i < m
    BY <1>2 DEF OpToRel
  <2> QED
    BY <1>3, <2>1
<1>5. m > 0 => s[m] \in Changes
  <2> SUFFICES ASSUME m > 0, s[m] \notin Changes PROVE FALSE
    OBVIOUS
  <2>1. m - 1 \in T
    BY <1>1
  <2>2. m - 1 < m
    BY <1>2
  <2> HIDE DEF T
  <2> QED
    BY <1>4, <2>1, <2>2
<1>6. m \in 0..Len(s) /\ Is(m)
  BY <1>5
<1>7. LastIn(s) = CHOOSE n \in 0..Len(s) : Is(n)
  BY DEF LastIn
<1> HIDE DEF Is
<1>8. LastIn(s) \in 0..Len(s) /\ Is(LastIn(s))
  BY <1>6, <1>7
<1> QED
  BY <1>1, <1>8 DEF Is

\* It is the only such number.
LEMMA LastInUnique ==
  ASSUME NEW s \in Seq(Message), NEW n \in 0..Len(s), n > 0 => s[n] \in Changes,
         \A i \in 1..Len(s) : i > n => s[i] \notin Changes
  PROVE  LastIn(s) = n
<1>1. Len(s) \in Nat
  BY LenProperties
<1>2. LastIn(s) \in 0..Len(s)
  BY LastInIs
<1>3. ~(LastIn(s) < n)
  BY <1>1, <1>2, LastInIs
<1>4. ~(n < LastIn(s))
  BY <1>1, <1>2, LastInIs
<1> QED
  BY <1>1, <1>2, <1>3, <1>4

\* The worker reads a message.
LEMMA ReadingLeavesLess ==
  ASSUME inbox \in Seq(Message), inbox # <<>>, inbox' = Tail(inbox)
  PROVE  /\ inbox' \in Seq(Message) /\ Len(inbox') = Len(inbox) - 1 /\ Len(inbox) \in Nat
         /\ LastChange \in Nat /\ LastChange' \in Nat
         /\ LastChange' = IF LastChange > 0 THEN LastChange - 1 ELSE 0
<1>1. /\ inbox' \in Seq(Message) /\ Len(inbox') = Len(inbox) - 1
      /\ \A i \in 1..Len(inbox) - 1 : inbox'[i] = inbox[i + 1]
      /\ Len(inbox) \in Nat /\ Len(inbox) > 0
  BY HeadTailProperties, EmptySeq, LenProperties, ElementOfSeq
<1> DEFINE m == IF LastChange > 0 THEN LastChange - 1 ELSE 0
<1>2. /\ LastChange \in 0..Len(inbox)
      /\ LastChange > 0 => inbox[LastChange] \in Changes
      /\ \A i \in 1..Len(inbox) : i > LastChange => inbox[i] \notin Changes
  BY LastInIs DEF LastChange
<1>3. m \in 0..Len(inbox') /\ (m > 0 => inbox'[m] \in Changes)
  BY <1>1, <1>2
<1>4. ASSUME NEW i \in 1..Len(inbox'), i > m PROVE inbox'[i] \notin Changes
  <2>1. i + 1 \in 1..Len(inbox) /\ i + 1 > LastChange /\ inbox'[i] = inbox[i + 1]
    BY <1>1, <1>2, <1>4
  <2> QED
    BY <1>2, <2>1
<1> HIDE DEF m
<1>5. LastChange' = m
  BY <1>1, <1>3, <1>4, LastInUnique DEF LastChange
<1> QED
  BY <1>1, <1>2, <1>5 DEF m

\* An answer is given or read.
LEMMA AnswerCounts ==
  ASSUME TypeOK, IsFiniteSet(Chains), NEW c \in Chains, NEW answer,
         port' = [port EXCEPT ![c] = answer]
  PROVE  /\ Cardinality(Paused) \in Nat /\ Cardinality(Paused') \in Nat
         /\ Cardinality(Done) \in Nat /\ Cardinality(Done') \in Nat
         /\ Cardinality(Paused') <= Cardinality(Paused) + (IF answer = "analysisPaused" THEN 1 ELSE 0)
         /\ Cardinality(Done') <= Cardinality(Done) + (IF answer = "analysisDone" THEN 1 ELSE 0)
         /\ answer = "none" /\ port[c] = "analysisPaused" => Cardinality(Paused') < Cardinality(Paused)
         /\ answer = "none" /\ port[c] = "analysisDone" => Cardinality(Done') < Cardinality(Done)
<1>0. /\ IsFiniteSet(Paused) /\ Cardinality(Paused) \in Nat
      /\ IsFiniteSet(Done) /\ Cardinality(Done) \in Nat
  <2>1. Paused \subseteq Chains /\ Done \subseteq Chains
    BY DEF Paused, Done
  <2> QED
    BY <2>1, FS_Subset, FS_CardinalityType
<1>1. port'[c] = answer /\ \A d \in Chains : d # c => port'[d] = port[d]
  BY DEF TypeOK
<1>2. /\ Paused' \ {c} = Paused \ {c} /\ Done' \ {c} = Done \ {c}
      /\ c \in Paused' <=> answer = "analysisPaused"
      /\ c \in Done' <=> answer = "analysisDone"
      /\ c \in Paused <=> port[c] = "analysisPaused"
      /\ c \in Done <=> port[c] = "analysisDone"
  BY <1>1 DEF Paused, Done
<1>3. ASSUME NEW S, NEW T, IsFiniteSet(S), T \ {c} = S \ {c}
      PROVE  /\ Cardinality(T) \in Nat
             /\ Cardinality(T) <= Cardinality(S) + (IF c \in T THEN 1 ELSE 0)
             /\ c \notin T /\ c \in S => Cardinality(T) < Cardinality(S)
  <2> DEFINE R == S \ {c}
  <2>1. /\ IsFiniteSet(R) /\ Cardinality(R) \in Nat /\ Cardinality(S) \in Nat
        /\ Cardinality(R) = IF c \in S THEN Cardinality(S) - 1 ELSE Cardinality(S)
    BY <1>3, FS_RemoveElement, FS_CardinalityType
  <2>2. CASE c \in T
    <3>1. T = R \cup {c} /\ c \notin R
      BY <1>3, <2>2
    <3>2. Cardinality(T) = Cardinality(R) + 1
      BY <2>1, <3>1, FS_AddElement
    <3> QED
      BY <2>1, <2>2, <3>2
  <2>3. CASE c \notin T
    <3>1. T = R
      BY <1>3, <2>3
    <3> QED
      BY <2>1, <2>3, <3>1
  <2> QED
    BY <2>2, <2>3
<1>4. /\ Cardinality(Paused') \in Nat
      /\ Cardinality(Paused') <= Cardinality(Paused) + (IF c \in Paused' THEN 1 ELSE 0)
      /\ c \notin Paused' /\ c \in Paused => Cardinality(Paused') < Cardinality(Paused)
  BY <1>0, <1>2, <1>3
<1>5. /\ Cardinality(Done') \in Nat
      /\ Cardinality(Done') <= Cardinality(Done) + (IF c \in Done' THEN 1 ELSE 0)
      /\ c \notin Done' /\ c \in Done => Cardinality(Done') < Cardinality(Done)
  BY <1>0, <1>2, <1>3
<1> QED
  BY <1>0, <1>2, <1>4, <1>5

\* The effort when no answer is given or read.
LEMMA CountsAreNumbers ==
  ASSUME TypeOK, IsFiniteSet(Chains)
  PROVE  Cardinality(Paused) \in Nat /\ Cardinality(Done) \in Nat /\ Len(inbox) \in Nat
<1>1. Paused \subseteq Chains /\ Done \subseteq Chains
  BY DEF Paused, Done
<1> QED
  BY <1>1, FS_Subset, FS_CardinalityType, LenProperties DEF TypeOK

-----------------------------------------------------------------------------
LEMMA SliceInvInductive ==
  ASSUME IInv, SliceInv, [Next]_vars
  PROVE  SliceInv'
<1> USE DEF IInv
<1>1. job' = NoJob => SliceInv'
  BY DEF SliceInv, NoJob
<1>2. UNCHANGED <<job, toCheck, open>> => SliceInv'
  BY DEF SliceInv
<1>3. CASE User
  BY <1>2, <1>3 DEF User, SetFileOpened, UpdateOpenFileContents, SetFileClosed, WatchedFileChanged,
     InvalidateAndForceReanalysis, Change, workerVars
<1>4. CASE Main
  BY <1>2, <1>4 DEF Main, AnalyzeTimer, ReadPort, workerVars
<1>5. CASE ReadChange
  BY <1>1, <1>5 DEF ReadChange
<1>6. CASE TakeJob
  <2>1. CASE job' = Slice(Head(inbox).chain)
    BY <1>6, <2>1 DEF TakeJob, Slice, SliceInv, workerVars
  <2> QED
    BY <1>1, <1>6, <2>1 DEF TakeJob, Answer
<1>7. CASE NoticeCancel \/ EndOfSlice
  BY <1>1, <1>7 DEF NoticeCancel, EndOfSlice, Answer
<1>8. ASSUME NEW f \in Files, CheckFile(f)
      PROVE  SliceInv'
  <2>1. CASE job' = [job EXCEPT !.todo = @ \ {f}]
    <3>1. job'.todo = job.todo \ {f} /\ job'.open = job.open
      BY <2>1 DEF TypeOK
    <3> QED
      BY <1>8, <3>1 DEF CheckFile, SliceInv
  <2> QED
    BY <1>1, <1>8, <2>1 DEF CheckFile, Answer
<1>9. ASSUME NEW f \in Files, InternalError(f)
      PROVE  SliceInv'
  BY <1>1, <1>9 DEF InternalError, Answer
<1>10. CASE UNCHANGED vars
  BY <1>2, <1>10 DEF vars, workerVars
<1> QED
  BY <1>3, <1>4, <1>5, <1>6, <1>7, <1>8, <1>9, <1>10 DEF Next, Worker

LEMMA SliceInvariance == Spec => []SliceInv
<1>1. Init => SliceInv
  BY DEF Init, SliceInv, NoJob
<1>2. IInv /\ SliceInv /\ [Next]_vars => SliceInv'
  BY SliceInvInductive
<1> QED
  BY <1>1, <1>2, Invariance, PTL DEF Spec

-----------------------------------------------------------------------------
(* Each step of either thread, but for the user's, is progress. *)

\* A file counts as checked.
LEMMA CheckingLeavesLess ==
  ASSUME IInv, SliceInv, IsFiniteSet(Files), NEW f \in job.todo, toCheck' = toCheck \ {f},
         UNCHANGED <<timer, inbox>>
  PROVE  Progress
<1>1. f \in toCheck /\ IsFiniteSet(toCheck)
  BY FS_Subset DEF SliceInv, IInv, TypeOK
<1>2. /\ Cardinality(toCheck') = Cardinality(toCheck) - 1
      /\ Cardinality(toCheck) \in Nat
  BY <1>1, FS_RemoveElement, FS_CardinalityType
<1>3. LastChange' = LastChange
  BY DEF LastChange
<1> QED
  BY <1>2, <1>3 DEF Progress

\* The slice ends with an answer and no file was checked.
LEMMA AnsweringLeavesLess ==
  ASSUME IInv, IsFiniteSet(Chains), job # NoJob, NEW answer \in {"analysisPaused", "analysisDone"},
         Answer(job.chain, answer), UNCHANGED <<timer, inbox, toCheck>>,
         answer = "analysisPaused" => job.open /\ job.todo = {}
  PROVE  Progress
<1>1. TypeOK /\ job.chain \in Chains /\ job' = NoJob
  BY DEF IInv, JobInv, TypeOK, Answer
<1>2. /\ Cardinality(Paused) \in Nat /\ Cardinality(Paused') \in Nat
      /\ Cardinality(Done) \in Nat /\ Cardinality(Done') \in Nat
      /\ Cardinality(Paused') <= Cardinality(Paused) + (IF answer = "analysisPaused" THEN 1 ELSE 0)
      /\ Cardinality(Done') <= Cardinality(Done) + (IF answer = "analysisDone" THEN 1 ELSE 0)
  BY <1>1, AnswerCounts DEF Answer
<1>3. Len(inbox) \in Nat /\ Len(inbox') = Len(inbox)
  BY <1>1, CountsAreNumbers
<1>4. JobLeft' = 0 /\ JobLeft \in {4, 7} /\ (answer = "analysisPaused" => JobLeft = 7)
  BY <1>1 DEF JobLeft
<1>5. Effort' < Effort
  BY <1>2, <1>3, <1>4 DEF Effort
<1>6. LastChange' = LastChange
  BY DEF LastChange
<1> QED
  BY <1>5, <1>6 DEF Progress

LEMMA ReadPortAdvances ==
  ASSUME IInv, IsFiniteSet(Chains), NEW c \in Chains, ReadPort(c)
  PROVE  Progress
<1>1. /\ TypeOK /\ port' = [port EXCEPT ![c] = "none"]
      /\ UNCHANGED <<timer, toCheck, job>>
      /\ port[c] \in {"analysisPaused", "analysisDone"}
      /\ inbox \in Seq(Message)
  BY DEF IInv, ReadPort, workerVars, TypeOK, Message
<1>2. /\ Cardinality(Paused) \in Nat /\ Cardinality(Paused') \in Nat
      /\ Cardinality(Done) \in Nat /\ Cardinality(Done') \in Nat
      /\ Cardinality(Paused') <= Cardinality(Paused) + 0
      /\ Cardinality(Done') <= Cardinality(Done) + 0
      /\ port[c] = "analysisPaused" => Cardinality(Paused') < Cardinality(Paused)
      /\ port[c] = "analysisDone" => Cardinality(Done') < Cardinality(Done)
  <2> DEFINE answer == "none"
  <2>1. answer = "none" /\ answer # "analysisPaused" /\ answer # "analysisDone"
    OBVIOUS
  <2>2. port' = [port EXCEPT ![c] = answer]
    BY <1>1
  <2> HIDE DEF answer
  <2> QED
    BY <1>1, <2>1, <2>2, AnswerCounts
<1>3. JobLeft' = JobLeft /\ JobLeft \in Nat /\ Len(inbox) \in Nat
  BY <1>1, CountsAreNumbers DEF JobLeft
<1>4. CASE port[c] = "analysisPaused"
  <2> DEFINE m == [type |-> "resumeAnalysis", chain |-> c]
  <2>1. m \in Message /\ m \notin Changes /\ inbox' = Append(inbox, m)
    BY <1>4, MessagesDiffer DEF ReadPort, Message
  <2> HIDE DEF m
  <2>2. /\ inbox' \in Seq(Message) /\ Len(inbox') = Len(inbox) + 1
        /\ \A i \in 1..Len(inbox) : inbox'[i] = inbox[i]
        /\ inbox'[Len(inbox) + 1] = m
    BY <1>1, <2>1, AppendProperties, LenProperties
  <2>3. /\ LastChange \in 0..Len(inbox)
        /\ LastChange > 0 => inbox[LastChange] \in Changes
        /\ \A i \in 1..Len(inbox) : i > LastChange => inbox[i] \notin Changes
    BY <1>1, LastInIs DEF LastChange
  <2>4. /\ LastChange \in 0..Len(inbox')
        /\ LastChange > 0 => inbox'[LastChange] \in Changes
        /\ \A i \in 1..Len(inbox') : i > LastChange => inbox'[i] \notin Changes
    BY <1>3, <2>1, <2>2, <2>3
  <2>5. LastIn(inbox') = LastChange
    <3>1. \A k : k = LastChange => LastIn(inbox') = k
      BY <2>2, <2>4, LastInUnique
    <3> QED
      BY <3>1
  <2>6. LastChange' = LastChange
    BY <2>5 DEF LastChange
  <2>7. Effort' < Effort
    BY <1>2, <1>3, <1>4, <2>2 DEF Effort
  <2> QED
    BY <1>1, <2>6, <2>7 DEF Progress
<1>5. CASE port[c] = "analysisDone"
  <2>1. inbox' = inbox
    BY <1>5 DEF ReadPort
  <2>2. LastChange' = LastChange
    BY <2>1 DEF LastChange
  <2>3. Effort' < Effort
    BY <1>2, <1>3, <1>5, <2>1 DEF Effort
  <2> QED
    BY <1>1, <2>2, <2>3 DEF Progress
<1> QED
  BY <1>1, <1>4, <1>5

LEMMA ReadChangeAdvances == ASSUME IInv, ReadChange PROVE Progress
<1>1. inbox \in Seq(Message) /\ inbox # <<>> /\ inbox' = Tail(inbox) /\ timer' = timer
  BY DEF IInv, TypeOK, Message, ReadChange, ToTheWorker, mainVars
<1>2. /\ LastChange \in Nat
      /\ LastChange' = IF LastChange > 0 THEN LastChange - 1 ELSE 0
      /\ Len(inbox) \in Nat
  BY <1>1, ReadingLeavesLess
<1>3. inbox[1] \in Changes /\ 1 \in 1..Len(inbox)
  BY <1>1, <1>2, HeadTailProperties, EmptySeq DEF ReadChange
<1>4. LastChange > 0
  <2>1. \A i \in 1..Len(inbox) : i > LastChange => inbox[i] \notin Changes
    BY <1>1, LastInIs DEF LastChange
  <2> QED
    BY <1>2, <1>3, <2>1
<1>5. LastChange' < LastChange
  BY <1>2, <1>4
<1> QED
  BY <1>1, <1>5 DEF Progress

LEMMA TakeJobAdvances ==
  ASSUME IInv, IsFiniteSet(Chains), TakeJob
  PROVE  Progress
<1>1. /\ inbox \in Seq(Message) /\ inbox # <<>> /\ inbox' = Tail(inbox)
      /\ timer' = timer /\ toCheck' = toCheck /\ job = NoJob /\ TypeOK
      /\ Head(inbox).chain \in Chains
  BY MessagesDiffer DEF IInv, TypeOK, Message, TakeJob, ToTheWorker, mainVars, workerVars
<1>2. /\ LastChange \in Nat
      /\ LastChange' = IF LastChange > 0 THEN LastChange - 1 ELSE 0
      /\ Len(inbox) \in Nat /\ Len(inbox') = Len(inbox) - 1
  BY <1>1, ReadingLeavesLess
<1>3. CASE LastChange > 0
  <2>1. LastChange' < LastChange
    BY <1>2, <1>3
  <2> QED
    BY <1>1, <2>1 DEF Progress
<1>4. CASE LastChange = 0
  <2>1. JobLeft = 0
    BY <1>1 DEF JobLeft
  <2>2. CASE job' = Slice(Head(inbox).chain) /\ UNCHANGED port
    <3>1. job'.open => job'.todo # {}
      BY <2>2 DEF Slice
    <3>2. JobLeft' \in {0, 4}
      BY <3>1 DEF JobLeft
    <3>3. /\ Paused' = Paused /\ Done' = Done
          /\ Cardinality(Paused) \in Nat /\ Cardinality(Done) \in Nat
      BY <1>1, <2>2, CountsAreNumbers DEF Paused, Done
    <3>4. Effort' < Effort
      BY <1>2, <2>1, <3>2, <3>3 DEF Effort
    <3> QED
      BY <1>1, <1>2, <1>4, <3>4 DEF Progress
  <2>3. CASE Answer(Head(inbox).chain, "analysisDone")
    <3>1. JobLeft' = 0
      BY <2>3 DEF JobLeft, Answer
    <3>2. /\ Cardinality(Paused) \in Nat /\ Cardinality(Paused') \in Nat
          /\ Cardinality(Done) \in Nat /\ Cardinality(Done') \in Nat
          /\ Cardinality(Paused') <= Cardinality(Paused) + 0
          /\ Cardinality(Done') <= Cardinality(Done) + 1
      BY <1>1, <2>3, AnswerCounts DEF Answer
    <3>3. Effort' < Effort
      BY <1>2, <2>1, <3>1, <3>2 DEF Effort
    <3> QED
      BY <1>1, <1>2, <1>4, <3>3 DEF Progress
  <2> QED
    BY <2>2, <2>3 DEF TakeJob
<1> QED
  BY <1>2, <1>3, <1>4

LEMMA StepAdvances ==
  ASSUME IInv, SliceInv, IsFiniteSet(Files), IsFiniteSet(Chains), Main \/ Worker
  PROVE  Progress
<1>1. ASSUME NEW c \in Chains, AnalyzeTimer(c)
      PROVE  Progress
  BY <1>1 DEF AnalyzeTimer, Progress
<1>2. CASE NoticeCancel
  <2>1. job # NoJob
    BY <1>2 DEF NoticeCancel, NoJob
  <2> QED
    BY <1>2, <2>1, AnsweringLeavesLess DEF NoticeCancel, ToTheWorker, mainVars, workerVars
<1>3. CASE EndOfSlice
  <2>1. /\ job # NoJob /\ Answer(job.chain, WhatIsLeft(job))
        /\ UNCHANGED <<timer, inbox, toCheck>> /\ job.todo = {}
    BY <1>3 DEF EndOfSlice, ToTheWorker, mainVars, workerVars
  <2>2. CASE job.open
    BY <2>1, <2>2, AnsweringLeavesLess DEF WhatIsLeft
  <2>3. CASE ~job.open
    BY <2>1, <2>3, AnsweringLeavesLess DEF WhatIsLeft
  <2> QED
    BY <2>2, <2>3
<1>4. ASSUME NEW f \in Files, CheckFile(f) \/ InternalError(f)
      PROVE  Progress
  BY <1>4, CheckingLeavesLess DEF CheckFile, InternalError, ToTheWorker, mainVars
<1> QED
  BY <1>1, <1>2, <1>3, <1>4, ReadPortAdvances, ReadChangeAdvances, TakeJobAdvances DEF Main, Worker

\* What the main thread and the worker do about changes, slices, pauses and cancellations comes
\* to an end unless the user goes on: each of their steps is progress towards rest.
THEOREM AnalysisAdvances ==
  ASSUME IsFiniteSet(Files), IsFiniteSet(Chains)
  PROVE  Spec => [][Main \/ Worker => Progress]_vars
<1>1. IInv /\ SliceInv /\ [Next]_vars => [Main \/ Worker => Progress]_vars
  BY StepAdvances
<1> QED
  BY <1>1, Invariance, SliceInvariance, PTL DEF Spec

\* The analysis never is stuck: when neither thread has anything that it can do, everything that
\* the settings ask for is checked (or the checker threw).
THEOREM RestOrBusy ==
  ASSUME Chains # {}, \A c \in Chains : Chains # {c}
  PROVE  Spec => [](AtRest \/ Busy)
<1>1. IInv => AtRest \/ Busy
  <2> SUFFICES ASSUME IInv, ~Busy
               PROVE  AtRest
    OBVIOUS
  <2>1. inbox = <<>> /\ job = NoJob /\ \A c \in Chains : port[c] = "none"
    BY DEF Busy
  <2>2. \A c : c \in Chains => ~Live(c)
    <3>1. \A c : ~Queued(c)
      BY <2>1 DEF Queued
    <3> QED
      BY <2>1, <3>1, ConstantsAssumption DEF Live, Working, NoJob
  <2>3. ~timer
    BY <2>2 DEF Busy
  <2>4. Wanted = {} \/ source \in failed
    BY <2>2, <2>3 DEF IInv, SourceInv, NoFileForgotten, Live
  <2> QED
    BY <2>1, <2>3, <2>4 DEF AtRest
<1> QED
  BY <1>1, Invariance, PTL
=============================================================================
