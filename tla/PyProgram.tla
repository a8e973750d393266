------------------------------ MODULE PyProgram ------------------------------
(***************************************************************************)
(* What the analysis of Python files keeps and invalidates: Program        *)
(* (analyzer/py/program.ts) with its SourceFiles (sourceFile.ts), driven   *)
(* by AnalyzerService (service.ts) in the thread of the language server.   *)
(*                                                                         *)
(* Each file has an object with its parse results, the objects that it     *)
(* imports and those that import it.  A change marks objects dirty, the    *)
(* analysis timer runs a pass that parses and checks what is marked.       *)
(* The thread runs one turn at a time; the rounds of the loops in a turn   *)
(* are steps, between which the disk may change.  The file watcher tells   *)
(* of it later.                                                            *)
(*                                                                         *)
(* A text stands for the contents of a file, with imports in no order.  A  *)
(* check looks up all files that can be reached by imports, in an order of *)
(* its own, and "sees" their texts.                                        *)
(***************************************************************************)
EXTENDS Integers, FiniteSets, SequencesExt

CONSTANTS
  Paths,        \* files
  Sources,      \* the source files of the project
  TextsOf,      \* per file, the texts it can have
  FirstTexts,   \* what the files have at first: a text each, or Absent
  ImportsOf,    \* per text, the files that it imports
  Edited,       \* files that the user opens and edits
  Written, Created, Deleted,   \* files that other programs write, create, delete
  OnlyOpen,     \* configOptions.checkOnlyOpenFiles
  Ages,         \* tell the objects of a file apart that exist at the same time
  Absent, Closed, NoTree, Empty, Unread   \* no file, no document, not parsed, '', no cache

AllTexts == UNION {TextsOf[f] : f \in Paths}

ASSUME TextsAssumption ==
  /\ Sources \subseteq Paths
  /\ FirstTexts \subseteq [Paths -> AllTexts \cup {Absent}]
  /\ ImportsOf \in [AllTexts \cup {Empty} -> SUBSET Paths] /\ ImportsOf[Empty] = {}
  /\ {Absent, Closed, NoTree} \cap (AllTexts \cup {Empty}) = {}
  /\ Unread \notin SUBSET Paths /\ IsFiniteSet(Paths) /\ Ages # {}

\* An object that was found deleted stays so (sourceFile.ts:338), and may stand beside its
\* successor: nothing is said of files that are created again.
ASSUME NoneCreatedAgain == Created \cap Deleted = {}

VARIABLES
  disk,         \* the text of each file, or Absent
  events,       \* what the watcher will tell of each file
  info,         \* the objects: SourceFileInfo and SourceFile
  list,         \* _sourceFileList; _sourceFileMap has the same objects by path
  listing,      \* the resolver's cache: the files that it knows of
  timer,        \* is _analyzeTimer set?
  update,       \* _requireTrackedFileUpdate
  shown,        \* files of which the client has diagnostics
  turn,         \* what the thread is doing
  unmarked,     \* history: opened with a text other than the one analysed, or closed
                \* with one other than that on disk or not analysed yet
  hurried,      \* history: closed between an edit and the next pass
  failed        \* assertions that failed: "importedBy", or "filesLeft" in the last pass

program == <<info, list, listing>>
histories == <<unmarked, hurried>>
vars == <<disk, events, program, timer, update, shown, turn, histories, failed>>

-----------------------------------------------------------------------------
(* Objects.  An object is known by its path and its age. *)

\* diags is the diagnosticsVersion: undefined, or the current one, or one before it.  seen
\* is history: the texts that the last check saw.  The arrays imports and importedBy are
\* sets: that importedBy gets no importer twice is a consequence of ImportsAreKnown.
Object(tracked) ==
  [tracked |-> tracked, doc |-> Closed, dirty |-> TRUE, check |-> TRUE, parsed |-> NoTree,
   hash |-> NoTree, found |-> {}, deleted |-> FALSE, imports |-> {}, importedBy |-> {},
   diags |-> "none", seen |-> <<>>]

PathOf(i) == i[1]
PathsOf(S) == {PathOf(i) : i \in S}

InList == ToSet(list)

\* _getSourceFileInfoFromPath(), as a set of at most one object.
AtPath(f) == {i \in InList : PathOf(i) = f}

\* _addToSourceFileListAndMap of new objects for the files of a sequence.
NewId(f) == <<f, CHOOSE a \in Ages : <<f, a>> \notin DOMAIN info>>

FirstAge == CHOOSE a \in Ages : TRUE

HasRoom(S) == \A f \in S : \E a \in Ages : <<f, a>> \notin DOMAIN info

InfoWith(S, tracked) ==
  [i \in DOMAIN info \cup {NewId(f) : f \in S} |->
     IF i \in DOMAIN info THEN info[i] ELSE Object(tracked)]

ListWith(order) == list \o [n \in DOMAIN order |-> NewId(order[n])]

\* The orders in which files may be enumerated.
Orders(S) == {s \in [1..Cardinality(S) -> S] : IsInjective(s) /\ ToSet(s) = S}

IsOpen(o) == o.doc # Closed

ShouldCheckFile(o) == IsOpen(o) \/ (~OnlyOpen /\ o.tracked)

IsParseRequired(o) == o.parsed = NoTree \/ o.dirty

DidContentsChangeOnDisk(i) ==
  ~IsOpen(info[i]) /\ info[i].hash # NoTree /\ info[i].hash # disk[PathOf(i)]

-----------------------------------------------------------------------------
(* Imports as a graph *)

\* What can be reached from S: the least set that is closed under the edges.
IsClosed(edges, S) == \A i \in S : edges[i] \subseteq S

Closure(edges, S) ==
  {i \in DOMAIN edges :
     \A T \in SUBSET DOMAIN edges : S \subseteq T /\ IsClosed(edges, T) => i \in T}

\* Both recursions over importedBy visit i and what imports it.  Wrong form: the first
\* importers only.
ImportersOf(o, i) == {i} \cup o[i].importedBy

Above(o, i) == Closure([j \in DOMAIN o |-> o[j].importedBy], {i})

IsFileNeeded(o, i) ==
  /\ ~o[i].deleted
  /\ \/ o[i].tracked \/ IsOpen(o[i])
     \/ \E j \in Above(o, i) : o[j].tracked \/ IsOpen(o[j])

\* What nothing refers to any more is gone.
Collect(o) ==
  LET reached == Closure([j \in DOMAIN o |-> o[j].imports \cup o[j].importedBy], InList)
  IN  [i \in reached |-> o[i]]

MarkDirty(o) == [o EXCEPT !.dirty = TRUE, !.check = TRUE]

\* _markFileDirtyRecursive of the objects of S, and markFilesDirty of them.
MarkAbove(o, S) ==
  LET above == UNION {Above(o, i) : i \in S}
  IN  [j \in DOMAIN o |-> [o[j] EXCEPT !.check = @ \/ j \in above]]

MarkFilesDirty(o, S) ==
  MarkAbove([i \in DOMAIN o |-> IF i \in S THEN MarkDirty(o[i]) ELSE o[i]], S)

FilesToAnalyze(o) == {i \in InList : o[i].check /\ ShouldCheckFile(o[i])}

-----------------------------------------------------------------------------
(* What the thread does: nothing; a pass, at position n of the list; the check of a file,
   with the paths to look up; _removeUnneededFiles at position n, with the imports left of
   a file that it removes, and what follows.  before and gone are history: what was to be
   analysed when the pass began, and whether it found a file deleted. *)

Idle ==
  [at |-> "idle", n |-> 1, file |-> <<>>, todo |-> {}, seen |-> <<>>, left |-> {},
   then |-> "rest", opened |-> {}, before |-> {}, gone |-> FALSE, more |-> FALSE]

IsIdle == turn = Idle

Removing(then) == [Idle EXCEPT !.at = "remove", !.then = then]

\* analyze() begins with the open files.  Wrong form: also with those that were checked.
AllOpenFiles(o) == {i \in InList : IsOpen(o[i])}

OpenFiles(o) == {i \in InList : IsOpen(o[i]) /\ o[i].check}

Pass(o) == [Idle EXCEPT !.at = "pass", !.opened = OpenFiles(o), !.before = FilesToAnalyze(o)]

-----------------------------------------------------------------------------
(* setTrackedFiles before it removes what is not needed, for the sources on disk *)

SourcesOnDisk == {f \in Sources : disk[f] # Absent}

SetTracked ==
  LET new == SourcesOnDisk \ PathsOf(InList)
      o   == InfoWith(new, TRUE)
  IN  /\ HasRoom(new)
      /\ \E order \in Orders(new) : list' = ListWith(order)
      /\ info' = [i \in DOMAIN o |->
                    IF i \in InList THEN [o[i] EXCEPT !.tracked = PathOf(i) \in SourcesOnDisk]
                    ELSE o[i]]

-----------------------------------------------------------------------------
(* _parseFile and _bindFile *)

\* SourceFile.parse(): the document or the disk is read, imports are resolved against what
\* the resolver knows of the directory.
IsGone(i) == ~IsOpen(info[i]) /\ disk[PathOf(i)] = Absent

TextOf(i) ==
  IF IsOpen(info[i]) THEN info[i].doc ELSE IF IsGone(i) THEN Empty ELSE disk[PathOf(i)]

Known == IF listing = Unread THEN {f \in Paths : disk[f] # Absent} ELSE listing

FoundBy(i) == ImportsOf[TextOf(i)] \cap Known

Read(o, i) ==
  [o EXCEPT ![i] = [o[i] EXCEPT
     !.parsed = TextOf(i), !.dirty = FALSE, !.check = TRUE, !.found = FoundBy(i),
     !.hash = IF IsOpen(info[i]) \/ IsGone(i) THEN o[i].hash ELSE TextOf(i),
     !.deleted = IsGone(i), !.diags = IF o[i].diags = "current" THEN "old" ELSE o[i].diags]]

\* _updateSourceFileImports.  An object that was imported stays so if its path is, even if
\* it is not in the list any more.  Wrong forms: a file is added although it is in the
\* list; an importer is not made known to the files that are in the list.
Kept(i) == PathsOf(info[i].imports) \cap FoundBy(i)

AddAnew(i) == FoundBy(i) \ Kept(i)

ToBeAdded(i) == FoundBy(i) \ (Kept(i) \cup PathsOf(InList))

NewImporterOneWay(o, i, l) == {k \in ToSet(l) \ InList : PathOf(k) \in FoundBy(i)}

NewImporter(o, i, l) == {k \in ToSet(l) : PathOf(k) \in FoundBy(i) \ Kept(i)}

UpdateSourceFileImports(o, i, l) ==
  [k \in DOMAIN o |-> [o[k] EXCEPT
     !.importedBy = IF k \in info[i].imports /\ PathOf(k) \notin FoundBy(i)
                    THEN {j \in @ : PathOf(j) # PathOf(i)}
                    ELSE IF k \in NewImporter(o, i, l) THEN @ \cup {i} ELSE @,
     !.imports = IF k = i THEN {j \in ToSet(l) : PathOf(j) \in FoundBy(i)} ELSE @]]

StopTrackingIfGone(o, i) ==
  IF IsGone(i) THEN MarkAbove([o EXCEPT ![i].tracked = FALSE], {i}) ELSE o

Bind(i) ==
  IF ~IsFileNeeded(info, i) \/ ~IsParseRequired(info[i]) THEN UNCHANGED program
  ELSE /\ HasRoom(ToBeAdded(i))
       /\ \E order \in Orders(ToBeAdded(i)) :
            /\ list' = ListWith(order)
            /\ info' = StopTrackingIfGone(UpdateSourceFileImports(
                         Read(InfoWith(ToBeAdded(i), FALSE), i), i, ListWith(order)), i)
       /\ listing' = IF IsGone(i) THEN Unread ELSE Known

-----------------------------------------------------------------------------
(* _removeUnneededFiles *)

Needed(n) == IsFileNeeded(info, list[n])

\* Files whose diagnostics are taken back.  Wrong form: they are left.
LeaveDiags(S) == {}

ClearDiags(S) == {i \in S : ~ShouldCheckFile(info[i]) /\ info[i].diags # "none"}

Cleared(S) == [i \in DOMAIN info |-> IF i \in S THEN [info[i] EXCEPT !.diags = "none"] ELSE info[i]]

\* The loop goes on to the next file that is not needed and removes it,
RemoveNext ==
  /\ turn.at = "remove" /\ turn.left = {}
  /\ \E n \in turn.n..Len(list) :
       LET S == ClearDiags({list[m] : m \in turn.n..(n - 1)}) IN
       /\ ~Needed(n) /\ \A m \in turn.n..(n - 1) : Needed(m)
       /\ info' = Cleared(S)
       /\ list' = RemoveAt(list, n)
       /\ shown' = shown \ PathsOf(S \cup {list[n]})
       /\ turn' = [turn EXCEPT !.n = n, !.file = list[n], !.left = info[list[n]].imports]
  /\ UNCHANGED <<disk, events, listing, timer, update, histories, failed>>

\* and takes it from the importers of each file that it imports.  One that loses its last
\* importer is removed at once if it comes before position n.
Forget(k) ==
  LET o == [info EXCEPT ![k].importedBy = @ \ {turn.file}]
      before == {m \in 1..(turn.n - 1) : list[m] = k}
  IN  /\ turn.at = "remove" /\ k \in turn.left
      /\ IF turn.file \notin info[k].importedBy
         THEN /\ failed' = failed \cup {"importedBy"} /\ turn' = Idle
              /\ UNCHANGED <<info, list, shown>>
         ELSE /\ info' = o /\ UNCHANGED failed
              /\ IF IsFileNeeded(o, k) \/ before = {}
                 THEN /\ turn' = [turn EXCEPT !.left = @ \ {k}] /\ UNCHANGED <<list, shown>>
                 ELSE /\ turn' = [turn EXCEPT !.left = @ \ {k}, !.n = @ - 1]
                      /\ \E m \in before : list' = RemoveAt(list, m)
                      /\ shown' = shown \ {PathOf(k)}
      /\ UNCHANGED <<disk, events, listing, timer, update, histories>>

AllNeeded == turn.at = "remove" /\ turn.left = {} /\ \A n \in turn.n..Len(list) : Needed(n)

LastCleared == ClearDiags({list[n] : n \in turn.n..Len(list)})

-----------------------------------------------------------------------------
(* The service *)

Init ==
  /\ disk \in FirstTexts
  /\ events = [f \in Paths |-> "none"]
  /\ \E order \in Orders(SourcesOnDisk) : list = [n \in DOMAIN order |-> <<order[n], FirstAge>>]
  /\ info = [i \in SourcesOnDisk \X {FirstAge} |-> Object(TRUE)]
  /\ listing = Unread /\ timer = TRUE /\ update = FALSE
  /\ shown = {} /\ turn = Idle /\ unmarked = {} /\ hurried = {} /\ failed = {}

ScheduleReanalysis(requireUpdate) == timer' = TRUE /\ update' = (update \/ requireUpdate)

Opened(o, i) == [o EXCEPT ![i] = [MarkDirty(o[i]) EXCEPT !.doc = disk[PathOf(i)], !.diags = "none"]]

SetFileOpened(f) ==
  /\ IsIdle /\ f \in Edited /\ disk[f] # Absent
  /\ \A i \in AtPath(f) : ~IsOpen(info[i])
  /\ LET new == {f} \ PathsOf(InList) IN
     /\ HasRoom(new)
     /\ \E order \in Orders(new) : list' = ListWith(order)
     /\ \E i \in AtPath(f)' :
          /\ info' = Opened(InfoWith(new, FALSE), i)
          /\ unmarked' = IF i \in InList /\ info[i].parsed = disk[f] /\ ~info[i].dirty
                         THEN unmarked ELSE unmarked \cup {f}
  /\ ScheduleReanalysis(FALSE)
  /\ UNCHANGED <<disk, events, listing, shown, turn, hurried, failed>>

\* setFileOpened of the new contents, then markFilesDirty(..., true).
UpdateOpenFileContents(f, text) ==
  \E i \in AtPath(f) :
    /\ IsIdle /\ info[i].doc \notin {Closed, text}
    /\ info' = MarkFilesDirty(
                  [info EXCEPT ![i] = [info[i] EXCEPT !.doc = text, !.diags = "none"]], {i})
    /\ unmarked' = unmarked \ {f}
    /\ ScheduleReanalysis(FALSE)
    /\ UNCHANGED <<disk, events, list, listing, shown, turn, hurried, failed>>

SetFileClosed(f) ==
  \E i \in AtPath(f) :
    /\ IsIdle /\ IsOpen(info[i])
    /\ info' = [info EXCEPT ![i].doc = Closed]
    /\ turn' = Removing("rest")
    /\ hurried' = IF info[i].diags = "none" THEN hurried \cup ({f} \cap shown) ELSE hurried
    /\ unmarked' = IF info[i].doc # disk[f] \/ info[i].dirty THEN unmarked \cup {f} ELSE unmarked
    /\ ScheduleReanalysis(FALSE)
    /\ UNCHANGED <<disk, events, list, listing, shown, failed>>

EndClose ==
  /\ AllNeeded /\ turn.then = "rest"
  /\ info' = Collect(Cleared(LastCleared))
  /\ shown' = shown \ PathsOf(LastCleared)
  /\ turn' = Idle
  /\ UNCHANGED <<disk, events, list, listing, timer, update, histories, failed>>

\* The watchers of the source files and of the libraries.
WatchEvent(f) ==
  /\ IsIdle /\ events[f] # "none"
  /\ events' = [events EXCEPT ![f] = "none"]
  /\ IF events[f] = "change" /\ disk[f] # Absent /\ f \in Sources
     THEN LET changed == {i \in AtPath(f) : DidContentsChangeOnDisk(i)}
          IN  /\ info' = MarkFilesDirty(info, changed)
              /\ unmarked' = IF changed = {} THEN unmarked ELSE unmarked \ {f}
              /\ ScheduleReanalysis(FALSE) /\ UNCHANGED listing
     ELSE /\ info' = [i \in DOMAIN info |-> IF i \in InList THEN MarkDirty(info[i]) ELSE info[i]]
          /\ listing' = Unread
          /\ unmarked' = {}
          /\ ScheduleReanalysis(f \in Sources)
  /\ UNCHANGED <<disk, list, shown, turn, hurried, failed>>

-----------------------------------------------------------------------------
(* The analysis timer *)

\* The files tracked are updated if they have to be, then a pass begins.
AnalyzeTimer ==
  /\ IsIdle /\ timer
  /\ timer' = FALSE /\ update' = FALSE /\ failed' = failed \ {"filesLeft"}
  /\ IF update THEN SetTracked /\ turn' = Removing("pass")
     ELSE turn' = Pass(info) /\ UNCHANGED <<info, list>>
  /\ UNCHANGED <<disk, events, listing, shown, histories>>

\* The end of _updateTrackedFileList(false).
EndUpdate ==
  LET o == MarkFilesDirty(Cleared(LastCleared), {i \in InList : DidContentsChangeOnDisk(i)})
  IN  /\ AllNeeded /\ turn.then = "pass"
      /\ info' = o /\ turn' = Pass(o)
      /\ shown' = shown \ PathsOf(LastCleared)
      /\ UNCHANGED <<disk, events, list, listing, timer, update, histories, failed>>

\* The loops of analyze() over open files, or over the files tracked.
InLoop(i) ==
  IF turn.opened # {} THEN i \in turn.opened ELSE ~OnlyOpen /\ info[i].tracked

ToBeChecked(i) == IsFileNeeded(info, i) /\ info[i].check /\ ShouldCheckFile(info[i])

Due(n) == InLoop(list[n]) /\ ToBeChecked(list[n])

\* What a check has seen, with the text of one more file.
Seeing(seen, f, text) == [g \in DOMAIN seen \cup {f} |-> IF g = f THEN text ELSE seen[g]]

FoundDeleted == \E i \in DOMAIN info : info'[i].deleted /\ ~info[i].deleted

\* _checkTypes of the next file to be checked,
CheckTypes ==
  /\ turn.at = "pass"
  /\ \E n \in turn.n..Len(list) :
       /\ Due(n) /\ \A m \in turn.n..(n - 1) : ~Due(m)
       /\ Bind(list[n])
       /\ turn' = [turn EXCEPT !.at = "check", !.n = n + 1, !.file = list[n],
                               !.seen = Seeing(<<>>, PathOf(list[n]), info'[list[n]].parsed),
                               !.todo = info'[list[n]].found, !.gone = @ \/ FoundDeleted]
  /\ UNCHANGED <<disk, events, timer, update, shown, histories, failed>>

\* which looks up each path that it imports, and what is imported there,
LookUp(f) ==
  /\ turn.at = "check" /\ f \in turn.todo \ DOMAIN turn.seen
  /\ IF AtPath(f) = {}
     THEN turn' = [turn EXCEPT !.seen = Seeing(@, f, NoTree)] /\ UNCHANGED program
     ELSE \E k \in AtPath(f) :
       /\ Bind(k)
       /\ LET o == info'[k] IN
          turn' = [turn EXCEPT
            !.seen = Seeing(@, f, IF IsParseRequired(o) THEN NoTree ELSE o.parsed),
            !.todo = IF IsParseRequired(o) THEN @ ELSE @ \cup o.found,
            !.gone = @ \/ FoundDeleted]
  /\ UNCHANGED <<disk, events, timer, update, shown, histories, failed>>

\* and is over when it has.  There may be no time left for more.
Checked(outOfTime) ==
  /\ turn.at = "check" /\ turn.todo \subseteq DOMAIN turn.seen
  /\ info' = [info EXCEPT ![turn.file] = [info[turn.file] EXCEPT
                !.check = FALSE, !.seen = turn.seen,
                !.diags = IF info[turn.file].diags = "none" THEN "none" ELSE "old"]]
  /\ turn' = IF outOfTime
             THEN [Removing("report") EXCEPT !.before = turn.before, !.gone = turn.gone, !.more = TRUE]
             ELSE [turn EXCEPT !.at = "pass", !.file = <<>>, !.todo = {}, !.seen = <<>>]
  /\ UNCHANGED <<disk, events, list, listing, timer, update, shown, histories, failed>>

\* The pass asks for another one if files are open.  It may leave files to be analysed only
\* then: the assertion of analyzeProgram().
EndPass ==
  /\ turn.at = "pass" /\ \A n \in turn.n..Len(list) : ~Due(n)
  /\ IF FilesToAnalyze(info) # {} /\ turn.opened = {}
     THEN /\ failed' = failed \cup {"filesLeft"}
          /\ info' = Collect(info) /\ turn' = Idle
     ELSE /\ turn' = [Removing("report") EXCEPT !.before = turn.before, !.gone = turn.gone,
                                                !.more = turn.opened # {}]
          /\ UNCHANGED <<info, failed>>
  /\ UNCHANGED <<disk, events, list, listing, timer, update, shown, histories>>

\* The end of getDiags(), and the timer is set again if there is more.
EndReport ==
  LET report == {i \in InList : ShouldCheckFile(info[i])}
      o == Cleared(LastCleared)
  IN  /\ AllNeeded /\ turn.then = "report"
      /\ info' = Collect([i \in DOMAIN o |->
                   IF i \in report THEN [o[i] EXCEPT !.diags = "current"] ELSE o[i]])
      /\ shown' = (shown \ PathsOf(LastCleared)) \cup PathsOf(report)
      /\ timer' = turn.more /\ turn' = Idle
      /\ UNCHANGED <<disk, events, list, listing, update, histories, failed>>

-----------------------------------------------------------------------------
(* The environment *)

Tell(f, event) ==
  events' = [events EXCEPT ![f] = IF @ = "rename" THEN @ ELSE event]

Put(f, text) ==
  /\ disk' = [disk EXCEPT ![f] = text]
  /\ UNCHANGED <<program, timer, update, shown, turn, histories, failed>>

Write(f, text) ==
  /\ disk[f] \notin {Absent, text}
  /\ f \in Written \/ \E i \in AtPath(f) : info[i].doc = text
  /\ Put(f, text) /\ Tell(f, "change")

Create(f, text) ==
  f \in Created /\ disk[f] = Absent /\ Put(f, text) /\ Tell(f, "rename")

Delete(f) ==
  f \in Deleted /\ disk[f] # Absent /\ Put(f, Absent) /\ Tell(f, "rename")

Environment ==
  \E f \in Paths : Delete(f) \/ \E text \in TextsOf[f] : Write(f, text) \/ Create(f, text)

User ==
  \E f \in Paths :
    \/ SetFileOpened(f) \/ SetFileClosed(f)
    \/ \E text \in TextsOf[f] : UpdateOpenFileContents(f, text)

Analysis ==
  \/ AnalyzeTimer \/ EndUpdate \/ CheckTypes \/ EndPass \/ EndReport
  \/ \E f \in Paths : LookUp(f)
  \/ \E outOfTime \in BOOLEAN : Checked(outOfTime)

Removal == RemoveNext \/ EndClose \/ \E k \in DOMAIN info : Forget(k)

\* Nothing is said of what follows a failed assertion about importers.
Next ==
  /\ "importedBy" \notin failed
  /\ Environment \/ User \/ (\E f \in Paths : WatchEvent(f)) \/ Analysis \/ Removal

Spec == Init /\ [][Next]_vars

-----------------------------------------------------------------------------
(* Properties *)

TypeOK ==
  /\ disk \in [Paths -> AllTexts \cup {Absent}]
  /\ events \in [Paths -> {"none", "change", "rename"}]
  /\ DOMAIN info \subseteq Paths \X Ages /\ list \in Seq(DOMAIN info)
  /\ \A m, n \in DOMAIN list : PathOf(list[m]) = PathOf(list[n]) => m = n
  /\ \A i \in DOMAIN info :
       /\ info[i].doc \in AllTexts \cup {Closed}
       /\ info[i].parsed \in AllTexts \cup {NoTree, Empty}
       /\ info[i].diags \in {"none", "old", "current"}
       /\ info[i].imports \cup info[i].importedBy \subseteq DOMAIN info
  /\ listing \in (SUBSET Paths) \cup {Unread}
  /\ timer \in BOOLEAN /\ update \in BOOLEAN
  /\ shown \subseteq Paths /\ unmarked \subseteq Paths /\ hurried \subseteq Paths
  /\ failed \subseteq {"importedBy", "filesLeft"}
  /\ turn.at \in {"idle", "pass", "check", "remove"} /\ turn.n \in Nat

\* A file knows its importers: whatever was added, removed and added again, a file that is
\* in the list is among the importers of exactly the files that it imports.  So a change
\* there will mark it, and the assertion of program.ts:1077 has held, that an importer is
\* found where it is to be removed.
ImportsAreKnown ==
  /\ \A i \in InList : \A k \in DOMAIN info : k \in info[i].imports <=> i \in info[k].importedBy
  /\ "importedBy" \notin failed

\* Nothing is scheduled and the watcher has told of all changes.
Settled == IsIdle /\ ~timer /\ \A f \in Paths : events[f] = "none"

\* What the editor or the disk has of a file, and what a check of a file should see.
Now(f) ==
  IF \E i \in AtPath(f) : IsOpen(info[i]) THEN info[CHOOSE i \in AtPath(f) : TRUE].doc ELSE disk[f]

Reached(f) ==
  Closure([g \in Paths |-> IF Now(g) = Absent THEN {} ELSE
             {h \in ImportsOf[Now(g)] : disk[h] # Absent}], {f})

\* A file whose change the service does not notice: opened with a change, closed without
\* being saved or analysed, or changed after it was closed to what was read from disk
\* before it was opened, if it was.
Unnoticed(f) ==
  \/ f \in unmarked
  \/ \E i \in AtPath(f) :
       /\ ~IsOpen(info[i]) /\ ~info[i].dirty
       /\ info[i].parsed # disk[f] /\ ~DidContentsChangeOnDisk(i)

\* When all has settled, every file that is to be checked was checked against the present
\* contents of all files that it depends on, but for the contents that go unnoticed.
Fresh ==
  Settled => \A i \in InList : ShouldCheckFile(info[i]) =>
    LET S == Reached(PathOf(i))
    IN  \/ info[i].seen = [f \in S |-> Now(f)]
        \/ \E f \in S \cup DOMAIN info[i].seen : Unnoticed(f)

\* When all has settled, and the last pass did not end with a failed assertion, nothing is
\* left to check and the client has the diagnostics of the files that are to be checked and
\* of no other, but for those closed in a hurry.
Complete ==
  Settled /\ "filesLeft" \notin failed =>
    /\ FilesToAnalyze(info) = {}
    /\ \A f \in Sources : disk[f] # Absent => \E i \in AtPath(f) : info[i].tracked
    /\ \A i \in InList : ShouldCheckFile(info[i]) =>
         PathOf(i) \in shown /\ info[i].diags = "current"
    /\ \A f \in shown \ hurried : \E i \in AtPath(f) : ShouldCheckFile(info[i])

\* A pass that asks for another one leaves fewer files to be analysed than it found, or has
\* found that a file is gone, after which the files above it are to be checked again: the
\* timer does not go off again and again, whatever is open.
PassesEnd ==
  turn.at = "remove" /\ turn.more =>
    \/ FilesToAnalyze(info) \subseteq turn.before /\ FilesToAnalyze(info) # turn.before
    \/ turn.gone

\* analysis.ts:38: assert(filesLeftToAnalyze === 0 || moreToAnalyze).
NoFilesLeft == "filesLeft" \notin failed
=============================================================================
