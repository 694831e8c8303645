---------------------------- MODULE LspDocuments ----------------------------
(***************************************************************************)
(* The language server's documents: what the editor opens, changes, saves  *)
(* and closes, the handlers that wait for readiness, the coalescing timer, *)
(* the start-up phases, watched files, diagnostic pulls and the builds of  *)
(* the compilation that are in flight across an await (packages/lsp/src/   *)
(* server: document-tracker.ts, routing/document.ts, diagnostic-pipeline.ts*)
(* handlers/lifecycle.ts, workspace-change-handler.ts, routing/feature.ts).*)
(*                                                                         *)
(* Diagnostics stand for the texts they were computed from.  A cached      *)
(* cross-file result is that of the current compilation (ResultsAreOwn of  *)
(* CompilationTracker), so using it and computing it anew are one here.    *)
(* Node runs one task at a time and its microtasks before the next task:   *)
(* after readiness, what the handlers do behind `await context.ready`      *)
(* precedes everything else.  Solid files are neither made nor removed on  *)
(* disk; no file that changes is a Tailwind entry.                         *)
(***************************************************************************)
EXTENDS Naturals, Sequences

CONSTANTS
  Solid, Css,   \* the solid and the CSS files of the workspace
  Contents,     \* file contents
  Absent,       \* the text of a file that does not exist
  Nothing,      \* no text: not open, nothing pending, no diagnostics
  MaxEvents,    \* bound: what the client and other programs do
  MaxBuilds     \* bound: builds in flight

ASSUME FilesAssumption == Solid \cap Css = {} /\ {Absent, Nothing} \cap Contents = {}
ASSUME BoundsAssumption == MaxEvents \in Nat /\ MaxBuilds \in Nat

Files == Solid \cup Css
Text == Contents \cup {Absent}
Trees == [Files -> Text]

ASSUME NothingAssumption == Absent # Nothing /\ Nothing \notin Trees

VARIABLES
  disk,       \* the workspace
  notices,    \* didChangeWatchedFiles events the client has yet to send
  buffer,     \* the open TextDocuments
  waiting,    \* continuations behind `await context.ready`, in order
  tracked,    \* docManager.byUri; "opened": openVersion is set
  pending,    \* docManager.pending
  timer,      \* docManager.coalescingTimer # null
  ready,      \* context.ready has resolved
  phase,      \* context.phase.tag
  registry,   \* the file registry
  program,    \* the text the TypeScript program has for each solid file
  trees,      \* context.graphCache.currentCompilation
  diags,      \* what the DiagnosticsManager holds for each file
  building,   \* compilations built and not yet assigned, in order
  events,     \* counter for the bound
  since,      \* history: how the server last learnt a file's text
  overtaken   \* history: files changed while a build was in flight

clientVars == <<disk, notices, buffer, events>>
docVars == <<waiting, tracked, pending, timer>>
serverVars == <<ready, phase, registry, building>>
analysisVars == <<program, trees, diags>>
historyVars == <<since, overtaken>>
vars == <<clientVars, docVars, serverVars, analysisVars, historyVars>>

(* A continuation's document is the open one unless it was closed; a       *)
(* closed one keeps its last text.                                         *)
Waiting == [kind : {"open", "change", "save"}, file : Files, last : Contents \cup {Nothing}]
Notice == [file : Files, kind : {"created", "changed", "deleted"}]
Diags == [single : Text \cup {Nothing}, cross : Trees \cup {Nothing}]
NoDiags == [single |-> Nothing, cross |-> Nothing]

TypeOK ==
  /\ disk \in Trees /\ notices \subseteq Notice
  /\ buffer \in [Files -> Contents \cup {Nothing}]
  /\ waiting \in Seq(Waiting)
  /\ tracked \in [Files -> {"closed", "opened", "open"}]
  /\ pending \in [Files -> Contents \cup {Nothing}] /\ timer \in BOOLEAN
  /\ ready \in BOOLEAN /\ phase \in {"initializing", "running", "enriched"}
  /\ registry \subseteq Files
  /\ program \in [Solid -> Text \cup {Nothing}]
  /\ trees \in Trees /\ diags \in [Files -> Diags]
  /\ building \in Seq(Trees) /\ events \in 0..MaxEvents
  /\ since \in [Files -> {"never", "early", "late", "edited"}]
  /\ overtaken \subseteq Files

Init ==
  /\ disk \in Trees /\ (\A f \in Solid : disk[f] # Absent)
  /\ notices = {} /\ events = 0
  /\ buffer = [f \in Files |-> Nothing]
  /\ waiting = <<>> /\ tracked = [f \in Files |-> "closed"]
  /\ pending = [f \in Files |-> Nothing] /\ timer = FALSE
  /\ ready = FALSE /\ phase = "initializing" /\ registry = {} /\ building = <<>>
  /\ program = [f \in Solid |-> Nothing]
  /\ trees = [f \in Files |-> Absent] /\ diags = [f \in Files |-> NoDiags]
  /\ since = [f \in Files |-> "never"] /\ overtaken = {}
------------------------------------------------------------------------------
Running == phase # "initializing"
Open == {f \in Files : tracked[f] # "closed"}

(* No continuation is left to run before the next task.                    *)
NextTask == ready => waiting = <<>>

(* fileContents.set for the files of a set of changes (file -> text).      *)
Synced_Once(p, changes) ==
  [f \in Solid |-> IF f \in DOMAIN changes /\ p[f] = Nothing THEN changes[f] ELSE p[f]]
Synced(p, changes) == [f \in Solid |-> IF f \in DOMAIN changes THEN changes[f] ELSE p[f]]
(* A solid tree is built from the program, which was synced just before.   *)
ApplyBatch(c, changes) == [f \in Files |-> IF f \in DOMAIN changes THEN changes[f] ELSE c[f]]
Evicted(d, files) == [f \in Files |-> IF f \in files THEN NoDiags ELSE d[f]]

(* runSingleFileDiagnostics: solid files from the program, whatever text   *)
(* the caller has; none for CSS.                                           *)
SingleFile(p, f) == IF f \in Solid THEN p[f] ELSE Nothing

(* runDiagnosticPipeline on some files in a phase.                         *)
Pipeline(d, files, at, p, c) ==
  [f \in Files |->
     IF f \notin files THEN d[f]
     ELSE [single |-> SingleFile(p, f), cross |-> IF at = "enriched" THEN c ELSE d[f].cross]]

Tier1(d, changes) ==
  [f \in Files |-> IF f \in Solid \cap DOMAIN changes
                   THEN [single |-> changes[f], cross |-> d[f].cross] ELSE d[f]]

(* processChangesCallback: what is pending goes to the program; when the   *)
(* phase allows, to the tracker and through the pipeline as well.          *)
Changes == [f \in {g \in Files : pending[g] # Nothing} |-> pending[f]]
FlushedProgram == Synced(program, Changes)
FlushedTrees == IF Running THEN ApplyBatch(trees, Changes) ELSE trees
FlushedDiags ==
  IF Running
  THEN Pipeline(Evicted(diags, DOMAIN Changes), DOMAIN Changes, phase, FlushedProgram, FlushedTrees)
  ELSE Tier1(diags, Changes)

Flush ==
  /\ timer' = FALSE
  /\ pending' = [f \in Files |-> Nothing]
  /\ program' = FlushedProgram
  /\ trees' = FlushedTrees
  /\ overtaken' = IF ~Running THEN overtaken
                  ELSE IF building = <<>> THEN overtaken \ DOMAIN Changes
                  ELSE overtaken \cup DOMAIN Changes
------------------------------------------------------------------------------
(* The client.                                                             *)
ClientEvent == NextTask /\ events < MaxEvents /\ events' = events + 1

(* didOpen: onDidOpen tracks the document before it awaits readiness;      *)
(* onDidChangeContent fires for the same notification.                     *)
OpenDocument(f, t) ==
  /\ ClientEvent
  /\ buffer[f] = Nothing
  /\ buffer' = [buffer EXCEPT ![f] = t]
  /\ tracked' = [tracked EXCEPT ![f] = "opened"]
  /\ waiting' = waiting \o <<[kind |-> "open", file |-> f, last |-> Nothing],
                             [kind |-> "change", file |-> f, last |-> Nothing]>>
  /\ UNCHANGED <<disk, notices, pending, timer, serverVars, analysisVars, historyVars>>

ChangeDocument(f, t) ==
  /\ ClientEvent
  /\ buffer[f] \notin {Nothing, t}
  /\ buffer' = [buffer EXCEPT ![f] = t]
  /\ waiting' = Append(waiting, [kind |-> "change", file |-> f, last |-> Nothing])
  /\ UNCHANGED <<disk, notices, tracked, pending, timer, serverVars, analysisVars, historyVars>>

(* A write, by the editor's save or another program, and the watcher's     *)
(* notice of it.                                                           *)
Write(f, t) ==
  /\ disk' = [disk EXCEPT ![f] = t]
  /\ notices' = notices \cup {[file |-> f, kind |-> IF t = Absent THEN "deleted"
                                ELSE IF disk[f] = Absent THEN "created" ELSE "changed"]}

SaveDocument(f) ==
  /\ ClientEvent
  /\ buffer[f] # Nothing
  /\ Write(f, buffer[f])
  /\ waiting' = Append(waiting, [kind |-> "save", file |-> f, last |-> Nothing])
  /\ UNCHANGED <<buffer, tracked, pending, timer, serverVars, analysisVars, historyVars>>

ExternalWrite(f, t) ==
  /\ ClientEvent
  /\ disk[f] # t /\ (f \in Solid => t # Absent)
  /\ Write(f, t)
  /\ UNCHANGED <<buffer, docVars, serverVars, analysisVars, historyVars>>

(* didClose does not wait: it untracks the document, drops its pending     *)
(* change and clears its diagnostics.                                      *)
CloseDocument(f) ==
  /\ ClientEvent
  /\ buffer[f] # Nothing
  /\ buffer' = [buffer EXCEPT ![f] = Nothing]
  /\ tracked' = [tracked EXCEPT ![f] = "closed"]
  /\ pending' = [pending EXCEPT ![f] = Nothing]
  /\ diags' = [diags EXCEPT ![f] = NoDiags]
  /\ waiting' = [i \in DOMAIN waiting |->
                   IF waiting[i].file = f /\ waiting[i].last = Nothing
                   THEN [waiting[i] EXCEPT !.last = buffer[f]] ELSE waiting[i]]
  /\ UNCHANGED <<disk, notices, timer, serverVars, program, trees, historyVars>>
------------------------------------------------------------------------------
(* The continuations.                                                      *)
Continuation(kind) == ready /\ waiting # <<>> /\ Head(waiting).kind = kind /\ waiting' = Tail(waiting)
LastText == IF Head(waiting).last = Nothing THEN buffer[Head(waiting).file] ELSE Head(waiting).last

(* onDidOpen after readiness: it does not look whether the document is     *)
(* still open, and before the program is there it does not sync it.        *)
RunOpen ==
  /\ Continuation("open")
  /\ LET f == Head(waiting).file
         change == [g \in {f} |-> LastText]
     IN  /\ program' = IF Running THEN Synced(program, change) ELSE program
         /\ diags' = IF Running THEN Pipeline(diags, {f}, phase, program', trees)
                     ELSE Tier1(diags, change)
         /\ since' = [since EXCEPT ![f] = IF Running THEN "late" ELSE "early"]
  /\ UNCHANGED <<clientVars, tracked, pending, timer, serverVars, trees, overtaken>>

(* scheduleCoalescing clears the timer of an earlier change and sets it.   *)
Armed_Cleared(queued) == timer # queued
Armed(queued) == timer \/ queued

(* docManager.change and the immediate sync of the program.  The first     *)
(* change event after an open is the open's own.                           *)
Swallowed(f) == tracked[f] = "opened"
RunChange ==
  /\ Continuation("change")
  /\ LET f == Head(waiting).file
         queued == tracked[f] # "closed" /\ ~Swallowed(f)
     IN  /\ tracked' = [tracked EXCEPT ![f] = IF @ = "opened" THEN "open" ELSE @]
         /\ pending' = IF queued THEN [pending EXCEPT ![f] = LastText] ELSE pending
         /\ timer' = Armed(queued)
         /\ program' = IF queued /\ Running THEN Synced(program, [g \in {f} |-> LastText]) ELSE program
         /\ since' = IF queued THEN [since EXCEPT ![f] = "edited"] ELSE since
  /\ UNCHANGED <<clientVars, serverVars, trees, diags, overtaken>>

(* onDidSave: flush, then the saved file again (the drain after the flush  *)
(* finds nothing).                                                         *)
RunSave ==
  /\ Continuation("save")
  /\ Flush
  /\ LET f == Head(waiting).file
     IN  diags' = IF Running
                  THEN Pipeline(Evicted(FlushedDiags, {f}), {f}, phase, FlushedProgram, FlushedTrees)
                  ELSE FlushedDiags
  /\ UNCHANGED <<clientVars, tracked, serverVars, since>>

(* The coalescing timer.                                                   *)
FireTimer ==
  /\ NextTask /\ timer
  /\ Flush
  /\ diags' = FlushedDiags
  /\ UNCHANGED <<clientVars, waiting, tracked, serverVars, since>>
------------------------------------------------------------------------------
(* Start-up: phase A makes the project, resolves readiness and scans the   *)
(* workspace.                                                              *)
BecomeReady ==
  /\ ~ready
  /\ ready' = TRUE
  /\ registry' = {f \in Files : disk[f] # Absent}
  /\ UNCHANGED <<clientVars, docVars, phase, building, analysisVars, historyVars>>

(* Phase B: the first program is built, from the files on disk where       *)
(* nothing was synced, and the open files are diagnosed with it.           *)
BecomeRunning ==
  /\ ready /\ NextTask /\ phase = "initializing"
  /\ phase' = "running"
  /\ program' = [f \in Solid |-> IF program[f] = Nothing THEN disk[f] ELSE program[f]]
  /\ diags' = Pipeline(diags, Open, "running", program', trees)
  /\ UNCHANGED <<clientVars, docVars, ready, registry, building, trees, historyVars>>

(* buildFullCompilation: solid files from the program, CSS by              *)
(* resolveContent, which prefers the editor's text.                        *)
FullCompilation_Buffer(files) ==
  [f \in Files |-> IF f \notin files THEN Absent
                   ELSE IF f \in Solid THEN program[f] ELSE buffer[f]]
FullCompilation_Disk(files) ==
  [f \in Files |-> IF f \notin files THEN Absent
                   ELSE IF f \in Solid THEN program[f] ELSE disk[f]]
FullCompilation(files) ==
  [f \in Files |-> IF f \notin files THEN Absent
                   ELSE IF f \in Solid THEN program[f]
                   ELSE IF buffer[f] # Nothing THEN buffer[f] ELSE disk[f]]

(* Phase C, up to the await in buildEnrichedCompilationTracker: the phase  *)
(* is enriched already while the tracker is still the old one.             *)
StartEnrichment ==
  /\ NextTask /\ phase = "running"
  /\ phase' = "enriched"
  /\ building' = Append(building, FullCompilation(registry))
  /\ UNCHANGED <<clientVars, docVars, ready, registry, analysisVars, historyVars>>

(* The Tailwind evaluator has answered (it answers in order): the build    *)
(* replaces the tracker and the files open now are diagnosed.              *)
Rediagnosed_All == Files
Rediagnosed == Open
FinishBuild ==
  /\ NextTask /\ building # <<>>
  /\ building' = Tail(building)
  /\ trees' = Head(building)
  /\ diags' = Pipeline(diags, Rediagnosed, phase, program, trees')
  /\ UNCHANGED <<clientVars, docVars, ready, phase, registry, program, historyVars>>
------------------------------------------------------------------------------
(* didChangeWatchedFiles, one event at a time: a file made or removed      *)
(* starts a rebuild, a changed one only has its results evicted.           *)
WatchFile(n) ==
  /\ NextTask /\ n \in notices
  /\ notices' = notices \ {n}
  /\ LET f == n.file
         rebuilds == phase = "enriched" /\ n.kind # "changed"
         kept == IF n.kind = "deleted" THEN diags ELSE Evicted(diags, {f})
     IN  /\ rebuilds => Len(building) < MaxBuilds
         /\ registry' = IF ~rebuilds THEN registry
                        ELSE IF n.kind = "created" THEN registry \cup {f} ELSE registry \ {f}
         /\ building' = IF rebuilds THEN Append(building, FullCompilation(registry')) ELSE building
         /\ diags' = IF ~Running THEN diags
                     ELSE IF rebuilds THEN kept
                     ELSE Pipeline(kept, Open, phase, program, trees)
  /\ UNCHANGED <<disk, buffer, events, docVars, ready, phase, program, trees, historyVars>>

(* textDocument/diagnostic: syncs the program when the text differs from   *)
(* the program's (a CSS file is never in it), never the tracker; it stores *)
(* cross-file results only if there are any, and leaves the old ones.      *)
Pull(f) ==
  /\ NextTask /\ Running
  /\ \E found \in BOOLEAN :
       LET content == IF buffer[f] # Nothing THEN buffer[f] ELSE disk[f]
           differs == content # Absent /\ (f \in Css \/ content # program[f])
           kept == IF differs THEN NoDiags ELSE diags[f]
       IN  /\ program' = IF differs THEN Synced(program, [g \in {f} |-> content]) ELSE program
           /\ diags' = [diags EXCEPT ![f] =
                [single |-> SingleFile(program', f),
                 cross |-> IF phase = "enriched" /\ (found \/ kept.cross = Nothing)
                           THEN trees ELSE kept.cross]]
  /\ UNCHANGED <<clientVars, docVars, serverVars, trees, historyVars>>
------------------------------------------------------------------------------
Client ==
  \/ \E f \in Files, t \in Contents : OpenDocument(f, t) \/ ChangeDocument(f, t)
  \/ \E f \in Files, t \in Text : ExternalWrite(f, t)
  \/ \E f \in Files : SaveDocument(f) \/ CloseDocument(f) \/ Pull(f)
  \/ \E n \in notices : WatchFile(n)
Continue == RunOpen \/ RunChange \/ RunSave
StartUp == BecomeReady \/ BecomeRunning \/ StartEnrichment
Next == Client \/ Continue \/ FireTimer \/ StartUp \/ FinishBuild

(* Microtasks and timers always run.                                       *)
Fairness == WF_vars(Continue) /\ WF_vars(FireTimer)
Spec == Init /\ [][Next]_vars /\ Fairness
------------------------------------------------------------------------------
(* Nothing the editor said of the file is on its way.                      *)
Settled(f) ==
  /\ tracked[f] = "open" /\ pending[f] = Nothing
  /\ \A i \in DOMAIN waiting : waiting[i].file # f

(* Once the program is there, the single-file diagnostics of a settled     *)
(* document are of the text in the editor (onDidOpen, onDidChangeContent,  *)
(* processChangesCallback, onDidSave, the pull).  The exception: a text    *)
(* opened before readiness that differs from the disk's is not synced      *)
(* until it changes.                                                       *)
SingleIsCurrent ==
  \A f \in Solid :
    /\ Running /\ Settled(f)
    /\ since[f] = "early" => program[f] = buffer[f]
    => diags[f].single = buffer[f]

(* The cross-file diagnostics of a settled document that was edited have   *)
(* seen the text in the editor, whatever was rebuilt since, unless a build *)
(* was in flight when the edit went to the tracker                         *)
(* (processChangesCallback, buildEnrichedCompilationTracker).              *)
CrossHasOwnText ==
  \A f \in registry \ overtaken :
    phase = "enriched" /\ building = <<>> /\ Settled(f) /\ since[f] = "edited"
    => diags[f].cross # Nothing /\ diags[f].cross[f] = buffer[f]

(* Nothing diagnoses a document that is not open, except a pull and the    *)
(* handler of an open that waited for readiness while it was closed.       *)
ClosedStaysClear ==
  [][\A f \in Files :
       (buffer[f] = Nothing /\ diags[f] = NoDiags /\ diags'[f] # NoDiags) =>
         \/ Pull(f)
         \/ phase = "initializing" /\ RunOpen /\ Head(waiting).file = f]_vars

(* Once the program is there, an edit is diagnosed at last, from the text  *)
(* the editor has then (scheduleCoalescing).                               *)
CatchesUp ==
  \A f \in Solid :
    (Running /\ since[f] = "edited" /\ tracked[f] # "closed") ~>
      (tracked[f] = "closed" \/ since[f] # "edited" \/ diags[f].single = buffer[f])

(* A pull right after an edit computes its cross-file part from a          *)
(* compilation that has the edit (the comment of                           *)
(* runDiagnosticPipelineImmediate).                                        *)
PullIsFresh ==
  [][\A f \in Files :
       (Pull(f) /\ phase = "enriched" /\ building = <<>> /\ pending[f] # Nothing)
         => trees'[f] = buffer[f]]_vars

(* The watcher's event for a file changed on disk, not open in the editor, *)
(* brings its text into the tracker (the comment of                        *)
(* WorkspaceChangeHandler).                                                *)
WatchedIsApplied ==
  [][\A n \in notices \ notices' :
       (phase = "enriched" /\ building = <<>> /\ n.kind = "changed" /\ buffer[n.file] = Nothing)
         => trees'[n.file] = disk[n.file]]_vars
==============================================================================
