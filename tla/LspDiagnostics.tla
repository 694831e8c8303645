---------------------------- MODULE LspDiagnostics ----------------------------
(***************************************************************************)
(* What the editor shows: the DiagnosticsManager, the TypeScript           *)
(* diagnostics that are propagated to the other open files across awaits,  *)
(* the settings that change them, and the shutdown that disposes of the    *)
(* project under them (packages/lsp/src/server: diagnostics-manager.ts,    *)
(* diagnostic-pipeline.ts, routing/document.ts, routing/lifecycle.ts,      *)
(* handlers/lifecycle.ts).                                                 *)
(*                                                                         *)
(* All files are solid files; context.ready has resolved, so each handler  *)
(* runs whole.  A propagation is one callback per file: they wait in the   *)
(* FIFO queue of setImmediate.  A batch of updates publishes once what the *)
(* updates leave, and no one looks in between.  The client sends nothing   *)
(* after its shutdown request.                                             *)
(***************************************************************************)
EXTENDS Naturals, Sequences

CONSTANTS
  Files,      \* the solid files of the workspace
  Imports,    \* Imports[f]: the files f imports
  Texts,      \* file contents
  Faulty,     \* those with errors, for the file and for its importers
  Nothing,    \* no text: not open, nothing pending, not in the program
  MaxEvents   \* bound: what the client does

ASSUME ImportsAssumption == Imports \in [Files -> SUBSET Files]
ASSUME TextsAssumption == Faulty \subseteq Texts /\ Nothing \notin Texts
ASSUME BoundAssumption == MaxEvents \in Nat

VARIABLES
  disk,      \* the files on disk
  buffer,    \* the open documents
  pending,   \* docManager.pending
  timer,     \* docManager.coalescingTimer # null
  program,   \* the text the TypeScript program has for each file
  enabled,   \* config.enableTsDiagnostics
  view,      \* view[f]: what the manager holds for f, and what the editor shows
  runs,      \* propagations, in the order of their setImmediate callbacks
  phase,     \* context.phase.tag
  startup,   \* what handleInitialized awaits
  disposed,  \* project.dispose() was called
  events,    \* counter for the bound
  behind     \* history: open files nothing will diagnose after a change of the program

clientVars == <<disk, buffer, events>>
docVars == <<pending, timer>>
lifeVars == <<phase, startup, disposed>>
vars == <<clientVars, docVars, program, enabled, view, runs, lifeVars, behind>>

Running == phase \in {"running", "enriched"}

Kinds == {"Ganko", "TypeScript"}
Diags == SUBSET (Files \cup {"lint"})
Held == UNION {[kinds -> Diags] : kinds \in SUBSET Kinds}

(* The two ways a propagation is cancelled (its token, its own flag) are   *)
(* one here; "handle" says that context.tsPropagationCancel is its own,    *)
(* "wiped" (history) that another run has set that handle to null.         *)
Run == [files : SUBSET Files, token : {"callback", "own"},
        cancelled : BOOLEAN, handle : BOOLEAN, wiped : BOOLEAN]

TypeOK ==
  /\ disk \in [Files -> Texts] /\ buffer \in [Files -> Texts \cup {Nothing}]
  /\ pending \in [Files -> Texts \cup {Nothing}] /\ timer \in BOOLEAN
  /\ program \in [Files -> IF Running THEN Texts ELSE Texts \cup {Nothing}]
  /\ enabled \in BOOLEAN
  /\ view \in [Files -> [held : Held, shown : Diags]]
  /\ runs \in Seq(Run)
  /\ phase \in {"initializing", "running", "enriched", "shutdown"}
  /\ startup \in {"program", "enrichment", "compilation", "done", "failed"}
  /\ disposed \in BOOLEAN /\ events \in 0..MaxEvents /\ behind \subseteq Files

Init ==
  /\ disk \in [Files -> Texts] /\ buffer = [f \in Files |-> Nothing]
  /\ pending = [f \in Files |-> Nothing] /\ timer = FALSE
  /\ program = [f \in Files |-> Nothing] /\ enabled \in BOOLEAN
  /\ view = [f \in Files |-> [held |-> <<>>, shown |-> {}]]
  /\ runs = <<>> /\ phase = "initializing" /\ startup = "program"
  /\ disposed = FALSE /\ events = 0 /\ behind = {}
------------------------------------------------------------------------------
Open == {f \in Files : buffer[f] # Nothing}
Changed == {f \in Files : pending[f] # Nothing}

(* The diagnostics of a file.                                              *)
Lint(t) == IF t \in Faulty THEN {"lint"} ELSE {}
TsErrors(p, f) == {g \in {f} \cup Imports[f] : p[g] \in Faulty}

(* The DiagnosticsManager.  A file without an entry holds no kind.         *)
Merged(held) == UNION {held[k] : k \in DOMAIN held}
Unchanged_Emptied(v, kind, diags) == diags = {}
Unchanged(v, kind, diags) == kind \in DOMAIN v.held /\ v.held[kind] = {} /\ diags = {}
Update(v, kind, diags) ==
  IF Unchanged(v, kind, diags) THEN v
  ELSE LET held == [k \in DOMAIN v.held \cup {kind} |-> IF k = kind THEN diags ELSE v.held[k]]
       IN  [held |-> held, shown |-> Merged(held)]
Evict(v) == [v EXCEPT !.held = <<>>]
OnClose == [held |-> <<>>, shown |-> {}]
Clear(v) == IF v.held = <<>> THEN v ELSE OnClose

(* runDiagnosticPipeline for one file, with the phase running or enriched. *)
WithTs(v, p, f, on) == IF on THEN Update(v, "TypeScript", TsErrors(p, f)) ELSE v
Diagnosed(v, p, f, on) == WithTs(Update(v, "Ganko", Lint(p[f])), p, f, on)

(* publishTier1Diagnostics: the file alone.                                *)
Tier1(v, f, t) ==
  LET linted == Update(v, "Ganko", Lint(t))
  IN  IF enabled THEN Update(linted, "TypeScript", IF t \in Faulty THEN {f} ELSE {}) ELSE linted

(* A pipeline for some files of a view; the rest stays.                    *)
Pipeline(w, files, p) == [f \in Files |-> IF f \in files THEN Diagnosed(w[f], p, f, enabled) ELSE w[f]]
Evicted(w, files) == [f \in Files |-> IF f \in files THEN Evict(w[f]) ELSE w[f]]

Synced_Blind(p, changes) == changes
Synced(p, changes) == [f \in Files |-> IF changes[f] # Nothing THEN changes[f] ELSE p[f]]

(* History: the program changed and only some files are diagnosed for it.  *)
Behind(changed, files) == (IF changed THEN behind \cup Open ELSE behind) \ files
------------------------------------------------------------------------------
(* Propagations.  Cancelling goes through the one handle; a run that ends, *)
(* cancelled or not, sets the handle to null, whoever's it is.             *)
ByHandle(q) == {i \in DOMAIN q : q[i].handle}
ByToken(q) == {i \in DOMAIN q : q[i].token = "callback"}
Cancelled(q, those) ==
  [i \in DOMAIN q |-> IF i \in those THEN [q[i] EXCEPT !.cancelled = TRUE] ELSE q[i]]
HandleNull(q) ==
  [i \in DOMAIN q |-> IF q[i].handle
                      THEN [q[i] EXCEPT !.handle = FALSE, !.wiped = ~q[i].cancelled] ELSE q[i]]

(* propagateTsDiagnosticsAsync up to its first await.                      *)
Propagated(q, files, exclude, token) ==
  IF ~enabled \/ files \ exclude = {} THEN q
  ELSE Append(HandleNull(Cancelled(q, ByHandle(q))),
              [files |-> files \ exclude, token |-> token,
               cancelled |-> FALSE, handle |-> TRUE, wiped |-> FALSE])

(* Where a callback of the propagation goes on: it gives up if it was      *)
(* cancelled, throws if the project was disposed, and else diagnoses one   *)
(* more file with the language service as it is now.                       *)
GivesUp(run) == run.cancelled
Rest_Once(run, f) == HandleNull(Tail(runs))
Rest(run, f) ==
  IF run.files = {f} THEN HandleNull(Tail(runs))
  ELSE Append(Tail(runs), [run EXCEPT !.files = @ \ {f}])

PropagateStep ==
  /\ runs # <<>>
  /\ LET run == Head(runs)
     IN  \/ /\ GivesUp(run) /\ runs' = HandleNull(Tail(runs))
            /\ UNCHANGED <<view, behind>>
         \/ /\ ~GivesUp(run) /\ disposed /\ runs' = Tail(runs)
            /\ UNCHANGED <<view, behind>>
         \/ /\ ~GivesUp(run) /\ ~disposed
            /\ \E f \in run.files :
                 /\ runs' = Rest(run, f)
                 /\ view' = IF "TypeScript" \notin DOMAIN view[f].held /\ TsErrors(program, f) = {}
                            THEN view ELSE [view EXCEPT ![f] = WithTs(@, program, f, TRUE)]
                 /\ behind' = behind \ {f}
  /\ UNCHANGED <<clientVars, docVars, program, enabled, lifeVars>>
------------------------------------------------------------------------------
(* processChangesCallback.                                                 *)
FlushedProgram == Synced(program, pending)
FlushedView ==
  IF Running THEN Pipeline(Evicted(view, Changed), Changed, FlushedProgram)
  ELSE [f \in Files |-> IF f \in Changed THEN Tier1(view[f], f, pending[f]) ELSE view[f]]
FlushedRuns_Cancelled == IF Changed = {} THEN runs ELSE Cancelled(runs, ByToken(runs))
FlushedRuns ==
  IF Changed = {} THEN runs
  ELSE LET q == Cancelled(runs, ByToken(runs))
       IN  IF Running THEN Propagated(q, Open, Changed, "callback") ELSE q

Flush ==
  /\ timer' = FALSE
  /\ pending' = [f \in Files |-> Nothing]
  /\ program' = FlushedProgram

FireTimer ==
  /\ timer /\ Flush
  /\ view' = FlushedView /\ runs' = FlushedRuns
  /\ behind' = behind \ Changed
  /\ UNCHANGED <<clientVars, enabled, lifeVars>>
------------------------------------------------------------------------------
(* The client.                                                             *)
ClientEvent == ~disposed /\ events < MaxEvents /\ events' = events + 1

OpenDocument(f, t) ==
  /\ ClientEvent /\ buffer[f] = Nothing
  /\ buffer' = [buffer EXCEPT ![f] = t]
  /\ program' = IF Running THEN [program EXCEPT ![f] = t] ELSE program
  /\ view' = [view EXCEPT ![f] = IF Running THEN Diagnosed(@, program', f, enabled) ELSE Tier1(@, f, t)]
  /\ behind' = Behind(program' # program, {f})
  /\ UNCHANGED <<disk, docVars, enabled, runs, lifeVars>>

ChangeDocument(f, t) ==
  /\ ClientEvent /\ buffer[f] \notin {Nothing, t}
  /\ buffer' = [buffer EXCEPT ![f] = t]
  /\ pending' = [pending EXCEPT ![f] = t]
  /\ timer' = TRUE
  /\ program' = IF Running THEN [program EXCEPT ![f] = t] ELSE program
  /\ runs' = IF Running THEN Cancelled(runs, ByHandle(runs)) ELSE runs
  /\ UNCHANGED <<disk, enabled, view, lifeVars, behind>>

(* didSave: a flush, then the saved file again and a propagation to the    *)
(* others that no later change cancels by its token.                       *)
SaveDocument(f) ==
  /\ ClientEvent /\ buffer[f] # Nothing
  /\ disk' = [disk EXCEPT ![f] = buffer[f]]
  /\ Flush
  /\ view' = IF Running THEN Pipeline(Evicted(FlushedView, {f}), {f}, FlushedProgram)
             ELSE FlushedView
  /\ runs' = IF Running THEN Propagated(FlushedRuns, Open, {f}, "own") ELSE FlushedRuns
  /\ behind' = behind \ (Changed \cup {f})
  /\ UNCHANGED <<buffer, enabled, lifeVars>>

(* didClose: the pending change is dropped; the program keeps its text and *)
(* the propagation that the change cancelled does not come back.           *)
CloseDocument(f) ==
  /\ ClientEvent /\ buffer[f] # Nothing
  /\ buffer' = [buffer EXCEPT ![f] = Nothing]
  /\ pending' = [pending EXCEPT ![f] = Nothing]
  /\ view' = [view EXCEPT ![f] = OnClose]
  /\ behind' = Behind(pending[f] # Nothing, {f})
  /\ UNCHANGED <<disk, timer, program, enabled, runs, lifeVars>>

(* textDocument/diagnostic, of any file.                                   *)
Pull(f) ==
  /\ ClientEvent /\ Running
  /\ LET content == IF buffer[f] # Nothing THEN buffer[f] ELSE disk[f]
         differs == content # program[f]
     IN  /\ program' = [program EXCEPT ![f] = content]
         /\ view' = [view EXCEPT ![f] =
                       Diagnosed(IF differs THEN Evict(@) ELSE @, program', f, enabled)]
         /\ behind' = Behind(differs, {f})
  /\ UNCHANGED <<disk, buffer, docVars, enabled, runs, lifeVars>>

(* rediagnoseAllOpen.                                                      *)
Rediagnosed_All == Files
Rediagnosed == Open
RediagnoseAllOpen(w) == view' = Pipeline(w, Rediagnosed, program) /\ behind' = behind \ Rediagnosed

(* A file changed on disk: its entry goes, the open files are diagnosed.   *)
WatchChange(f, t) ==
  /\ ClientEvent /\ Running /\ disk[f] # t
  /\ disk' = [disk EXCEPT ![f] = t]
  /\ RediagnoseAllOpen(Evicted(view, {f}))
  /\ UNCHANGED <<buffer, docVars, program, enabled, runs, lifeVars>>

(* didChangeConfiguration: TypeScript diagnostics are switched on or off.  *)
SwitchTs ==
  /\ ClientEvent /\ Running
  /\ enabled' = ~enabled
  /\ view' = [f \in Files |-> IF f \in Rediagnosed THEN Diagnosed(view[f], program, f, enabled')
                              ELSE view[f]]
  /\ behind' = behind \ Rediagnosed
  /\ UNCHANGED <<disk, buffer, docVars, program, runs, lifeVars>>

(* didChangeConfiguration: other exclude patterns; an enriched server      *)
(* clears the manager first.                                               *)
ChangeExclude ==
  /\ ClientEvent /\ Running
  /\ RediagnoseAllOpen(IF phase = "enriched" THEN [f \in Files |-> Clear(view[f])] ELSE view)
  /\ UNCHANGED <<disk, buffer, docVars, program, enabled, runs, lifeVars>>
------------------------------------------------------------------------------
(* handleInitialized, from one await to the next.  With a disposed project *)
(* the first build never resolves and every later use throws.              *)
BecomeRunning ==
  /\ startup = "program" /\ ~disposed
  /\ startup' = "enrichment" /\ phase' = "running"
  /\ program' = [f \in Files |-> IF program[f] = Nothing THEN disk[f] ELSE program[f]]
  /\ view' = Pipeline(view, Open, program')
  /\ behind' = {}
  /\ UNCHANGED <<clientVars, docVars, enabled, runs, disposed>>

BecomeEnriched ==
  /\ startup = "enrichment"
  /\ phase' = "enriched"
  /\ startup' = IF disposed THEN "failed" ELSE "compilation"
  /\ UNCHANGED <<clientVars, docVars, program, enabled, view, runs, disposed, behind>>

FinishInitialized ==
  /\ startup = "compilation"
  /\ IF disposed
     THEN /\ startup' = IF Open = {} THEN "done" ELSE "failed"
          /\ UNCHANGED <<view, runs, behind>>
     ELSE /\ startup' = "done"
          /\ view' = Pipeline(view, Open, program)
          /\ runs' = Propagated(runs, Open, {}, "own")
          /\ behind' = {}
  /\ UNCHANGED <<clientVars, docVars, program, enabled, phase, disposed>>

(* handleShutdown.                                                         *)
StopPropagation_Never(q) == q
StopPropagation(q) == HandleNull(Cancelled(q, ByHandle(q)))
Shutdown ==
  /\ ~disposed
  /\ Flush
  /\ view' = FlushedView
  /\ runs' = StopPropagation(FlushedRuns)
  /\ phase' = "shutdown" /\ disposed' = TRUE
  /\ behind' = behind \ Changed
  /\ UNCHANGED <<clientVars, enabled, startup>>

Client ==
  \/ \E f \in Files, t \in Texts : OpenDocument(f, t) \/ ChangeDocument(f, t) \/ WatchChange(f, t)
  \/ \E f \in Files : SaveDocument(f) \/ CloseDocument(f) \/ Pull(f)
  \/ SwitchTs \/ ChangeExclude
Next ==
  \/ Client \/ FireTimer \/ PropagateStep
  \/ BecomeRunning \/ BecomeEnriched \/ FinishInitialized \/ Shutdown

(* Timers fire and immediates run.                                         *)
Fairness == WF_vars(FireTimer) /\ WF_vars(PropagateStep)
Spec == Init /\ [][Next]_vars /\ Fairness
------------------------------------------------------------------------------
TsIsOf(p, f) == "TypeScript" \in DOMAIN view[f].held /\ view[f].held["TypeScript"] = TsErrors(p, f)

(* A propagation that goes on will come to f.                              *)
Awaited(f) == \E i \in DOMAIN runs : ~runs[i].cancelled /\ f \in runs[i].files

(* When nothing is pending, the TypeScript diagnostics of every open file  *)
(* are those of the current program, whatever edits, saves, closes and     *)
(* cancelled propagations came before (propagateTsDiagnosticsAsync).  The  *)
(* exceptions, named by "behind": opening a document with another text and *)
(* pulling a closed one change the program and propagate nothing, and      *)
(* closing an edited document drops the propagation its edit would start.  *)
TsIsCurrent ==
  (Running /\ ~disposed /\ enabled /\ Changed = {}) =>
    \A f \in Open \ behind : Awaited(f) \/ TsIsOf(program, f)

(* An open file shows what the manager holds for it, merged; so does a     *)
(* closed one the manager holds something for (update, evict, onClose,     *)
(* clear, republish).                                                      *)
ShownIsHeld ==
  \A f \in Files : (f \in Open \/ view[f].held # <<>>) => view[f].shown = Merged(view[f].held)

(* Nothing appears on a file that is not open, except by a pull or by a    *)
(* propagation that listed the file while it was open.                     *)
NoNewGhosts ==
  [][\A f \in Files :
       (buffer[f] = Nothing /\ buffer'[f] = Nothing /\ view[f].shown = {} /\ view'[f].shown # {})
         => Pull(f) \/ (PropagateStep /\ f \in Head(runs).files)]_vars

(* After shutdown() nothing uses the disposed project, except a            *)
(* propagation whose handle an older run wiped when it ended, and an       *)
(* initialization that had not ended (handleShutdown).                     *)
UsesProject ==
  \/ PropagateStep /\ ~GivesUp(Head(runs))
  \/ BecomeEnriched \/ FinishInitialized
DisposedIsUnused ==
  [][(disposed /\ UsesProject) =>
        (PropagateStep /\ Head(runs).wiped) \/ startup \in {"enrichment", "compilation"}]_vars

(* An edit reaches the TypeScript diagnostics of every open file at last.  *)
TsCatchesUp ==
  \A f \in Files :
    (Running /\ enabled /\ f \in Open) ~>
      (f \notin Open \/ f \in behind \/ ~enabled \/ disposed \/ TsIsOf(program, f))
==============================================================================
