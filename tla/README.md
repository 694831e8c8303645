# Ganko: specifications, model checks and proofs

Ganko is a linter for Solid.js. The parts of it that keep state are a daemon
that answers lint requests from a warm workspace, a language server that
diagnoses while the user edits, and the incremental compilation the two share.
This directory holds TLA+ modules of those parts, the TLC configurations that
check them on small instances and TLAPS proofs of what matters most. Paths
below are relative to `src/packages/`.

## The system

| component | state | operations | interacts with | hard because |
|---|---|---|---|---|
| daemon request loop (`lsp/src/cli/daemon.ts`) | promise chain `pending`, idle timer, a 120 s timer per request, `project`, `shutdownStarted` | lint, status and shutdown requests, signals, idle and hard-exit timers, pre-warm | clients over a socket; the warm state | callbacks of several requests, four kinds of timer and a background task interleave; a handler may never finish |
| daemon warm state (same file, `handleLintRequest`) | content versions, Tailwind state, tracker | one lint request, with many awaits | file registry, TypeScript service, compilation builder | files change during the awaits; requests sync different parts of the workspace; failures leave a prefix done |
| incremental TypeScript program (`core/incremental-program.ts`, `project.ts`) | text and script version per file | update, evict, get program | daemon, language server | files nobody synced keep an old text |
| compilation tracker (`ganko/src/compilation/incremental/tracker.ts`) | immutable handles with a mutable result cache | changes, batches, deletions, inputs, set and invalidate results | diagnostic pipeline, daemon | handles are kept across awaits; caches are told valid by generations |
| dependency graph (`dependency-graph.ts`, `change-propagation.ts`) | edges and scopes of one compilation | scope of a file, files affected by a change | tracker | scopes and edges are computed by different code and must agree |
| language server, documents (`server/document-tracker.ts`, `routing/document.ts`) | open documents, pending changes, coalescing timer | open, change, save, close, timer | pipeline, TypeScript service | the timer, readiness and closes race |
| language server, pipeline (`server/diagnostic-pipeline.ts`, `routing/feature.ts`) | current tracker, manager, cancellation handle | batch, pull, propagation | documents, tracker, client | pull and push compute the same thing on different paths |
| diagnostics manager (`server/diagnostics-manager.ts`) | diagnostics per file and kind, batch | update, begin and end batch, evict, close, clear, republish | pipeline, client | an update that changes nothing is not published, an eviction forgets without publishing |
| TypeScript propagation (`server/diagnostic-pipeline.ts`) | runs under way, one cancellation handle for all | start, one file per `setImmediate`, cancel | documents, manager, shutdown | a run that ends wipes the handle of the next; files close and the project is disposed under it |
| lifecycle (`server/handlers/lifecycle.ts`, `routing/lifecycle.ts`, `workspace-change-handler.ts`) | phase, session, configuration | initialize, initialized (phases A, B, C), watched files, shutdown | everything above | long asynchronous phases overlap edits and shutdown |
| command line (`cli/lint.ts`, `daemon-client.ts`, `daemon-protocol.ts`) | socket, attempts, request in flight | connect, spawn, ask, await, lint locally | daemon processes | the daemon may start, hang, drain, crash or be gone at any point; several commands at once |
| daemon processes (`cli/daemon.ts`, `startDaemon`, `shutdown`) | socket file | probe, unlink, bind, close, exit | each other, through one path | between any two file operations another process runs |
| style sheets (`ganko/src/css/build-context.ts`, `compilation/symbols/symbol-table.ts`) | rules numbered by the parse, maps by number and layer | parse, build the table | tracker, binder | a file parsed on its own starts its numbers again |
| matching and cascade (`compilation/binding/cascade-binder.ts`) | none | match an element, find the declaration that wins | symbol table, element tree | backtracking, attributes known at run time only, layers and importance |
| component hosts and element tree (`compilation/binding/element-builder.ts`, `solid/impl.ts`) | memory of a resolver: hosts by name, names being resolved, modules parsed; none between builds | find the host of a component, build the elements of a file | tracker, matching, modules outside of the compilation | answers are remembered while others are half known; components return each other; a parse limit; edits in other files |
| analysis (`ganko/src/css`, `solid`, `compilation/analysis`, ...) | none | pure functions of trees and types | tracker, daemon | |

What makes them correct: requests are serial, answered once and drained before
a graceful stop; a warm answer is the answer of a cold process; a semantic model
that counts as valid has not lost or changed anything in its CSS scope; cached
results belong to the compilation they are returned for; what the editor shows is
what the current text deserves, at last.

`PROJECT.json` lists every component with its status, every hazard at its line,
the map from definitions to source lines, the runs, the mutants and the theorems.

## Modules

* `DaemonQueue` - the request loop. One action is one Node callback. `after[r]` is
  the promise request `r` was chained on and `pending` the last one, as
  `state.pending = state.pending.then(...)` does. `lint[r]` goes new, queued,
  waiting (on the pre-warm task), linting, settled. `phase` is the daemon's
  own life: draining after `shutdown()`, killing and closing while the log file
  closes, stopped (exit 0) and killed (exit 1).
* `SerialService` - what `DaemonQueue` promises its clients: a counter with numbered
  tickets. `DaemonQueue!Service` is the refinement: `place[r]` is read off `lint[r]`, the
  ticket is the order of acceptance, the counter is open, closing, ended (exit 0) or
  cut off (hard exit) as `phase` says. `ImplementsSerialService` is the abstract
  specification as a property, with its fairness.
* `LintCommand` - lint commands and daemons as operating-system processes around one
  socket path. `sock` is whose socket file is there, alive or not; a daemon is unborn,
  starting, probing, replacing, binding, serving, draining, gone; a command connects,
  waits and has printed the daemon's answer or its own. `message[c]` is its request on
  the way, in the daemon's chain, or answered. What happens inside a daemon is
  `DaemonQueue`; here it is only that a lint settles, or not.
* `DaemonWarm` - one lint request over the warm state. A request reads the solid files
  one action each (`ReadSolid`), then the CSS files, versions and evictions
  (`SyncRest`), then either answers from the warm compilation (`AnswerWarm`) or
  rebuilds (`RebuildAndAnswer`, `FailRebuild`). `Edit` is the workspace changing,
  before, between and inside requests. An answer records what it was computed
  *from* (texts, types, validator, overrides) instead of diagnostics.
* `DependencyGraph` - constant-level: edges, scopes and staleness of a compilation.
* `CompilationTracker` - the handle and its operations; `held` is a handle
  a suspended handler still has. It uses `DependencyGraph` for staleness.
* `LspDocuments` - the language server from the editor's notifications to what it
  shows. A client action is one notification and the synchronous part of its
  handler; what stands behind `await context.ready` is queued in `waiting` and
  run by `RunOpen`, `RunChange` and `RunSave`. `RunSave` and `FireTimer` share `Flush`
  (`processChangesCallback`). `BecomeReady`, `BecomeRunning` and `StartEnrichment` are
  phases A, B and C; a compilation built and not yet assigned, because the Tailwind
  evaluator is awaited, is in `building`. `program`, `trees` and `diags` hold the
  texts that the TypeScript program, the tracker's compilation and the shown
  diagnostics were made from; `buffer` is what the editor has.
* `LspDiagnostics` - what `LspDocuments` leaves out: TypeScript diagnostics, the manager,
  settings, shutdown, for several files that import each other. `view[f]` is what the
  manager holds for a file and what the editor shows; `runs` are the propagations,
  each the files it has not diagnosed yet, in the order of their `setImmediate`
  callbacks. `handle` says which of them `context.tsPropagationCancel` belongs to.
* `SymbolTable` - extends `CompilationTracker` with what an edit does to the numbers of
  rules (`alone`: the style sheets parsed on their own, in the order of their trees),
  and computes from a compilation the table, the layers, the rules in scope, those that
  match each element, and the winner. `DependencyGraph!CssScope` is the scope.
* `ComponentHost` - constant-level over a compilation: what a tag stands for. A file's
  tree holds its imports, initializers, components (the elements each of its return
  paths returns), exports and elements; a module outside is parsed when it is asked
  for. What a name, an export or a module stands for is a *term*: the nodes of its
  expression in the order in which the code evaluates them, each of which looks another
  name up or is made of nodes before it. The mutually recursive functions of the code
  are a machine over a stack of frames (a key, the term it is at, the bindings of the
  nodes so far): `Call` enters a name, `Return` remembers its binding and gives it to the
  caller, `Given` goes on to the next node. The state that outlives a call is a record
  (`known`, `busy`, `parsed`, `outside`), the code's closure variables.
* `ElementTree` - the elements of one file at a time over the tracker, with any hosts:
  `Start` takes a file, `Take` the host of its next element, `Stop` ends the build and
  `Alter` changes the compilation between builds. `Nodes` is the tree the build returns.
* `ElementBuilder` - `ElementTree` with the resolver of `ComponentHost`: `Begin` makes one,
  `Resolve` asks it for the next element's host, `Finish` drops it. Each action is one of
  `ElementTree` and what it does to the resolver's memory (`memo`).
* `SelectorMatch` - constant-level: the compiled matcher and its dispatch keys, and what a
  selector means in a document whose attributes are all known, to compare with.
* `DaemonQueueProofs`, `DaemonWarmProofs`, `CompilationTrackerProofs`,
  `SymbolTableProofs`, `ElementBuilderProofs`, `LintCommandProofs`, `LspDiagnosticsProofs`,
  `LspDocumentsProofs` - the proofs.
* `MC*` - instances for TLC.

## Runs

| run | instance | shows |
|---|---|---|
| `daemon_queue` | 3 requests | Requests are serial in arrival order; at most one reply each; a graceful stop leaves none unanswered; nothing makes a project after its disposal. It implements `SerialService`, and so, with fairness: a request that was called is served or cut off, and a service that closes ends. |
| `daemon_warm` | 2 solid files, 1 CSS file, 2 contents, 2 edits, 3 requests | Answers are those of a cold process. |
| `daemon_warm_overrides` | the same | Violation: cached cross-file results ignore the request's overrides. |
| `daemon_warm_deleted` | the same | Violation: a deleted file that has no recorded version is still reported. |
| `compilation_tracker` | 2 solid files, 3 CSS files (1 SCSS), 2 changes; documents of up to 5 elements, 13 selectors, 3 layers | Caches are the handle's own and the local scope of a file that is not stale is unchanged. Rules are lost from the table only to namesakes in a style sheet edited since; the latest edit is complete; layers stand in order; every match may hold, none is missed, and the strongest declaration wins, each with the exceptions its comment names. |
| `tracker_scss` | the same, batches only | Violation: an edit removes an SCSS file. |
| `lsp_documents` | 1 solid file, 1 CSS file, 2 texts, 4 events, 2 builds in flight | What is shown for a settled document is of the editor's text; closed documents stay clear. With fairness: an edit is diagnosed at last. |
| `lsp_pull` | the same, 3 events | Violation: a pull right after an edit uses a compilation without it. |
| `lsp_watched` | the same, 3 events | Violation: a file changed on disk never reaches the tracker. |
| `lsp_diagnostics` | 3 files, 2 of which import the third, 2 texts, 4 client events | When nothing is pending or under way, the TypeScript diagnostics of an open file are of the current program; what is shown is what is held; no diagnostics on files that are not open, no use of the disposed project, with the exceptions named. With fairness: an edit reaches the importers at last. |
| `component_hosts` | 4 solid files, 2 modules outside one of which may be parsed, 3 changes | An element has the host a fresh resolver finds; the elements of a file that is not stale are those it had; an element stands in the tree once, below its parent and in the order of the file; each with the exceptions its comment names. |
| `lint_command` | 2 commands, 3 daemons, 2 attempts to connect | Two daemons serve only if a socket file was taken from one; the ways that can happen. With fairness: every command prints a result; a daemon nobody can reach ends, unless a lint keeps it. |

Bounds. Three requests are enough for one that runs, one queued behind it and one
that arrives late, which is every relation two requests of the chain can have
to a third. `DaemonWarm` needs two edits (one to make state diverge between the
program and the versions, one to expose it) and three requests (one that syncs a
part, one that syncs all, one that sees the result). In the tracker's instance one page
imports a component with co-located CSS that may `@import` a theme that may be
imported bare: every kind of edge and every kind of scope entry occurs, and
two changes let a file be changed, a cache be set between, and another be
changed. An event of `lsp_documents` is a notification of the editor about a
document or a write by another program: four allow an edit on each side of a
build or of a save, a close and reopening around an edit, and a style sheet
made while it is being edited; pulls, watcher events, the timer and the
start-up are not counted (five events, checked once without the liveness
property, show no error either). In `compilation_tracker` the page's two trees nest and list their elements, with an
attribute, an id and a tag that are not static; the selectors use every combinator,
places, `:is` and `:not`, and two ways to backtrack; the rules put each layer, importance
and specificity against another. With two changes a style sheet is parsed alone
before or after another, which is all the order of trees depends on. Every exception
a property names does occur. The properties of the table are stated when no handler
holds an older handle (`HasCurrent`): every handle is the current one at some time.
Three files in `lsp_diagnostics` let a propagation have one file done and another to
come while a second one starts; four events make an edit, a save, a close and one
more. Three daemons are needed for one that drains, one that replaced it and one
that finds no socket after the drain; two commands for a daemon that has a lint in
its chain when the next arrives. Each command may start one daemon, and one more
is started by hand. In
`component_hosts` a page has the three kinds of tags (a name, a member of a compound, an
`as`), the menu's parts stand before or after its base, the panels may return each other
or a button from outside, and the barrel has both ways to hand a name on. One module that
may be parsed and two that are asked for reach the limit; three changes let a module be
lost, another be edited and the first come back. `Identifiers` are the names the trees
use, `MaxNodes` bounds the nodes of an initializer and the exports of a file; from both
follows `MaxBursts`, the steps after which a question must have been answered: a bound that
is proved to be enough (`ResolverEnds`), not one that cuts anything off. Symmetry is used in `DaemonWarm` only (solid files and contents), which
has no liveness property.

Fairness. In `LspDocuments` the continuations (microtasks) and the coalescing timer are
weakly fair; the timer because the user pauses (each change re-arms it). Readiness,
the program, the evaluator and the client get none: the property starts once the
program is there. In `DaemonQueue` microtasks and timers always run, so the start of a
request whose predecessor settled, the timeouts, the drain and the exit are weakly
fair. In `LspDiagnostics` the timer and `setImmediate` are. In `LintCommand` a
command goes on (it has a timer at each wait), a message that was sent to a process
is taken, and idle timers fire; daemons owe nothing else: they may hang in the
start-up, a lint or the drain. Handlers, the pre-warm task and clients get no fairness:
the user's ESLint configuration is awaited without a limit. `SerialService`
asks as much as this allows: who is first in line is called, who was called gets an
answer (the 120 s timer sees to it), a closing counter ends; nothing makes the one who
was called leave, and then nobody behind is called.

Deadlock is checked in `component_hosts`, where another build is always possible. In the
other runs the system may really stop (the daemon exits; the bounded environments run
out).

## Proofs

`DaemonQueueProofs` proves, for every set of requests, type correctness and the four
safety invariants of `daemon_queue`. The inductive invariant adds to them:
`Ranked` (accepted requests have ranks of their own), `PendingIsLast` (`state.pending`
is the last one accepted), `ChainedInOrder` (each is chained on the one accepted
just before it), `RepliesAgree` (who has answered) and `ClosedIsDrained`. The point
of the argument is that a start only knows that *one* promise has settled, and the
drain only waits for *one*: by the chain order and `SerialInOrder` both know it of
all earlier ones (`PredecessorsSettled`, `DrainedAllSettled`). The only assumption
is that the initial promise is no request.

`ServesInTurn` proves the safety part of the refinement: every step of the request
loop is a step of `SerialService` or leaves it as it is. It uses the same invariant: a
call needs that all earlier tickets are served, a peaceful end that all are.

`LintCommandProofs` proves, for every number of commands and daemons, that one daemon
serves unless a socket file was taken from one (`Owners`: who serves and still has its
file owns the path), and `OnlyStaleSocketsGo`. The second needs history: a daemon
serves once, so the file a probe found dead stays dead (`Probes`), and one that
unlinks what it found does not hurt that one. The type invariant says more than types:
a command is connecting exactly as long as it has tries left and no peer.

`DaemonWarmProofs` proves, for every workspace, set of contents and number of requests
and edits, that the versions describe the compilation between requests
(`VersionsMatchTrees`) and that both parts of an answer are a cold process's. None of the
three is inductive: an answer is made from versions which several awaits of the request
recorded, some of them in requests before. The invariant says, for each point of a
request, what is recorded already and agrees with the disk if nothing moved
(`DiskIsRecorded`), that the program has what is recorded (`ProgramHasVersions`), and that
until a request sees a change the compilation was made from all of it, types and Tailwind
included (`CompilationIsWarm`): only then may the cached results be answered. It assumes
that the value for "no request" is no request.

`LspDiagnosticsProofs` proves, for every set of files with any imports among them and any
number of propagations under way, that an open file shows what the manager holds,
that its TypeScript diagnostics are current or a run will come to it, and the two action
properties. The invariant adds that a run which nobody can cancel any more was wiped by
another (`RunsAreAccounted`; hence after the shutdown only wiped runs use the project), that
what is pending is of open documents (`PendingIsOpen`; hence a flush makes no ghosts), and
that an open file holds TypeScript diagnostics, if only none (`OpenHaveTs`): without it a
propagation that finds nothing passes over the file, and a later one would not count.

`LspDocumentsProofs` proves, for every workspace and every number of events, builds and
waiting continuations, what is shown of a settled document. "Settled" is not kept by
steps, so the invariant is about documents the server has *caught up with* (`Caught`): the
open was handled, and every change but the open's own. Of these the pending text is the
editor's, or nothing is pending and the program has it (`SingleIsOfProgram`), the tracker has
it or the *last* build in flight does (`CrossIsOfTracker`). That a document is caught up with
rests on the order of the continuations (`InOrder`): those of a closed document come before
the open of the next, and a change follows every open; a continuation that finds its
document closed is then always followed by one that brings the text of the new one. Before
readiness no open was handled, and once the program is there none waits for a document that
was closed (`ReadyFirst`): this is why only the start-up may diagnose a closed document
(`ClosedStayClear`). TLC checks each of these invariants on the run's instance. It assumes
that "no text" is neither a text nor a tree.

`CompilationTrackerProofs` proves, for every workspace, every set of possible trees
and every bound, that the handles (current and kept) keep their types, return
only results of their own compilation and text, and that a solid file that is not
stale has its first tree and so has all CSS of its own scope. That last property is
not inductive: whether a file is stale now depends on the graph of the current
compilation, which a step replaces. The invariant therefore says what history
leaves behind: every file that differs from its first tree is recorded in
`directlyChanged`, and the stale set is what the graph of the current compilation
makes of that record.

`LocalScopeIsAffected` says that in every compilation reverse edges lead from any file of a
solid file's own CSS scope back to it. It needs that co-located and imported CSS become
edges; that a breadth-first search is modelled as the least closed set makes it provable
without induction. It then turns a changed scope file into a stale solid file.

The first part of `SymbolTableProofs` proves, for every document, every selector and all
values attributes may have at run time, what the matcher's three answers mean (`MatchMeans`), that what it
does not refuse holds for some of these values (`MatchMayHold`), and that a
selector it does not refuse is found through the index (`MatchIsFound`). Ancestors, answers
of a chain and its meaning are recursive functions: that they exist follows from
well-founded recursion on the natural numbers, and what they compute is shown by a least
or greatest counterexample (`Least`, `Greatest`) in place of induction. An `nth` pattern holds for
some number of repetitions `n`; the proof bounds `n` by the length of the document and the
offset, which is the bound the reference definition uses. For `MatchMayHold` the values are
built from the last compound back to the subject: each element on the way stands before the
one it is reached from (`RelatedStandBefore`), so it can be given its own values without
disturbing those of the others (`CanFit`). The assumptions (`IsDocument`,
`IsSelector`) say what the types say, that a parent stands before its children, and that
the text of a style sheet is not the value that stands for "not static".

The second part proves, for every workspace and every sequence of edits, that the rules
of the latest edit are in the table (`TheLatestEditStands`), that a rule is lost only to a
namesake in a style sheet parsed on its own (`LostOnlyToNamesakes`), that layers keep
the order of the full build (`LayersKeepOrder`), that matches may hold and no match is
missed (`MatchesAlwaysHold`, `NothingIsMissed`) and that the strongest declaration wins
(`TheStrongestWins`). The
inductive invariant `TableInv` says which style sheets were parsed alone (`alone` names each
once, and only ones in the compilation), that all others have the tree of the first
compilation, and keeps the tracker's own invariant. Without it the properties do not
follow: a tree that is neither the first one nor parsed alone could have any numbers. The rest is about the
operators. A rule's place in the table is found through the places of concatenated and
filtered lists (`FlattenPlaces`, `KeptMeans`, `KeptInOrder`), and through a fold that
overwrites (`TableFills`, `LastOfNumber`): of the rules with one number the last stands. That
numbers of the full build lie apart (`NumbersLieApart`) needs that the sum of the sizes of
the earlier style sheets does not depend on the order in which it is taken (`SumWithout`,
`SumGrows`). A layer's place is the first at which any list of any style sheet names it:
first places are compared through two levels of nested lists (`FlattenPrecedes`,
`LayersPrecede`), and the map lists each layer once, at that place (`MapIsInOrder`).
The winner is the last of a fold over the
matches; that none beats it needs that a rule above another is also above whatever is not
above that one (`AboveOrders`, `BestIsAbove`). `Kept` stands for `SelectSeq`, which
the provers cannot expand.
The assumptions: the full build's order lists each style sheet once, selectors, rules and
documents are well formed, "no rule" is no rule, and an attribute that is not static may have
any value that a selector asks for.

`ElementBuilderProofs` is about the elements of a file. Its first part proves, for every
file, every compilation the edits lead to and *any* hosts, that each element that takes part
stands in the tree once, below its parent, and siblings in the order of the file
(`ElementsKeepOrder`; `BuilderKeepsOrder` with the hosts that the resolver finds). What one
call of `visitRecord` adds is the line from an element upwards to the
first that has been visited, takes no part or was met before; the line ends
because a file has no more elements than it has, by the pigeonhole principle
(`VisitMeans`). The invariant of the sort (`InOrder`): after the elements up to one are
visited, all of them that take part stand, once; a parent stands before its child or below
it; and each stands for itself or for an element below it (`VisitedFor`) that was visited
after all elements before it, and whose own parent did not stand yet. The last part explains
every exception of the order. The attempt to prove the first form of the property found that it
lacked one: a parent that takes no part.

The second part is about the resolver of component hosts, in any workspace with any
circles of names, and goes in four steps.

* The calls. `Good` says of a resolver in the middle of its calls that the names it is
  resolving are those on its stack, each once, and that each frame waits for the one above
  it. So a name that is asked for again while it is being resolved is one that is found busy.
* They end (`ResolverEnds`). A frame weighs what it has left to evaluate; the names that
  have not been entered yet are a budget of which each pays for one frame (`Budget`), and
  a namespace, which the code does not mark, is paid for by the node that asks for it, since no
  namespace waits for another (`SpaceAsksForNames`). Every step uses up some of it, so a question
  ends within `MaxBursts`. With `Good`, nothing is then left as being resolved
  (`ResolverRests`; the invariant is `BuilderInv`).
* What is remembered does not matter (`HostsArePlain`). A key is `Clear` if what it rests on
  goes round in no circle and leads outside only while modules may still be parsed: a
  clear name is never found busy and its imports are never refused. What is remembered of a clear
  key is `Justified`: its terms before one have no binding and that one has this, given what
  is remembered of the names its nodes ask for. `Sound` says so of the memory and of
  every frame on its way, and steps keep it; a key has one justified binding. A second resolver
  without a memory then `Follows` the first: at each step its frames are justified by
  the first one's memory, and it comes to the same binding. The inductive invariant
  (`HostsInv`) says that the hosts found so far are what the memory says.
* An edit that leaves a file not stale leaves its elements (`UnstaleElementsAreKept`). The files
  from which a change goes on to a file (`Feeds`) have what they import among them, and
  none of them has changed, because the tracker's invariant says that what changed is recorded and
  the stale set is closed. So what the elements of the file rest on has the same terms in
  both compilations, and its imports lead into both or into neither (`Alike`), unless a
  re-export is on the way or a module was lost. Then a resolver takes the same steps in both
  (`StepSame`). The proof found that the property allowed more than it has to: a
  re-export on the way in the *first* compilation need not be excepted, and the property
  the run checks does not except it any more.

The assumptions say what the parser yields: the elements of a file are a sequence, names
and nodes are finitely many, the names in the trees are `Identifiers`, every element
has a tag, since fragments are left out (`IdentifiersAssumption`), and a file imports the
modules its imported names are from (`ImportsAssumption`). Modules outside are none of the
workspace's files (`ExternalAssumption`) and do not import them: an installed package does
not depend on the program that uses it, and if one did, no edge of the graph would say so.
"None" is no key (`NoKeyAssumption`).

Every invariant and every action property of a passing run is stated by a theorem. Model-checked
only is liveness under fairness, which is outside this prover: `CatchesUp`, `TsCatchesUp`,
`EveryLintEnds`, `UnreachableEnds` and the fairness of `ImplementsSerialService`. Nothing is
proved of the resolver's answer for names in a circle, beyond that there is one: it does
depend on the order of questions. `DependencyGraph` has the pure part of its module, and its
facts are proved in `CompilationTrackerProofs`.

## Findings

Each violation run is one, with a quoted document, comment or test, in
`PROJECT.json`.

## Observations

Not findings, because no document says otherwise, but the exceptions that the
properties name, each reached in its run:

* `lsp_diagnostics`: opening a document with another text, pulling a closed one and
  closing an edited one change the program without a propagation to the files that
  import it (`behind`). A run that ends sets the shared handle to null, so that a later
  cancellation or a shutdown misses the run that owns it (`wiped`).
* `lint_command`: a draining daemon removes the path twice, when it closes and when it
  exits; the second time it may be its successor's, which then serves nobody until its
  idle timer fires. `writeMessage` returns false under back-pressure too, so the command
  lints locally while the daemon works on its request.
* `compilation_tracker`: rules of a style sheet parsed alone take the place of others of
  the same number until the next full build, and its layers move to the end. A list
  `@layer a, b` is one name. A rule in no layer counts as in the first. A selector whose
  subject is `*` or has only pseudo-classes is filed nowhere and matches nothing. Within
  `:is` and `:not` an attribute that may match counts as one that does. A selector that asks
  one attribute for two values is a conditional match of an element where its value is not
  static, though no value satisfies it (`Contradicts`). The fallbacks of
  `matchesChain` to root elements and to the element index have no caller. CSS that a file
  imports for its side effect is in scope of every file, and only its importers become
  stale when it changes: `LocalScopeIsStale` is about a file's own scope.
* `component_hosts`: components that return each other have hosts that depend on which
  element of the page comes first. After the limit of parsed modules a module that was
  parsed already is not found by another importer. `export { X } from` makes no edge, and a
  module that is lost loses those that lead to it, so files behind them keep elements of
  an older module without being stale. A compound's part that stands before its base
  makes siblings count in another order than they stand in. A compound that puts its
  children in a `<Show>` gives its parts no parent node, though they count as siblings. By
  reading only:
  `findJSXElementFromExpression` returns any JSX element before it looks for a
  `Context.Provider`, so that branch is never reached; `export *` is ignored.

## Plan

1. Reloading the ESLint configuration and Tailwind entries in the language server.
2. Media and container conditions, shorthands and `var()` in the cascade.
3. Prop bindings and inline styles of elements; fragments and context providers as what a
   component returns.

## Not modelled

Parsing, the framing of messages, the rules and their verdicts (pure functions of
what the modules track), the ESLint adapter, the editor extension's user interface
and generated tables. How a package name becomes a file on disk (`ExternalTree` says what
it leads to), and the text an element contains. `LspDocuments` leaves out TypeScript's own diagnostics, which
`LspDiagnostics` has, and solid files made or removed on disk, which `DaemonWarm` has
for the daemon. Other open files' cross-file diagnostics are not refreshed by an
edit in the code either. The worker pool (`createWorkerPool`) has no caller. The pid file
is written and never read. Most of the source by size is in these parts: syntax
entities, text processing, rule bodies and tables, which have no state and no order of
events.
