------------------------------ MODULE DaemonWarm ------------------------------
(***************************************************************************)
(* What the daemon keeps warm between lint requests and how one request    *)
(* brings it up to date (handleLintRequest in                              *)
(* packages/lsp/src/cli/daemon.ts): the content versions it has seen, the  *)
(* TypeScript program, the compilation and the tracker's cached cross-file *)
(* results.  Requests are serialized (module DaemonQueue), so there is at  *)
(* most one; the workspace changes at any time, in the request's awaits too.*)
(*                                                                         *)
(* Diagnostics are a function of the texts the trees were parsed from, of  *)
(* the program's texts (types), of the Tailwind validator and of the rule  *)
(* overrides: an answer records those instead.  Content hashes are taken   *)
(* as injective.  Library-provided custom properties are compared, stored  *)
(* and used where CSS contents are: Css stands for both.                   *)
(***************************************************************************)
EXTENDS Naturals

CONSTANTS
  Solid, Css,    \* the solid and the CSS files of the workspace
  Contents,      \* file contents
  Absent,        \* no content: no such file, or never seen
  Overrides,     \* what the project's ESLint configuration can say
  NoOverrides,   \* what a request gets that opts out of the configuration
  Nothing,       \* no request, no answer, no cached results
  MaxEdits, MaxRequests  \* bounds on the environment

ASSUME FilesAssumption == Solid \cap Css = {} /\ Absent \notin Contents
ASSUME OverridesAssumption == NoOverrides \in Overrides /\ Nothing \notin Overrides
ASSUME BoundsAssumption == MaxEdits \in Nat /\ MaxRequests \in Nat

Files == Solid \cup Css
Text == Contents \cup {Absent}

VARIABLES
  disk,         \* the workspace
  eslint,       \* the overrides its ESLint configuration has now
  preloaded,    \* state.eslintConfig until the first request (the pre-warm's)
  versions,     \* state.contentVersions
  program,      \* the text the TypeScript service has for each solid file
  tailwind,     \* state.tailwind # null
  compilation,  \* state.tracker.currentCompilation
  cached,       \* the tracker's cross-file results for it
  request,      \* the lint request being handled
  answer,       \* the last answer, until the workspace changes
  edits, requests,  \* counters for the bounds
  moved,        \* history: did the workspace change during the request?
  degraded      \* history: did the last attempt to rebuild lose something?

warmVars == <<versions, program, tailwind, compilation, cached>>
envVars == <<disk, eslint, edits>>
vars == <<envVars, preloaded, warmVars, request, answer, requests, moved, degraded>>

(* A request: --no-cross-file or not, the files named (none: all of them), *)
(* its overrides, the registry it scanned, the solid files left to read,   *)
(* whether anything changed, what the CSS files contained and whether a    *)
(* registered file could not be read.                                      *)
Request == [at: {"reading", "resolving"}, crossFile: BOOLEAN, files: SUBSET Files,
            all: BOOLEAN, overrides: Overrides, registry: SUBSET Files, todo: SUBSET Solid,
            changed: BOOLEAN, css: [Css -> Text], unread: BOOLEAN]
Compilation == [trees: [Files -> Text], types: [Solid -> Text], tailwind: BOOLEAN]
CrossResults == [of: Compilation, overrides: Overrides]

ASSUME NothingAssumption == Nothing \notin Request

TypeOK ==
  /\ disk \in [Files -> Text] /\ eslint \in Overrides
  /\ preloaded \in Overrides \cup {Nothing}
  /\ versions \in [Files -> Text] /\ program \in [Solid -> Text]
  /\ tailwind \in BOOLEAN /\ compilation \in Compilation
  /\ cached = Nothing \/ cached \in CrossResults
  /\ request = Nothing \/ request \in Request
  /\ answer = Nothing \/ answer \in
       [single: Compilation, files: SUBSET Files, all: BOOLEAN, overrides: Overrides,
        cross: {Nothing} \cup CrossResults]
  /\ edits \in 0..MaxEdits /\ requests \in 0..MaxRequests
  /\ moved \in BOOLEAN /\ degraded \in BOOLEAN

NoTrees == [trees |-> [f \in Files |-> Absent], types |-> [f \in Solid |-> Absent],
            tailwind |-> FALSE]

(* The pre-warm task has loaded the configuration and made the project,    *)
(* whose first program reads the solid files of the tsconfig.              *)
Init ==
  /\ disk \in [Files -> Text] /\ eslint \in Overrides
  /\ preloaded = eslint
  /\ versions = [f \in Files |-> Absent]
  /\ program = [f \in Solid |-> disk[f]]
  /\ tailwind = FALSE
  /\ compilation = NoTrees /\ cached = Nothing
  /\ request = Nothing /\ answer = Nothing
  /\ edits = 0 /\ requests = 0 /\ moved = FALSE /\ degraded = FALSE
------------------------------------------------------------------------------
(* The workspace changes: a file is written, made or removed, or the       *)
(* ESLint configuration is edited.                                         *)
Edit ==
  /\ edits < MaxEdits
  /\ edits' = edits + 1
  /\ \/ \E f \in Files, t \in Text :
          disk[f] # t /\ disk' = [disk EXCEPT ![f] = t] /\ UNCHANGED eslint
     \/ \E o \in Overrides : o # eslint /\ eslint' = o /\ UNCHANGED disk
  /\ moved' = (request # Nothing)
  /\ answer' = Nothing
  /\ UNCHANGED <<preloaded, warmVars, request, requests, degraded>>

Registry == {f \in Files : disk[f] # Absent}

(* The first request takes the pre-warm's configuration, later ones load   *)
(* it; --no-eslint-config takes neither.                                   *)
RequestOverrides(noEslintConfig) ==
  IF noEslintConfig THEN NoOverrides
  ELSE IF preloaded # Nothing THEN preloaded ELSE eslint

(* --no-cross-file syncs only the solid files that are linted.             *)
SyncedSolid_Linted(crossFile, files) == files \cap Solid
SyncedSolid_All(crossFile, files) == Registry
SyncedSolid(crossFile, files) == IF crossFile THEN Registry \cap Solid ELSE files \cap Solid

(* handleLintRequest up to the file scan; with nothing to lint it answers  *)
(* at once and syncs nothing.                                              *)
StartRequest(crossFile, named, noEslintConfig) ==
  LET files == IF named = {} THEN Registry ELSE named
  IN  /\ request = Nothing /\ requests < MaxRequests
      /\ request' =
           IF files = {} THEN Nothing
           ELSE [at |-> "reading", crossFile |-> crossFile, files |-> files,
                 all |-> named = {}, overrides |-> RequestOverrides(noEslintConfig),
                 registry |-> Registry, todo |-> SyncedSolid(crossFile, files),
                 changed |-> FALSE, css |-> [c \in Css |-> Absent], unread |-> FALSE]
      /\ preloaded' = Nothing
      /\ requests' = requests + 1 /\ moved' = FALSE /\ answer' = Nothing
      /\ UNCHANGED <<envVars, warmVars, degraded>>

(* A file that was read differs from the version seen before.              *)
Differs_NewOnly(f) == disk[f] # Absent /\ versions[f] = Absent
Differs(f) == disk[f] # Absent /\ versions[f] # disk[f]

(* One round of the read loop: a file that cannot be read is skipped, one  *)
(* that differs from its version updates the program.                      *)
ReadSolid(f) ==
  /\ request # Nothing /\ request.at = "reading" /\ f \in request.todo
  /\ request' = [request EXCEPT
       !.todo = @ \ {f}, !.changed = @ \/ Differs(f),
       !.unread = @ \/ (disk[f] = Absent /\ f \in request.registry)]
  /\ versions' = IF Differs(f) THEN [versions EXCEPT ![f] = disk[f]] ELSE versions
  /\ program' = IF Differs(f) THEN [program EXCEPT ![f] = disk[f]] ELSE program
  /\ UNCHANGED <<envVars, preloaded, tailwind, compilation, cached, answer, requests,
                 moved, degraded>>

(* The versions once the CSS files have been read and the files that left  *)
(* the registry evicted.                                                   *)
SyncedVersions_NoEviction ==
  [f \in Files |-> IF f \in Css \cap request.registry /\ disk[f] # Absent
                   THEN disk[f] ELSE versions[f]]
SyncedVersions ==
  [f \in Files |-> IF f \notin request.registry THEN Absent
                   ELSE IF f \in Css /\ disk[f] # Absent THEN disk[f] ELSE versions[f]]

(* After the read loop, in one go: CSS contents, evictions.  The Tailwind  *)
(* validator is evaluated again only if something changed.                 *)
SyncRest ==
  /\ request # Nothing /\ request.at = "reading" /\ request.todo = {}
  /\ versions' = SyncedVersions
  /\ request' = [request EXCEPT
       !.at = "resolving",
       !.changed = @ \/ SyncedVersions # versions,
       !.css = [c \in Css |-> IF c \in request.registry THEN disk[c] ELSE Absent],
       !.unread = @ \/ \E c \in Css \cap request.registry : disk[c] = Absent]
  /\ UNCHANGED <<envVars, preloaded, program, tailwind, compilation, cached, answer,
                 requests, moved, degraded>>
------------------------------------------------------------------------------
(* The program a rebuild gets: a file no request has synced keeps the text *)
(* it was first read with (its script version stays 0), except that it may *)
(* be dropped when it is gone and found, by an import, when it is new.     *)
Programs ==
  {p \in [Solid -> Text] : \A f \in Solid :
     p[f] # program[f] =>
       versions[f] = Absent /\ p[f] = disk[f] /\ Absent \in {p[f], program[f]}}

(* buildFullCompilation over the registry: solid trees from the program's  *)
(* texts, CSS trees from the contents the request read.                    *)
Built(p, validator) ==
  [trees |-> [f \in Files |-> IF f \notin request.registry THEN Absent
                              ELSE IF f \in Css THEN request.css[f] ELSE p[f]],
   types |-> p, tailwind |-> validator]

(* A new tracker starts without cached cross-file results.                 *)
KeptResults == Nothing

(* The answer: single-file rules over the compilation's trees, then the    *)
(* cached cross-file results, or those of a new analysis, which are cached.*)
AnswerFrom(comp, results) ==
  LET fresh == [of |-> comp, overrides |-> request.overrides]
      cross == IF results # Nothing THEN results ELSE fresh
  IN  /\ answer' = [single |-> comp, files |-> request.files,
                    all |-> request.all, overrides |-> request.overrides,
                    cross |-> IF request.crossFile THEN cross ELSE Nothing]
      /\ cached' = IF request.crossFile THEN cross ELSE results

(* Nothing changed: the warm compilation answers.                          *)
AnswerWarm ==
  /\ request # Nothing /\ request.at = "resolving" /\ ~request.changed
  /\ AnswerFrom(compilation, cached)
  /\ request' = Nothing
  /\ UNCHANGED <<envVars, preloaded, versions, program, tailwind, compilation, requests,
                 moved, degraded>>

(* Something changed: the Tailwind evaluation may fail (no validator then),*)
(* the compilation is rebuilt and gets a new tracker.                      *)
RebuildAndAnswer ==
  /\ request # Nothing /\ request.at = "resolving" /\ request.changed
  /\ \E evaluated \in BOOLEAN, p \in Programs :
       /\ tailwind' = evaluated /\ program' = p
       /\ compilation' = Built(p, evaluated)
       /\ AnswerFrom(Built(p, evaluated), KeptResults)
       /\ degraded' = (~evaluated \/ request.unread)
  /\ request' = Nothing
  /\ UNCHANGED <<envVars, preloaded, versions, requests, moved>>

(* The program, a parser or the evaluator's spawn throws: the client gets  *)
(* an error, the versions stay advanced, the old tracker stays.            *)
FailRebuild ==
  /\ request # Nothing /\ request.at = "resolving" /\ request.changed
  /\ tailwind' \in BOOLEAN /\ program' \in Programs
  /\ request' = Nothing /\ degraded' = TRUE
  /\ UNCHANGED <<envVars, preloaded, versions, compilation, cached, answer,
                 requests, moved>>

Next ==
  \/ Edit
  \/ \E crossFile, noEslintConfig \in BOOLEAN, named \in SUBSET Solid :
       StartRequest(crossFile, named, noEslintConfig)
  \/ \E f \in Solid : ReadSolid(f)
  \/ SyncRest \/ AnswerWarm \/ RebuildAndAnswer \/ FailRebuild

Spec == Init /\ [][Next]_vars
------------------------------------------------------------------------------
(* The answers a cold process would give are those made from the texts on  *)
(* disk.  They are owed only when the workspace held still during the      *)
(* request (the reads are not atomic) and no rebuild lost something since  *)
(* the last complete one (FailRebuild's versions are not rolled back).     *)
Owed == answer # Nothing /\ ~moved /\ ~degraded

(* Between requests the recorded versions describe the compilation, so     *)
(* "no version changed" does mean that the warm compilation is current.    *)
VersionsMatchTrees ==
  (request = Nothing /\ ~degraded) =>
    \A f \in Files : versions[f] # Absent => compilation.trees[f] = versions[f]

(* The cross-file part of an answer is computed from every file on disk    *)
(* with the text it has there, whatever requests, failures and edits came  *)
(* before: --no-cross-file requests sync only part of the workspace.       *)
CrossAnswerIsCold ==
  Owed /\ answer.cross # Nothing =>
    /\ \A f \in Registry : answer.cross.of.trees[f] = disk[f]
    /\ \A f \in Registry \cap Solid : answer.cross.of.types[f] = disk[f]
    /\ Registry # {} => answer.cross.of.tailwind

(* The single-file part reads every linted file as it is on disk.          *)
SingleAnswerIsCold ==
  Owed => \A f \in answer.files \cap Registry : answer.single.trees[f] = disk[f]

(* daemon.test.ts "reflects ESLint config override changes between daemon  *)
(* runs": both parts of an answer use the request's own overrides.         *)
CrossUsesOwnOverrides ==
  answer # Nothing /\ answer.cross # Nothing => answer.cross.overrides = answer.overrides

(* daemon.test.ts "does not leak diagnostics from deleted files into       *)
(* subsequent runs": a run over the whole workspace reports no file that   *)
(* is not there any more.                                                  *)
NoDeletedFileReported ==
  Owed /\ answer.all /\ answer.cross # Nothing =>
    \A f \in Files : answer.cross.of.trees[f] # Absent => disk[f] # Absent
==============================================================================
