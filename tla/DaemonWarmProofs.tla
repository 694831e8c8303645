--------------------------- MODULE DaemonWarmProofs ---------------------------
(***************************************************************************)
(* A warm answer is a cold one, for every workspace, every sequence of     *)
(* requests and edits, and every bound on them.                            *)
(*                                                                         *)
(* The properties speak of answers and of the time between requests.  What *)
(* makes them inductive is what holds inside a request: as long as it has  *)
(* seen no change, the versions still describe the compilation; what it    *)
(* has read has the versions it was read with; and if the workspace held   *)
(* still, that is what is on disk.                                         *)
(***************************************************************************)
EXTENDS DaemonWarm, TLAPS

(* The program has the text of every version that was recorded.            *)
ProgramHasVersions == \A f \in Solid : versions[f] # Absent => program[f] = versions[f]

(* The compilation was made from f as it is recorded, types and all.       *)
MadeFrom(f) ==
  /\ compilation.tailwind /\ compilation.trees[f] = versions[f]
  /\ f \in Solid => compilation.types[f] = versions[f]

(* Until a request sees a change, and unless a rebuild lost something, the *)
(* compilation was made from all that is recorded.                         *)
SeesNoChange == request = Nothing \/ ~request.changed
CompilationIsWarm ==
  ~degraded /\ SeesNoChange => \A f \in Files : versions[f] # Absent => MadeFrom(f)

ResultsAreOfCompilation == cached # Nothing => cached.of = compilation

(* A request that is done reading has forgotten the files that are gone    *)
(* and recorded the style sheets it read.                                  *)
Resolving == request # Nothing /\ request.at = "resolving"
SheetsAreRecorded ==
  Resolving =>
    /\ \A f \in Files \ request.registry : versions[f] = Absent
    /\ \A c \in Css \cap request.registry :
         IF request.css[c] = Absent THEN request.unread ELSE versions[c] = request.css[c]

(* A request during which nothing moved has seen the files that are there, *)
(* and has recorded the text on disk of those it is done with.             *)
Synced(f) == f \in Solid /\ (request.crossFile \/ f \in request.files) /\ f \notin request.todo
DiskIsRecorded ==
  request # Nothing /\ ~moved =>
    /\ request.registry = Registry
    /\ \A f \in Registry : Synced(f) => versions[f] = disk[f]
    /\ Resolving => request.todo = {} /\ \A c \in Css \cap Registry : request.css[c] = disk[c]

AnswerIsLast == request # Nothing => answer = Nothing

(* The inductive invariant.                                                *)
IInv ==
  /\ TypeOK
  /\ ProgramHasVersions /\ CompilationIsWarm /\ ResultsAreOfCompilation
  /\ SheetsAreRecorded /\ DiskIsRecorded /\ AnswerIsLast
  /\ CrossAnswerIsCold /\ SingleAnswerIsCold
------------------------------------------------------------------------------
(* Type correctness.                                                       *)
LEMMA ReadRequest ==
  ASSUME TypeOK, NEW f \in Solid, ReadSolid(f) PROVE request \in Request /\ request' \in Request
  BY NothingAssumption DEF TypeOK, ReadSolid, Request, Differs, Files

LEMMA SyncedRequest ==
  ASSUME TypeOK, SyncRest PROVE request \in Request /\ request' \in Request
<1>1. request \in Request
  BY NothingAssumption DEF TypeOK, SyncRest
<1> QED
  BY <1>1 DEF TypeOK, SyncRest, Request, Files, Text

LEMMA TypeInductive == TypeOK /\ [Next]_vars => TypeOK'
<1> SUFFICES ASSUME TypeOK, [Next]_vars PROVE TypeOK'
  OBVIOUS
<1> USE FilesAssumption, BoundsAssumption DEF TypeOK, Text, Files
<1>1. CASE Edit
  BY <1>1 DEF Edit, warmVars
<1>2. ASSUME NEW crossFile \in BOOLEAN, NEW noEslintConfig \in BOOLEAN, NEW named \in SUBSET Solid,
             StartRequest(crossFile, named, noEslintConfig)
      PROVE  TypeOK'
  <2> DEFINE files == IF named = {} THEN Registry ELSE named
             new == [at |-> "reading", crossFile |-> crossFile, files |-> files,
                     all |-> named = {}, overrides |-> RequestOverrides(noEslintConfig),
                     registry |-> Registry, todo |-> SyncedSolid(crossFile, files),
                     changed |-> FALSE, css |-> [c \in Css |-> Absent], unread |-> FALSE]
  <2>1. RequestOverrides(noEslintConfig) \in Overrides
    BY OverridesAssumption DEF RequestOverrides
  <2>2. new \in Request
    BY <2>1 DEF Request, Registry, SyncedSolid
  <2>3. request' = Nothing \/ request' = new
    BY <1>2 DEF StartRequest
  <2>4. /\ requests < MaxRequests /\ requests' = requests + 1 /\ preloaded' = Nothing
        /\ moved' = FALSE /\ answer' = Nothing /\ UNCHANGED <<envVars, warmVars, degraded>>
    BY <1>2 DEF StartRequest
  <2>5. requests' \in 0..MaxRequests
    BY <2>4
  <2>6. request' = Nothing \/ request' \in Request
    BY <2>2, <2>3
  <2> QED
    BY <2>4, <2>5, <2>6 DEF envVars, warmVars
<1>3. ASSUME NEW f \in Solid, ReadSolid(f) PROVE TypeOK'
  BY <1>3, ReadRequest DEF ReadSolid, envVars
<1>4. CASE SyncRest
  <2>1. SyncedVersions \in [Files -> Text]
    BY DEF SyncedVersions
  <2> QED
    BY <1>4, <2>1, SyncedRequest DEF SyncRest, envVars
<1>5. CASE AnswerWarm
  BY <1>5 DEF AnswerWarm, AnswerFrom, Request, CrossResults, envVars
<1>6. CASE RebuildAndAnswer
  BY <1>6 DEF RebuildAndAnswer, AnswerFrom, Built, Programs, KeptResults, Request, CrossResults, Compilation, envVars
<1>7. CASE FailRebuild
  BY <1>7 DEF FailRebuild, Programs, envVars
<1>8. CASE UNCHANGED vars
  BY <1>8 DEF vars, envVars, warmVars
<1> QED
  BY <1>1, <1>2, <1>3, <1>4, <1>5, <1>6, <1>7, <1>8 DEF Next
------------------------------------------------------------------------------
(* What the actions do to the request.                                     *)
LEMMA Starting ==
  ASSUME TypeOK, TypeOK',
         NEW crossFile \in BOOLEAN, NEW noEslintConfig \in BOOLEAN, NEW named \in SUBSET Solid,
         StartRequest(crossFile, named, noEslintConfig)
  PROVE  /\ request = Nothing /\ answer' = Nothing /\ UNCHANGED <<disk, warmVars, degraded>>
         /\ request' # Nothing =>
              /\ request'.at = "reading" /\ ~request'.changed /\ request'.registry = Registry
              /\ \A f \in Registry : (f \in Solid /\ (request'.crossFile \/ f \in request'.files)) =>
                   f \in request'.todo
  BY DEF StartRequest, SyncedSolid, envVars

LEMMA Reading ==
  ASSUME TypeOK, TypeOK', NEW f \in Solid, ReadSolid(f)
  PROVE  /\ request # Nothing /\ request.at = "reading" /\ request' # Nothing
         /\ request'.at = "reading" /\ request'.todo = request.todo \ {f}
         /\ request'.crossFile = request.crossFile /\ request'.files = request.files
         /\ request'.registry = request.registry
         /\ ~request'.changed => ~request.changed /\ ~Differs(f)
<1>1. request \in Request /\ request # Nothing /\ request' # Nothing
  BY ReadRequest, NothingAssumption
<1> QED
  BY <1>1 DEF ReadSolid, Request

LEMMA Syncing ==
  ASSUME TypeOK, TypeOK', SyncRest
  PROVE  /\ request # Nothing /\ request.at = "reading" /\ request.todo = {} /\ request' # Nothing
         /\ request'.at = "resolving" /\ request'.todo = {}
         /\ request'.crossFile = request.crossFile /\ request'.files = request.files
         /\ request'.registry = request.registry
         /\ request'.css = [c \in Css |-> IF c \in request.registry THEN disk[c] ELSE Absent]
         /\ ~request'.changed => ~request.changed /\ SyncedVersions = versions
         /\ (\E c \in Css \cap request.registry : disk[c] = Absent) => request'.unread
<1>1. request \in Request /\ request # Nothing /\ request' # Nothing
  BY SyncedRequest, NothingAssumption
<1>2. /\ request.at = "reading" /\ request.todo = {}
      /\ request'.at = "resolving" /\ request'.todo = {}
      /\ request'.crossFile = request.crossFile /\ request'.files = request.files
      /\ request'.registry = request.registry
  BY <1>1 DEF SyncRest, Request
<1>3. request'.css = [c \in Css |-> IF c \in request.registry THEN disk[c] ELSE Absent]
  BY <1>1 DEF SyncRest, Request
<1>4. ~request'.changed => ~request.changed /\ SyncedVersions = versions
  BY <1>1 DEF SyncRest, Request
<1>5. (\E c \in Css \cap request.registry : disk[c] = Absent) => request'.unread
  BY <1>1 DEF SyncRest, Request
<1> QED
  BY <1>1, <1>2, <1>3, <1>4, <1>5
------------------------------------------------------------------------------
(* The invariant, action by action.  An edit forgets the answer, and what  *)
(* moved says that the rest of a request owes nothing.                     *)
LEMMA EditKeeps == ASSUME IInv, TypeOK', Edit PROVE IInv'
<1> USE DEF IInv
<1>1. /\ UNCHANGED <<versions, program, tailwind, compilation, cached, request, degraded>>
      /\ answer' = Nothing /\ (request # Nothing => moved')
  BY DEF Edit, warmVars
<1>2. ProgramHasVersions' /\ CompilationIsWarm' /\ ResultsAreOfCompilation' /\ SheetsAreRecorded'
  BY <1>1 DEF ProgramHasVersions, CompilationIsWarm, SeesNoChange, MadeFrom, ResultsAreOfCompilation,
              SheetsAreRecorded, Resolving
<1>3. DiskIsRecorded' /\ AnswerIsLast' /\ CrossAnswerIsCold' /\ SingleAnswerIsCold'
  BY <1>1 DEF DiskIsRecorded, AnswerIsLast, CrossAnswerIsCold, SingleAnswerIsCold, Owed
<1> QED
  BY <1>2, <1>3

LEMMA StartKeeps ==
  ASSUME IInv, TypeOK',
         NEW crossFile \in BOOLEAN, NEW noEslintConfig \in BOOLEAN, NEW named \in SUBSET Solid,
         StartRequest(crossFile, named, noEslintConfig)
  PROVE  IInv'
<1> USE DEF IInv
<1>1. /\ request = Nothing /\ answer' = Nothing /\ UNCHANGED <<disk, warmVars, degraded>>
      /\ request' # Nothing =>
           /\ request'.at = "reading" /\ ~request'.changed /\ request'.registry = Registry
           /\ \A f \in Registry : (f \in Solid /\ (request'.crossFile \/ f \in request'.files)) =>
                f \in request'.todo
  BY Starting
<1>2. ProgramHasVersions' /\ CompilationIsWarm' /\ ResultsAreOfCompilation'
  BY <1>1 DEF ProgramHasVersions, CompilationIsWarm, SeesNoChange, MadeFrom, ResultsAreOfCompilation, warmVars
<1>3. SheetsAreRecorded' /\ DiskIsRecorded' /\ AnswerIsLast'
  BY <1>1 DEF SheetsAreRecorded, DiskIsRecorded, AnswerIsLast, Resolving, Synced, Registry
<1>4. CrossAnswerIsCold' /\ SingleAnswerIsCold'
  BY <1>1 DEF CrossAnswerIsCold, SingleAnswerIsCold, Owed
<1> QED
  BY <1>2, <1>3, <1>4

(* A file that is read is recorded with the text it has on disk.           *)
LEMMA ReadKeeps == ASSUME IInv, TypeOK', NEW f \in Solid, ReadSolid(f) PROVE IInv'
<1> USE DEF IInv
<1>1. /\ request # Nothing /\ request.at = "reading" /\ request' # Nothing
      /\ request'.at = "reading" /\ request'.todo = request.todo \ {f}
      /\ request'.crossFile = request.crossFile /\ request'.files = request.files
      /\ request'.registry = request.registry
      /\ ~request'.changed => ~request.changed /\ ~Differs(f)
  BY Reading
<1>2. /\ UNCHANGED <<disk, tailwind, compilation, cached, answer, moved, degraded>>
      /\ Differs(f) => /\ versions' = [versions EXCEPT ![f] = disk[f]]
                       /\ program' = [program EXCEPT ![f] = disk[f]]
      /\ ~Differs(f) => UNCHANGED <<versions, program>>
  BY DEF ReadSolid, envVars
<1>3. /\ versions \in [Files -> Text] /\ program \in [Solid -> Text] /\ f \in Files
      /\ \A g \in Files \ {f} : versions'[g] = versions[g]
      /\ disk[f] # Absent => versions'[f] = disk[f]
  BY <1>2 DEF TypeOK, Files, Differs
<1>4. ProgramHasVersions'
  <2>1. CASE Differs(f)
    BY <1>2, <1>3, <2>1 DEF ProgramHasVersions, Files
  <2>2. CASE ~Differs(f)
    BY <1>2, <2>2 DEF ProgramHasVersions
  <2> QED
    BY <2>1, <2>2
<1>5. CompilationIsWarm'
  BY <1>1, <1>2 DEF CompilationIsWarm, SeesNoChange, MadeFrom
<1>6. ResultsAreOfCompilation' /\ AnswerIsLast' /\ SheetsAreRecorded'
  BY <1>1, <1>2 DEF ResultsAreOfCompilation, AnswerIsLast, SheetsAreRecorded, Resolving
<1>7. DiskIsRecorded'
  BY <1>1, <1>2, <1>3 DEF DiskIsRecorded, Registry, Synced, Resolving
<1>8. CrossAnswerIsCold' /\ SingleAnswerIsCold'
  BY <1>1, <1>2 DEF CrossAnswerIsCold, SingleAnswerIsCold, Owed, AnswerIsLast
<1> QED
  BY <1>4, <1>5, <1>6, <1>7, <1>8

LEMMA SyncKeeps == ASSUME IInv, TypeOK', SyncRest PROVE IInv'
<1> USE DEF IInv
<1>1. /\ request # Nothing /\ request.at = "reading" /\ request.todo = {} /\ request' # Nothing
      /\ request'.at = "resolving" /\ request'.todo = {}
      /\ request'.crossFile = request.crossFile /\ request'.files = request.files
      /\ request'.registry = request.registry
      /\ request'.css = [c \in Css |-> IF c \in request.registry THEN disk[c] ELSE Absent]
      /\ ~request'.changed => ~request.changed /\ SyncedVersions = versions
      /\ (\E c \in Css \cap request.registry : disk[c] = Absent) => request'.unread
  BY Syncing
<1>2. /\ UNCHANGED <<disk, program, tailwind, compilation, cached, answer, moved, degraded>>
      /\ versions' = SyncedVersions
  BY DEF SyncRest, envVars
<1>3. ProgramHasVersions'
  BY <1>2, FilesAssumption DEF ProgramHasVersions, SyncedVersions, Files
<1>4. CompilationIsWarm'
  BY <1>1, <1>2 DEF CompilationIsWarm, SeesNoChange, MadeFrom
<1>5. ResultsAreOfCompilation' /\ AnswerIsLast'
  BY <1>1, <1>2 DEF ResultsAreOfCompilation, AnswerIsLast
<1>6. SheetsAreRecorded'
  BY <1>1, <1>2 DEF SheetsAreRecorded, SyncedVersions, Files
<1>7. DiskIsRecorded'
  BY <1>1, <1>2, FilesAssumption DEF DiskIsRecorded, Registry, Synced, Resolving, SyncedVersions, Files
<1>8. CrossAnswerIsCold' /\ SingleAnswerIsCold'
  BY <1>1, <1>2 DEF CrossAnswerIsCold, SingleAnswerIsCold, Owed, AnswerIsLast
<1> QED
  BY <1>3, <1>4, <1>5, <1>6, <1>7, <1>8

(* The warm compilation is as good as a new one: nothing has changed since *)
(* it was made, so what the request has read is what it was made from.     *)
LEMMA AnswerWarmKeeps == ASSUME IInv, TypeOK', AnswerWarm PROVE IInv'
<1> USE DEF IInv
<1>1. /\ request # Nothing /\ request.at = "resolving" /\ ~request.changed /\ request' = Nothing
      /\ UNCHANGED <<disk, versions, program, tailwind, compilation, moved, degraded>>
      /\ AnswerFrom(compilation, cached)
  BY DEF AnswerWarm, envVars
<1>2. ResultsAreOfCompilation'
  BY <1>1 DEF ResultsAreOfCompilation, AnswerFrom
<1>3. ProgramHasVersions' /\ CompilationIsWarm' /\ SheetsAreRecorded' /\ DiskIsRecorded' /\ AnswerIsLast'
  BY <1>1 DEF ProgramHasVersions, CompilationIsWarm, SeesNoChange, MadeFrom, SheetsAreRecorded, Resolving,
              DiskIsRecorded, AnswerIsLast
<1>4. ASSUME ~moved, NEW f \in Registry, f \in Solid => request.crossFile \/ f \in request.files
      PROVE  versions[f] = disk[f] /\ versions[f] # Absent
  <2>1. request.registry = Registry /\ request.todo = {} /\ disk[f] # Absent /\ f \in Files
    BY <1>1, <1>4 DEF DiskIsRecorded, Resolving, Registry
  <2>2. CASE f \in Solid
    BY <1>1, <1>4, <2>1, <2>2 DEF DiskIsRecorded, Synced
  <2>3. CASE f \in Css
    BY <1>1, <1>4, <2>1, <2>3 DEF DiskIsRecorded, SheetsAreRecorded, Resolving
  <2> QED
    BY <2>1, <2>2, <2>3 DEF Files
<1>5. CrossAnswerIsCold'
  <2>1. answer'.cross # Nothing => request.crossFile /\ answer'.cross.of = compilation
    BY <1>1 DEF AnswerFrom, ResultsAreOfCompilation
  <2> QED
    BY <1>1, <1>4, <2>1 DEF CrossAnswerIsCold, Owed, CompilationIsWarm, SeesNoChange, MadeFrom, Registry
<1>6. SingleAnswerIsCold'
  <2>1. answer'.single = compilation /\ answer'.files = request.files
    BY <1>1 DEF AnswerFrom
  <2> QED
    BY <1>1, <1>4, <2>1 DEF SingleAnswerIsCold, Owed, CompilationIsWarm, SeesNoChange, MadeFrom, Registry
<1> QED
  BY <1>2, <1>3, <1>5, <1>6

(* The program a rebuild gets keeps every text that was recorded.          *)
LEMMA ProgramsKeepVersions ==
  ASSUME ProgramHasVersions, NEW p \in Programs, NEW f \in Solid, versions[f] # Absent
  PROVE  p[f] = versions[f]
  BY DEF ProgramHasVersions, Programs

LEMMA RebuildKeeps == ASSUME IInv, TypeOK', RebuildAndAnswer PROVE IInv'
<1> USE DEF IInv
<1>1. PICK evaluated \in BOOLEAN, p \in Programs :
        /\ program' = p /\ compilation' = Built(p, evaluated)
        /\ AnswerFrom(Built(p, evaluated), Nothing)
        /\ degraded' = (~evaluated \/ request.unread)
  BY DEF RebuildAndAnswer, KeptResults
<1>2. /\ request # Nothing /\ request.at = "resolving" /\ request' = Nothing
      /\ UNCHANGED <<disk, versions, moved>>
  BY DEF RebuildAndAnswer, envVars
<1>3. ProgramHasVersions'
  BY <1>1, <1>2, ProgramsKeepVersions DEF ProgramHasVersions
<1>4. ResultsAreOfCompilation' /\ SheetsAreRecorded' /\ DiskIsRecorded' /\ AnswerIsLast'
  BY <1>1, <1>2 DEF AnswerFrom, ResultsAreOfCompilation, SheetsAreRecorded, Resolving, DiskIsRecorded,
                    AnswerIsLast
<1>5. CompilationIsWarm'
  <2>1. SUFFICES ASSUME evaluated, ~request.unread, NEW f \in Files, versions[f] # Absent
                 PROVE  MadeFrom(f)'
    BY <1>1, <1>2 DEF CompilationIsWarm
  <2>2. f \in request.registry
    BY <1>2, <2>1 DEF SheetsAreRecorded, Resolving
  <2>3. CASE f \in Solid
    BY <1>1, <1>2, <2>1, <2>2, <2>3, ProgramsKeepVersions, FilesAssumption DEF MadeFrom, Built
  <2>4. CASE f \in Css
    BY <1>1, <1>2, <2>1, <2>2, <2>4, FilesAssumption
    DEF MadeFrom, Built, SheetsAreRecorded, Resolving
  <2> QED
    BY <2>1, <2>3, <2>4 DEF Files
<1>6. ASSUME ~moved, NEW f \in Registry, f \in Solid => request.crossFile \/ f \in request.files
      PROVE  /\ compilation'.trees[f] = disk[f]
             /\ f \in Solid => compilation'.types[f] = disk[f]
  <2>1. request.registry = Registry /\ request.todo = {} /\ disk[f] # Absent /\ f \in Files
    BY <1>2, <1>6 DEF DiskIsRecorded, Resolving, Registry
  <2>2. CASE f \in Solid
    <3>1. versions[f] = disk[f]
      BY <1>2, <1>6, <2>1, <2>2 DEF DiskIsRecorded, Synced
    <3> QED
      BY <1>1, <2>1, <2>2, <3>1, ProgramsKeepVersions, FilesAssumption DEF Built
  <2>3. CASE f \in Css
    BY <1>1, <1>2, <1>6, <2>1, <2>3, FilesAssumption DEF Built, DiskIsRecorded, Resolving
  <2> QED
    BY <2>1, <2>2, <2>3 DEF Files
<1>7. CrossAnswerIsCold'
  <2>1. answer'.cross # Nothing => request.crossFile /\ answer'.cross.of = compilation'
    BY <1>1 DEF AnswerFrom
  <2>2. ~degraded' => compilation'.tailwind
    BY <1>1 DEF Built
  <2> QED
    BY <1>2, <1>6, <2>1, <2>2 DEF CrossAnswerIsCold, Owed, Registry
<1>8. SingleAnswerIsCold'
  <2>1. answer'.single = compilation' /\ answer'.files = request.files
    BY <1>1 DEF AnswerFrom
  <2> QED
    BY <1>2, <1>6, <2>1 DEF SingleAnswerIsCold, Owed, Registry
<1> QED
  BY <1>3, <1>4, <1>5, <1>7, <1>8

LEMMA FailKeeps == ASSUME IInv, TypeOK', FailRebuild PROVE IInv'
<1> USE DEF IInv
<1>1. /\ request # Nothing /\ request' = Nothing /\ degraded' = TRUE /\ program' \in Programs
      /\ UNCHANGED <<disk, versions, compilation, cached, answer, moved>>
  BY DEF FailRebuild, envVars
<1>2. ProgramHasVersions'
  BY <1>1, ProgramsKeepVersions DEF ProgramHasVersions
<1>3. /\ CompilationIsWarm' /\ ResultsAreOfCompilation' /\ SheetsAreRecorded' /\ DiskIsRecorded'
      /\ AnswerIsLast'
  BY <1>1 DEF CompilationIsWarm, ResultsAreOfCompilation, SheetsAreRecorded, Resolving, DiskIsRecorded,
              AnswerIsLast
<1>4. CrossAnswerIsCold' /\ SingleAnswerIsCold'
  BY <1>1 DEF CrossAnswerIsCold, SingleAnswerIsCold, Owed
<1> QED
  BY <1>2, <1>3, <1>4
------------------------------------------------------------------------------
LEMMA InvInitial == Init => IInv
<1> SUFFICES ASSUME Init PROVE IInv
  OBVIOUS
<1>1. TypeOK
  <2>1. NoTrees \in Compilation
    BY DEF NoTrees, Compilation, Text
  <2>2. /\ disk \in [Files -> Text] /\ versions \in [Files -> Text] /\ program \in [Solid -> Text]
        /\ eslint \in Overrides /\ preloaded \in Overrides
    BY DEF Init, Text, Files
  <2>3. edits \in 0..MaxEdits /\ requests \in 0..MaxRequests
    BY BoundsAssumption DEF Init
  <2> QED
    BY <2>1, <2>2, <2>3 DEF Init, TypeOK
<1>2. /\ ProgramHasVersions /\ CompilationIsWarm /\ ResultsAreOfCompilation /\ SheetsAreRecorded
      /\ DiskIsRecorded /\ AnswerIsLast /\ CrossAnswerIsCold /\ SingleAnswerIsCold
  BY DEF Init, ProgramHasVersions, CompilationIsWarm, ResultsAreOfCompilation, SheetsAreRecorded, Resolving,
         DiskIsRecorded, AnswerIsLast, CrossAnswerIsCold, SingleAnswerIsCold, Owed, Files
<1> QED
  BY <1>1, <1>2 DEF IInv

LEMMA InvInductive == IInv /\ [Next]_vars => IInv'
<1> SUFFICES ASSUME IInv, [Next]_vars PROVE IInv'
  OBVIOUS
<1>1. TypeOK'
  BY TypeInductive DEF IInv
<1>2. CASE UNCHANGED vars
  BY <1>2 DEF vars, envVars, warmVars, IInv, TypeOK, ProgramHasVersions, CompilationIsWarm, SeesNoChange,
     MadeFrom, ResultsAreOfCompilation, SheetsAreRecorded, Resolving, DiskIsRecorded, Synced, AnswerIsLast,
     CrossAnswerIsCold, SingleAnswerIsCold, Owed, Registry
<1> QED
  BY <1>1, <1>2, EditKeeps, StartKeeps, ReadKeeps, SyncKeeps, AnswerWarmKeeps, RebuildKeeps, FailKeeps
  DEF Next

LEMMA Invariance == Spec => []IInv
  BY InvInitial, InvInductive, PTL DEF Spec
------------------------------------------------------------------------------
(* The variables keep their types: a request's records, the results and    *)
(* the answers (handleLintRequest).                                        *)
THEOREM TypeCorrect == Spec => []TypeOK
  BY Invariance, PTL DEF IInv

(* Between requests the versions describe the compilation, whatever was    *)
(* edited, read in part, or failed before (handleLintRequest).             *)
THEOREM VersionsAreTrue == Spec => []VersionsMatchTrees
<1>1. IInv => VersionsMatchTrees
  BY DEF IInv, CompilationIsWarm, SeesNoChange, MadeFrom, VersionsMatchTrees
<1> QED
  BY <1>1, Invariance, PTL

(* The cross-file part of an answer is that of a cold process              *)
(* (handleLintRequest, the tracker's cached results).                      *)
THEOREM CrossIsCold == Spec => []CrossAnswerIsCold
  BY Invariance, PTL DEF IInv

(* So is the single-file part, for the files that were linted.             *)
THEOREM SingleIsCold == Spec => []SingleAnswerIsCold
  BY Invariance, PTL DEF IInv
==============================================================================
