------------------------- MODULE LspDiagnosticsProofs -------------------------
(***************************************************************************)
(* Safety of what the editor shows, for every set of files with any        *)
(* imports among them, any number of propagations under way and any bound  *)
(* on what the client does.                                                *)
(***************************************************************************)
EXTENDS LspDiagnostics, SequenceTheorems, TLAPS

(* The program has a text for every file once it was built, and the phase  *)
(* says so until the shutdown.                                             *)
PhaseFits ==
  /\ startup # "program" => program \in [Files -> Texts]
  /\ ~disposed => (Running <=> startup # "program")
  /\ Running => startup # "program"

(* What is pending is of an open document, and after the shutdown nothing  *)
(* is going to flush it.                                                   *)
PendingIsOpen == Changed \subseteq Open /\ (disposed => ~timer)

(* Nobody can stop a propagation that has no handle and is not cancelled:  *)
(* another one has wiped its handle.                                       *)
Accounted(q) == \A i \in DOMAIN q : q[i].handle \/ q[i].cancelled \/ q[i].wiped
Stopped(q) == \A i \in DOMAIN q : q[i].cancelled \/ q[i].wiped
RunsAreAccounted == Accounted(runs) /\ (disposed => Stopped(runs))

(* An open file has TypeScript diagnostics, if only none, so that a        *)
(* propagation that finds none does not pass over it.                      *)
Diagnosing == Running /\ ~disposed /\ enabled
OpenHaveTs == Diagnosing => \A f \in Open : "TypeScript" \in DOMAIN view[f].held

(* The inductive invariant.                                                *)
IInv ==
  /\ TypeOK /\ PhaseFits /\ PendingIsOpen /\ RunsAreAccounted
  /\ ShownIsHeld /\ OpenHaveTs /\ TsIsCurrent
------------------------------------------------------------------------------
(* What a file holds and shows.                                            *)
View == [held : Held, shown : Diags]
Fresh(v) == v.shown = Merged(v.held)
Sound(v) == v.held # <<>> => Fresh(v)
HasTs(v, p, f) == "TypeScript" \in DOMAIN v.held /\ v.held["TypeScript"] = TsErrors(p, f)

LEMMA HeldIs == \A held : held \in Held <=> DOMAIN held \subseteq Kinds /\ held \in [DOMAIN held -> Diags]
  BY DEF Held

LEMMA NoneHeld == DOMAIN <<>> = {} /\ <<>> \in Held /\ Merged(<<>>) = {}
<1>1. DOMAIN <<>> = {}
  OBVIOUS
<1>2. <<>> \in [{} -> Diags]
  OBVIOUS
<1> QED
  BY <1>1, <1>2 DEF Held, Merged

LEMMA MergedType == \A held \in Held : Merged(held) \in Diags
  BY DEF Merged, Held, Diags

(* A file that is diagnosed holds the kind it was diagnosed for and what   *)
(* it held before, and shows all of it.                                    *)
LEMMA UpdateEffect ==
  ASSUME NEW v \in View, NEW kind \in Kinds, NEW diags \in Diags
  PROVE  LET u == Update(v, kind, diags)
         IN  /\ u \in View
             /\ kind \in DOMAIN u.held /\ u.held[kind] = diags
             /\ DOMAIN v.held \subseteq DOMAIN u.held
             /\ \A k \in DOMAIN v.held : k # kind => u.held[k] = v.held[k]
             /\ Sound(v) => Fresh(u)
<1> DEFINE u == Update(v, kind, diags)
           held == [k \in DOMAIN v.held \cup {kind} |-> IF k = kind THEN diags ELSE v.held[k]]
<1>1. CASE Unchanged(v, kind, diags)
  <2>1. u = v /\ kind \in DOMAIN v.held /\ v.held[kind] = diags
    BY <1>1 DEF Update, Unchanged
  <2>2. v.held # <<>>
    BY <2>1, NoneHeld
  <2> QED
    BY <2>1, <2>2 DEF Sound
<1>2. CASE ~Unchanged(v, kind, diags)
  <2>1. u = [held |-> held, shown |-> Merged(held)]
    BY <1>2 DEF Update
  <2>2. DOMAIN v.held \subseteq Kinds /\ v.held \in [DOMAIN v.held -> Diags]
    BY HeldIs DEF View
  <2>3. /\ DOMAIN held = {kind} \cup DOMAIN v.held /\ held[kind] = diags
        /\ \A k \in DOMAIN v.held : k # kind => held[k] = v.held[k]
        /\ held \in [DOMAIN held -> Diags]
    BY <2>2
  <2>4. held \in Held /\ Merged(held) \in Diags
    BY <2>2, <2>3, HeldIs, MergedType
  <2> HIDE DEF held
  <2> QED
    BY <2>1, <2>3, <2>4 DEF View, Fresh
<1> QED
  BY <1>1, <1>2

LEMMA DiagnosedEffect ==
  ASSUME NEW v \in View, NEW p, NEW f \in Files, NEW on \in BOOLEAN
  PROVE  LET u == Diagnosed(v, p, f, on)
         IN  /\ u \in View /\ (on => HasTs(u, p, f))
             /\ DOMAIN v.held \subseteq DOMAIN u.held
             /\ Sound(v) => Fresh(u)
<1> DEFINE linted == Update(v, "Ganko", Lint(p[f]))
<1>1. Lint(p[f]) \in Diags /\ TsErrors(p, f) \in Diags
  BY ImportsAssumption DEF Lint, TsErrors, Diags
<1>2. linted \in View /\ DOMAIN v.held \subseteq DOMAIN linted.held /\ (Sound(v) => Fresh(linted))
  BY <1>1, UpdateEffect DEF Kinds
<1>3. LET u == Update(linted, "TypeScript", TsErrors(p, f))
      IN  /\ u \in View /\ HasTs(u, p, f) /\ DOMAIN linted.held \subseteq DOMAIN u.held
          /\ Sound(linted) => Fresh(u)
  <2> HIDE DEF linted
  <2> QED
    BY <1>1, <1>2, UpdateEffect DEF Kinds, HasTs
<1> QED
  BY <1>2, <1>3 DEF Diagnosed, WithTs, Sound

LEMMA Tier1Effect ==
  ASSUME NEW v \in View, NEW f \in Files, NEW t
  PROVE  Tier1(v, f, t) \in View /\ (Sound(v) => Fresh(Tier1(v, f, t)))
<1> DEFINE linted == Update(v, "Ganko", Lint(t))
           errors == IF t \in Faulty THEN {f} ELSE {}
<1>1. Lint(t) \in Diags /\ errors \in Diags
  BY DEF Lint, Diags
<1>2. linted \in View /\ (Sound(v) => Fresh(linted))
  BY <1>1, UpdateEffect DEF Kinds
<1>3. LET u == Update(linted, "TypeScript", errors)
      IN  u \in View /\ (Sound(linted) => Fresh(u))
  <2> HIDE DEF linted, errors
  <2> QED
    BY <1>1, <1>2, UpdateEffect DEF Kinds
<1> QED
  BY <1>2, <1>3 DEF Tier1, Sound

LEMMA ForgottenEffect ==
  ASSUME NEW v \in View
  PROVE  /\ Evict(v) \in View /\ Sound(Evict(v))
         /\ OnClose \in View /\ Fresh(OnClose) /\ Sound(OnClose)
         /\ Clear(v) \in View /\ Sound(Clear(v)) /\ (Clear(v) = v \/ Clear(v) = OnClose)
<1>1. OnClose \in View /\ Fresh(OnClose)
  BY NoneHeld DEF OnClose, View, Fresh, Diags
<1>2. Evict(v) \in View /\ Evict(v).held = <<>>
  BY NoneHeld DEF Evict, View
<1> QED
  BY <1>1, <1>2 DEF Clear, Sound

LEMMA PipelineEffect ==
  ASSUME enabled \in BOOLEAN, NEW w \in [Files -> View], \A f \in Files : Sound(w[f]),
         NEW p, NEW files \in SUBSET Files
  PROVE  LET u == Pipeline(w, files, p)
         IN  /\ u \in [Files -> View] /\ \A f \in Files : Sound(u[f])
             /\ \A f \in files : Fresh(u[f]) /\ (enabled => HasTs(u[f], p, f))
             /\ \A f \in Files \ files : u[f] = w[f]
<1>1. \A f \in Files : LET v == Diagnosed(w[f], p, f, enabled)
                       IN  v \in View /\ (enabled => HasTs(v, p, f)) /\ Fresh(v) /\ Sound(v)
  BY DiagnosedEffect DEF Sound
<1> QED
  BY <1>1 DEF Pipeline

LEMMA EvictedEffect ==
  ASSUME NEW w \in [Files -> View], \A f \in Files : Sound(w[f]), NEW files \in SUBSET Files
  PROVE  LET u == Evicted(w, files)
         IN  /\ u \in [Files -> View] /\ \A f \in Files : Sound(u[f])
             /\ \A f \in Files \ files : u[f] = w[f]
  BY ForgottenEffect DEF Evicted
------------------------------------------------------------------------------
(* Propagations: what is cancelled, wiped, given up or resumed.            *)
Awaits(q, f) == \E i \in DOMAIN q : ~q[i].cancelled /\ f \in q[i].files

LEMMA RunsOf ==
  ASSUME NEW q \in Seq(Run), NEW r \in [DOMAIN q -> Run]
  PROVE  r \in Seq(Run) /\ DOMAIN r = DOMAIN q
<1>1. Len(q) \in Nat /\ DOMAIN q = 1..Len(q)
  OBVIOUS
<1>2. r \in [1..Len(q) -> Run]
  BY <1>1
<1> QED
  BY <1>1, <1>2, SeqDef

LEMMA FateKept ==
  ASSUME NEW q, NEW r, DOMAIN r = DOMAIN q,
         \A i \in DOMAIN q : /\ q[i].handle => r[i].handle \/ r[i].wiped \/ r[i].cancelled
                             /\ q[i].wiped => r[i].wiped \/ r[i].cancelled
                             /\ q[i].cancelled => r[i].cancelled
  PROVE  (Accounted(q) => Accounted(r)) /\ (Stopped(q) => Stopped(r))
  BY DEF Accounted, Stopped

LEMMA CancelledEffect ==
  ASSUME NEW q \in Seq(Run), NEW those
  PROVE  LET r == Cancelled(q, those)
         IN  /\ r \in Seq(Run)
             /\ Accounted(q) => Accounted(r)
             /\ Stopped(q) => Stopped(r)
<1> DEFINE r == Cancelled(q, those)
<1>1. \A i \in DOMAIN q : q[i] \in Run
  OBVIOUS
<1>2. r \in [DOMAIN q -> Run]
  BY <1>1 DEF Cancelled, Run
<1>3. r \in Seq(Run) /\ DOMAIN r = DOMAIN q
  BY <1>2, RunsOf
<1>4. \A i \in DOMAIN q : /\ (r[i].handle <=> q[i].handle) /\ (r[i].wiped <=> q[i].wiped)
                          /\ q[i].cancelled => r[i].cancelled
  BY <1>1 DEF Cancelled, Run
<1> HIDE DEF r
<1> QED
  BY <1>3, <1>4, FateKept DEF r

LEMMA HandleNullEffect ==
  ASSUME NEW q \in Seq(Run)
  PROVE  LET r == HandleNull(q)
         IN  /\ r \in Seq(Run) /\ DOMAIN r = DOMAIN q
             /\ \A i \in DOMAIN q : (r[i].cancelled <=> q[i].cancelled) /\ r[i].files = q[i].files
             /\ Accounted(q) => Accounted(r) /\ Stopped(r)
<1> DEFINE r == HandleNull(q)
<1>1. \A i \in DOMAIN q : q[i] \in Run
  OBVIOUS
<1>2. r \in [DOMAIN q -> Run]
  BY <1>1 DEF HandleNull, Run
<1>3. r \in Seq(Run) /\ DOMAIN r = DOMAIN q
  BY <1>2, RunsOf
<1>4. \A i \in DOMAIN q : /\ (r[i].cancelled <=> q[i].cancelled) /\ r[i].files = q[i].files
                          /\ q[i].handle => r[i].wiped \/ r[i].cancelled
                          /\ q[i].wiped /\ ~q[i].handle => r[i].wiped
  BY <1>1 DEF HandleNull, Run
<1> HIDE DEF r
<1>5. Accounted(q) => Stopped(r)
  BY <1>3, <1>4 DEF Accounted, Stopped
<1>6. Stopped(r) => Accounted(r)
  BY DEF Accounted, Stopped
<1> QED
  BY <1>3, <1>4, <1>5, <1>6 DEF r

(* After a stop every propagation is cancelled or one that nothing stops.  *)
LEMMA StopEffect ==
  ASSUME NEW q \in Seq(Run), Accounted(q)
  PROVE  /\ StopPropagation(q) \in Seq(Run)
         /\ Accounted(StopPropagation(q)) /\ Stopped(StopPropagation(q))
  BY CancelledEffect, HandleNullEffect DEF StopPropagation

LEMMA AppendEffect ==
  ASSUME NEW q \in Seq(Run), NEW run \in Run
  PROVE  LET r == Append(q, run)
         IN  /\ r \in Seq(Run) /\ DOMAIN r = DOMAIN q \cup {Len(q) + 1}
             /\ \A i \in DOMAIN q : r[i] = q[i]
             /\ r[Len(q) + 1] = run
  OBVIOUS

LEMMA PropagatedEffect ==
  ASSUME enabled \in BOOLEAN, NEW q \in Seq(Run), Accounted(q),
         NEW files \in SUBSET Files, NEW exclude, NEW token \in {"callback", "own"}
  PROVE  LET r == Propagated(q, files, exclude, token)
         IN  /\ r \in Seq(Run) /\ Accounted(r)
             /\ enabled => \A f \in files \ exclude : Awaits(r, f)
<1> DEFINE old == HandleNull(Cancelled(q, ByHandle(q)))
           run == [files |-> files \ exclude, token |-> token,
                   cancelled |-> FALSE, handle |-> TRUE, wiped |-> FALSE]
<1>1. old \in Seq(Run) /\ Accounted(old)
  BY CancelledEffect, HandleNullEffect
<1>2. run \in Run
  BY DEF Run
<1>3. /\ Append(old, run) \in Seq(Run)
      /\ DOMAIN Append(old, run) = DOMAIN old \cup {Len(old) + 1}
      /\ \A i \in DOMAIN old : Append(old, run)[i] = old[i]
      /\ Append(old, run)[Len(old) + 1] = run
  <2> HIDE DEF old, run
  <2> QED
    BY <1>1, <1>2, AppendEffect
<1>4. run.handle /\ ~run.cancelled /\ run.files = files \ exclude
  OBVIOUS
<1>5. Accounted(Append(old, run)) /\ \A f \in files \ exclude : Awaits(Append(old, run), f)
  <2> HIDE DEF old, run
  <2> QED
    BY <1>1, <1>3, <1>4 DEF Accounted, Awaits
<1> QED
  BY <1>1, <1>3, <1>5 DEF Propagated

LEMMA TailEffect ==
  ASSUME NEW q \in Seq(Run), q # <<>>
  PROVE  /\ Tail(q) \in Seq(Run) /\ Head(q) \in Run /\ Head(q) = q[1] /\ 1 \in DOMAIN q
         /\ Accounted(q) => Accounted(Tail(q))
         /\ Stopped(q) => Stopped(Tail(q))
         /\ \A f : Awaits(q, f) => Awaits(Tail(q), f) \/ (~Head(q).cancelled /\ f \in Head(q).files)
<1>1. /\ Tail(q) \in Seq(Run) /\ Head(q) = q[1] /\ 1 \in DOMAIN q /\ Head(q) \in Run
      /\ DOMAIN q = 1..Len(q) /\ Len(q) \in Nat /\ DOMAIN Tail(q) = 1..(Len(q) - 1)
      /\ \A i \in DOMAIN Tail(q) : Tail(q)[i] = q[i + 1]
  OBVIOUS
<1>2. \A i \in DOMAIN Tail(q) : i + 1 \in DOMAIN q
  BY <1>1
<1>3. \A i \in DOMAIN q : i = 1 \/ (i - 1 \in DOMAIN Tail(q) /\ Tail(q)[i - 1] = q[i])
  BY <1>1
<1>4. /\ Accounted(q) => Accounted(Tail(q))
      /\ Stopped(q) => Stopped(Tail(q))
  BY <1>1, <1>2 DEF Accounted, Stopped
<1>5. ASSUME NEW f, Awaits(q, f)
      PROVE  Awaits(Tail(q), f) \/ (~Head(q).cancelled /\ f \in Head(q).files)
  BY <1>1, <1>3, <1>5 DEF Awaits
<1> QED
  BY <1>1, <1>4, <1>5

(* A propagation that goes on forgets no file but the one it diagnosed.    *)
LEMMA RestEffect ==
  ASSUME runs \in Seq(Run), runs # <<>>, Accounted(runs), NEW f \in Head(runs).files
  PROVE  LET r == Rest(Head(runs), f)
         IN  /\ r \in Seq(Run) /\ Accounted(r)
             /\ \A g \in Files \ {f} : Awaits(runs, g) => Awaits(r, g)
<1> DEFINE run == Head(runs)
           more == [run EXCEPT !.files = @ \ {f}]
           tail == Tail(runs)
<1>1. /\ tail \in Seq(Run) /\ run \in Run /\ Accounted(tail)
      /\ run.handle \/ run.cancelled \/ run.wiped
      /\ \A g : Awaits(runs, g) => Awaits(tail, g) \/ (~run.cancelled /\ g \in run.files)
  BY TailEffect DEF Accounted
<1>2. /\ more \in Run /\ more.files = run.files \ {f}
      /\ (more.cancelled <=> run.cancelled) /\ (more.handle <=> run.handle)
      /\ (more.wiped <=> run.wiped)
  <2> HIDE DEF run
  <2> QED
    BY <1>1 DEF Run
<1> HIDE DEF run, more, tail
<1>3. CASE run.files = {f}
  <2>1. Rest(run, f) = HandleNull(tail)
    BY <1>3 DEF Rest, tail
  <2>2. \A g \in Files \ {f} : Awaits(runs, g) => Awaits(tail, g)
    BY <1>1, <1>3
  <2>3. \A g : Awaits(tail, g) => Awaits(HandleNull(tail), g)
    BY <1>1, HandleNullEffect DEF Awaits
  <2> QED
    BY <1>1, <2>1, <2>2, <2>3, HandleNullEffect DEF run
<1>4. CASE run.files # {f}
  <2>1. Rest(run, f) = Append(tail, more)
    BY <1>4 DEF Rest, tail, more
  <2>2. /\ Append(tail, more) \in Seq(Run)
        /\ DOMAIN Append(tail, more) = DOMAIN tail \cup {Len(tail) + 1}
        /\ \A i \in DOMAIN tail : Append(tail, more)[i] = tail[i]
        /\ Append(tail, more)[Len(tail) + 1] = more
    BY <1>1, <1>2, AppendEffect
  <2>3. Accounted(Append(tail, more))
    BY <1>1, <1>2, <2>2 DEF Accounted
  <2>4. \A g \in Files \ {f} : Awaits(runs, g) => Awaits(Append(tail, more), g)
    BY <1>1, <1>2, <2>2 DEF Awaits
  <2> QED
    BY <2>1, <2>2, <2>3, <2>4 DEF run
<1> QED
  BY <1>3, <1>4
------------------------------------------------------------------------------
(* What the invariant says of the views and of the propagations.           *)
LEMMA Now ==
  ASSUME IInv
  PROVE  /\ view \in [Files -> View] /\ \A f \in Files : Sound(view[f])
         /\ \A f \in Open : Fresh(view[f])
         /\ Open \in SUBSET Files /\ Changed \in SUBSET Files
         /\ enabled \in BOOLEAN /\ runs \in Seq(Run) /\ Accounted(runs)
  BY DEF IInv, TypeOK, ShownIsHeld, Sound, Fresh, View, RunsAreAccounted, Open, Changed

(* It says the same of the next state where these hold there.              *)
LEMMA ShownNext ==
  ASSUME view' \in [Files -> View], \A f \in Files : Sound(view[f])', \A f \in Open' : Fresh(view[f])'
  PROVE  ShownIsHeld'
  BY DEF ShownIsHeld, Sound, Fresh

LEMMA TsNext ==
  ASSUME NEW f \in Files, HasTs(view'[f], program', f)
  PROVE  TsIsOf(program, f)' /\ "TypeScript" \in DOMAIN view'[f].held
  BY DEF HasTs, TsIsOf, TsErrors

LEMMA StaysCurrent ==
  ASSUME TsIsCurrent, Diagnosing, Changed = {}, NEW f \in Open \ behind,
         view'[f] = view[f], program' = program, Awaits(runs, f) => Awaits(runs', f)
  PROVE  Awaited(f)' \/ TsIsOf(program, f)'
<1>1. Awaited(f) \/ TsIsOf(program, f)
  BY DEF TsIsCurrent, Diagnosing
<1> QED
  BY <1>1 DEF Awaited, Awaits, TsIsOf, TsErrors

(* All open files are diagnosed again.                                     *)
LEMMA AllDiagnosed ==
  ASSUME NEW w \in [Files -> View], \A f \in Files : Sound(w[f]), enabled' \in BOOLEAN, Open' = Open,
         view' = [f \in Files |-> IF f \in Open THEN Diagnosed(w[f], program', f, enabled') ELSE w[f]]
  PROVE  view' \in [Files -> View] /\ ShownIsHeld' /\ OpenHaveTs' /\ TsIsCurrent'
<1>1. \A f \in Files : LET v == Diagnosed(w[f], program', f, enabled')
                       IN  v \in View /\ (enabled' => HasTs(v, program', f)) /\ Fresh(v) /\ Sound(v)
  BY DiagnosedEffect DEF Sound
<1>2. Open \in SUBSET Files
  BY DEF Open
<1>3. view' \in [Files -> View] /\ \A f \in Files : Sound(view'[f])
  BY <1>1
<1>4. \A f \in Open : Fresh(view'[f]) /\ (enabled' => HasTs(view'[f], program', f))
  BY <1>1, <1>2
<1>5. ShownIsHeld'
  BY <1>3, <1>4, ShownNext
<1>6. enabled' => \A f \in Open : TsIsOf(program, f)' /\ "TypeScript" \in DOMAIN view'[f].held
  BY <1>2, <1>4, TsNext
<1> QED
  BY <1>3, <1>5, <1>6 DEF OpenHaveTs, Diagnosing, TsIsCurrent

(* A flush: the program has what was pending, each changed file is         *)
(* diagnosed again and, once the server runs, the other open files wait    *)
(* for a propagation.                                                      *)
LEMMA FlushedPrograms ==
  ASSUME TypeOK, Flush
  PROVE  /\ program' \in [Files -> IF Running THEN Texts ELSE Texts \cup {Nothing}]
         /\ program \in [Files -> Texts] => program' \in [Files -> Texts]
         /\ Changed = {} => program' = program
         /\ pending' \in [Files -> Texts \cup {Nothing}] /\ Changed' = {} /\ timer' = FALSE
  BY DEF TypeOK, Flush, FlushedProgram, Synced, Changed

LEMMA FlushedViews ==
  ASSUME IInv
  PROVE  /\ FlushedView \in [Files -> View] /\ \A f \in Files : Sound(FlushedView[f])
         /\ \A f \in Changed : /\ Fresh(FlushedView[f])
                               /\ Running /\ enabled => HasTs(FlushedView[f], FlushedProgram, f)
         /\ \A f \in Files \ Changed : FlushedView[f] = view[f]
<1>1. CASE Running
  <2> DEFINE w == Evicted(view, Changed)
  <2>1. w \in [Files -> View] /\ (\A f \in Files : Sound(w[f])) /\ \A f \in Files \ Changed : w[f] = view[f]
    BY Now, EvictedEffect
  <2>2. FlushedView = Pipeline(w, Changed, FlushedProgram)
    BY <1>1 DEF FlushedView
  <2> HIDE DEF w
  <2> QED
    BY <2>1, <2>2, Now, PipelineEffect
<1>2. CASE ~Running
  <2>1. \A f \in Files : LET v == Tier1(view[f], f, pending[f]) IN v \in View /\ Fresh(v) /\ Sound(v)
    BY Now, Tier1Effect DEF Sound
  <2> QED
    BY <1>2, <2>1, Now DEF FlushedView
<1> QED
  BY <1>1, <1>2

LEMMA FlushedPropagations ==
  ASSUME IInv
  PROVE  /\ FlushedRuns \in Seq(Run) /\ Accounted(FlushedRuns)
         /\ Changed = {} => FlushedRuns = runs
         /\ Running /\ enabled /\ Changed # {} => \A f \in Open \ Changed : Awaits(FlushedRuns, f)
<1> DEFINE q == Cancelled(runs, ByToken(runs))
<1>1. q \in Seq(Run) /\ Accounted(q)
  BY Now, CancelledEffect
<1>2. LET r == Propagated(q, Open, Changed, "callback")
      IN  /\ r \in Seq(Run) /\ Accounted(r)
          /\ enabled => \A f \in Open \ Changed : Awaits(r, f)
  <2> HIDE DEF q
  <2> QED
    BY <1>1, Now, PropagatedEffect
<1> QED
  BY <1>1, <1>2, Now DEF FlushedRuns

LEMMA TimerFires == ASSUME IInv, FireTimer PROVE IInv'
<1> USE DEF IInv
<1>1. /\ ~disposed /\ Flush /\ view' = FlushedView /\ runs' = FlushedRuns
      /\ UNCHANGED <<disk, buffer, events, enabled, phase, startup, disposed>>
      /\ Open' = Open /\ behind' = behind \ Changed /\ (Running' <=> Running)
  BY DEF FireTimer, clientVars, lifeVars, PendingIsOpen, Open, Running
<1>2. TypeOK'
  BY <1>1, FlushedPrograms, FlushedViews, FlushedPropagations DEF TypeOK, View
<1>3. PhaseFits'
  BY <1>1, FlushedPrograms DEF PhaseFits
<1>4. PendingIsOpen'
  BY <1>1, FlushedPrograms DEF PendingIsOpen
<1>5. RunsAreAccounted'
  BY <1>1, FlushedPropagations DEF RunsAreAccounted
<1>6. ShownIsHeld'
  BY <1>1, Now, FlushedViews, ShownNext
<1>7. ASSUME Diagnosing'
      PROVE  \A f \in Changed : HasTs(view'[f], program', f)
  BY <1>1, <1>7, FlushedViews, Now DEF Diagnosing, Flush, HasTs, TsErrors
<1>8. OpenHaveTs'
  BY <1>1, <1>7, FlushedViews, Now, TsNext DEF OpenHaveTs, Diagnosing
<1>9. TsIsCurrent'
  <2> SUFFICES ASSUME Diagnosing', NEW f \in Open \ behind' PROVE Awaited(f)' \/ TsIsOf(program, f)'
    BY <1>1 DEF TsIsCurrent, Diagnosing
  <2>1. CASE f \in Changed
    BY <2>1, <1>7, TsNext, Now
  <2>2. CASE Changed = {}
    BY <1>1, <2>2, FlushedViews, FlushedPropagations, FlushedPrograms, Now, StaysCurrent DEF Diagnosing
  <2>3. CASE Changed # {} /\ f \notin Changed
    BY <1>1, <2>3, FlushedPropagations DEF Awaits, Awaited, Diagnosing
  <2> QED
    BY <2>1, <2>2, <2>3
<1> QED
  BY <1>2, <1>3, <1>4, <1>5, <1>6, <1>8, <1>9

LEMMA Opens == ASSUME IInv, NEW f \in Files, NEW t \in Texts, OpenDocument(f, t) PROVE IInv'
<1> USE DEF IInv
<1>1. /\ ~disposed /\ buffer[f] = Nothing /\ buffer' = [buffer EXCEPT ![f] = t]
      /\ events' \in 0..MaxEvents
      /\ UNCHANGED <<disk, pending, timer, enabled, runs, phase, startup, disposed>>
      /\ behind' = Behind(program' # program, {f})
      /\ program' = IF Running THEN [program EXCEPT ![f] = t] ELSE program
      /\ Changed' = Changed /\ (Running' <=> Running)
  BY BoundAssumption DEF OpenDocument, ClientEvent, docVars, lifeVars, Changed, Running, TypeOK
<1>2. Open' = Open \cup {f}
  BY <1>1, TextsAssumption DEF TypeOK, Open
<1>3. /\ view' \in [Files -> View] /\ \A g \in Files \ {f} : view'[g] = view[g]
      /\ Fresh(view'[f]) /\ (Running /\ enabled => HasTs(view'[f], program', f))
  <2>1. view' = [view EXCEPT ![f] = IF Running THEN Diagnosed(@, program', f, enabled) ELSE Tier1(@, f, t)]
    BY DEF OpenDocument
  <2> QED
    BY <2>1, Now, DiagnosedEffect, Tier1Effect
<1>4. TypeOK'
  BY <1>1, <1>3 DEF TypeOK, View, Behind, Open
<1>5. PhaseFits'
  BY <1>1 DEF PhaseFits
<1>6. PendingIsOpen'
  BY <1>1, <1>2 DEF PendingIsOpen
<1>7. RunsAreAccounted'
  BY <1>1 DEF RunsAreAccounted
<1>8. ShownIsHeld'
  BY <1>2, <1>3, Now, ShownNext DEF Sound
<1>9. OpenHaveTs'
  BY <1>1, <1>2, <1>3, Now, TsNext DEF OpenHaveTs, Diagnosing
<1>10. TsIsCurrent'
  <2> SUFFICES ASSUME Diagnosing', Changed' = {}, NEW g \in Open' \ behind'
               PROVE  Awaited(g)' \/ TsIsOf(program, g)'
    BY DEF TsIsCurrent, Diagnosing
  <2>1. CASE g = f
    BY <1>1, <1>3, <2>1, TsNext DEF Diagnosing
  <2>2. CASE g # f
    BY <1>1, <1>2, <1>3, <2>2, Now, StaysCurrent DEF Diagnosing, Behind
  <2> QED
    BY <2>1, <2>2
<1> QED
  BY <1>4, <1>5, <1>6, <1>7, <1>8, <1>9, <1>10

LEMMA Changes == ASSUME IInv, NEW f \in Files, NEW t \in Texts, ChangeDocument(f, t) PROVE IInv'
<1> USE DEF IInv
<1>1. /\ ~disposed /\ buffer[f] # Nothing /\ buffer' = [buffer EXCEPT ![f] = t]
      /\ pending' = [pending EXCEPT ![f] = t] /\ timer' = TRUE
      /\ events' \in 0..MaxEvents
      /\ UNCHANGED <<disk, enabled, view, phase, startup, disposed, behind>>
      /\ program' = IF Running THEN [program EXCEPT ![f] = t] ELSE program
      /\ runs' = IF Running THEN Cancelled(runs, ByHandle(runs)) ELSE runs
      /\ (Running' <=> Running)
  BY BoundAssumption DEF ChangeDocument, ClientEvent, lifeVars, Running, TypeOK
<1>2. Open' = Open /\ f \in Open /\ Changed' = Changed \cup {f}
  BY <1>1, TextsAssumption DEF TypeOK, Open, Changed
<1>3. runs' \in Seq(Run) /\ Accounted(runs')
  BY <1>1, Now, CancelledEffect
<1>4. TypeOK'
  BY <1>1, <1>3 DEF TypeOK
<1>5. PhaseFits'
  BY <1>1 DEF PhaseFits
<1>6. PendingIsOpen'
  BY <1>1, <1>2 DEF PendingIsOpen
<1>7. RunsAreAccounted'
  BY <1>1, <1>3 DEF RunsAreAccounted
<1>8. ShownIsHeld' /\ OpenHaveTs'
  BY <1>1, <1>2 DEF ShownIsHeld, OpenHaveTs, Diagnosing
<1>9. TsIsCurrent'
  BY <1>2 DEF TsIsCurrent
<1> QED
  BY <1>4, <1>5, <1>6, <1>7, <1>8, <1>9

LEMMA Saves == ASSUME IInv, NEW f \in Files, SaveDocument(f) PROVE IInv'
<1> USE DEF IInv
<1>1. /\ ~disposed /\ buffer[f] # Nothing /\ disk' = [disk EXCEPT ![f] = buffer[f]] /\ Flush
      /\ events' \in 0..MaxEvents
      /\ UNCHANGED <<buffer, enabled, phase, startup, disposed>>
      /\ behind' = behind \ (Changed \cup {f})
      /\ runs' = IF Running THEN Propagated(FlushedRuns, Open, {f}, "own") ELSE FlushedRuns
      /\ Open' = Open /\ (Running' <=> Running)
  BY BoundAssumption DEF SaveDocument, ClientEvent, lifeVars, Open, Running, TypeOK
<1>2. /\ view' \in [Files -> View] /\ \A g \in Files : Sound(view'[g])
      /\ \A g \in Changed \cup {f} : Running /\ enabled => HasTs(view'[g], program', g)
      /\ \A g \in Changed \cup {f} : Running => Fresh(view'[g])
      /\ \A g \in Files \ (Changed \cup {f}) : view'[g] = view[g]
      /\ ~Running => view' = FlushedView
  <2>1. CASE Running
    <3> DEFINE w == Evicted(FlushedView, {f})
    <3>1. /\ w \in [Files -> View] /\ \A g \in Files : Sound(w[g])
          /\ \A g \in Files \ {f} : w[g] = FlushedView[g]
      BY FlushedViews, EvictedEffect
    <3>2. view' = Pipeline(w, {f}, FlushedProgram) /\ program' = FlushedProgram
      BY <2>1 DEF SaveDocument, Flush
    <3> HIDE DEF w
    <3>3. /\ view' \in [Files -> View] /\ \A g \in Files : Sound(view'[g])
          /\ Fresh(view'[f]) /\ (enabled => HasTs(view'[f], program', f))
          /\ \A g \in Files \ {f} : view'[g] = w[g]
      BY <3>1, <3>2, Now, PipelineEffect
    <3> QED
      BY <2>1, <3>1, <3>2, <3>3, Now, FlushedViews
  <2>2. CASE ~Running
    BY <2>2, FlushedViews DEF SaveDocument
  <2> QED
    BY <2>1, <2>2
<1>3. /\ runs' \in Seq(Run) /\ Accounted(runs')
      /\ Running /\ enabled => \A g \in Open \ {f} : Awaits(runs', g)
  BY <1>1, Now, FlushedPropagations, PropagatedEffect
<1>4. TypeOK'
  BY <1>1, <1>2, <1>3, FlushedPrograms DEF TypeOK, View
<1>5. PhaseFits'
  BY <1>1, FlushedPrograms DEF PhaseFits
<1>6. PendingIsOpen'
  BY <1>1, FlushedPrograms DEF PendingIsOpen
<1>7. RunsAreAccounted'
  BY <1>1, <1>3 DEF RunsAreAccounted
<1>8. ShownIsHeld'
  <2>1. \A g \in Open : Fresh(view'[g])
    BY <1>2, Now, FlushedViews
  <2> QED
    BY <1>1, <1>2, <2>1, ShownNext
<1>9. OpenHaveTs'
  BY <1>1, <1>2, Now, TsNext DEF OpenHaveTs, Diagnosing
<1>10. TsIsCurrent'
  BY <1>1, <1>2, <1>3, Now, TsNext DEF TsIsCurrent, Awaited, Awaits
<1> QED
  BY <1>4, <1>5, <1>6, <1>7, <1>8, <1>9, <1>10

LEMMA Closes == ASSUME IInv, NEW f \in Files, CloseDocument(f) PROVE IInv'
<1> USE DEF IInv
<1>1. /\ ~disposed /\ buffer' = [buffer EXCEPT ![f] = Nothing]
      /\ pending' = [pending EXCEPT ![f] = Nothing] /\ events' \in 0..MaxEvents
      /\ UNCHANGED <<disk, timer, program, enabled, runs, phase, startup, disposed>>
      /\ view' = [view EXCEPT ![f] = OnClose]
      /\ behind' = Behind(pending[f] # Nothing, {f})
      /\ (Running' <=> Running)
  BY BoundAssumption DEF CloseDocument, ClientEvent, lifeVars, Running, TypeOK
<1>2. Open' = Open \ {f} /\ Changed' = Changed \ {f}
  BY <1>1 DEF TypeOK, Open, Changed
<1>3. /\ view' \in [Files -> View] /\ \A g \in Files : Sound(view'[g])
      /\ \A g \in Files \ {f} : view'[g] = view[g]
  BY <1>1, Now, ForgottenEffect
<1>4. TypeOK'
  BY <1>1, <1>3 DEF TypeOK, View, Behind, Open
<1>5. PhaseFits'
  BY <1>1 DEF PhaseFits
<1>6. PendingIsOpen'
  BY <1>1, <1>2 DEF PendingIsOpen
<1>7. RunsAreAccounted'
  BY <1>1 DEF RunsAreAccounted
<1>8. ShownIsHeld'
  BY <1>2, <1>3, Now, ShownNext
<1>9. OpenHaveTs'
  BY <1>1, <1>2, <1>3, Now DEF OpenHaveTs, Diagnosing
<1>10. TsIsCurrent'
  <2> SUFFICES ASSUME Diagnosing', Changed' = {}, NEW g \in Open' \ behind'
               PROVE  Awaited(g)' \/ TsIsOf(program, g)'
    BY DEF TsIsCurrent, Diagnosing
  <2>1. pending[f] = Nothing /\ Changed = {}
    BY <1>1, <1>2 DEF Behind, Changed
  <2> QED
    BY <1>1, <1>2, <1>3, <2>1, Now, StaysCurrent DEF Diagnosing, Behind
<1> QED
  BY <1>4, <1>5, <1>6, <1>7, <1>8, <1>9, <1>10

LEMMA Pulls == ASSUME IInv, NEW f \in Files, Pull(f) PROVE IInv'
<1> DEFINE content == IF buffer[f] # Nothing THEN buffer[f] ELSE disk[f]
           differs == content # program[f]
<1>1. /\ ~disposed /\ Running /\ events' \in 0..MaxEvents
      /\ UNCHANGED <<disk, buffer, pending, timer, enabled, runs, phase, startup, disposed>>
      /\ program' = [program EXCEPT ![f] = content]
      /\ view' = [view EXCEPT ![f] = Diagnosed(IF differs THEN Evict(@) ELSE @, program', f, enabled)]
      /\ behind' = Behind(differs, {f})
      /\ Open' = Open /\ Changed' = Changed /\ Running'
  BY BoundAssumption DEF Pull, ClientEvent, docVars, lifeVars, Running, TypeOK, Open, Changed, IInv
<1>2. content \in Texts /\ program \in [Files -> Texts]
  BY <1>1 DEF IInv, TypeOK
<1>3. /\ view' \in [Files -> View] /\ \A g \in Files \ {f} : view'[g] = view[g]
      /\ Fresh(view'[f]) /\ (enabled => HasTs(view'[f], program', f))
  <2>1. Evict(view[f]) \in View /\ Sound(Evict(view[f])) /\ view[f] \in View /\ Sound(view[f])
    BY Now, ForgottenEffect
  <2> HIDE DEF differs
  <2> QED
    BY <1>1, <2>1, Now, DiagnosedEffect
<1>4. ~differs => program' = program
  BY <1>1, <1>2
<1> HIDE DEF content, differs
<1> USE DEF IInv
<1>5. TypeOK'
  BY <1>1, <1>2, <1>3 DEF TypeOK, View, Behind, Open
<1>6. PhaseFits'
  BY <1>1, <1>2 DEF PhaseFits
<1>7. PendingIsOpen' /\ RunsAreAccounted'
  BY <1>1 DEF PendingIsOpen, RunsAreAccounted
<1>8. ShownIsHeld'
  BY <1>1, <1>3, Now, ShownNext DEF Sound
<1>9. OpenHaveTs'
  BY <1>1, <1>3, Now, TsNext DEF OpenHaveTs, Diagnosing
<1>10. TsIsCurrent'
  <2> SUFFICES ASSUME Diagnosing', Changed' = {}, NEW g \in Open' \ behind'
               PROVE  Awaited(g)' \/ TsIsOf(program, g)'
    BY DEF TsIsCurrent, Diagnosing
  <2>1. CASE g = f
    BY <1>1, <1>3, <2>1, TsNext DEF Diagnosing
  <2>2. CASE g # f
    BY <1>1, <1>3, <1>4, <2>2, Now, StaysCurrent DEF Diagnosing, Behind
  <2> QED
    BY <2>1, <2>2
<1> QED
  BY <1>5, <1>6, <1>7, <1>8, <1>9, <1>10

LEMMA AllRediagnosed ==
  ASSUME IInv, NEW w \in [Files -> View], \A f \in Files : Sound(w[f]),
         disk' \in [Files -> Texts], events' \in 0..MaxEvents, enabled' \in BOOLEAN,
         UNCHANGED <<buffer, docVars, program, runs, lifeVars>>, behind' = behind \ Rediagnosed,
         view' = [f \in Files |-> IF f \in Open THEN Diagnosed(w[f], program, f, enabled') ELSE w[f]]
  PROVE  IInv'
<1> USE DEF IInv
<1>1. /\ UNCHANGED <<buffer, pending, timer, program, runs, phase, startup, disposed>>
      /\ Open' = Open /\ Changed' = Changed /\ (Running' <=> Running)
  BY DEF docVars, lifeVars, Open, Changed, Running
<1>2. view' \in [Files -> View] /\ ShownIsHeld' /\ OpenHaveTs' /\ TsIsCurrent'
  BY <1>1, AllDiagnosed
<1>3. TypeOK'
  BY <1>1, <1>2 DEF TypeOK, View
<1>4. PhaseFits' /\ PendingIsOpen' /\ RunsAreAccounted'
  BY <1>1 DEF PhaseFits, PendingIsOpen, RunsAreAccounted
<1> QED
  BY <1>2, <1>3, <1>4

LEMMA Watches == ASSUME IInv, NEW f \in Files, NEW t \in Texts, WatchChange(f, t) PROVE IInv'
<1> DEFINE w == Evicted(view, {f})
<1>1. w \in [Files -> View] /\ \A g \in Files : Sound(w[g])
  BY Now, EvictedEffect
<1>2. disk' \in [Files -> Texts] /\ events' \in 0..MaxEvents /\ enabled' = enabled /\ enabled \in BOOLEAN
  BY BoundAssumption DEF WatchChange, ClientEvent, IInv, TypeOK
<1>3. /\ UNCHANGED <<buffer, docVars, program, runs, lifeVars>> /\ behind' = behind \ Rediagnosed
      /\ view' = [g \in Files |-> IF g \in Open THEN Diagnosed(w[g], program, g, enabled') ELSE w[g]]
  BY <1>2 DEF WatchChange, RediagnoseAllOpen, Rediagnosed, Pipeline
<1> HIDE DEF w
<1> QED
  BY <1>1, <1>2, <1>3, AllRediagnosed

LEMMA Switches == ASSUME IInv, SwitchTs PROVE IInv'
<1>1. disk' \in [Files -> Texts] /\ events' \in 0..MaxEvents /\ enabled' \in BOOLEAN
  BY BoundAssumption DEF SwitchTs, ClientEvent, IInv, TypeOK
<1>2. /\ UNCHANGED <<buffer, docVars, program, runs, lifeVars>> /\ behind' = behind \ Rediagnosed
      /\ view' = [g \in Files |-> IF g \in Open THEN Diagnosed(view[g], program, g, enabled') ELSE view[g]]
  BY DEF SwitchTs, Rediagnosed
<1> QED
  BY <1>1, <1>2, Now, AllRediagnosed

LEMMA Excludes == ASSUME IInv, ChangeExclude PROVE IInv'
<1> DEFINE w == IF phase = "enriched" THEN [f \in Files |-> Clear(view[f])] ELSE view
<1>1. w \in [Files -> View] /\ \A g \in Files : Sound(w[g])
  BY Now, ForgottenEffect
<1>2. disk' \in [Files -> Texts] /\ events' \in 0..MaxEvents /\ enabled' = enabled /\ enabled \in BOOLEAN
  BY BoundAssumption DEF ChangeExclude, ClientEvent, IInv, TypeOK
<1>3. /\ UNCHANGED <<buffer, docVars, program, runs, lifeVars>> /\ behind' = behind \ Rediagnosed
      /\ view' = [g \in Files |-> IF g \in Open THEN Diagnosed(w[g], program, g, enabled') ELSE w[g]]
  BY <1>2 DEF ChangeExclude, RediagnoseAllOpen, Rediagnosed, Pipeline
<1> HIDE DEF w
<1> QED
  BY <1>1, <1>2, <1>3, AllRediagnosed

LEMMA Runs == ASSUME IInv, BecomeRunning PROVE IInv'
<1> USE DEF IInv
<1>1. /\ startup = "program" /\ ~disposed /\ startup' = "enrichment" /\ phase' = "running"
      /\ UNCHANGED <<disk, buffer, events, pending, timer, enabled, runs, disposed>> /\ behind' = {}
      /\ program' = [f \in Files |-> IF program[f] = Nothing THEN disk[f] ELSE program[f]]
      /\ Open' = Open /\ Changed' = Changed /\ Running'
  BY DEF BecomeRunning, clientVars, docVars, Open, Changed, Running
<1>2. program' \in [Files -> Texts]
  BY <1>1 DEF TypeOK
<1>3. view' \in [Files -> View] /\ ShownIsHeld' /\ OpenHaveTs' /\ TsIsCurrent'
  <2>1. view' = [f \in Files |-> IF f \in Open THEN Diagnosed(view[f], program', f, enabled') ELSE view[f]]
    BY <1>1 DEF BecomeRunning, Pipeline
  <2> QED
    BY <1>1, <2>1, Now, AllDiagnosed
<1>4. TypeOK'
  BY <1>1, <1>2, <1>3 DEF TypeOK, View
<1>5. PhaseFits' /\ PendingIsOpen' /\ RunsAreAccounted'
  BY <1>1, <1>2 DEF PhaseFits, PendingIsOpen, RunsAreAccounted
<1> QED
  BY <1>3, <1>4, <1>5

LEMMA Enriches == ASSUME IInv, BecomeEnriched PROVE IInv'
<1> USE DEF IInv
<1>1. /\ startup = "enrichment" /\ phase' = "enriched"
      /\ startup' = IF disposed THEN "failed" ELSE "compilation"
      /\ UNCHANGED <<disk, buffer, events, pending, timer, program, enabled, view, runs, disposed, behind>>
      /\ Open' = Open /\ Changed' = Changed /\ Running'
  BY DEF BecomeEnriched, clientVars, docVars, Open, Changed, Running
<1>2. (~disposed => Running) /\ program \in [Files -> Texts]
  BY <1>1 DEF PhaseFits
<1>3. TypeOK'
  BY <1>1, <1>2 DEF TypeOK
<1>4. PhaseFits' /\ PendingIsOpen' /\ RunsAreAccounted' /\ ShownIsHeld'
  BY <1>1, <1>2 DEF PhaseFits, PendingIsOpen, RunsAreAccounted, ShownIsHeld
<1>5. OpenHaveTs'
  BY <1>1, <1>2 DEF OpenHaveTs, Diagnosing
<1>6. TsIsCurrent'
  BY <1>1, <1>2 DEF TsIsCurrent, Awaited, TsIsOf, TsErrors
<1> QED
  BY <1>3, <1>4, <1>5, <1>6

LEMMA Finishes == ASSUME IInv, FinishInitialized PROVE IInv'
<1> USE DEF IInv
<1>1. /\ startup = "compilation" /\ startup' \in {"done", "failed"}
      /\ UNCHANGED <<disk, buffer, events, pending, timer, program, enabled, phase, disposed>>
      /\ Open' = Open /\ Changed' = Changed /\ (Running' <=> Running)
  BY DEF FinishInitialized, clientVars, docVars, Open, Changed, Running
<1>2. CASE disposed
  <2>1. UNCHANGED <<view, runs, behind>>
    BY <1>2 DEF FinishInitialized
  <2>2. TypeOK'
    BY <1>1, <2>1 DEF TypeOK
  <2>3. PhaseFits' /\ PendingIsOpen' /\ RunsAreAccounted' /\ ShownIsHeld'
    BY <1>1, <2>1 DEF PhaseFits, PendingIsOpen, RunsAreAccounted, ShownIsHeld
  <2>4. OpenHaveTs' /\ TsIsCurrent'
    BY <1>1, <1>2 DEF OpenHaveTs, TsIsCurrent, Diagnosing
  <2> QED
    BY <2>2, <2>3, <2>4
<1>3. CASE ~disposed
  <2>1. /\ view' = [f \in Files |-> IF f \in Open THEN Diagnosed(view[f], program', f, enabled') ELSE view[f]]
        /\ runs' = Propagated(runs, Open, {}, "own") /\ behind' = {}
    BY <1>1, <1>3 DEF FinishInitialized, Pipeline
  <2>2. view' \in [Files -> View] /\ ShownIsHeld' /\ OpenHaveTs' /\ TsIsCurrent'
    BY <1>1, <2>1, Now, AllDiagnosed
  <2>3. runs' \in Seq(Run) /\ Accounted(runs')
    BY <2>1, Now, PropagatedEffect
  <2>4. TypeOK'
    BY <1>1, <2>1, <2>2, <2>3 DEF TypeOK, View
  <2>5. PhaseFits' /\ PendingIsOpen' /\ RunsAreAccounted'
    BY <1>1, <1>3, <2>3 DEF PhaseFits, PendingIsOpen, RunsAreAccounted
  <2> QED
    BY <2>2, <2>4, <2>5
<1> QED
  BY <1>2, <1>3

LEMMA ShutsDown == ASSUME IInv, Shutdown PROVE IInv'
<1> USE DEF IInv
<1>1. /\ ~disposed /\ disposed' = TRUE /\ phase' = "shutdown" /\ Flush /\ view' = FlushedView
      /\ runs' = StopPropagation(FlushedRuns) /\ behind' = behind \ Changed
      /\ UNCHANGED <<disk, buffer, events, enabled, startup>>
      /\ Open' = Open /\ ~Running'
  BY DEF Shutdown, clientVars, Open, Running
<1>2. runs' \in Seq(Run) /\ Accounted(runs') /\ Stopped(runs')
  BY <1>1, FlushedPropagations, StopEffect
<1>3. TypeOK'
  <2>1. program' \in [Files -> Texts \cup {Nothing}]
    BY <1>1, FlushedPrograms
  <2> QED
    BY <1>1, <1>2, <2>1, FlushedPrograms, FlushedViews DEF TypeOK, View
<1>4. PhaseFits'
  BY <1>1, FlushedPrograms DEF PhaseFits
<1>5. PendingIsOpen' /\ RunsAreAccounted'
  BY <1>1, <1>2, FlushedPrograms DEF PendingIsOpen, RunsAreAccounted
<1>6. ShownIsHeld'
  BY <1>1, Now, FlushedViews, ShownNext
<1>7. OpenHaveTs' /\ TsIsCurrent'
  BY <1>1 DEF OpenHaveTs, TsIsCurrent, Diagnosing
<1> QED
  BY <1>3, <1>4, <1>5, <1>6, <1>7

(* A callback of a propagation, as it ends one way or the other.           *)
LEMMA GivesUpOrThrows ==
  ASSUME IInv, runs # <<>>, Head(runs).cancelled \/ disposed,
         runs' = HandleNull(Tail(runs)) \/ (disposed /\ runs' = Tail(runs)),
         UNCHANGED <<view, behind, clientVars, docVars, program, enabled, lifeVars>>
  PROVE  IInv'
<1> USE DEF IInv
<1>1. /\ UNCHANGED <<disk, buffer, events, pending, timer, program, enabled, view, behind>>
      /\ UNCHANGED <<phase, startup, disposed>>
      /\ Open' = Open /\ Changed' = Changed /\ (Running' <=> Running)
  BY DEF clientVars, docVars, lifeVars, Open, Changed, Running
<1>2. /\ Tail(runs) \in Seq(Run) /\ Accounted(Tail(runs)) /\ (disposed => Stopped(Tail(runs)))
      /\ \A f : Awaits(runs, f) => Awaits(Tail(runs), f) \/ ~Head(runs).cancelled
  BY Now, TailEffect DEF RunsAreAccounted
<1>3. /\ HandleNull(Tail(runs)) \in Seq(Run)
      /\ Accounted(HandleNull(Tail(runs))) /\ Stopped(HandleNull(Tail(runs)))
      /\ \A f : Awaits(Tail(runs), f) => Awaits(HandleNull(Tail(runs)), f)
  BY <1>2, HandleNullEffect DEF Awaits
<1>4. TypeOK'
  BY <1>1, <1>2, <1>3 DEF TypeOK
<1>5. PhaseFits' /\ PendingIsOpen' /\ ShownIsHeld' /\ OpenHaveTs'
  BY <1>1 DEF PhaseFits, PendingIsOpen, ShownIsHeld, OpenHaveTs, Diagnosing
<1>6. RunsAreAccounted'
  BY <1>1, <1>2, <1>3 DEF RunsAreAccounted
<1>7. TsIsCurrent'
  <2> SUFFICES ASSUME Diagnosing', Changed' = {}, NEW f \in Open' \ behind'
               PROVE  Awaited(f)' \/ TsIsOf(program, f)'
    BY DEF TsIsCurrent, Diagnosing
  <2>1. ~disposed
    BY <1>1 DEF Diagnosing
  <2>2. Awaits(runs, f) => Awaits(runs', f)
    BY <1>2, <1>3, <2>1
  <2> QED
    BY <1>1, <2>2, StaysCurrent DEF Diagnosing
<1> QED
  BY <1>4, <1>5, <1>6, <1>7

LEMMA GoesOn ==
  ASSUME IInv, PropagateStep, NEW f \in Head(runs).files, ~Head(runs).cancelled, ~disposed,
         runs' = Rest(Head(runs), f), behind' = behind \ {f},
         view' = IF "TypeScript" \notin DOMAIN view[f].held /\ TsErrors(program, f) = {}
                 THEN view ELSE [view EXCEPT ![f] = WithTs(@, program, f, TRUE)]
  PROVE  IInv'
<1> USE DEF IInv
<1>1. /\ UNCHANGED <<disk, buffer, events, pending, timer, program, enabled, phase, startup, disposed>>
      /\ Open' = Open /\ Changed' = Changed /\ (Running' <=> Running)
  BY DEF PropagateStep, clientVars, docVars, lifeVars, Open, Changed, Running
<1>2. f \in Files /\ runs # <<>>
  <2>1. Head(runs) \in Run /\ runs # <<>>
    BY Now, TailEffect DEF PropagateStep
  <2> QED
    BY <2>1 DEF Run
<1>3. /\ runs' \in Seq(Run) /\ Accounted(runs')
      /\ \A g \in Files \ {f} : Awaits(runs, g) => Awaits(runs', g)
  BY <1>2, Now, RestEffect
<1>4. LET v == WithTs(view[f], program, f, TRUE)
      IN  /\ v \in View /\ HasTs(v, program, f) /\ Fresh(v)
  <2>1. TsErrors(program, f) \in Diags
    BY <1>2, ImportsAssumption DEF TsErrors, Diags
  <2> QED
    BY <1>2, <2>1, Now, UpdateEffect DEF WithTs, HasTs, Kinds
<1>5. /\ view' \in [Files -> View] /\ \A g \in Files : Sound(view'[g])
      /\ \A g \in Open : Fresh(view'[g])
      /\ \A g \in Files \ {f} : view'[g] = view[g]
      /\ view'[f] = view[f] \/ HasTs(view'[f], program, f)
      /\ "TypeScript" \in DOMAIN view[f].held => HasTs(view'[f], program, f)
  BY <1>2, <1>4, Now DEF Sound
<1>6. TypeOK'
  BY <1>1, <1>3, <1>5 DEF TypeOK, View
<1>7. PhaseFits' /\ PendingIsOpen'
  BY <1>1 DEF PhaseFits, PendingIsOpen
<1>8. RunsAreAccounted'
  BY <1>1, <1>3 DEF RunsAreAccounted
<1>9. ShownIsHeld'
  BY <1>1, <1>5, ShownNext
<1>10. OpenHaveTs'
  <2> SUFFICES ASSUME Diagnosing, NEW g \in Open PROVE "TypeScript" \in DOMAIN view'[g].held
    BY <1>1 DEF OpenHaveTs, Diagnosing
  <2>1. g \in Files /\ "TypeScript" \in DOMAIN view[g].held
    BY Now DEF OpenHaveTs
  <2> QED
    BY <1>5, <2>1 DEF HasTs
<1>11. TsIsCurrent'
  <2> SUFFICES ASSUME Diagnosing, Changed = {}, NEW g \in Open \ behind'
               PROVE  Awaited(g)' \/ TsIsOf(program, g)'
    BY <1>1 DEF TsIsCurrent, Diagnosing
  <2>1. g \in Files /\ "TypeScript" \in DOMAIN view[g].held
    BY Now DEF OpenHaveTs
  <2>2. CASE g = f
    BY <1>1, <1>5, <2>1, <2>2, TsNext
  <2>3. CASE g # f
    BY <1>1, <1>3, <1>5, <2>1, <2>3, StaysCurrent
  <2> QED
    BY <2>2, <2>3
<1> QED
  BY <1>6, <1>7, <1>8, <1>9, <1>10, <1>11

LEMMA Propagates == ASSUME IInv, PropagateStep PROVE IInv'
<1>1. CASE GivesUp(Head(runs)) /\ runs' = HandleNull(Tail(runs)) /\ UNCHANGED <<view, behind>>
  BY <1>1, GivesUpOrThrows DEF PropagateStep, GivesUp
<1>2. CASE disposed /\ runs' = Tail(runs) /\ UNCHANGED <<view, behind>>
  BY <1>2, GivesUpOrThrows DEF PropagateStep
<1>3. ASSUME NEW f \in Head(runs).files, ~GivesUp(Head(runs)), ~disposed,
             runs' = Rest(Head(runs), f), behind' = behind \ {f},
             view' = IF "TypeScript" \notin DOMAIN view[f].held /\ TsErrors(program, f) = {}
                     THEN view ELSE [view EXCEPT ![f] = WithTs(@, program, f, TRUE)]
      PROVE  IInv'
  BY <1>3, GoesOn DEF GivesUp
<1> QED
  BY <1>1, <1>2, <1>3 DEF PropagateStep

LEMMA Stutters == ASSUME IInv, UNCHANGED vars PROVE IInv'
  BY DEF IInv, TypeOK, PhaseFits, PendingIsOpen, RunsAreAccounted, ShownIsHeld, OpenHaveTs, TsIsCurrent,
         vars, clientVars, docVars, lifeVars, Running, Open, Changed, Diagnosing, Awaited, TsIsOf
------------------------------------------------------------------------------
LEMMA Starts == Init => IInv
<1> SUFFICES ASSUME Init PROVE IInv
  OBVIOUS
<1>1. TypeOK
  <2>1. view \in [Files -> [held : Held, shown : Diags]]
    BY NoneHeld DEF Init, Diags
  <2>2. runs \in Seq(Run)
    BY DEF Init
  <2>3. events \in 0..MaxEvents
    BY BoundAssumption DEF Init
  <2> QED
    BY <2>1, <2>2, <2>3 DEF Init, TypeOK, Running
<1>2. PhaseFits /\ PendingIsOpen
  BY DEF Init, PhaseFits, PendingIsOpen, Running, Open, Changed
<1>3. RunsAreAccounted
  BY NoneHeld DEF Init, RunsAreAccounted, Accounted, Stopped
<1>4. ShownIsHeld
  BY NoneHeld DEF Init, ShownIsHeld
<1>5. OpenHaveTs /\ TsIsCurrent
  BY DEF Init, OpenHaveTs, TsIsCurrent, Diagnosing, Running
<1> QED
  BY <1>1, <1>2, <1>3, <1>4, <1>5 DEF IInv

LEMMA Inductive == IInv /\ [Next]_vars => IInv'
  BY Opens, Changes, Watches, Saves, Closes, Pulls, Switches, Excludes, TimerFires, Propagates,
     Runs, Enriches, Finishes, ShutsDown, Stutters DEF Next, Client

(* Every state the server reaches satisfies the invariant.                 *)
THEOREM Invariant == Spec => []IInv
  BY Starts, Inductive, PTL DEF Spec

(* Every variable keeps its type: in particular, the program has a text    *)
(* for every file as soon as the server runs (handleInitialized).          *)
THEOREM TypeCorrect == Spec => []TypeOK
<1>1. IInv => TypeOK
  BY DEF IInv
<1> QED
  BY <1>1, Invariant, PTL

(* What the editor shows is what the manager holds, merged, through every  *)
(* update, eviction, close, clear and callback (DiagnosticsManager).       *)
THEOREM EditorShowsHeld == Spec => []ShownIsHeld
<1>1. IInv => ShownIsHeld
  BY DEF IInv
<1> QED
  BY <1>1, Invariant, PTL

(* With nothing pending, an open file that is not behind has the           *)
(* TypeScript diagnostics of the current program or a propagation that     *)
(* goes on will come to it (propagateTsDiagnosticsAsync).                  *)
THEOREM TsStaysCurrent == Spec => []TsIsCurrent
<1>1. IInv => TsIsCurrent
  BY DEF IInv
<1> QED
  BY <1>1, Invariant, PTL
------------------------------------------------------------------------------
(* What a step may do to the view of a file that is not open: nothing is   *)
(* pending for it, and no pipeline over the open files comes to it.        *)
LEMMA ClosedStaysBlank ==
  ASSUME IInv, [Next]_vars, NEW f \in Files, buffer[f] = Nothing, buffer'[f] = Nothing,
         view'[f].shown # view[f].shown, view'[f].shown # {}
  PROVE  Pull(f) \/ (PropagateStep /\ f \in Head(runs).files)
<1>1. f \notin Open /\ f \notin Changed /\ view[f] \in View /\ FlushedView[f] = view[f]
  <2>1. f \notin Open /\ f \notin Changed
    BY DEF Open, IInv, PendingIsOpen
  <2> QED
    BY <2>1, Now, FlushedViews
<1>2. /\ Evict(view[f]).shown = view[f].shown
      /\ Clear(view[f]) = view[f] \/ Clear(view[f]).shown = {}
  BY <1>1 DEF Evict, View, Clear, OnClose
<1>3. ASSUME NEW g \in Files, NEW t \in Texts, OpenDocument(g, t) PROVE FALSE
  <2>1. g # f
    BY <1>3, TextsAssumption DEF OpenDocument, IInv, TypeOK
  <2> QED
    BY <1>3, <2>1, Now DEF OpenDocument
<1>4. ASSUME NEW g \in Files, NEW t \in Texts, ChangeDocument(g, t) PROVE FALSE
  BY <1>4 DEF ChangeDocument
<1>5. ASSUME NEW g \in Files, NEW t \in Texts, WatchChange(g, t) PROVE FALSE
  BY <1>1, <1>2, <1>5 DEF WatchChange, RediagnoseAllOpen, Rediagnosed, Pipeline, Evicted
<1>6. ASSUME NEW g \in Files, SaveDocument(g) PROVE FALSE
  <2>1. g # f /\ view'[f] = FlushedView[f]
    BY <1>6 DEF SaveDocument, Pipeline, Evicted
  <2> QED
    BY <1>1, <2>1
<1>7. ASSUME NEW g \in Files, CloseDocument(g) PROVE FALSE
  BY <1>7, Now DEF CloseDocument
<1>8. ASSUME NEW g \in Files, Pull(g) PROVE g = f
  BY <1>8, Now DEF Pull
<1>9. CASE SwitchTs
  BY <1>1, <1>9 DEF SwitchTs, Rediagnosed
<1>10. CASE ChangeExclude
  <2>1. view'[f] = view[f] \/ view'[f] = Clear(view[f])
    BY <1>1, <1>10 DEF ChangeExclude, RediagnoseAllOpen, Rediagnosed, Pipeline
  <2> QED
    BY <1>2, <2>1
<1>11. CASE FireTimer \/ Shutdown
  BY <1>1, <1>11 DEF FireTimer, Shutdown
<1>12. CASE PropagateStep
  <2>1. ASSUME NEW g \in Head(runs).files, g # f,
               view' = view \/ view' = [view EXCEPT ![g] = WithTs(@, program, g, TRUE)]
        PROVE  FALSE
    BY <2>1, Now
  <2> QED
    BY <1>12, <2>1 DEF PropagateStep
<1>13. CASE BecomeRunning \/ BecomeEnriched \/ FinishInitialized
  BY <1>1, <1>13 DEF BecomeRunning, BecomeEnriched, FinishInitialized, Pipeline
<1>14. CASE UNCHANGED vars
  BY <1>14 DEF vars
<1> QED
  BY <1>3, <1>4, <1>5, <1>6, <1>7, <1>8, <1>9, <1>10, <1>11, <1>12, <1>13, <1>14 DEF Next, Client

(* Diagnostics appear on a file that is not open only by a pull or by a    *)
(* propagation that listed it while it was open.                           *)
THEOREM NoGhostsAppear == Spec => NoNewGhosts
<1>1. IInv /\ [Next]_vars =>
        [\A f \in Files :
           (buffer[f] = Nothing /\ buffer'[f] = Nothing /\ view[f].shown = {} /\ view'[f].shown # {})
             => Pull(f) \/ (PropagateStep /\ f \in Head(runs).files)]_vars
  BY ClosedStaysBlank
<1> QED
  BY <1>1, Invariant, PTL DEF Spec, NoNewGhosts

(* After the shutdown only a propagation whose handle another one wiped,   *)
(* or an initialization that had not ended, uses the disposed project      *)
(* (handleShutdown).                                                       *)
THEOREM DisposedStaysUnused == Spec => DisposedIsUnused
<1>1. ASSUME IInv, disposed, UsesProject
      PROVE  (PropagateStep /\ Head(runs).wiped) \/ startup \in {"enrichment", "compilation"}
  <2>1. CASE PropagateStep /\ ~GivesUp(Head(runs))
    <3>1. Head(runs) = runs[1] /\ 1 \in DOMAIN runs
      BY <2>1, Now, TailEffect DEF PropagateStep
    <3> QED
      BY <1>1, <2>1, <3>1 DEF IInv, RunsAreAccounted, Stopped, GivesUp
  <2>2. CASE BecomeEnriched \/ FinishInitialized
    BY <2>2 DEF BecomeEnriched, FinishInitialized
  <2> QED
    BY <1>1, <2>1, <2>2 DEF UsesProject
<1>2. IInv /\ [Next]_vars =>
        [(disposed /\ UsesProject) =>
           (PropagateStep /\ Head(runs).wiped) \/ startup \in {"enrichment", "compilation"}]_vars
  BY <1>1
<1> QED
  BY <1>2, Invariant, PTL DEF Spec, DisposedIsUnused
==============================================================================
