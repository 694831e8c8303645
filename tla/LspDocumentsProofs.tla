-------------------------- MODULE LspDocumentsProofs --------------------------
(***************************************************************************)
(* What the language server's diagnostics were computed from, for every    *)
(* workspace, every text and every bound on events and builds.             *)
(*                                                                         *)
(* The properties speak of documents about which nothing is on its way.    *)
(* Inductive is what holds of a document from the moment its open was      *)
(* handled: its text is in the editor, pending or diagnosed; and of the    *)
(* continuations, that a document opened again is told again, in order.    *)
(***************************************************************************)
EXTENDS LspDocuments, SequenceTheorems, TLAPS

(* The continuations of f whose document is still the open one.            *)
Tells(q, i, kind, f) == q[i].kind = kind /\ q[i].file = f /\ q[i].last = Nothing
OpenAhead(q, f) == \E i \in DOMAIN q : Tells(q, i, "open", f)
ChangeAhead(q, f) == \E i \in DOMAIN q : q[i].kind = "change" /\ q[i].file = f

(* Only an open document has such a continuation; the continuations of one *)
(* that was closed come before the open of the next; and a change follows  *)
(* every open.                                                             *)
OnlyOpenTell(q, b) == \A i \in DOMAIN q : q[i].last = Nothing => b[q[i].file] # Nothing
ClosedComeFirst(q, b) ==
  \A i \in DOMAIN q : q[i].last # Nothing /\ b[q[i].file] # Nothing =>
    \E j \in DOMAIN q : j > i /\ Tells(q, j, "open", q[i].file)
ChangeFollows(q) ==
  \A i \in DOMAIN q : Tells(q, i, "open", q[i].file) =>
    \E j \in DOMAIN q : j > i /\ Tells(q, j, "change", q[i].file)
InOrder(q, b) == OnlyOpenTell(q, b) /\ ClosedComeFirst(q, b) /\ ChangeFollows(q)

(* A document is tracked while it is open; what is pending is of one whose *)
(* own change was swallowed; one whose change was not has it before it.    *)
TrackedIsOpen ==
  \A f \in Files :
    /\ tracked[f] = "closed" <=> buffer[f] = Nothing
    /\ pending[f] # Nothing => tracked[f] = "open"
    /\ tracked[f] = "opened" => ChangeAhead(waiting, f)

(* Before readiness no open was handled.  Once the program is there it has *)
(* a text for every file and no handler waits for a document that was      *)
(* closed.                                                                 *)
ReadyFirst ==
  /\ Running => /\ ready /\ program \in [Solid -> Text]
                /\ \A i \in DOMAIN waiting : waiting[i].last = Nothing
  /\ ~ready => \A f \in Files : buffer[f] # Nothing => OpenAhead(waiting, f)

BuildsAreEnriched == building # <<>> => phase = "enriched"
SolidStays ==
  /\ \A f \in Solid : disk[f] # Absent
  /\ \A n \in notices : n.file \in Solid => n.kind = "changed"

(* The server has the text of f: its open was handled, and so was every    *)
(* change but the open's own.                                              *)
Caught(f) ==
  /\ buffer[f] # Nothing /\ ~OpenAhead(waiting, f)
  /\ tracked[f] = "opened" \/ ~ChangeAhead(waiting, f)
PendingIsText == \A f \in Files : Caught(f) /\ pending[f] # Nothing => pending[f] = buffer[f] /\ since[f] = "edited"

(* When nothing is pending the program has that text too, unless the       *)
(* document was opened before it was there, and the diagnostics are of the *)
(* program.                                                                *)
SingleIsOfProgram ==
  \A f \in Solid : Caught(f) /\ pending[f] = Nothing =>
    /\ since[f] # "early" => program[f] = buffer[f]
    /\ diags[f].single = IF Running THEN program[f] ELSE buffer[f]

(* The tracker has it, or the build that replaces it last.                 *)
Edited(f) == Caught(f) /\ pending[f] = Nothing /\ since[f] = "edited"
CrossIsOfTracker ==
  \A f \in registry \ overtaken : phase = "enriched" /\ Edited(f) =>
    IF building = <<>>
    THEN trees[f] = buffer[f] /\ diags[f].cross # Nothing /\ diags[f].cross[f] = buffer[f]
    ELSE building[Len(building)][f] = buffer[f]

(* The inductive invariant.                                                *)
IInv ==
  /\ TypeOK /\ InOrder(waiting, buffer) /\ TrackedIsOpen /\ ReadyFirst
  /\ BuildsAreEnriched /\ SolidStays
  /\ PendingIsText /\ SingleIsOfProgram /\ CrossIsOfTracker
------------------------------------------------------------------------------
(* Continuations that are handled, added or whose document is closed.      *)
LEMMA WaitingIs ==
  ASSUME NEW q \in Seq(Waiting)
  PROVE  /\ Len(q) \in Nat /\ DOMAIN q = 1..Len(q)
         /\ \A i \in DOMAIN q :
              /\ q[i].kind \in {"open", "change", "save"} /\ q[i].file \in Files
              /\ q[i].last \in Contents \cup {Nothing}
<1>1. Len(q) \in Nat /\ DOMAIN q = 1..Len(q) /\ \A i \in DOMAIN q : q[i] \in Waiting
  OBVIOUS
<1> QED
  BY <1>1 DEF Waiting

LEMMA TailIs ==
  ASSUME NEW q \in Seq(Waiting), q # <<>>
  PROVE  /\ Tail(q) \in Seq(Waiting) /\ Head(q) = q[1] /\ 1 \in DOMAIN q
         /\ \A i \in DOMAIN Tail(q) : i + 1 \in DOMAIN q /\ Tail(q)[i] = q[i + 1]
         /\ \A i \in DOMAIN q : i = 1 \/ (i - 1 \in DOMAIN Tail(q) /\ Tail(q)[i - 1] = q[i])
  OBVIOUS

LEMMA Handled ==
  ASSUME NEW q \in Seq(Waiting), q # <<>>, NEW b, InOrder(q, b)
  PROVE  /\ Tail(q) \in Seq(Waiting) /\ InOrder(Tail(q), b)
         /\ \A g \in Files : /\ OpenAhead(Tail(q), g) => OpenAhead(q, g)
                             /\ OpenAhead(q, g) => OpenAhead(Tail(q), g) \/ Tells(q, 1, "open", g)
                             /\ ChangeAhead(Tail(q), g) => ChangeAhead(q, g)
                             /\ ChangeAhead(q, g) =>
                                  ChangeAhead(Tail(q), g) \/ (q[1].kind = "change" /\ q[1].file = g)
         /\ (\A i \in DOMAIN q : q[i].last = Nothing) =>
              q[1].last = Nothing /\ \A i \in DOMAIN Tail(q) : Tail(q)[i].last = Nothing
<1> DEFINE t == Tail(q)
<1>1. /\ t \in Seq(Waiting) /\ 1 \in DOMAIN q /\ DOMAIN q \subseteq Nat /\ DOMAIN t \subseteq Nat
      /\ \A i \in DOMAIN t : i + 1 \in DOMAIN q /\ t[i] = q[i + 1]
      /\ \A i \in DOMAIN q : i = 1 \/ (i - 1 \in DOMAIN t /\ t[i - 1] = q[i])
  BY TailIs, WaitingIs
<1> HIDE DEF t
<1>2. OnlyOpenTell(t, b)
  BY <1>1 DEF InOrder, OnlyOpenTell
<1>3. \A i \in DOMAIN t : \A j \in DOMAIN q : j > i + 1 => j - 1 \in DOMAIN t /\ j - 1 > i /\ t[j - 1] = q[j]
  BY <1>1
<1>4. ClosedComeFirst(t, b)
  <2> SUFFICES ASSUME NEW i \in DOMAIN t, t[i].last # Nothing, b[t[i].file] # Nothing
               PROVE  \E j \in DOMAIN t : j > i /\ Tells(t, j, "open", t[i].file)
    BY DEF ClosedComeFirst
  <2>1. i + 1 \in DOMAIN q /\ t[i] = q[i + 1]
    BY <1>1
  <2>2. PICK j \in DOMAIN q : j > i + 1 /\ Tells(q, j, "open", t[i].file)
    BY <2>1 DEF InOrder, ClosedComeFirst
  <2>3. j - 1 \in DOMAIN t /\ j - 1 > i /\ t[j - 1] = q[j]
    BY <1>3, <2>2
  <2> QED
    BY <2>2, <2>3 DEF Tells
<1>5. ChangeFollows(t)
  <2> SUFFICES ASSUME NEW i \in DOMAIN t, Tells(t, i, "open", t[i].file)
               PROVE  \E j \in DOMAIN t : j > i /\ Tells(t, j, "change", t[i].file)
    BY DEF ChangeFollows
  <2>1. i + 1 \in DOMAIN q /\ t[i] = q[i + 1] /\ Tells(q, i + 1, "open", q[i + 1].file)
    BY <1>1 DEF Tells
  <2>2. PICK j \in DOMAIN q : j > i + 1 /\ Tells(q, j, "change", t[i].file)
    BY <2>1 DEF InOrder, ChangeFollows
  <2>3. j - 1 \in DOMAIN t /\ j - 1 > i /\ t[j - 1] = q[j]
    BY <1>3, <2>2
  <2> QED
    BY <2>2, <2>3 DEF Tells
<1>6. \A g \in Files : /\ OpenAhead(t, g) => OpenAhead(q, g)
                       /\ OpenAhead(q, g) => OpenAhead(t, g) \/ Tells(q, 1, "open", g)
                       /\ ChangeAhead(t, g) => ChangeAhead(q, g)
                       /\ ChangeAhead(q, g) =>
                            ChangeAhead(t, g) \/ (q[1].kind = "change" /\ q[1].file = g)
  BY <1>1 DEF OpenAhead, ChangeAhead, Tells
<1> QED
  BY <1>1, <1>2, <1>4, <1>5, <1>6 DEF InOrder, t

(* The head: if its document was closed and another opened, that open is   *)
(* still to come, and so is the change of an open.                         *)
LEMMA HeadInOrder ==
  ASSUME NEW q \in Seq(Waiting), q # <<>>, NEW b, InOrder(q, b)
  PROVE  /\ Head(q) = q[1] /\ q[1].file \in Files
         /\ q[1].last = Nothing => b[q[1].file] # Nothing
         /\ q[1].last # Nothing => q[1].last \in Contents
         /\ q[1].last # Nothing /\ b[q[1].file] # Nothing => OpenAhead(Tail(q), q[1].file)
         /\ Tells(q, 1, "open", q[1].file) => ChangeAhead(Tail(q), q[1].file)
<1> DEFINE t == Tail(q)
<1>1. /\ Head(q) = q[1] /\ 1 \in DOMAIN q /\ DOMAIN q \subseteq Nat
      /\ \A i \in DOMAIN q : i > 1 => i - 1 \in DOMAIN t /\ t[i - 1] = q[i]
      /\ q[1].file \in Files /\ q[1].last \in Contents \cup {Nothing}
  BY TailIs, WaitingIs
<1> HIDE DEF t
<1>2. q[1].last = Nothing => b[q[1].file] # Nothing
  BY <1>1 DEF InOrder, OnlyOpenTell
<1>3. q[1].last # Nothing /\ b[q[1].file] # Nothing => OpenAhead(t, q[1].file)
  BY <1>1 DEF InOrder, ClosedComeFirst, OpenAhead, Tells
<1>4. Tells(q, 1, "open", q[1].file) => ChangeAhead(t, q[1].file)
  BY <1>1 DEF InOrder, ChangeFollows, ChangeAhead, Tells
<1> QED
  BY <1>1, <1>2, <1>3, <1>4 DEF t

LEMMA Added ==
  ASSUME NEW q \in Seq(Waiting), NEW b, InOrder(q, b), NEW w \in Waiting,
         w.kind # "open", w.last = Nothing, b[w.file] # Nothing
  PROVE  LET r == Append(q, w)
         IN  /\ r \in Seq(Waiting) /\ InOrder(r, b)
             /\ \A g \in Files : /\ OpenAhead(r, g) <=> OpenAhead(q, g)
                                 /\ ChangeAhead(r, g) <=> ChangeAhead(q, g) \/ (w.kind = "change" /\ g = w.file)
             /\ (\A i \in DOMAIN q : q[i].last = Nothing) => \A i \in DOMAIN r : r[i].last = Nothing
<1> DEFINE r == Append(q, w)
           n == Len(q)
<1>1. w.file \in Files
  BY DEF Waiting
<1>2. /\ r \in Seq(Waiting) /\ DOMAIN r = DOMAIN q \cup {n + 1} /\ n + 1 \in Nat /\ DOMAIN q = 1..n
      /\ (\A i \in DOMAIN q : r[i] = q[i]) /\ r[n + 1] = w
  BY <1>1
<1>3. \A i \in DOMAIN q : q[i].file \in Files /\ i \in Nat
  BY WaitingIs
<1> HIDE DEF r, n
<1>4. OnlyOpenTell(r, b)
  BY <1>1, <1>2, <1>3 DEF InOrder, OnlyOpenTell
<1>5. ClosedComeFirst(r, b)
  BY <1>1, <1>2, <1>3 DEF InOrder, ClosedComeFirst, Tells
<1>6. ChangeFollows(r)
  BY <1>1, <1>2, <1>3 DEF InOrder, ChangeFollows, Tells
<1>7. \A g \in Files : /\ OpenAhead(r, g) <=> OpenAhead(q, g)
                       /\ ChangeAhead(r, g) <=> ChangeAhead(q, g) \/ (w.kind = "change" /\ g = w.file)
  BY <1>1, <1>2 DEF OpenAhead, ChangeAhead, Tells
<1> QED
  BY <1>1, <1>2, <1>4, <1>5, <1>6, <1>7 DEF InOrder, r

LEMMA Opened ==
  ASSUME NEW q \in Seq(Waiting), NEW b \in [Files -> Contents \cup {Nothing}], InOrder(q, b),
         NEW f \in Files, NEW t \in Contents, b[f] = Nothing
  PROVE  LET r == q \o <<[kind |-> "open", file |-> f, last |-> Nothing],
                         [kind |-> "change", file |-> f, last |-> Nothing]>>
         IN  /\ r \in Seq(Waiting) /\ InOrder(r, [b EXCEPT ![f] = t])
             /\ OpenAhead(r, f) /\ ChangeAhead(r, f)
             /\ \A g \in Files \ {f} : /\ OpenAhead(r, g) <=> OpenAhead(q, g)
                                       /\ ChangeAhead(r, g) <=> ChangeAhead(q, g)
             /\ (\A i \in DOMAIN q : q[i].last = Nothing) => \A i \in DOMAIN r : r[i].last = Nothing
<1> DEFINE u == [kind |-> "open", file |-> f, last |-> Nothing]
           v == [kind |-> "change", file |-> f, last |-> Nothing]
           r == q \o <<u, v>>
           n == Len(q)
           c == [b EXCEPT ![f] = t]
<1>1. /\ u \in Waiting /\ u.kind = "open" /\ u.file = f /\ u.last = Nothing
      /\ v \in Waiting /\ v.kind = "change" /\ v.file = f /\ v.last = Nothing
  BY DEF Waiting
<1>2. \A g \in Files : c[g] # Nothing <=> b[g] # Nothing \/ g = f
  BY FilesAssumption
<1> HIDE DEF u, v, c
<1>3. /\ r \in Seq(Waiting) /\ DOMAIN r = DOMAIN q \cup {n + 1, n + 2} /\ n \in Nat /\ DOMAIN q = 1..n
      /\ (\A i \in DOMAIN q : r[i] = q[i]) /\ r[n + 1] = u /\ r[n + 2] = v
  BY <1>1
<1>4. \A i \in DOMAIN q : q[i].file \in Files /\ i \in Nat /\ i < n + 1 /\ n + 1 < n + 2
  BY <1>3, WaitingIs
<1> HIDE DEF r, n
<1>5. OnlyOpenTell(r, c)
  BY <1>1, <1>2, <1>3, <1>4 DEF InOrder, OnlyOpenTell
<1>6. ClosedComeFirst(r, c)
  BY <1>1, <1>2, <1>3, <1>4 DEF InOrder, ClosedComeFirst, Tells
<1>7. ChangeFollows(r)
  BY <1>1, <1>3, <1>4 DEF InOrder, ChangeFollows, Tells
<1>8. /\ OpenAhead(r, f) /\ ChangeAhead(r, f)
      /\ \A g \in Files \ {f} : /\ OpenAhead(r, g) <=> OpenAhead(q, g)
                                /\ ChangeAhead(r, g) <=> ChangeAhead(q, g)
  BY <1>1, <1>3 DEF OpenAhead, ChangeAhead, Tells
<1> QED
  BY <1>1, <1>3, <1>5, <1>6, <1>7, <1>8 DEF InOrder, r, u, v, c

LEMMA Closed ==
  ASSUME NEW q \in Seq(Waiting), NEW b \in [Files -> Contents \cup {Nothing}], InOrder(q, b),
         NEW f \in Files, b[f] # Nothing
  PROVE  LET r == [i \in DOMAIN q |-> IF q[i].file = f /\ q[i].last = Nothing
                                      THEN [q[i] EXCEPT !.last = b[f]] ELSE q[i]]
         IN  /\ r \in Seq(Waiting) /\ InOrder(r, [b EXCEPT ![f] = Nothing])
             /\ \A g \in Files \ {f} : /\ OpenAhead(r, g) <=> OpenAhead(q, g)
                                       /\ ChangeAhead(r, g) <=> ChangeAhead(q, g)
             /\ q = <<>> => r = <<>>
<1> DEFINE r == [i \in DOMAIN q |-> IF q[i].file = f /\ q[i].last = Nothing
                                    THEN [q[i] EXCEPT !.last = b[f]] ELSE q[i]]
           c == [b EXCEPT ![f] = Nothing]
<1>1. \A i \in DOMAIN q : q[i] \in Waiting
  OBVIOUS
<1>2. r \in [DOMAIN q -> Waiting]
  BY <1>1 DEF Waiting
<1>3. r \in Seq(Waiting) /\ DOMAIN r = DOMAIN q
  <2>1. Len(q) \in Nat /\ DOMAIN q = 1..Len(q)
    BY WaitingIs
  <2>2. r \in [1..Len(q) -> Waiting]
    BY <1>2, <2>1
  <2> QED
    BY <2>1, <2>2, SeqDef
<1>4. \A i \in DOMAIN q : /\ r[i].file = q[i].file /\ r[i].kind = q[i].kind
                          /\ q[i].file = f => r[i].last # Nothing
                          /\ q[i].file # f => r[i] = q[i]
  BY <1>1 DEF Waiting
<1>5. c[f] = Nothing /\ \A g \in Files \ {f} : c[g] = b[g]
  OBVIOUS
<1>6. \A i \in DOMAIN q : q[i].file \in Files
  BY WaitingIs
<1>7. q = <<>> => r = <<>>
  OBVIOUS
<1> HIDE DEF r, c
<1>8. OnlyOpenTell(r, c) /\ ClosedComeFirst(r, c) /\ ChangeFollows(r)
  BY <1>3, <1>4, <1>5, <1>6 DEF InOrder, OnlyOpenTell, ClosedComeFirst, ChangeFollows, Tells
<1>9. \A g \in Files \ {f} : /\ OpenAhead(r, g) <=> OpenAhead(q, g)
                             /\ ChangeAhead(r, g) <=> ChangeAhead(q, g)
  BY <1>3, <1>4 DEF OpenAhead, ChangeAhead, Tells
<1> QED
  BY <1>3, <1>7, <1>8, <1>9 DEF InOrder, r, c
------------------------------------------------------------------------------
(* What the operators make of the program, the tracker and the views.      *)
LEMMA NoneAhead == DOMAIN <<>> = {} /\ \A f : ~OpenAhead(<<>>, f) /\ ~ChangeAhead(<<>>, f)
<1>1. DOMAIN <<>> = {}
  OBVIOUS
<1> QED
  BY <1>1 DEF OpenAhead, ChangeAhead

Program == [Solid -> Text \cup {Nothing}]

LEMMA PipelineIs ==
  ASSUME NEW d \in [Files -> Diags], NEW files \in SUBSET Files, NEW at, NEW p \in Program, NEW c \in Trees
  PROVE  LET u == Pipeline(d, files, at, p, c)
         IN  /\ u \in [Files -> Diags] /\ \A f \in Files \ files : u[f] = d[f]
             /\ \A f \in files : /\ f \in Solid => u[f].single = p[f]
                                 /\ at = "enriched" => u[f].cross = c
<1> DEFINE made(f) == [single |-> SingleFile(p, f), cross |-> IF at = "enriched" THEN c ELSE d[f].cross]
<1>1. \A f \in Files : d[f] \in Diags /\ SingleFile(p, f) \in Text \cup {Nothing}
  BY DEF SingleFile, Program
<1>2. \A f \in Files : d[f].cross \in Trees \cup {Nothing}
  BY <1>1 DEF Diags
<1>3. \A f \in Files : made(f) \in Diags
  BY <1>1, <1>2 DEF Diags
<1>4. Pipeline(d, files, at, p, c) = [f \in Files |-> IF f \notin files THEN d[f] ELSE made(f)]
  BY DEF Pipeline
<1>5. \A f \in Files : /\ f \in Solid => made(f).single = p[f]
                       /\ at = "enriched" => made(f).cross = c
  BY DEF SingleFile
<1> HIDE DEF made
<1> QED
  BY <1>1, <1>3, <1>4, <1>5

LEMMA EvictedIs ==
  ASSUME NEW d \in [Files -> Diags], NEW files
  PROVE  /\ Evicted(d, files) \in [Files -> Diags] /\ NoDiags \in Diags
         /\ \A f \in Files \ files : Evicted(d, files)[f] = d[f]
         /\ \A f \in Files \cap files : Evicted(d, files)[f] = NoDiags
<1>1. NoDiags \in Diags
  BY DEF NoDiags, Diags
<1> QED
  BY <1>1 DEF Evicted

LEMMA Tier1Is ==
  ASSUME NEW d \in [Files -> Diags], NEW changes,
         \A f \in Files \cap DOMAIN changes : changes[f] \in Contents
  PROVE  LET u == Tier1(d, changes)
         IN  /\ u \in [Files -> Diags]
             /\ \A f \in Files : f \notin DOMAIN changes => u[f] = d[f]
             /\ \A f \in Solid \cap DOMAIN changes : u[f].single = changes[f]
<1>1. \A f \in Files : d[f] \in Diags /\ d[f].cross \in Trees \cup {Nothing}
  BY DEF Diags
<1>2. \A f \in Solid \cap DOMAIN changes : [single |-> changes[f], cross |-> d[f].cross] \in Diags
  BY <1>1 DEF Diags, Text, Files
<1> QED
  BY <1>1, <1>2 DEF Tier1, Files

LEMMA SyncedIs ==
  ASSUME NEW p \in Program, NEW changes, \A f \in Files \cap DOMAIN changes : changes[f] \in Contents
  PROVE  /\ Synced(p, changes) \in Program
         /\ \A f \in Solid : Synced(p, changes)[f] = IF f \in DOMAIN changes THEN changes[f] ELSE p[f]
  BY DEF Synced, Program, Text, Files

LEMMA BuiltIs ==
  ASSUME TypeOK, program \in [Solid -> Text], NEW files \in SUBSET Files
  PROVE  /\ FullCompilation(files) \in Trees
         /\ \A f \in files : FullCompilation(files)[f] =
              IF f \in Solid THEN program[f] ELSE IF buffer[f] # Nothing THEN buffer[f] ELSE disk[f]
  BY DEF TypeOK, FullCompilation, Trees, Text

(* A flush.                                                                *)
LEMMA Flushed ==
  ASSUME TypeOK
  PROVE  /\ FlushedProgram \in Program /\ FlushedTrees \in Trees /\ FlushedDiags \in [Files -> Diags]
         /\ \A f \in Solid : FlushedProgram[f] = IF pending[f] # Nothing THEN pending[f] ELSE program[f]
         /\ \A f \in Files : FlushedTrees[f] = IF Running /\ pending[f] # Nothing THEN pending[f] ELSE trees[f]
         /\ \A f \in Files : pending[f] = Nothing => FlushedDiags[f] = diags[f]
         /\ \A f \in Solid : pending[f] # Nothing => FlushedDiags[f].single = pending[f]
         /\ \A f \in Files : phase = "enriched" /\ pending[f] # Nothing => FlushedDiags[f].cross = FlushedTrees
         /\ DOMAIN Changes = {f \in Files : pending[f] # Nothing}
<1>1. /\ DOMAIN Changes = {f \in Files : pending[f] # Nothing}
      /\ \A f \in DOMAIN Changes : Changes[f] = pending[f] /\ Changes[f] \in Contents
  BY DEF Changes, TypeOK
<1>2. /\ diags \in [Files -> Diags] /\ program \in Program /\ trees \in Trees /\ Solid \subseteq Files
  BY DEF TypeOK, Program, Files
<1>3. /\ FlushedProgram \in Program
      /\ \A f \in Solid : FlushedProgram[f] = IF pending[f] # Nothing THEN pending[f] ELSE program[f]
  BY <1>1, <1>2, SyncedIs DEF FlushedProgram
<1>4. /\ FlushedTrees \in Trees
      /\ \A f \in Files : FlushedTrees[f] = IF Running /\ pending[f] # Nothing THEN pending[f] ELSE trees[f]
  BY <1>1, <1>2 DEF FlushedTrees, ApplyBatch, Trees, Text
<1>5. CASE Running
  <2> DEFINE w == Evicted(diags, DOMAIN Changes)
  <2>1. w \in [Files -> Diags] /\ \A f \in Files \ DOMAIN Changes : w[f] = diags[f]
    BY <1>2, EvictedIs
  <2>2. FlushedDiags = Pipeline(w, DOMAIN Changes, phase, FlushedProgram, FlushedTrees)
    BY <1>5 DEF FlushedDiags
  <2> HIDE DEF w
  <2>3. /\ FlushedDiags \in [Files -> Diags]
        /\ \A f \in Files \ DOMAIN Changes : FlushedDiags[f] = w[f]
        /\ \A f \in DOMAIN Changes :
             /\ f \in Solid => FlushedDiags[f].single = FlushedProgram[f]
             /\ phase = "enriched" => FlushedDiags[f].cross = FlushedTrees
    <3> DEFINE changed == DOMAIN Changes
    <3>1. changed \in SUBSET Files
      BY <1>1
    <3> HIDE DEF changed
    <3>2. LET u == Pipeline(w, changed, phase, FlushedProgram, FlushedTrees)
          IN  /\ u \in [Files -> Diags] /\ \A f \in Files \ changed : u[f] = w[f]
              /\ \A f \in changed : /\ f \in Solid => u[f].single = FlushedProgram[f]
                                    /\ phase = "enriched" => u[f].cross = FlushedTrees
      BY <1>3, <1>4, <2>1, <3>1, PipelineIs
    <3> QED
      BY <2>2, <3>2 DEF changed
  <2>4. \A f \in Files : pending[f] = Nothing => FlushedDiags[f] = diags[f]
    BY <1>1, <2>1, <2>3
  <2>5. \A f \in Solid : pending[f] # Nothing => FlushedDiags[f].single = pending[f]
    BY <1>1, <1>2, <1>3, <2>3
  <2>6. \A f \in Files : phase = "enriched" /\ pending[f] # Nothing => FlushedDiags[f].cross = FlushedTrees
    BY <1>1, <2>3
  <2> QED
    BY <1>1, <1>3, <1>4, <2>3, <2>4, <2>5, <2>6
<1>6. CASE ~Running
  <2>1. FlushedDiags = Tier1(diags, Changes) /\ phase # "enriched"
    BY <1>6 DEF FlushedDiags, Running
  <2> QED
    BY <1>1, <1>2, <1>3, <1>4, <2>1, Tier1Is
<1> QED
  BY <1>5, <1>6
------------------------------------------------------------------------------
(* What the invariant says of a document the server has the text of.       *)
LEMMA Now ==
  ASSUME IInv
  PROVE  /\ waiting \in Seq(Waiting) /\ buffer \in [Files -> Contents \cup {Nothing}]
         /\ diags \in [Files -> Diags] /\ program \in Program /\ trees \in Trees /\ disk \in Trees
         /\ Open \in SUBSET Files /\ Solid \subseteq Files /\ Nothing \notin Contents /\ Absent \notin Contents
         /\ \A f \in Files : (f \in Open <=> buffer[f] # Nothing) /\ (Caught(f) => f \in Open)
         /\ ready /\ NextTask => waiting = <<>>
  BY FilesAssumption DEF IInv, TypeOK, Program, Open, Files, TrackedIsOpen, Caught, NextTask

(* The client's events: they leave the server alone, and what it has of a  *)
(* document that it still has the text of.                                 *)
LEMMA DocumentsKept ==
  ASSUME IInv, UNCHANGED <<ready, phase, registry, building, program, trees, since, overtaken>>,
         \A f \in Files : Caught(f)' => /\ Caught(f) /\ buffer'[f] = buffer[f]
                                        /\ pending'[f] = pending[f] /\ diags'[f] = diags[f]
  PROVE  PendingIsText' /\ SingleIsOfProgram' /\ CrossIsOfTracker'
<1> USE DEF IInv
<1>1. PendingIsText'
  BY DEF PendingIsText
<1>2. SingleIsOfProgram'
  BY DEF SingleIsOfProgram, Running, Files
<1>3. CrossIsOfTracker'
  BY DEF CrossIsOfTracker, Edited, TypeOK
<1> QED
  BY <1>1, <1>2, <1>3

LEMMA WritesKeepSolid ==
  ASSUME IInv, NEW f \in Files, NEW t \in Text, Write(f, t), f \in Solid => t # Absent
  PROVE  SolidStays' /\ disk' \in Trees /\ notices' \subseteq Notice
<1> USE DEF IInv
<1>1. disk' = [disk EXCEPT ![f] = t] /\ disk' \in Trees
  BY DEF Write, TypeOK, Trees
<1>2. \A n \in notices' : n \in notices \/ /\ n \in Notice /\ n.file = f
                                           /\ (t # Absent /\ disk[f] # Absent => n.kind = "changed")
  BY DEF Write, Notice
<1>3. notices' \subseteq Notice
  BY <1>2 DEF TypeOK
<1> QED
  BY <1>1, <1>2, <1>3 DEF SolidStays, TypeOK, Trees, Files

LEMMA Opens == ASSUME IInv, NEW f \in Files, NEW t \in Contents, OpenDocument(f, t) PROVE IInv'
<1> USE DEF IInv
<1>1. /\ events' \in 0..MaxEvents /\ NextTask /\ buffer[f] = Nothing
      /\ buffer' = [buffer EXCEPT ![f] = t] /\ tracked' = [tracked EXCEPT ![f] = "opened"]
      /\ UNCHANGED <<disk, notices, pending, timer, ready, phase, registry, building>>
      /\ UNCHANGED <<program, trees, diags, since, overtaken>>
  BY BoundsAssumption DEF OpenDocument, ClientEvent, serverVars, analysisVars, historyVars, TypeOK
<1>2. /\ waiting' \in Seq(Waiting) /\ InOrder(waiting', buffer')
      /\ OpenAhead(waiting', f) /\ ChangeAhead(waiting', f)
      /\ \A g \in Files \ {f} : /\ OpenAhead(waiting', g) <=> OpenAhead(waiting, g)
                                /\ ChangeAhead(waiting', g) <=> ChangeAhead(waiting, g)
      /\ (\A i \in DOMAIN waiting : waiting[i].last = Nothing) =>
           \A i \in DOMAIN waiting' : waiting'[i].last = Nothing
  <2> DEFINE r == waiting \o <<[kind |-> "open", file |-> f, last |-> Nothing],
                               [kind |-> "change", file |-> f, last |-> Nothing]>>
             b == [buffer EXCEPT ![f] = t]
  <2>1. waiting' = r /\ buffer' = b
    BY <1>1 DEF OpenDocument
  <2>2. waiting \in Seq(Waiting) /\ buffer \in [Files -> Contents \cup {Nothing}]
    BY Now
  <2>3. /\ r \in Seq(Waiting) /\ InOrder(r, b)
        /\ OpenAhead(r, f) /\ ChangeAhead(r, f)
        /\ \A g \in Files \ {f} : /\ OpenAhead(r, g) <=> OpenAhead(waiting, g)
                                  /\ ChangeAhead(r, g) <=> ChangeAhead(waiting, g)
        /\ (\A i \in DOMAIN waiting : waiting[i].last = Nothing) =>
             \A i \in DOMAIN r : r[i].last = Nothing
    BY <1>1, <2>2, Opened
  <2> QED
    BY <2>1, <2>3
<1>3. TypeOK'
  BY <1>1, <1>2 DEF TypeOK
<1>4. TrackedIsOpen'
  BY <1>1, <1>2, Now DEF TrackedIsOpen, TypeOK
<1>5. ReadyFirst'
  BY <1>1, <1>2, Now DEF ReadyFirst, Running
<1>6. BuildsAreEnriched' /\ SolidStays'
  BY <1>1 DEF BuildsAreEnriched, SolidStays
<1>7. \A g \in Files : Caught(g)' => Caught(g) /\ g # f
  BY <1>1, <1>2, Now DEF Caught, TypeOK
<1> QED
  BY <1>1, <1>2, <1>3, <1>4, <1>5, <1>6, <1>7, Now, DocumentsKept

LEMMA Queued ==
  ASSUME IInv, NEW f \in Files, NEW kind \in {"change", "save"},
         buffer'[f] # Nothing, \A g \in Files : buffer'[g] # Nothing <=> buffer[g] # Nothing,
         waiting' = Append(waiting, [kind |-> kind, file |-> f, last |-> Nothing])
  PROVE  /\ waiting' \in Seq(Waiting) /\ InOrder(waiting', buffer')
         /\ \A g \in Files : /\ OpenAhead(waiting', g) <=> OpenAhead(waiting, g)
                             /\ ChangeAhead(waiting', g) <=>
                                  ChangeAhead(waiting, g) \/ (kind = "change" /\ g = f)
         /\ (\A i \in DOMAIN waiting : waiting[i].last = Nothing) =>
              \A i \in DOMAIN waiting' : waiting'[i].last = Nothing
<1> DEFINE w == [kind |-> kind, file |-> f, last |-> Nothing]
           r == Append(waiting, w)
<1>1. /\ waiting \in Seq(Waiting) /\ InOrder(waiting, buffer) /\ buffer[f] # Nothing
      /\ w \in Waiting /\ w.kind = kind /\ w.file = f /\ w.last = Nothing /\ waiting' = r
  BY Now DEF IInv, Waiting
<1> HIDE DEF w
<1>2. /\ r \in Seq(Waiting) /\ InOrder(r, buffer)
      /\ \A g \in Files : /\ OpenAhead(r, g) <=> OpenAhead(waiting, g)
                          /\ ChangeAhead(r, g) <=> ChangeAhead(waiting, g) \/ (kind = "change" /\ g = f)
      /\ (\A i \in DOMAIN waiting : waiting[i].last = Nothing) => \A i \in DOMAIN r : r[i].last = Nothing
  BY <1>1, Added
<1> HIDE DEF r
<1>3. \A i \in DOMAIN r : r[i].file \in Files
  BY <1>2, WaitingIs
<1>4. InOrder(r, buffer')
  BY <1>2, <1>3 DEF InOrder, OnlyOpenTell, ClosedComeFirst
<1> QED
  BY <1>1, <1>2, <1>4

LEMMA Changing == ASSUME IInv, NEW f \in Files, NEW t \in Contents, ChangeDocument(f, t) PROVE IInv'
<1> USE DEF IInv
<1>1. /\ events' \in 0..MaxEvents /\ NextTask /\ buffer[f] # Nothing
      /\ buffer' = [buffer EXCEPT ![f] = t]
      /\ waiting' = Append(waiting, [kind |-> "change", file |-> f, last |-> Nothing])
      /\ UNCHANGED <<disk, notices, tracked, pending, timer, ready, phase, registry, building>>
      /\ UNCHANGED <<program, trees, diags, since, overtaken>>
  BY BoundsAssumption DEF ChangeDocument, ClientEvent, serverVars, analysisVars, historyVars, TypeOK
<1>2. /\ waiting' \in Seq(Waiting) /\ InOrder(waiting', buffer')
      /\ \A g \in Files : /\ OpenAhead(waiting', g) <=> OpenAhead(waiting, g)
                          /\ ChangeAhead(waiting', g) <=> ChangeAhead(waiting, g) \/ g = f
      /\ (\A i \in DOMAIN waiting : waiting[i].last = Nothing) =>
           \A i \in DOMAIN waiting' : waiting'[i].last = Nothing
  <2>1. buffer'[f] # Nothing /\ \A g \in Files : buffer'[g] # Nothing <=> buffer[g] # Nothing
    BY <1>1, Now
  <2> QED
    BY <1>1, <2>1, Queued
<1>3. TypeOK'
  BY <1>1, <1>2 DEF TypeOK
<1>4. TrackedIsOpen'
  BY <1>1, <1>2, Now DEF TrackedIsOpen, TypeOK
<1>5. ReadyFirst'
  BY <1>1, <1>2, Now DEF ReadyFirst, Running
<1>6. BuildsAreEnriched' /\ SolidStays'
  BY <1>1 DEF BuildsAreEnriched, SolidStays
<1>7. ~Caught(f)'
  <2>1. CASE ready
    BY <1>1, <1>2, <2>1, Now, NoneAhead DEF Caught, TrackedIsOpen
  <2>2. CASE ~ready
    BY <1>1, <1>2, <2>2 DEF Caught, ReadyFirst
  <2> QED
    BY <2>1, <2>2
<1>8. \A g \in Files : Caught(g)' => Caught(g) /\ g # f
  BY <1>1, <1>2, <1>7, Now DEF Caught, TypeOK
<1> QED
  BY <1>1, <1>2, <1>3, <1>4, <1>5, <1>6, <1>8, Now, DocumentsKept

LEMMA Saving == ASSUME IInv, NEW f \in Files, SaveDocument(f) PROVE IInv'
<1> USE DEF IInv
<1>1. /\ events' \in 0..MaxEvents /\ NextTask /\ buffer[f] # Nothing /\ Write(f, buffer[f])
      /\ waiting' = Append(waiting, [kind |-> "save", file |-> f, last |-> Nothing])
      /\ UNCHANGED <<buffer, tracked, pending, timer, ready, phase, registry, building>>
      /\ UNCHANGED <<program, trees, diags, since, overtaken>>
  BY BoundsAssumption DEF SaveDocument, ClientEvent, serverVars, analysisVars, historyVars, TypeOK
<1>2. /\ waiting' \in Seq(Waiting) /\ InOrder(waiting', buffer')
      /\ \A g \in Files : /\ OpenAhead(waiting', g) <=> OpenAhead(waiting, g)
                          /\ ChangeAhead(waiting', g) <=> ChangeAhead(waiting, g)
      /\ (\A i \in DOMAIN waiting : waiting[i].last = Nothing) =>
           \A i \in DOMAIN waiting' : waiting'[i].last = Nothing
  BY <1>1, Queued
<1>3. SolidStays' /\ disk' \in Trees /\ notices' \subseteq Notice
  <2>1. buffer[f] \in Text /\ buffer[f] # Absent
    BY <1>1, Now DEF Text
  <2> QED
    BY <1>1, <2>1, WritesKeepSolid
<1>4. TypeOK'
  BY <1>1, <1>2, <1>3 DEF TypeOK
<1>5. TrackedIsOpen'
  BY <1>1, <1>2 DEF TrackedIsOpen
<1>6. ReadyFirst'
  BY <1>1, <1>2 DEF ReadyFirst, Running
<1>7. BuildsAreEnriched'
  BY <1>1 DEF BuildsAreEnriched
<1>8. \A g \in Files : Caught(g)' => Caught(g)
  BY <1>1, <1>2 DEF Caught
<1> QED
  BY <1>1, <1>2, <1>3, <1>4, <1>5, <1>6, <1>7, <1>8, DocumentsKept

LEMMA Writing == ASSUME IInv, NEW f \in Files, NEW t \in Text, ExternalWrite(f, t) PROVE IInv'
<1> USE DEF IInv
<1>1. /\ events' \in 0..MaxEvents /\ Write(f, t) /\ (f \in Solid => t # Absent)
      /\ UNCHANGED <<buffer, waiting, tracked, pending, timer, ready, phase, registry, building>>
      /\ UNCHANGED <<program, trees, diags, since, overtaken>>
  BY BoundsAssumption DEF ExternalWrite, ClientEvent, docVars, serverVars, analysisVars, historyVars, TypeOK
<1>2. SolidStays' /\ disk' \in Trees /\ notices' \subseteq Notice
  BY <1>1, WritesKeepSolid
<1>3. TypeOK'
  BY <1>1, <1>2 DEF TypeOK
<1>4. InOrder(waiting, buffer)' /\ TrackedIsOpen' /\ ReadyFirst' /\ BuildsAreEnriched'
  BY <1>1 DEF TrackedIsOpen, ReadyFirst, Running, BuildsAreEnriched
<1>5. \A g \in Files : Caught(g)' => Caught(g)
  BY <1>1 DEF Caught
<1> QED
  BY <1>1, <1>2, <1>3, <1>4, <1>5, DocumentsKept

LEMMA Closing == ASSUME IInv, NEW f \in Files, CloseDocument(f) PROVE IInv'
<1> USE DEF IInv
<1>1. /\ events' \in 0..MaxEvents /\ NextTask /\ buffer[f] # Nothing
      /\ buffer' = [buffer EXCEPT ![f] = Nothing] /\ tracked' = [tracked EXCEPT ![f] = "closed"]
      /\ pending' = [pending EXCEPT ![f] = Nothing] /\ diags' = [diags EXCEPT ![f] = NoDiags]
      /\ UNCHANGED <<disk, notices, timer, ready, phase, registry, building>>
      /\ UNCHANGED <<program, trees, since, overtaken>>
  BY BoundsAssumption DEF CloseDocument, ClientEvent, serverVars, historyVars, TypeOK
<1>2. /\ waiting' \in Seq(Waiting) /\ InOrder(waiting', buffer')
      /\ \A g \in Files \ {f} : /\ OpenAhead(waiting', g) <=> OpenAhead(waiting, g)
                                /\ ChangeAhead(waiting', g) <=> ChangeAhead(waiting, g)
      /\ waiting = <<>> => waiting' = <<>>
  <2> DEFINE r == [i \in DOMAIN waiting |-> IF waiting[i].file = f /\ waiting[i].last = Nothing
                                            THEN [waiting[i] EXCEPT !.last = buffer[f]] ELSE waiting[i]]
             b == [buffer EXCEPT ![f] = Nothing]
  <2>1. waiting' = r /\ buffer' = b
    BY <1>1 DEF CloseDocument
  <2>2. waiting \in Seq(Waiting) /\ buffer \in [Files -> Contents \cup {Nothing}]
    BY Now
  <2>3. /\ r \in Seq(Waiting) /\ InOrder(r, b)
        /\ \A g \in Files \ {f} : /\ OpenAhead(r, g) <=> OpenAhead(waiting, g)
                                  /\ ChangeAhead(r, g) <=> ChangeAhead(waiting, g)
        /\ waiting = <<>> => r = <<>>
    BY <1>1, <2>2, Closed
  <2> QED
    BY <2>1, <2>3
<1>3. TypeOK'
  BY <1>1, <1>2, Now, EvictedIs DEF TypeOK
<1>4. TrackedIsOpen'
  BY <1>1, <1>2, Now DEF TrackedIsOpen, TypeOK
<1>5. ReadyFirst'
  BY <1>1, <1>2, Now, NoneAhead DEF ReadyFirst, Running
<1>6. BuildsAreEnriched' /\ SolidStays'
  BY <1>1 DEF BuildsAreEnriched, SolidStays
<1>7. \A g \in Files : Caught(g)' => Caught(g) /\ g # f
  BY <1>1, <1>2, Now DEF Caught, TypeOK
<1>8. \A g \in Files \ {f} : buffer'[g] = buffer[g] /\ pending'[g] = pending[g] /\ diags'[g] = diags[g]
  BY <1>1 DEF TypeOK
<1> QED
  BY <1>1, <1>2, <1>3, <1>4, <1>5, <1>6, <1>7, <1>8, DocumentsKept
------------------------------------------------------------------------------
(* A continuation is handled.                                              *)
LEMMA HandledNow ==
  ASSUME IInv, NEW kind, Continuation(kind)
  PROVE  LET f == Head(waiting).file
         IN  /\ waiting' \in Seq(Waiting) /\ InOrder(waiting', buffer)
             /\ ready /\ f \in Files /\ LastText \in Contents
             /\ buffer[f] # Nothing /\ ~OpenAhead(waiting', f) => LastText = buffer[f]
             /\ buffer[f] # Nothing /\ ~OpenAhead(waiting', f) /\ kind = "open" =>
                  ChangeAhead(waiting', f)
             /\ \A g \in Files : /\ OpenAhead(waiting', g) => OpenAhead(waiting, g)
                                 /\ OpenAhead(waiting, g) /\ ~(kind = "open" /\ g = f) => OpenAhead(waiting', g)
                                 /\ ChangeAhead(waiting', g) => ChangeAhead(waiting, g)
                                 /\ ChangeAhead(waiting, g) /\ ~(kind = "change" /\ g = f) =>
                                      ChangeAhead(waiting', g)
             /\ Running => buffer[f] # Nothing /\ \A i \in DOMAIN waiting' : waiting'[i].last = Nothing
<1> DEFINE f == Head(waiting).file
           q == waiting
<1>1. /\ q \in Seq(Waiting) /\ q # <<>> /\ InOrder(q, buffer) /\ ready
      /\ Head(q).kind = kind /\ waiting' = Tail(q)
  BY Now DEF Continuation, IInv
<1>2. Running => \A i \in DOMAIN q : q[i].last = Nothing
  BY DEF IInv, ReadyFirst
<1>3. buffer \in [Files -> Contents \cup {Nothing}]
  BY Now
<1>4. LastText = IF Head(q).last = Nothing THEN buffer[f] ELSE Head(q).last
  BY DEF LastText
<1> HIDE DEF q
<1>5. /\ Head(q) = q[1] /\ q[1].file \in Files
      /\ q[1].last = Nothing => buffer[q[1].file] # Nothing
      /\ q[1].last # Nothing => q[1].last \in Contents
      /\ q[1].last # Nothing /\ buffer[q[1].file] # Nothing => OpenAhead(Tail(q), q[1].file)
      /\ Tells(q, 1, "open", q[1].file) => ChangeAhead(Tail(q), q[1].file)
  BY <1>1, HeadInOrder
<1>6. /\ Tail(q) \in Seq(Waiting) /\ InOrder(Tail(q), buffer)
      /\ \A g \in Files : /\ OpenAhead(Tail(q), g) => OpenAhead(q, g)
                          /\ OpenAhead(q, g) => OpenAhead(Tail(q), g) \/ Tells(q, 1, "open", g)
                          /\ ChangeAhead(Tail(q), g) => ChangeAhead(q, g)
                          /\ ChangeAhead(q, g) =>
                               ChangeAhead(Tail(q), g) \/ (q[1].kind = "change" /\ q[1].file = g)
      /\ (\A i \in DOMAIN q : q[i].last = Nothing) =>
           q[1].last = Nothing /\ \A i \in DOMAIN Tail(q) : Tail(q)[i].last = Nothing
  BY <1>1, Handled
<1>7. f = q[1].file /\ q[1].kind = kind
  BY <1>1, <1>5 DEF q
<1>8. LastText \in Contents /\ (buffer[f] # Nothing /\ ~OpenAhead(Tail(q), f) => LastText = buffer[f])
  BY <1>3, <1>4, <1>5, <1>7
<1>9. buffer[f] # Nothing /\ ~OpenAhead(Tail(q), f) /\ kind = "open" => ChangeAhead(Tail(q), f)
  BY <1>5, <1>7 DEF Tells
<1>10. \A g \in Files : /\ OpenAhead(Tail(q), g) => OpenAhead(q, g)
                        /\ OpenAhead(q, g) /\ ~(kind = "open" /\ g = f) => OpenAhead(Tail(q), g)
                        /\ ChangeAhead(Tail(q), g) => ChangeAhead(q, g)
                        /\ ChangeAhead(q, g) /\ ~(kind = "change" /\ g = f) => ChangeAhead(Tail(q), g)
  BY <1>6, <1>7 DEF Tells
<1>11. Running => buffer[f] # Nothing /\ \A i \in DOMAIN Tail(q) : Tail(q)[i].last = Nothing
  BY <1>2, <1>5, <1>6, <1>7
<1> HIDE DEF f
<1> QED
  BY <1>1, <1>5, <1>6, <1>7, <1>8, <1>9, <1>10, <1>11 DEF f, q

LEMMA RunsOpen == ASSUME IInv, RunOpen PROVE IInv'
<1>0. Continuation("open")
  BY DEF RunOpen
<1>a. PICK f \in Files : f = Head(waiting).file
  BY <1>0, HandledNow
<1> DEFINE change == [g \in {f} |-> LastText]
<1>1. /\ Continuation("open")
      /\ program' = IF Running THEN Synced(program, change) ELSE program
      /\ diags' = IF Running THEN Pipeline(diags, {f}, phase, program', trees) ELSE Tier1(diags, change)
      /\ since' = [since EXCEPT ![f] = IF Running THEN "late" ELSE "early"]
      /\ UNCHANGED <<disk, notices, buffer, events, tracked, pending, timer>>
      /\ UNCHANGED <<ready, phase, registry, building, trees, overtaken>>
  BY <1>a DEF RunOpen, clientVars, serverVars
<1>2. /\ waiting' \in Seq(Waiting) /\ InOrder(waiting', buffer) /\ ready /\ LastText \in Contents
      /\ buffer[f] # Nothing /\ ~OpenAhead(waiting', f) => LastText = buffer[f] /\ ChangeAhead(waiting', f)
      /\ \A g \in Files : /\ OpenAhead(waiting, g) => OpenAhead(waiting', g) \/ g = f
                          /\ ChangeAhead(waiting', g) <=> ChangeAhead(waiting, g)
      /\ Running => \A i \in DOMAIN waiting' : waiting'[i].last = Nothing
  BY <1>1, <1>a, HandledNow
<1>3. DOMAIN change = {f} /\ change[f] = LastText
  OBVIOUS
<1>4. /\ program' \in Program /\ (Running => program' \in [Solid -> Text])
      /\ \A g \in Solid : program'[g] = IF g = f /\ Running THEN LastText ELSE program[g]
  <2>1. /\ Synced(program, change) \in Program
        /\ \A g \in Solid : Synced(program, change)[g] = IF g \in DOMAIN change THEN change[g] ELSE program[g]
    <3> HIDE DEF change
    <3> QED
      BY <1>2, <1>3, Now, SyncedIs
  <2>2. Running => program \in [Solid -> Text]
    BY DEF IInv, ReadyFirst
  <2> HIDE DEF change
  <2> QED
    BY <1>1, <1>2, <1>3, <2>1, <2>2, Now DEF Program, Text
<1>5. /\ diags' \in [Files -> Diags] /\ \A g \in Files \ {f} : diags'[g] = diags[g]
      /\ f \in Solid => diags'[f].single = IF Running THEN program'[f] ELSE LastText
  <2>1. CASE Running
    <3> DEFINE own == {f}
    <3>1. own \in SUBSET Files /\ f \in own /\ diags' = Pipeline(diags, own, phase, program', trees)
      BY <1>1, <2>1
    <3>2. diags \in [Files -> Diags] /\ trees \in Trees /\ program' \in Program
      BY <1>4, Now
    <3> HIDE DEF own
    <3>3. LET u == Pipeline(diags, own, phase, program', trees)
          IN  /\ u \in [Files -> Diags] /\ \A g \in Files \ own : u[g] = diags[g]
              /\ \A g \in own : /\ g \in Solid => u[g].single = program'[g]
                                /\ phase = "enriched" => u[g].cross = trees
      BY <3>1, <3>2, PipelineIs
    <3> QED
      BY <2>1, <3>1, <3>3 DEF own
  <2>2. CASE ~Running
    <3>1. diags' = Tier1(diags, change)
      BY <1>1, <2>2
    <3> HIDE DEF change
    <3> QED
      BY <1>2, <1>3, <2>2, <3>1, Now, Tier1Is
  <2> QED
    BY <2>1, <2>2
<1> HIDE DEF change
<1> USE DEF IInv
<1>6. TypeOK'
  BY <1>1, <1>2, <1>4, <1>5 DEF TypeOK, Program
<1>7. TrackedIsOpen'
  BY <1>1, <1>2 DEF TrackedIsOpen
<1>8. ReadyFirst'
  BY <1>1, <1>2, <1>4 DEF ReadyFirst, Running
<1>9. InOrder(waiting, buffer)' /\ BuildsAreEnriched' /\ SolidStays'
  BY <1>1, <1>2 DEF BuildsAreEnriched, SolidStays
<1>10. \A g \in Files : Caught(g)' =>
         IF g = f THEN LastText = buffer[f] /\ pending[f] = Nothing ELSE Caught(g)
  <2>1. \A g \in Files : Caught(g)' => buffer[g] # Nothing /\ ~OpenAhead(waiting', g)
                                       /\ (tracked[g] = "opened" \/ ~ChangeAhead(waiting', g))
    BY <1>1 DEF Caught
  <2>2. Caught(f)' => LastText = buffer[f] /\ pending[f] = Nothing
    BY <1>2, <2>1 DEF TrackedIsOpen
  <2>3. \A g \in Files \ {f} : Caught(g)' => Caught(g)
    BY <1>2, <2>1 DEF Caught
  <2> QED
    BY <2>2, <2>3
<1>11. /\ since'[f] # "edited" /\ (Running => since'[f] = "late") /\ (~Running => since'[f] = "early")
       /\ \A g \in Files \ {f} : since'[g] = since[g]
  BY <1>1, <1>2 DEF TypeOK
<1>12. PendingIsText'
  BY <1>1, <1>10, <1>11 DEF PendingIsText
<1>13. SingleIsOfProgram'
  <2> SUFFICES ASSUME NEW g \in Solid, Caught(g)', pending[g] = Nothing
               PROVE  /\ since'[g] # "early" => program'[g] = buffer[g]
                      /\ diags'[g].single = IF Running THEN program'[g] ELSE buffer[g]
    BY <1>1 DEF SingleIsOfProgram, Running
  <2>1. CASE g = f
    BY <1>1, <1>4, <1>5, <1>10, <1>11, <2>1
  <2>2. CASE g # f
    BY <1>4, <1>5, <1>10, <1>11, <2>2, Now DEF SingleIsOfProgram
  <2> QED
    BY <2>1, <2>2
<1>14. CrossIsOfTracker'
  <2> SUFFICES ASSUME NEW g \in registry \ overtaken, phase = "enriched", Edited(g)'
               PROVE  IF building = <<>>
                      THEN trees[g] = buffer[g] /\ diags'[g].cross # Nothing /\ diags'[g].cross[g] = buffer[g]
                      ELSE building[Len(building)][g] = buffer[g]
    BY <1>1 DEF CrossIsOfTracker
  <2>1. g \in Files /\ Caught(g)' /\ pending[g] = Nothing /\ since'[g] = "edited"
    BY <1>1 DEF Edited, TypeOK
  <2>2. g # f
    BY <1>11, <2>1
  <2>3. Edited(g) /\ diags'[g] = diags[g]
    BY <1>5, <1>10, <1>11, <2>1, <2>2 DEF Edited
  <2> QED
    BY <2>3 DEF CrossIsOfTracker
<1> QED
  BY <1>6, <1>7, <1>8, <1>9, <1>12, <1>13, <1>14

LEMMA RunsChange == ASSUME IInv, RunChange PROVE IInv'
<1>0. Continuation("change")
  BY DEF RunChange
<1>a. PICK f \in Files : f = Head(waiting).file
  BY <1>0, HandledNow
<1> DEFINE change == [g \in {f} |-> LastText]
           queued == tracked[f] # "closed" /\ ~Swallowed(f)
<1>1. /\ Continuation("change")
      /\ tracked' = [tracked EXCEPT ![f] = IF @ = "opened" THEN "open" ELSE @]
      /\ pending' = IF queued THEN [pending EXCEPT ![f] = LastText] ELSE pending
      /\ timer' = Armed(queued)
      /\ program' = IF queued /\ Running THEN Synced(program, change) ELSE program
      /\ since' = IF queued THEN [since EXCEPT ![f] = "edited"] ELSE since
      /\ UNCHANGED <<disk, notices, buffer, events, ready, phase, registry, building>>
      /\ UNCHANGED <<trees, diags, overtaken>>
  BY <1>a DEF RunChange, clientVars, serverVars
<1>2. /\ waiting' \in Seq(Waiting) /\ InOrder(waiting', buffer) /\ ready /\ LastText \in Contents
      /\ buffer[f] # Nothing /\ ~OpenAhead(waiting', f) => LastText = buffer[f]
      /\ \A g \in Files : /\ OpenAhead(waiting', g) <=> OpenAhead(waiting, g)
                          /\ ChangeAhead(waiting, g) => ChangeAhead(waiting', g) \/ g = f
      /\ Running => \A i \in DOMAIN waiting' : waiting'[i].last = Nothing
  BY <1>1, <1>a, HandledNow
<1>3. DOMAIN change = {f} /\ change[f] = LastText
  OBVIOUS
<1>4. queued <=> tracked[f] = "open"
  BY <1>2 DEF Swallowed, IInv, TypeOK
<1>5. /\ program' \in Program /\ (Running => program' \in [Solid -> Text])
      /\ \A g \in Solid \ {f} : program'[g] = program[g]
      /\ ~queued => program' = program
  <2>1. /\ Synced(program, change) \in Program
        /\ \A g \in Solid : Synced(program, change)[g] = IF g \in DOMAIN change THEN change[g] ELSE program[g]
    <3> HIDE DEF change
    <3> QED
      BY <1>2, <1>3, Now, SyncedIs
  <2>2. Running => program \in [Solid -> Text]
    BY DEF IInv, ReadyFirst
  <2> HIDE DEF change
  <2> QED
    BY <1>1, <1>2, <1>3, <2>1, <2>2, Now DEF Program, Text
<1> HIDE DEF change, queued
<1> USE DEF IInv
<1>6. TypeOK'
  BY <1>1, <1>2, <1>5 DEF TypeOK, Program, Armed
<1>7. TrackedIsOpen'
  <2>1. \A g \in Files \ {f} : tracked'[g] = tracked[g] /\ pending'[g] = pending[g]
    BY <1>1 DEF TypeOK
  <2>2. /\ tracked'[f] # "opened" /\ (tracked'[f] = "closed" <=> tracked[f] = "closed")
        /\ pending'[f] # Nothing => tracked'[f] = "open"
    BY <1>1, <1>2, <1>4 DEF TypeOK, TrackedIsOpen
  <2> QED
    BY <1>1, <1>2, <2>1, <2>2 DEF TrackedIsOpen
<1>8. ReadyFirst'
  BY <1>1, <1>2, <1>5 DEF ReadyFirst, Running
<1>9. InOrder(waiting, buffer)' /\ BuildsAreEnriched' /\ SolidStays'
  BY <1>1, <1>2 DEF BuildsAreEnriched, SolidStays
<1>10. \A g \in Files : Caught(g)' =>
         \/ g = f /\ queued /\ pending'[f] = buffer[f] /\ since'[f] = "edited"
         \/ /\ Caught(g) /\ pending'[g] = pending[g] /\ since'[g] = since[g]
            /\ g \in Solid => program'[g] = program[g]
  <2>1. \A g \in Files : Caught(g)' => buffer[g] # Nothing /\ ~OpenAhead(waiting', g)
    BY <1>1 DEF Caught
  <2>2. CASE queued
    <3>1. Caught(f)' => pending'[f] = buffer[f] /\ since'[f] = "edited"
      BY <1>1, <1>2, <2>1, <2>2 DEF TypeOK
    <3>2. \A g \in Files \ {f} : /\ tracked'[g] = tracked[g] /\ pending'[g] = pending[g]
                                 /\ since'[g] = since[g] /\ (Caught(g)' => Caught(g))
      BY <1>1, <1>2 DEF TypeOK, Caught
    <3> QED
      BY <1>5, <2>2, <3>1, <3>2
  <2>3. CASE ~queued
    <3>1. Caught(f)' => Caught(f)
      BY <1>1, <1>2, <1>4, <2>1, <2>3 DEF Caught, TrackedIsOpen, TypeOK
    <3>2. \A g \in Files \ {f} : Caught(g)' => Caught(g)
      BY <1>1, <1>2 DEF TypeOK, Caught
    <3> QED
      BY <1>1, <1>5, <2>3, <3>1, <3>2
  <2> QED
    BY <2>2, <2>3
<1>11. \A g \in Files : Caught(g)' => buffer[g] # Nothing
  BY <1>1 DEF Caught
<1>12. PendingIsText'
  BY <1>1, <1>10 DEF PendingIsText
<1>13. SingleIsOfProgram'
  BY <1>1, <1>10, <1>11, Now DEF SingleIsOfProgram, Running
<1>14. CrossIsOfTracker'
  BY <1>1, <1>10, <1>11 DEF CrossIsOfTracker, Edited, TypeOK
<1> QED
  BY <1>6, <1>7, <1>8, <1>9, <1>12, <1>13, <1>14

(* A flush moves what is pending to the program and the tracker.           *)
LEMMA Flushing ==
  ASSUME IInv, Flush, UNCHANGED <<buffer, tracked, ready, phase, registry, building, since>>,
         \A g \in Files : Caught(g)' => Caught(g),
         \A g \in Files :
           \/ diags'[g] = FlushedDiags[g]
           \/ /\ Running /\ (g \in Solid => diags'[g].single = FlushedProgram[g])
              /\ phase = "enriched" => diags'[g].cross = FlushedTrees
  PROVE  /\ PendingIsText' /\ SingleIsOfProgram' /\ CrossIsOfTracker'
         /\ pending' \in [Files -> Contents \cup {Nothing}] /\ timer' \in BOOLEAN
         /\ \A g \in Files : pending'[g] = Nothing
         /\ program' \in Program /\ (Running => program' \in [Solid -> Text])
         /\ trees' \in Trees /\ overtaken' \subseteq Files
<1>1. /\ FlushedProgram \in Program /\ FlushedTrees \in Trees /\ FlushedDiags \in [Files -> Diags]
      /\ \A f \in Solid : FlushedProgram[f] = IF pending[f] # Nothing THEN pending[f] ELSE program[f]
      /\ \A f \in Files : FlushedTrees[f] = IF Running /\ pending[f] # Nothing THEN pending[f] ELSE trees[f]
      /\ \A f \in Files : pending[f] = Nothing => FlushedDiags[f] = diags[f]
      /\ \A f \in Solid : pending[f] # Nothing => FlushedDiags[f].single = pending[f]
      /\ \A f \in Files : phase = "enriched" /\ pending[f] # Nothing => FlushedDiags[f].cross = FlushedTrees
      /\ DOMAIN Changes = {f \in Files : pending[f] # Nothing}
  BY Flushed DEF IInv
<1>2. /\ timer' = FALSE /\ pending' = [f \in Files |-> Nothing]
      /\ program' = FlushedProgram /\ trees' = FlushedTrees
      /\ overtaken' = IF ~Running THEN overtaken
                      ELSE IF building = <<>> THEN overtaken \ DOMAIN Changes
                      ELSE overtaken \cup DOMAIN Changes
  BY DEF Flush
<1>3. \A g \in Files : pending'[g] = Nothing
  BY <1>2
<1>4. \A g \in Files : Caught(g)' /\ pending[g] # Nothing => pending[g] = buffer[g] /\ since[g] = "edited"
  BY DEF IInv, PendingIsText
<1>5. Solid \subseteq Files /\ overtaken \subseteq Files /\ registry \subseteq Files
  BY DEF Files, IInv, TypeOK
<1>6. Running => program' \in [Solid -> Text]
  <2>1. ASSUME Running PROVE \A f \in Solid : FlushedProgram[f] \in Text
    <3>1. program \in [Solid -> Text] /\ pending \in [Files -> Contents \cup {Nothing}]
      BY <2>1 DEF IInv, TypeOK, ReadyFirst
    <3> QED
      BY <1>1, <1>5, <3>1 DEF Text
  <2> QED
    BY <1>1, <1>2, <2>1 DEF Program
<1>7. PendingIsText'
  BY <1>3 DEF PendingIsText
<1>8. SingleIsOfProgram'
  <2> SUFFICES ASSUME NEW g \in Solid, Caught(g)'
               PROVE  /\ since[g] # "early" => program'[g] = buffer[g]
                      /\ diags'[g].single = IF Running THEN program'[g] ELSE buffer[g]
    BY DEF SingleIsOfProgram, Running
  <2>1. g \in Files /\ Caught(g)
    BY <1>5
  <2>2. CASE pending[g] = Nothing
    <3>1. /\ since[g] # "early" => program[g] = buffer[g]
          /\ diags[g].single = IF Running THEN program[g] ELSE buffer[g]
      BY <2>1, <2>2 DEF IInv, SingleIsOfProgram
    <3>2. program'[g] = program[g] /\ FlushedProgram[g] = program[g] /\ FlushedDiags[g] = diags[g]
      BY <1>1, <1>2, <2>1, <2>2
    <3> QED
      BY <2>1, <3>1, <3>2
  <2>3. CASE pending[g] # Nothing
    <3>1. pending[g] = buffer[g]
      BY <1>4, <2>1, <2>3
    <3>2. program'[g] = buffer[g] /\ FlushedProgram[g] = buffer[g] /\ FlushedDiags[g].single = buffer[g]
      BY <1>1, <1>2, <2>3, <3>1
    <3> QED
      BY <2>1, <3>2
  <2> QED
    BY <2>2, <2>3
<1>9. CrossIsOfTracker'
  <2> SUFFICES ASSUME NEW g \in registry \ overtaken', phase = "enriched", Edited(g)'
               PROVE  IF building = <<>>
                      THEN /\ trees'[g] = buffer[g]
                           /\ diags'[g].cross # Nothing /\ diags'[g].cross[g] = buffer[g]
                      ELSE building[Len(building)][g] = buffer[g]
    BY DEF CrossIsOfTracker
  <2>1. g \in Files /\ Caught(g)' /\ Caught(g) /\ since[g] = "edited" /\ Running
    BY <1>5 DEF Edited, Running
  <2>2. CASE pending[g] = Nothing
    <3>1. g \in registry \ overtaken /\ Edited(g)
      BY <1>1, <1>2, <2>1, <2>2 DEF Edited
    <3>2. IF building = <<>>
          THEN trees[g] = buffer[g] /\ diags[g].cross # Nothing /\ diags[g].cross[g] = buffer[g]
          ELSE building[Len(building)][g] = buffer[g]
      BY <3>1 DEF IInv, CrossIsOfTracker
    <3>3. trees'[g] = trees[g] /\ FlushedTrees[g] = trees[g] /\ FlushedDiags[g] = diags[g]
      BY <1>1, <1>2, <2>1, <2>2
    <3> QED
      BY <1>1, <2>1, <3>2, <3>3, NothingAssumption
  <2>3. CASE pending[g] # Nothing
    <3>1. pending[g] = buffer[g]
      BY <1>4, <2>1, <2>3
    <3>2. building = <<>>
      BY <1>1, <1>2, <2>1, <2>3
    <3>3. trees'[g] = buffer[g] /\ FlushedTrees[g] = buffer[g] /\ FlushedDiags[g].cross = FlushedTrees
      BY <1>1, <1>2, <2>1, <2>3, <3>1
    <3> QED
      BY <1>1, <2>1, <3>2, <3>3, NothingAssumption
  <2> QED
    BY <2>2, <2>3
<1> QED
  BY <1>1, <1>2, <1>3, <1>5, <1>6, <1>7, <1>8, <1>9

LEMMA RunsSave == ASSUME IInv, RunSave PROVE IInv'
<1>0. Continuation("save") /\ Flush
  BY DEF RunSave
<1>a. PICK f \in Files : f = Head(waiting).file
  BY <1>0, HandledNow
<1>1. /\ diags' = IF Running
                  THEN Pipeline(Evicted(FlushedDiags, {f}), {f}, phase, FlushedProgram, FlushedTrees)
                  ELSE FlushedDiags
      /\ UNCHANGED <<disk, notices, buffer, events, tracked, ready, phase, registry, building, since>>
  BY <1>a DEF RunSave, clientVars, serverVars
<1>2. /\ waiting' \in Seq(Waiting) /\ InOrder(waiting', buffer) /\ ready
      /\ \A g \in Files : /\ OpenAhead(waiting', g) <=> OpenAhead(waiting, g)
                          /\ ChangeAhead(waiting', g) <=> ChangeAhead(waiting, g)
      /\ Running => \A i \in DOMAIN waiting' : waiting'[i].last = Nothing
  BY <1>0, HandledNow
<1>3. FlushedProgram \in Program /\ FlushedTrees \in Trees /\ FlushedDiags \in [Files -> Diags]
  BY Flushed DEF IInv
<1>4. /\ diags' \in [Files -> Diags]
      /\ \A g \in Files :
           \/ diags'[g] = FlushedDiags[g]
           \/ /\ Running /\ (g \in Solid => diags'[g].single = FlushedProgram[g])
              /\ phase = "enriched" => diags'[g].cross = FlushedTrees
  <2>1. CASE Running
    <3> DEFINE own == {f}
               w == Evicted(FlushedDiags, own)
    <3>1. own \in SUBSET Files /\ diags' = Pipeline(w, own, phase, FlushedProgram, FlushedTrees)
      BY <1>1, <2>1
    <3> HIDE DEF own
    <3>2. w \in [Files -> Diags] /\ \A g \in Files \ own : w[g] = FlushedDiags[g]
      BY <1>3, EvictedIs
    <3> HIDE DEF w
    <3>3. LET u == Pipeline(w, own, phase, FlushedProgram, FlushedTrees)
          IN  /\ u \in [Files -> Diags] /\ \A g \in Files \ own : u[g] = w[g]
              /\ \A g \in own : /\ g \in Solid => u[g].single = FlushedProgram[g]
                                /\ phase = "enriched" => u[g].cross = FlushedTrees
      BY <1>3, <3>1, <3>2, PipelineIs
    <3> QED
      BY <2>1, <3>1, <3>2, <3>3
  <2>2. CASE ~Running
    BY <1>1, <1>3, <2>2
  <2> QED
    BY <2>1, <2>2
<1>5. \A g \in Files : Caught(g)' => Caught(g)
  BY <1>1, <1>2 DEF Caught
<1>6. /\ PendingIsText' /\ SingleIsOfProgram' /\ CrossIsOfTracker'
      /\ pending' \in [Files -> Contents \cup {Nothing}] /\ timer' \in BOOLEAN
      /\ \A g \in Files : pending'[g] = Nothing
      /\ program' \in Program /\ (Running => program' \in [Solid -> Text])
      /\ trees' \in Trees /\ overtaken' \subseteq Files
  BY <1>0, <1>1, <1>4, <1>5, Flushing
<1> USE DEF IInv
<1>7. TypeOK'
  BY <1>1, <1>2, <1>4, <1>6 DEF TypeOK, Program
<1>8. TrackedIsOpen' /\ ReadyFirst'
  BY <1>1, <1>2, <1>6 DEF TrackedIsOpen, ReadyFirst, Running
<1>9. InOrder(waiting, buffer)' /\ BuildsAreEnriched' /\ SolidStays'
  BY <1>1, <1>2 DEF BuildsAreEnriched, SolidStays
<1> QED
  BY <1>6, <1>7, <1>8, <1>9

LEMMA TimerFires == ASSUME IInv, FireTimer PROVE IInv'
<1>1. /\ Flush /\ diags' = FlushedDiags
      /\ UNCHANGED <<disk, notices, buffer, events, waiting, tracked, ready, phase, registry, building, since>>
  BY DEF FireTimer, clientVars, serverVars
<1>2. diags' \in [Files -> Diags]
  BY <1>1, Flushed DEF IInv
<1>3. \A g \in Files : Caught(g)' => Caught(g)
  BY <1>1 DEF Caught
<1>4. /\ PendingIsText' /\ SingleIsOfProgram' /\ CrossIsOfTracker'
      /\ pending' \in [Files -> Contents \cup {Nothing}] /\ timer' \in BOOLEAN
      /\ \A g \in Files : pending'[g] = Nothing
      /\ program' \in Program /\ (Running => program' \in [Solid -> Text])
      /\ trees' \in Trees /\ overtaken' \subseteq Files
  BY <1>1, <1>3, Flushing
<1> USE DEF IInv
<1>5. TypeOK'
  BY <1>1, <1>2, <1>4 DEF TypeOK, Program
<1>6. TrackedIsOpen' /\ ReadyFirst'
  BY <1>1, <1>4 DEF TrackedIsOpen, ReadyFirst, Running
<1>7. InOrder(waiting, buffer)' /\ BuildsAreEnriched' /\ SolidStays'
  BY <1>1 DEF BuildsAreEnriched, SolidStays
<1> QED
  BY <1>4, <1>5, <1>6, <1>7
------------------------------------------------------------------------------
(* Start-up.                                                               *)
LEMMA BecomesReady == ASSUME IInv, BecomeReady PROVE IInv'
<1> USE DEF IInv
<1>1. /\ ~ready /\ ready' = TRUE /\ registry' = {f \in Files : disk[f] # Absent}
      /\ UNCHANGED <<disk, notices, buffer, events, waiting, tracked, pending, timer, phase, building>>
      /\ UNCHANGED <<program, trees, diags, since, overtaken>>
  BY DEF BecomeReady, clientVars, docVars, analysisVars, historyVars
<1>2. ~Running /\ phase # "enriched"
  BY <1>1 DEF ReadyFirst, Running
<1>3. TypeOK'
  BY <1>1 DEF TypeOK
<1>4. InOrder(waiting, buffer)' /\ TrackedIsOpen' /\ ReadyFirst' /\ BuildsAreEnriched' /\ SolidStays'
  BY <1>1, <1>2 DEF TrackedIsOpen, ReadyFirst, Running, BuildsAreEnriched, SolidStays
<1>5. \A f \in Files : Caught(f)' <=> Caught(f)
  BY <1>1 DEF Caught
<1>6. PendingIsText' /\ SingleIsOfProgram' /\ CrossIsOfTracker'
  BY <1>1, <1>2, <1>5 DEF PendingIsText, SingleIsOfProgram, CrossIsOfTracker, Running, Files
<1> QED
  BY <1>3, <1>4, <1>6

LEMMA BecomesRunning == ASSUME IInv, BecomeRunning PROVE IInv'
<1> USE DEF IInv
<1>1. /\ ready /\ waiting = <<>> /\ phase = "initializing" /\ phase' = "running"
      /\ program' = [f \in Solid |-> IF program[f] = Nothing THEN disk[f] ELSE program[f]]
      /\ diags' = Pipeline(diags, Open, "running", program', trees)
      /\ UNCHANGED <<disk, notices, buffer, events, waiting, tracked, pending, timer>>
      /\ UNCHANGED <<ready, registry, building, trees, since, overtaken>>
  BY Now DEF BecomeRunning, clientVars, docVars, historyVars
<1>2. /\ program' \in [Solid -> Text] /\ program' \in Program
      /\ \A f \in Solid : program[f] # Nothing => program'[f] = program[f]
  BY <1>1, Now DEF Program, Trees
<1>3. /\ diags' \in [Files -> Diags]
      /\ \A f \in Open : f \in Solid => diags'[f].single = program'[f]
  <2>1. diags \in [Files -> Diags] /\ trees \in Trees /\ Open \in SUBSET Files
    BY Now
  <2>2. LET u == Pipeline(diags, Open, phase', program', trees)
        IN  /\ u \in [Files -> Diags] /\ \A f \in Files \ Open : u[f] = diags[f]
            /\ \A f \in Open : /\ f \in Solid => u[f].single = program'[f]
                               /\ phase' = "enriched" => u[f].cross = trees
    BY <1>2, <2>1, PipelineIs
  <2> QED
    BY <1>1, <2>2
<1>4. TypeOK'
  BY <1>1, <1>2, <1>3 DEF TypeOK, Program
<1>5. ReadyFirst'
  BY <1>1, <1>2, NoneAhead DEF ReadyFirst, Running
<1>6. InOrder(waiting, buffer)' /\ TrackedIsOpen' /\ BuildsAreEnriched' /\ SolidStays'
  BY <1>1 DEF TrackedIsOpen, BuildsAreEnriched, SolidStays
<1>7. \A f \in Files : Caught(f)' => Caught(f) /\ f \in Open /\ buffer[f] # Nothing
  BY <1>1, Now DEF Caught
<1>8. PendingIsText'
  BY <1>1, <1>7 DEF PendingIsText
<1>9. SingleIsOfProgram'
  BY <1>1, <1>2, <1>3, <1>7, Now DEF SingleIsOfProgram, Running
<1>10. CrossIsOfTracker'
  BY <1>1 DEF CrossIsOfTracker
<1> QED
  BY <1>4, <1>5, <1>6, <1>8, <1>9, <1>10

(* A build has the editor's text of every edited document.                 *)
LEMMA BuildsHaveEdits ==
  ASSUME IInv, Running, NEW files \in SUBSET Files
  PROVE  /\ FullCompilation(files) \in Trees
         /\ \A f \in files : Edited(f) => FullCompilation(files)[f] = buffer[f]
<1> DEFINE u == FullCompilation(files)
<1>1. /\ u \in Trees
      /\ \A f \in files : u[f] =
           IF f \in Solid THEN program[f] ELSE IF buffer[f] # Nothing THEN buffer[f] ELSE disk[f]
  BY BuiltIs DEF IInv, ReadyFirst
<1>2. \A f \in files : Edited(f) => buffer[f] # Nothing /\ (f \in Solid => program[f] = buffer[f])
  BY DEF Edited, Caught, IInv, SingleIsOfProgram
<1> HIDE DEF u
<1> QED
  BY <1>1, <1>2 DEF u

LEMMA StartsEnrichment == ASSUME IInv, StartEnrichment PROVE IInv'
<1> USE DEF IInv
<1>1. /\ phase = "running" /\ phase' = "enriched" /\ Running /\ building = <<>>
      /\ building' = Append(building, FullCompilation(registry))
      /\ UNCHANGED <<disk, notices, buffer, events, waiting, tracked, pending, timer>>
      /\ UNCHANGED <<ready, registry, program, trees, diags, since, overtaken>>
  BY DEF StartEnrichment, clientVars, docVars, analysisVars, historyVars, Running, BuildsAreEnriched
<1>2. /\ FullCompilation(registry) \in Trees
      /\ \A f \in registry : Edited(f) => FullCompilation(registry)[f] = buffer[f]
  BY <1>1, BuildsHaveEdits DEF TypeOK
<1>3. /\ building' \in Seq(Trees) /\ building' # <<>>
      /\ building'[Len(building')] = FullCompilation(registry)
  <2> DEFINE made == FullCompilation(registry)
  <2>1. made \in Trees /\ building' = <<made>>
    BY <1>1, <1>2
  <2> HIDE DEF made
  <2>2. building' \in Seq(Trees) /\ building' # <<>> /\ building'[Len(building')] = made
    BY <2>1
  <2> QED
    BY <2>2 DEF made
<1>4. TypeOK'
  BY <1>1, <1>3 DEF TypeOK
<1>5. InOrder(waiting, buffer)' /\ TrackedIsOpen' /\ ReadyFirst' /\ BuildsAreEnriched' /\ SolidStays'
  BY <1>1 DEF TrackedIsOpen, ReadyFirst, Running, BuildsAreEnriched, SolidStays
<1>6. \A f \in Files : Caught(f)' <=> Caught(f)
  BY <1>1 DEF Caught
<1>7. PendingIsText'
  BY <1>1, <1>6 DEF PendingIsText
<1>8. SingleIsOfProgram'
  BY <1>1, <1>6, Now DEF SingleIsOfProgram, Running
<1>9. CrossIsOfTracker'
  BY <1>1, <1>2, <1>3, <1>6 DEF CrossIsOfTracker, Edited, TypeOK
<1> QED
  BY <1>4, <1>5, <1>7, <1>8, <1>9

LEMMA FinishesBuild == ASSUME IInv, FinishBuild PROVE IInv'
<1> USE DEF IInv
<1>1. /\ building # <<>> /\ building \in Seq(Trees) /\ phase = "enriched" /\ Running
      /\ building' = Tail(building) /\ trees' = Head(building)
      /\ diags' = Pipeline(diags, Open, phase, program, trees')
      /\ UNCHANGED <<disk, notices, buffer, events, waiting, tracked, pending, timer>>
      /\ UNCHANGED <<ready, phase, registry, program, since, overtaken>>
  BY DEF FinishBuild, Rediagnosed, clientVars, docVars, historyVars, BuildsAreEnriched, Running, TypeOK
<1>2. /\ trees' \in Trees /\ building' \in Seq(Trees)
      /\ building' = <<>> => trees' = building[Len(building)]
      /\ building' # <<>> => building'[Len(building')] = building[Len(building)]
  <2> DEFINE q == building
             t == Tail(q)
  <2>1. q \in Seq(Trees) /\ q # <<>> /\ building' = t /\ trees' = q[1]
    BY <1>1
  <2> HIDE DEF q
  <2>2. t \in Seq(Trees) /\ q[1] \in Trees /\ Len(t) = Len(q) - 1 /\ Len(q) \in Nat /\ Len(q) # 0
    BY <2>1
  <2>3. t = <<>> => Len(q) = 1
    <3> HIDE DEF t
    <3> QED
      BY <2>2
  <2>4. t # <<>> => t[Len(t)] = q[Len(q)]
    <3>1. \A i \in 1..Len(t) : t[i] = q[i + 1]
      BY <2>1
    <3>2. t # <<>> => Len(t) \in 1..Len(t) /\ Len(t) + 1 = Len(q)
      BY <2>2
    <3> HIDE DEF t
    <3> QED
      BY <3>1, <3>2
  <2> HIDE DEF t
  <2> QED
    BY <2>1, <2>2, <2>3, <2>4 DEF q
<1>3. /\ diags' \in [Files -> Diags]
      /\ \A f \in Open : (f \in Solid => diags'[f].single = program[f]) /\ diags'[f].cross = trees'
  <2>1. diags \in [Files -> Diags] /\ program \in Program /\ Open \in SUBSET Files /\ trees' \in Trees
    BY <1>2, Now
  <2> HIDE DEF IInv
  <2>2. LET u == Pipeline(diags, Open, phase, program, trees')
        IN  /\ u \in [Files -> Diags] /\ \A f \in Files \ Open : u[f] = diags[f]
            /\ \A f \in Open : /\ f \in Solid => u[f].single = program[f]
                               /\ phase = "enriched" => u[f].cross = trees'
    BY <2>1, PipelineIs
  <2>3. phase = "enriched" /\ diags' = Pipeline(diags, Open, phase, program, trees')
    BY <1>1
  <2> QED
    BY <2>2, <2>3
<1>4. TypeOK'
  BY <1>1, <1>2, <1>3 DEF TypeOK
<1>5. InOrder(waiting, buffer)' /\ TrackedIsOpen' /\ ReadyFirst' /\ BuildsAreEnriched' /\ SolidStays'
  BY <1>1 DEF TrackedIsOpen, ReadyFirst, Running, BuildsAreEnriched, SolidStays
<1>6. \A f \in Files : Caught(f)' => Caught(f) /\ f \in Open
  BY <1>1, Now DEF Caught
<1>7. PendingIsText'
  BY <1>1, <1>6 DEF PendingIsText
<1>8. SingleIsOfProgram'
  BY <1>1, <1>3, <1>6, Now DEF SingleIsOfProgram, Running
<1>9. CrossIsOfTracker'
  <2> SUFFICES ASSUME NEW f \in registry \ overtaken, Edited(f)'
               PROVE  IF building' = <<>>
                      THEN trees'[f] = buffer[f] /\ diags'[f].cross # Nothing /\ diags'[f].cross[f] = buffer[f]
                      ELSE building'[Len(building')][f] = buffer[f]
    BY <1>1 DEF CrossIsOfTracker
  <2>1. f \in Open /\ Edited(f)
    BY <1>1, <1>6 DEF Edited, TypeOK
  <2>2. building[Len(building)][f] = buffer[f]
    BY <1>1, <2>1 DEF CrossIsOfTracker
  <2> QED
    BY <1>2, <1>3, <2>1, <2>2, NothingAssumption
<1> QED
  BY <1>4, <1>5, <1>7, <1>8, <1>9
------------------------------------------------------------------------------
(* A file changed on disk.                                                 *)
LEMMA Watches == ASSUME IInv, NEW n \in notices, WatchFile(n) PROVE IInv'
<1> DEFINE f == n.file
           rebuilds == phase = "enriched" /\ n.kind # "changed"
           kept == IF n.kind = "deleted" THEN diags ELSE Evicted(diags, {n.file})
<1>1. /\ notices' = notices \ {n}
      /\ registry' = IF ~rebuilds THEN registry
                     ELSE IF n.kind = "created" THEN registry \cup {n.file} ELSE registry \ {n.file}
      /\ building' = IF rebuilds THEN Append(building, FullCompilation(registry')) ELSE building
      /\ diags' = IF ~Running THEN diags
                  ELSE IF rebuilds THEN kept
                  ELSE Pipeline(kept, Open, phase, program, trees)
      /\ UNCHANGED <<disk, buffer, events, waiting, tracked, pending, timer, ready, phase, program, trees>>
      /\ UNCHANGED <<since, overtaken>>
  BY DEF WatchFile, docVars, historyVars
<1>2. n.file \in Files /\ (n.file \in Solid => n.kind = "changed")
  BY DEF IInv, TypeOK, SolidStays, Notice
<1>3. rebuilds => phase = "enriched" /\ Running /\ n.file \notin Solid
  BY <1>2 DEF Running
<1>4. registry' \in SUBSET Files
  BY <1>1, <1>2 DEF IInv, TypeOK
<1>5. kept \in [Files -> Diags] /\ \A g \in Files \ {n.file} : kept[g] = diags[g]
  BY Now, EvictedIs
<1> HIDE DEF rebuilds, kept
<1>6. /\ diags' \in [Files -> Diags]
      /\ ~Running => diags' = diags
      /\ rebuilds => \A g \in Solid : diags'[g] = diags[g]
      /\ Running /\ ~rebuilds => \A g \in Open : /\ g \in Solid => diags'[g].single = program[g]
                                                 /\ phase = "enriched" => diags'[g].cross = trees
  <2>1. /\ kept \in [Files -> Diags] /\ program \in Program /\ trees \in Trees
        /\ Open \in SUBSET Files
    BY <1>5, Now
  <2>a. diags \in [Files -> Diags] /\ Solid \subseteq Files
    BY Now
  <2>2. LET u == Pipeline(kept, Open, phase, program, trees)
        IN  /\ u \in [Files -> Diags] /\ \A g \in Files \ Open : u[g] = kept[g]
            /\ \A g \in Open : /\ g \in Solid => u[g].single = program[g]
                               /\ phase = "enriched" => u[g].cross = trees
    BY <2>1, PipelineIs
  <2>3. CASE rebuilds
    <3>1. diags' = kept /\ Running /\ n.file \notin Solid
      BY <1>1, <1>3, <2>3
    <3> QED
      BY <1>5, <2>a, <2>3, <3>1
  <2>4. CASE ~rebuilds
    <3>1. diags' = IF ~Running THEN diags ELSE Pipeline(kept, Open, phase, program, trees)
      BY <1>1, <2>4
    <3> QED
      BY <2>a, <2>2, <2>4, <3>1
  <2> QED
    BY <2>3, <2>4
<1>7. /\ building' \in Seq(Trees) /\ (~rebuilds => building' = building /\ registry' = registry)
      /\ rebuilds => /\ building' # <<>>
                     /\ \A g \in registry' : Edited(g) => building'[Len(building')][g] = buffer[g]
  <2>1. building \in Seq(Trees)
    BY DEF IInv, TypeOK
  <2>2. CASE rebuilds
    <3>1. PICK files \in SUBSET Files : files = registry'
      BY <1>4
    <3> DEFINE made == FullCompilation(files)
    <3>2. made \in Trees /\ \A g \in files : Edited(g) => made[g] = buffer[g]
      BY <1>3, <2>2, BuildsHaveEdits
    <3>3. building' = Append(building, made)
      BY <1>1, <2>2, <3>1
    <3> HIDE DEF made
    <3>4. building' \in Seq(Trees) /\ building' # <<>> /\ building'[Len(building')] = made
      BY <2>1, <3>2, <3>3
    <3> QED
      BY <2>2, <3>1, <3>2, <3>4
  <2>3. CASE ~rebuilds
    BY <1>1, <2>1, <2>3
  <2> QED
    BY <2>2, <2>3
<1> USE DEF IInv
<1>8. TypeOK'
  BY <1>1, <1>4, <1>6, <1>7 DEF TypeOK
<1>9. InOrder(waiting, buffer)' /\ TrackedIsOpen' /\ ReadyFirst' /\ BuildsAreEnriched' /\ SolidStays'
  BY <1>1, <1>3, <1>7 DEF TrackedIsOpen, ReadyFirst, Running, BuildsAreEnriched, SolidStays
<1>10. \A g \in Files : Caught(g)' => Caught(g) /\ g \in Open
  BY <1>1, Now DEF Caught
<1>11. PendingIsText'
  BY <1>1, <1>10 DEF PendingIsText
<1>12. SingleIsOfProgram'
  <2> SUFFICES ASSUME NEW g \in Solid, Caught(g)', pending[g] = Nothing
               PROVE  /\ since[g] # "early" => program[g] = buffer[g]
                      /\ diags'[g].single = IF Running THEN program[g] ELSE buffer[g]
    BY <1>1 DEF SingleIsOfProgram, Running
  <2>1. /\ since[g] # "early" => program[g] = buffer[g]
        /\ diags[g].single = IF Running THEN program[g] ELSE buffer[g]
        /\ g \in Open
    BY <1>10, Now DEF SingleIsOfProgram
  <2> QED
    BY <1>6, <2>1
<1>13. CrossIsOfTracker'
  <2> SUFFICES ASSUME NEW g \in registry' \ overtaken, phase = "enriched", Edited(g)'
               PROVE  IF building' = <<>>
                      THEN trees[g] = buffer[g] /\ diags'[g].cross # Nothing /\ diags'[g].cross[g] = buffer[g]
                      ELSE building'[Len(building')][g] = buffer[g]
    BY <1>1 DEF CrossIsOfTracker
  <2>1. Edited(g) /\ g \in Open
    BY <1>1, <1>4, <1>10 DEF Edited
  <2>2. CASE rebuilds
    BY <1>7, <2>1, <2>2
  <2>3. CASE ~rebuilds
    <3>1. IF building = <<>> THEN trees[g] = buffer[g] ELSE building[Len(building)][g] = buffer[g]
      BY <1>7, <2>1, <2>3 DEF CrossIsOfTracker
    <3>2. diags'[g].cross = trees /\ trees # Nothing
      BY <1>6, <2>1, <2>3, Now, NothingAssumption DEF Running
    <3> QED
      BY <1>7, <2>3, <3>1, <3>2
  <2> QED
    BY <2>2, <2>3
<1> QED
  BY <1>1, <1>8, <1>9, <1>11, <1>12, <1>13

(* A pull: of a document the server has the text of, the editor's.         *)
LEMMA Pulls == ASSUME IInv, NEW f \in Files, Pull(f) PROVE IInv'
<1> DEFINE content == IF buffer[f] # Nothing THEN buffer[f] ELSE disk[f]
           differs == content # Absent /\ (f \in Css \/ content # program[f])
           kept == IF differs THEN NoDiags ELSE diags[f]
           change == [g \in {f} |-> content]
<1>1. PICK found \in BOOLEAN :
        /\ Running /\ NextTask
        /\ program' = IF differs THEN Synced(program, change) ELSE program
        /\ diags' = [diags EXCEPT ![f] =
             [single |-> SingleFile(program', f),
              cross |-> IF phase = "enriched" /\ (found \/ kept.cross = Nothing)
                        THEN trees ELSE kept.cross]]
        /\ UNCHANGED <<disk, notices, buffer, events, waiting, tracked, pending, timer>>
        /\ UNCHANGED <<ready, phase, registry, building, trees, since, overtaken>>
  BY DEF Pull, clientVars, docVars, serverVars, historyVars
<1>2. waiting = <<>> /\ program \in [Solid -> Text]
  BY <1>1, Now DEF IInv, ReadyFirst
<1>3. differs => content \in Contents
  BY Now DEF Trees, Text
<1>4. DOMAIN change = {f} /\ change[f] = content
  OBVIOUS
<1>5. kept \in Diags /\ (kept = NoDiags \/ kept = diags[f])
  BY Now DEF Diags, NoDiags
<1>6. buffer[f] # Nothing => content = buffer[f] /\ buffer[f] # Absent
  BY Now
<1>7. differs <=> content # Absent /\ (f \in Css \/ content # program[f])
  OBVIOUS
<1> HIDE DEF content, differs, kept, change
<1>8. /\ program' \in Program /\ program' \in [Solid -> Text]
      /\ \A g \in Solid : program'[g] = IF g = f /\ differs THEN content ELSE program[g]
  <2>1. CASE differs
    <3>1. /\ Synced(program, change) \in Program
          /\ \A g \in Solid : Synced(program, change)[g] = IF g \in DOMAIN change THEN change[g] ELSE program[g]
      BY <1>3, <1>4, <2>1, Now, SyncedIs
    <3> QED
      BY <1>1, <1>2, <1>3, <1>4, <2>1, <3>1 DEF Program, Text
  <2>2. CASE ~differs
    BY <1>1, <1>2, <2>2, Now
  <2> QED
    BY <2>1, <2>2
<1>9. PICK cross : /\ cross \in Trees \cup {Nothing} /\ (cross = trees \/ cross = kept.cross)
                   /\ phase = "enriched" /\ cross # trees => kept.cross # Nothing
                   /\ diags' = [diags EXCEPT ![f] = [single |-> SingleFile(program', f), cross |-> cross]]
  <2>1. kept.cross \in Trees \cup {Nothing} /\ trees \in Trees
    BY <1>5, Now DEF Diags
  <2> QED
    BY <1>1, <2>1
<1>10. /\ diags' \in [Files -> Diags] /\ \A g \in Files \ {f} : diags'[g] = diags[g]
       /\ diags'[f].cross = cross /\ (f \in Solid => diags'[f].single = program'[f])
  <2> DEFINE view == [single |-> SingleFile(program', f), cross |-> cross]
  <2>1. view \in Diags /\ view.cross = cross /\ (f \in Solid => view.single = program'[f])
    BY <1>8, <1>9 DEF Diags, SingleFile, Program
  <2>2. diags' = [diags EXCEPT ![f] = view] /\ diags \in [Files -> Diags]
    BY <1>9, Now
  <2> HIDE DEF view
  <2> QED
    BY <2>1, <2>2
<1> USE DEF IInv
<1>11. TypeOK'
  BY <1>1, <1>8, <1>10 DEF TypeOK, Program
<1>12. InOrder(waiting, buffer)' /\ TrackedIsOpen' /\ ReadyFirst' /\ BuildsAreEnriched' /\ SolidStays'
  BY <1>1, <1>8 DEF TrackedIsOpen, ReadyFirst, Running, BuildsAreEnriched, SolidStays
<1>13. \A g \in Files : Caught(g)' => Caught(g) /\ buffer[g] # Nothing
  BY <1>1 DEF Caught
<1>14. PendingIsText'
  BY <1>1, <1>13 DEF PendingIsText
<1>15. SingleIsOfProgram'
  <2> SUFFICES ASSUME NEW g \in Solid, Caught(g)', pending[g] = Nothing
               PROVE  /\ since[g] # "early" => program'[g] = buffer[g]
                      /\ diags'[g].single = program'[g]
    BY <1>1 DEF SingleIsOfProgram, Running
  <2>1. /\ since[g] # "early" => program[g] = buffer[g]
        /\ diags[g].single = program[g] /\ g \in Files /\ buffer[g] # Nothing
    BY <1>1, <1>13, Now DEF SingleIsOfProgram
  <2> QED
    BY <1>6, <1>8, <1>10, <2>1
<1>16. CrossIsOfTracker'
  <2> SUFFICES ASSUME NEW g \in registry \ overtaken, phase = "enriched", Edited(g)'
               PROVE  IF building = <<>>
                      THEN trees[g] = buffer[g] /\ diags'[g].cross # Nothing /\ diags'[g].cross[g] = buffer[g]
                      ELSE building[Len(building)][g] = buffer[g]
    BY <1>1 DEF CrossIsOfTracker
  <2>1. Edited(g) /\ g \in Files
    BY <1>1, <1>13 DEF Edited, TypeOK
  <2>2. IF building = <<>>
        THEN trees[g] = buffer[g] /\ diags[g].cross # Nothing /\ diags[g].cross[g] = buffer[g]
        ELSE building[Len(building)][g] = buffer[g]
    BY <2>1 DEF CrossIsOfTracker
  <2>3. diags'[g].cross \in {trees, diags[g].cross}
    BY <1>5, <1>9, <1>10, <2>1 DEF NoDiags
  <2> QED
    BY <2>2, <2>3, Now, NothingAssumption
<1> QED
  BY <1>1, <1>11, <1>12, <1>14, <1>15, <1>16
------------------------------------------------------------------------------
LEMMA Starts == ASSUME Init PROVE IInv
<1> USE DEF Init
<1>1. TypeOK
  <2>1. disk \in Trees /\ notices \subseteq Notice /\ events \in 0..MaxEvents
    BY BoundsAssumption
  <2>2. /\ buffer \in [Files -> Contents \cup {Nothing}]
        /\ tracked \in [Files -> {"closed", "opened", "open"}]
        /\ pending \in [Files -> Contents \cup {Nothing}] /\ (timer \in BOOLEAN)
    OBVIOUS
  <2>3. /\ (ready \in BOOLEAN) /\ phase \in {"initializing", "running", "enriched"}
        /\ registry \subseteq Files
    OBVIOUS
  <2>4. waiting \in Seq(Waiting) /\ building \in Seq(Trees)
    OBVIOUS
  <2>5. program \in [Solid -> Text \cup {Nothing}] /\ trees \in Trees
    BY DEF Trees, Text
  <2>6. diags \in [Files -> Diags]
    BY DEF NoDiags, Diags
  <2>7. since \in [Files -> {"never", "early", "late", "edited"}] /\ overtaken \subseteq Files
    OBVIOUS
  <2> HIDE DEF Init
  <2> QED
    BY <2>1, <2>2, <2>3, <2>4, <2>5, <2>6, <2>7 DEF TypeOK
<1>2. InOrder(waiting, buffer)
  BY NoneAhead DEF InOrder, OnlyOpenTell, ClosedComeFirst, ChangeFollows
<1>3. TrackedIsOpen /\ ReadyFirst /\ BuildsAreEnriched /\ SolidStays
  BY DEF TrackedIsOpen, ReadyFirst, Running, BuildsAreEnriched, SolidStays
<1>4. \A f \in Files : ~Caught(f)
  BY DEF Caught
<1>5. PendingIsText /\ SingleIsOfProgram /\ CrossIsOfTracker
  BY <1>4 DEF PendingIsText, SingleIsOfProgram, CrossIsOfTracker, Files
<1> QED
  BY <1>1, <1>2, <1>3, <1>5 DEF IInv

LEMMA Stutters == ASSUME IInv, UNCHANGED vars PROVE IInv'
<1>1. /\ UNCHANGED <<disk, notices, buffer, events, waiting, tracked, pending, timer>>
      /\ UNCHANGED <<ready, phase, registry, building, program, trees, diags, since, overtaken>>
  BY DEF vars, clientVars, docVars, serverVars, analysisVars, historyVars
<1> USE DEF IInv
<1>2. TypeOK'
  BY <1>1 DEF TypeOK
<1>3. InOrder(waiting, buffer)' /\ TrackedIsOpen' /\ ReadyFirst' /\ BuildsAreEnriched' /\ SolidStays'
  BY <1>1 DEF TrackedIsOpen, ReadyFirst, Running, BuildsAreEnriched, SolidStays
<1>4. \A f \in Files : Caught(f)' <=> Caught(f)
  BY <1>1 DEF Caught
<1> QED
  BY <1>1, <1>2, <1>3, <1>4, DocumentsKept

LEMMA Inductive == ASSUME IInv, [Next]_vars PROVE IInv'
<1>1. CASE UNCHANGED vars
  BY <1>1, Stutters
<1>2. CASE Client
  <2>1. ASSUME NEW f \in Files, NEW t \in Contents, OpenDocument(f, t) \/ ChangeDocument(f, t) PROVE IInv'
    BY <2>1, Opens, Changing
  <2>2. ASSUME NEW f \in Files, NEW t \in Text, ExternalWrite(f, t) PROVE IInv'
    BY <2>2, Writing
  <2>3. ASSUME NEW f \in Files, SaveDocument(f) \/ CloseDocument(f) \/ Pull(f) PROVE IInv'
    BY <2>3, Saving, Closing, Pulls
  <2>4. ASSUME NEW n \in notices, WatchFile(n) PROVE IInv'
    BY <2>4, Watches
  <2> QED
    BY <1>2, <2>1, <2>2, <2>3, <2>4 DEF Client
<1>3. CASE Continue
  BY <1>3, RunsOpen, RunsChange, RunsSave DEF Continue
<1>4. CASE FireTimer
  BY <1>4, TimerFires
<1>5. CASE StartUp
  BY <1>5, BecomesReady, BecomesRunning, StartsEnrichment DEF StartUp
<1>6. CASE FinishBuild
  BY <1>6, FinishesBuild
<1> QED
  BY <1>1, <1>2, <1>3, <1>4, <1>5, <1>6 DEF Next

(* Every state the server reaches satisfies the invariant.                 *)
THEOREM Invariant == Spec => []IInv
  BY Starts, Inductive, PTL DEF Spec

(* The state of the server has its type (document-tracker.ts and           *)
(* server-context.ts).                                                     *)
THEOREM TypeCorrect == Spec => []TypeOK
<1>1. IInv => TypeOK
  BY DEF IInv
<1> QED
  BY <1>1, Invariant, PTL

(* The server has the text of a document of which nothing is on its way.   *)
LEMMA SettledIsCaught == ASSUME IInv, NEW f \in Files, Settled(f) PROVE Caught(f) /\ pending[f] = Nothing
  BY DEF IInv, Settled, Caught, TrackedIsOpen, OpenAhead, ChangeAhead, Tells

(* Once the program is there, the single-file diagnostics of a settled     *)
(* document are of the editor's text, whatever was opened, changed, saved, *)
(* closed and pulled before and in whatever phase (onDidOpen,              *)
(* onDidChangeContent, processChangesCallback).                            *)
THEOREM SingleFollowsEditor == Spec => []SingleIsCurrent
<1>1. ASSUME IInv PROVE SingleIsCurrent
  <2> SUFFICES ASSUME NEW f \in Solid, Running, Settled(f), since[f] = "early" => program[f] = buffer[f]
               PROVE  diags[f].single = buffer[f]
    BY DEF SingleIsCurrent
  <2>1. f \in Files /\ Caught(f) /\ pending[f] = Nothing
    BY <1>1, SettledIsCaught DEF Files
  <2> QED
    BY <1>1, <2>1 DEF IInv, SingleIsOfProgram
<1> QED
  BY <1>1, Invariant, PTL

(* The cross-file diagnostics of a settled document that was edited have   *)
(* seen the editor's text, through every rebuild but one in flight when    *)
(* the edit went to the tracker (buildEnrichedCompilationTracker).         *)
THEOREM CrossFollowsEditor == Spec => []CrossHasOwnText
<1>1. ASSUME IInv PROVE CrossHasOwnText
  <2> SUFFICES ASSUME NEW f \in registry \ overtaken, phase = "enriched", building = <<>>,
                      Settled(f), since[f] = "edited"
               PROVE  diags[f].cross # Nothing /\ diags[f].cross[f] = buffer[f]
    BY DEF CrossHasOwnText
  <2>1. Edited(f)
    BY <1>1, SettledIsCaught DEF Edited, IInv, TypeOK
  <2> QED
    BY <1>1, <2>1 DEF IInv, CrossIsOfTracker
<1> QED
  BY <1>1, Invariant, PTL
------------------------------------------------------------------------------
(* The server's tasks diagnose the documents they find open.               *)
LEMMA ClosedUntouched ==
  ASSUME IInv, NEW f \in Files, buffer[f] = Nothing, diags[f] = NoDiags, Next
  PROVE  \/ diags'[f] = NoDiags
         \/ Pull(f)
         \/ phase = "initializing" /\ RunOpen /\ Head(waiting).file = f
<1>1. /\ diags \in [Files -> Diags] /\ f \notin Open /\ pending[f] = Nothing
      /\ phase = "initializing" \/ Running
  BY Now DEF IInv, TypeOK, TrackedIsOpen, Running
<1>2. ASSUME NEW d, d[f] = NoDiags, NEW at, NEW p, NEW c, diags' = Pipeline(d, Open, at, p, c)
      PROVE  diags'[f] = NoDiags
  BY <1>1, <1>2 DEF Pipeline
<1>3. ASSUME NEW kind, Continuation(kind), Running PROVE f # Head(waiting).file
  BY <1>3, HandledNow
<1>4. FlushedDiags \in [Files -> Diags] /\ FlushedDiags[f] = NoDiags
  BY <1>1, Flushed DEF IInv
<1>5. CASE UNCHANGED diags
  BY <1>5
<1>6. CASE \E g \in Files : CloseDocument(g)
  BY <1>1, <1>6 DEF CloseDocument
<1>7. CASE \E g \in Files : Pull(g)
  <2>1. PICK g \in Files : Pull(g)
    BY <1>7
  <2>2. CASE g # f
    <3>1. \E view : diags' = [diags EXCEPT ![g] = view]
      BY <2>1 DEF Pull
    <3> QED
      BY <1>1, <2>2, <3>1
  <2> QED
    BY <2>1, <2>2
<1>8. CASE \E n \in notices : WatchFile(n)
  <2>1. PICK n \in notices : WatchFile(n)
    BY <1>8
  <2> DEFINE kept == IF n.kind = "deleted" THEN diags ELSE Evicted(diags, {n.file})
  <2>2. kept[f] = NoDiags
    BY <1>1, EvictedIs
  <2>3. diags' \in {diags, kept, Pipeline(kept, Open, phase, program, trees)}
    BY <2>1 DEF WatchFile
  <2> HIDE DEF kept
  <2> QED
    BY <1>2, <2>2, <2>3
<1>9. CASE RunOpen
  <2>1. CASE Head(waiting).file = f
    BY <1>1, <1>3, <1>9, <2>1 DEF RunOpen
  <2>2. CASE Head(waiting).file # f
    BY <1>1, <1>9, <2>2 DEF RunOpen, Pipeline, Tier1
  <2> QED
    BY <2>1, <2>2
<1>10. CASE RunSave
  BY <1>1, <1>3, <1>4, <1>10 DEF RunSave, Pipeline, Evicted
<1>11. CASE FireTimer
  BY <1>4, <1>11 DEF FireTimer
<1>12. CASE BecomeRunning \/ FinishBuild
  BY <1>2, <1>12 DEF BecomeRunning, FinishBuild, Rediagnosed
<1> QED
  <2>1. ASSUME \/ \E g \in Files, t \in Contents : OpenDocument(g, t) \/ ChangeDocument(g, t)
               \/ \E g \in Files, t \in Text : ExternalWrite(g, t)
               \/ \E g \in Files : SaveDocument(g)
               \/ RunChange \/ BecomeReady \/ StartEnrichment
        PROVE  UNCHANGED diags
    BY <2>1 DEF OpenDocument, ChangeDocument, ExternalWrite, SaveDocument, RunChange, BecomeReady,
                StartEnrichment, analysisVars
  <2> QED
    BY <1>5, <1>6, <1>7, <1>8, <1>9, <1>10, <1>11, <1>12, <2>1 DEF Next, Client, Continue, StartUp

(* Nothing diagnoses a document that is not open, except a pull and the    *)
(* handler of an open that waited for readiness while it was closed        *)
(* (onDidClose, processChangesCallback, rediagnoseAll).                    *)
THEOREM ClosedStayClear == Spec => ClosedStaysClear
<1>1. IInv /\ [Next]_vars =>
        [\A f \in Files :
           (buffer[f] = Nothing /\ diags[f] = NoDiags /\ diags'[f] # NoDiags) =>
             \/ Pull(f)
             \/ phase = "initializing" /\ RunOpen /\ Head(waiting).file = f]_vars
  BY ClosedUntouched
<1> QED
  BY <1>1, Invariant, PTL DEF Spec, ClosedStaysClear
==============================================================================
