-------------------------- MODULE ElementBuilderProofs --------------------------
(***************************************************************************)
(* Proofs about the elements of a file and the resolver that finds their   *)
(* hosts.  First the tree, whatever the hosts: every element that takes    *)
(* part stands in it once and in order.  Then the resolver: its calls keep *)
(* their invariant and come to an end; what it remembers of a name whose   *)
(* meaning is clear is what the terms of the name yield; so a second one,  *)
(* without a memory, finds the same; and one in a compilation in which the *)
(* terms are the same does, too.  From these the invariants of the element *)
(* builder, for every workspace, every sequence of edits and every order   *)
(* in which files are built.                                               *)
(***************************************************************************)
EXTENDS ElementBuilder, CompilationTrackerProofs, WellFoundedInduction, FiniteSetTheorems,
        SequenceTheorems

(* Every set of numbers that is not empty has a least.                     *)
LEMMA Least ==
  ASSUME NEW T \in SUBSET Nat, T # {}
  PROVE  \E n \in T : \A m \in T : n <= m
<1>1. PICK n \in T : \A m \in T : <<m, n>> \notin OpToRel(<, Nat)
  BY NatLessThanWellFounded, WFMin
<1>2. ASSUME NEW m \in T
      PROVE  n <= m
  <2>1. m < n => <<m, n>> \in OpToRel(<, Nat)
    BY DEF OpToRel
  <2>2. ~(m < n)
    BY <1>1, <2>1
  <2> QED
    BY <2>2
<1> QED
  BY <1>2

IsPage(t) == Len(t.jsx) \in Nat /\ DOMAIN t.jsx = 1..Len(t.jsx)

(* The recursion of Line is defined.                                       *)
LEMMA LineSteps ==
  ASSUME NEW t, IsPage(t), NEW hs, NEW i
  PROVE  /\ Line(t, hs, i)[0] = i
         /\ \A n \in 0..Len(t.jsx) : n # 0 =>
              Line(t, hs, i)[n] = IF Line(t, hs, i)[n - 1] = 0 THEN 0
                                  ELSE ParentOf(t, hs, Line(t, hs, i)[n - 1])
<1> DEFINE N == Len(t.jsx)
           P(u) == IF u = 0 THEN 0 ELSE ParentOf(t, hs, u)
           Up(f, n) == IF n = 0 THEN i ELSE P(f[n - 1])
           Defined(k) == \E f : f = [n \in 0..k |-> Up(f, n)]
<1>1. N \in Nat
  BY DEF IsPage
<1> HIDE DEF N, P
<1>2. Defined(N)
  <2> DEFINE T == {k \in 0..N : ~Defined(k)}
  <2>1. ASSUME NEW k \in 0..N, \A j \in 0..(k - 1) : Defined(j)
        PROVE  Defined(k)
    <3>1. CASE k = 0
      <4> DEFINE f == [n \in 0..0 |-> i]
      <4>1. f = [n \in 0..0 |-> Up(f, n)]
        OBVIOUS
      <4> QED
        BY <3>1, <4>1
    <3>2. CASE k # 0
      <4>1. k - 1 \in 0..(k - 1) /\ k \in 1..N
        BY <3>2, <1>1
      <4>2. PICK f : f = [n \in 0..(k - 1) |-> Up(f, n)]
        BY <2>1, <4>1
      <4> DEFINE g == [n \in 0..k |-> Up(f, n)]
      <4>3. ASSUME NEW n \in 0..(k - 1)
            PROVE  g[n] = f[n]
        <5>1. n \in 0..k
          BY <1>1, <4>1
        <5>2. g[n] = Up(f, n)
          BY <5>1
        <5> HIDE DEF Up, g
        <5> QED
          BY <4>2, <5>2
      <4>4. \A n \in 0..k : n = 0 \/ n - 1 \in 0..(k - 1)
        BY <1>1, <4>1
      <4>5. \A n \in 0..k : Up(g, n) = Up(f, n)
        <5> HIDE DEF g
        <5> QED
          BY <4>3, <4>4
      <4>6. g = [n \in 0..k |-> Up(g, n)]
        BY <4>5
      <4> QED
        BY <4>6
    <3> QED
      BY <3>1, <3>2
  <2> HIDE DEF Defined
  <2>2. T \in SUBSET Nat
    BY <1>1
  <2>3. CASE T # {}
    <3>1. PICK k \in T : \A j \in T : k <= j
      BY <2>2, <2>3, Least
    <3>2. \A j \in 0..(k - 1) : Defined(j)
      BY <3>1, <1>1
    <3> QED
      BY <2>1, <3>1, <3>2
  <2> QED
    BY <2>3, <1>1
<1> DEFINE up == CHOOSE f : f = [n \in 0..N |-> Up(f, n)]
<1>3. up = [n \in 0..N |-> Up(up, n)]
  BY <1>2
<1>4. Line(t, hs, i) = up
  BY DEF Line, N, P
<1> HIDE DEF up
<1>5. \A n \in 0..N : up[n] = Up(up, n)
  BY <1>3
<1>6. up[0] = i /\ \A n \in 0..N : n # 0 => up[n] = P(up[n - 1])
  BY <1>1, <1>5
<1> QED
  BY <1>4, <1>6 DEF N, P

(* What is above an element that is above another one is above that, too.  *)
LEMMA LineGoesOn ==
  ASSUME NEW t, IsPage(t), NEW hs, NEW i, NEW m \in Nat, NEW k \in Nat, m + k <= Len(t.jsx)
  PROVE  Line(t, hs, i)[m + k] = Line(t, hs, Line(t, hs, i)[m])[k]
<1> DEFINE N == Len(t.jsx)
           up == Line(t, hs, i)
           on == Line(t, hs, up[m])
           P(u) == IF u = 0 THEN 0 ELSE ParentOf(t, hs, u)
           T == {j \in 0..k : up[m + j] # on[j]}
<1>1. N \in Nat
  BY DEF IsPage
<1>2. \A n \in 0..N : n # 0 => up[n] = P(up[n - 1])
  BY LineSteps
<1>3. on[0] = up[m] /\ \A n \in 0..N : n # 0 => on[n] = P(on[n - 1])
  BY LineSteps
<1> HIDE DEF N, up, on, P
<1>4. CASE T # {}
  <2>0. T \in SUBSET Nat
    OBVIOUS
  <2>1. PICK j \in T : \A l \in T : j <= l
    BY <1>4, <2>0, Least
  <2>2. j # 0 /\ j \in 0..k
    BY <1>3, <2>1
  <2>3. up[m + (j - 1)] = on[j - 1]
    BY <2>1, <2>2
  <2>4. m + j \in 0..N /\ m + j # 0 /\ j \in 0..N /\ (m + j) - 1 = m + (j - 1)
    BY <1>1, <2>2 DEF N
  <2>5. up[m + j] = on[j]
    BY <1>2, <1>3, <2>2, <2>3, <2>4
  <2> QED
    BY <2>1, <2>5
<1>5. CASE T = {}
  BY <1>5 DEF up, on
<1> QED
  BY <1>4, <1>5

(* visitRecord comes to an end: a file has no more elements than it has.   *)
Ends(t, hs, V, i, n) ==
  LET up == Line(t, hs, i)
  IN  up[n] \notin Taking(t, hs) \ V \/ \E m \in 0..(n - 1) : up[m] = up[n]
IsVisit(t, hs, V, i, w) ==
  \E n \in 0..Len(t.jsx) :
    /\ w = [m \in 1..n |-> Line(t, hs, i)[n - m]]
    /\ Ends(t, hs, V, i, n) /\ \A m \in 0..(n - 1) : ~Ends(t, hs, V, i, m)

(* What Visit yields: the way up from an element, from its end.            *)
LEMMA VisitMeans ==
  ASSUME NEW t, IsPage(t), NEW hs, NEW V, NEW i
  PROVE  IsVisit(t, hs, V, i, Visit(t, hs, V, i))
<1> DEFINE N == Len(t.jsx)
           up == Line(t, hs, i)
           E(n) == Ends(t, hs, V, i, n)
           T == {n \in 0..N : E(n)}
           f == [n \in 0..N |-> up[n]]
           end == CHOOSE n \in 0..N : E(n) /\ \A m \in 0..(n - 1) : ~E(m)
<1>1. N \in Nat /\ Taking(t, hs) \subseteq 1..N
  BY DEF IsPage, Taking
<1>2. T \in SUBSET Nat
  OBVIOUS
<1>3. \A n \in 0..N : ~E(n) => up[n] \in 1..N /\ \A m \in 0..(n - 1) : up[m] # up[n]
  BY <1>1 DEF Ends
<1>4. Visit(t, hs, V, i) = [m \in 1..end |-> up[end - m]]
  BY DEF Visit, Ends
<1> HIDE DEF N, up, E
<1>5. T # {}
  <2> SUFFICES ASSUME T = {}
               PROVE  FALSE
    OBVIOUS
  <2>1. f \in [0..N -> 1..N]
    BY <1>3
  <2>2. /\ IsFiniteSet(0..N) /\ Cardinality(0..N) = N + 1
        /\ IsFiniteSet(1..N) /\ Cardinality(1..N) = N
    BY <1>1, FS_Interval
  <2>3. PICK x, y \in 0..N : x # y /\ f[x] = f[y]
    <3>1. Cardinality(1..N) < Cardinality(0..N)
      BY <1>1, <2>2
    <3> DEFINE A == 0..N
               B == 1..N
    <3>2. f \in [A -> B] /\ IsFiniteSet(A) /\ IsFiniteSet(B) /\ Cardinality(B) < Cardinality(A)
      BY <2>1, <2>2, <3>1
    <3> HIDE DEF f, A, B
    <3>3. \E x, y \in A : x # y /\ f[x] = f[y]
      BY <3>2, FS_PigeonHole
    <3> QED
      BY <3>3 DEF A
  <2>4. up[x] = up[y]
    BY <2>3
  <2>5. x < y => x \in 0..(y - 1)
    BY <1>1
  <2>6. y < x => y \in 0..(x - 1)
    BY <1>1
  <2>7. x < y \/ y < x
    BY <1>1, <2>3
  <2> QED
    BY <1>3, <2>4, <2>5, <2>6, <2>7
<1>6. PICK n \in T : \A m \in T : n <= m
  BY <1>2, <1>5, Least
<1>7. n \in 0..N /\ E(n) /\ \A m \in 0..(n - 1) : ~E(m)
  <2>1. \A m \in 0..(n - 1) : m \in 0..N /\ ~(n <= m)
    BY <1>1, <1>6
  <2> QED
    BY <1>6, <2>1
<1>8. end \in 0..N /\ E(end) /\ \A m \in 0..(end - 1) : ~E(m)
  BY <1>7
<1> HIDE DEF end
<1> QED
  BY <1>4, <1>8 DEF IsVisit, N, up, E

(* What stands before a place, and what the sort has done when it has      *)
(* visited the elements up to i: all of them that take part stand, once;   *)
(* a parent stands before its children, or below one; and whatever stands  *)
(* was visited itself or for an element below it, before whose parent it   *)
(* then stands, when all elements before that one stood.                   *)
Before(s, n) == {s[m] : m \in 1..(n - 1)}
Complete(t, hs, i, s) == \A j \in Taking(t, hs) : j <= i => j \in Before(s, Len(s) + 1)
BelowParent(t, hs, s, n) ==
  ParentOf(t, hs, s[n]) \in Taking(t, hs) =>
    ParentOf(t, hs, s[n]) \in Before(s, n) \/ s[n] \in Above(t, hs, s[n])
VisitedFor(t, hs, s, n, c) ==
  /\ \A j \in Taking(t, hs) : j < c => j \in Before(s, n)
  /\ s[n] = c \/ (s[n] \in Above(t, hs, c) /\ ParentOf(t, hs, c) \notin Before(s, n))
InOrder(t, hs, i, s) ==
  /\ Len(s) \in Nat /\ s = [n \in 1..Len(s) |-> s[n]]
  /\ \A n \in 1..Len(s) : s[n] \in Taking(t, hs) /\ s[n] \notin Before(s, n)
  /\ Complete(t, hs, i, s)
  /\ \A n \in 1..Len(s) : BelowParent(t, hs, s, n)
  /\ \A n \in 1..Len(s) : \E c \in 1..i : VisitedFor(t, hs, s, n, c)

(* Visiting one more element keeps that.                                   *)
LEMMA VisitKeepsOrder ==
  ASSUME NEW t, IsPage(t), NEW hs, NEW i \in 1..Len(t.jsx), NEW s, InOrder(t, hs, i - 1, s),
         NEW w, IsVisit(t, hs, ToSet(s), i, w)
  PROVE  InOrder(t, hs, i, s \o w)
<1> DEFINE N == Len(t.jsx)
           up == Line(t, hs, i)
           V == ToSet(s)
           T == Taking(t, hs)
           l == Len(s)
           r == s \o w
<1>1. N \in Nat /\ T \subseteq 1..N /\ 0 \notin T /\ i \in 1..N
  BY DEF IsPage, Taking
<1>2. l \in Nat /\ s = [n \in 1..l |-> s[n]]
  BY DEF InOrder
<1>3. PICK e \in 0..N : /\ w = [m \in 1..e |-> up[e - m]]
                        /\ Ends(t, hs, V, i, e)
                        /\ \A m \in 0..(e - 1) : ~Ends(t, hs, V, i, m)
  BY DEF IsVisit
<1>4. /\ up[0] = i
      /\ \A n \in 0..N : n # 0 => up[n] = IF up[n - 1] = 0 THEN 0 ELSE ParentOf(t, hs, up[n - 1])
  BY LineSteps
<1>5. \A m \in 0..(e - 1) : up[m] \in T \ V /\ \A k \in 0..(m - 1) : up[k] # up[m]
  BY <1>3 DEF Ends
<1>6. up[e] \notin T \ V \/ \E m \in 0..(e - 1) : up[m] = up[e]
  BY <1>3 DEF Ends
<1>7. \A n \in 1..N : up[n] \in Above(t, hs, i)
  BY DEF Above, IsPage
<1>8. V = {s[n] : n \in 1..l}
  BY <1>2 DEF ToSet
<1>9. /\ Len(w) = e /\ Len(r) = l + e
      /\ r = [n \in 1..(l + e) |-> r[n]]
      /\ \A n \in 1..l : r[n] = s[n]
      /\ \A n \in (l + 1)..(l + e) : r[n] = up[e + l - n]
  <2> DEFINE C == {s[n] : n \in 1..l} \cup {up[m] : m \in 0..e}
  <2>1. DOMAIN w = 1..e /\ e \in Nat /\ w \in Seq(C)
    BY <1>1, <1>3
  <2>2. Len(w) = e
    BY <2>1
  <2>3. s \in Seq(C)
    <3>1. s \in [1..l -> C]
      <4> HIDE DEF l
      <4> QED
        BY <1>2
    <3> QED
      BY <1>2, <3>1
  <2> HIDE DEF C
  <2>4. /\ r \in Seq(C) /\ Len(r) = l + e
        /\ \A n \in 1..l : r[n] = s[n]
        /\ \A n \in 1..e : r[l + n] = w[n]
    <3>1. /\ r \in Seq(C) /\ Len(r) = Len(s) + Len(w)
          /\ \A n \in 1..(Len(s) + Len(w)) :
               r[n] = IF n <= Len(s) THEN s[n] ELSE w[n - Len(s)]
      BY ONLY <2>1, <2>3, ConcatProperties
    <3> HIDE DEF r, l
    <3>2. /\ \A n \in 1..l : n \in 1..(l + e) /\ n <= l
          /\ \A n \in 1..e : l + n \in 1..(l + e) /\ ~(l + n <= l) /\ (l + n) - l = n
      BY <1>2, <2>1
    <3>3. /\ r \in Seq(C) /\ Len(r) = l + e
          /\ \A n \in 1..(l + e) : r[n] = IF n <= l THEN s[n] ELSE w[n - l]
      BY <2>2, <3>1 DEF l
    <3> QED
      BY <3>2, <3>3
  <2> HIDE DEF r, l
  <2>5. \A n \in (l + 1)..(l + e) : n - l \in 1..e /\ l + (n - l) = n /\ e - (n - l) = e + l - n
    BY <1>2, <2>1
  <2>6. \A n \in (l + 1)..(l + e) : r[n] = up[e + l - n]
    BY <1>3, <2>4, <2>5
  <2>7. r = [n \in 1..(l + e) |-> r[n]]
    BY <2>4
  <2> QED
    BY <2>2, <2>4, <2>6, <2>7
<1>10. Complete(t, hs, i - 1, s)
  BY DEF InOrder
<1> HIDE DEF N, up, V, T, l, r
(* What stands before an old and before a new place.                       *)
<1>11. \A n \in 1..l : Before(r, n) = Before(s, n)
  <2> TAKE n \in 1..l
  <2>1. \A k \in 1..(n - 1) : k \in 1..l
    BY <1>2
  <2>2. \A k \in 1..(n - 1) : r[k] = s[k]
    BY <1>9, <2>1
  <2> QED
    BY <2>2 DEF Before
<1>12. ASSUME NEW n \in (l + 1)..(l + e)
       PROVE  Before(r, n) = V \cup {up[m] : m \in (e + l - n + 1)..(e - 1)}
  <2>1. \A k \in 1..(n - 1) : k \in 1..l \/ (k \in (l + 1)..(l + e) /\ e + l - k \in (e + l - n + 1)..(e - 1))
    BY <1>2
  <2>2. Before(r, n) \subseteq V \cup {up[m] : m \in (e + l - n + 1)..(e - 1)}
    <3>1. ASSUME NEW k \in 1..(n - 1)
          PROVE  r[k] \in V \cup {up[m] : m \in (e + l - n + 1)..(e - 1)}
      <4>1. CASE k \in 1..l
        BY <1>8, <1>9, <4>1
      <4>2. CASE k \in (l + 1)..(l + e) /\ e + l - k \in (e + l - n + 1)..(e - 1)
        <5>1. r[k] = up[e + l - k]
          BY <1>9, <4>2
        <5> QED
          BY <4>2, <5>1
      <4> QED
        BY <2>1, <4>1, <4>2
    <3> QED
      BY <3>1 DEF Before
  <2>3. \A k \in 1..l : k \in 1..(n - 1)
    BY <1>2
  <2>4. V \subseteq Before(r, n)
    BY <1>8, <1>9, <2>3, ZenonT(30) DEF Before
  <2>5. ASSUME NEW m \in (e + l - n + 1)..(e - 1)
        PROVE  up[m] \in Before(r, n)
    <3>1. e + l - m \in (l + 1)..(l + e) /\ e + l - m \in 1..(n - 1) /\ e + l - (e + l - m) = m
      BY <1>2
    <3>2. r[e + l - m] = up[m]
      BY <1>9, <3>1
    <3> QED
      BY <3>1, <3>2 DEF Before
  <2> QED
    BY <2>2, <2>4, <2>5
<1>13. \A n \in (l + 1)..(l + e) : e + l - n \in 0..(e - 1) /\ n \in 1..(l + e)
  BY <1>2
<1>14. \A n \in 1..(l + e) : n \in 1..l \/ n \in (l + 1)..(l + e)
  BY <1>2
<1>15. \A n \in 1..(l + e) : r[n] \in T /\ r[n] \notin Before(r, n)
  <2> TAKE n \in 1..(l + e)
  <2>1. CASE n \in 1..l
    <3>1. s[n] \in T /\ s[n] \notin Before(s, n)
      BY <2>1 DEF InOrder, T, l
    <3> QED
      BY <1>9, <1>11, <2>1, <3>1
  <2>2. CASE n \in (l + 1)..(l + e)
    <3> DEFINE k == e + l - n
    <3>1. k \in 0..(e - 1) /\ r[n] = up[k]
      BY <1>9, <1>13, <2>2
    <3>2. Before(r, n) = V \cup {up[m] : m \in (k + 1)..(e - 1)}
      BY <1>12, <2>2
    <3> HIDE DEF k
    <3>3. \A m \in (k + 1)..(e - 1) : m \in 0..(e - 1) /\ k \in 0..(m - 1)
      BY <3>1
    <3> QED
      BY <1>5, <3>1, <3>2, <3>3
  <2> QED
    BY <1>14, <2>1, <2>2
<1>16. Before(r, l + e + 1) = V \cup {up[m] : m \in 0..(e - 1)}
  <2>1. \A k \in 1..(l + e) : k \in 1..l \/ (k \in (l + 1)..(l + e) /\ e + l - k \in 0..(e - 1))
    BY <1>2
  <2>2. (l + e + 1) - 1 = l + e
    BY <1>2
  <2>3. Before(r, l + e + 1) = {r[k] : k \in 1..(l + e)}
    BY <2>2 DEF Before
  <2>4. {r[k] : k \in 1..(l + e)} \subseteq V \cup {up[m] : m \in 0..(e - 1)}
    <3>1. ASSUME NEW k \in 1..(l + e)
          PROVE  r[k] \in V \cup {up[m] : m \in 0..(e - 1)}
      <4>1. CASE k \in 1..l
        BY <1>8, <1>9, <4>1
      <4>2. CASE k \in (l + 1)..(l + e) /\ e + l - k \in 0..(e - 1)
        <5>1. r[k] = up[e + l - k]
          BY <1>9, <4>2
        <5> QED
          BY <4>2, <5>1
      <4> QED
        BY <2>1, <4>1, <4>2
    <3> QED
      BY <3>1
  <2>5. V \subseteq {r[k] : k \in 1..(l + e)}
    <3>1. \A k \in 1..l : k \in 1..(l + e)
      BY <1>2
    <3> QED
      BY <1>8, <1>9, <3>1, ZenonT(30)
  <2>6. \A m \in 0..(e - 1) : e + l - m \in (l + 1)..(l + e) /\ e + l - m \in 1..(l + e) /\ e + l - (e + l - m) = m
    BY <1>2
  <2>7. \A m \in 0..(e - 1) : r[e + l - m] = up[m]
    BY <1>9, <2>6
  <2>8. {up[m] : m \in 0..(e - 1)} \subseteq {r[k] : k \in 1..(l + e)}
    BY <2>6, <2>7
  <2> QED
    BY <2>3, <2>4, <2>5, <2>8
<1>17. Complete(t, hs, i, r)
  <2> SUFFICES ASSUME NEW j \in T, j <= i
               PROVE  j \in Before(r, l + e + 1)
    BY <1>9 DEF Complete, T
  <2>1. CASE j = i
    <3>1. CASE e = 0
      <4>1. i \in V
        BY <1>4, <1>6, <2>1, <3>1
      <4> QED
        BY <1>16, <2>1, <4>1
    <3>2. CASE e # 0
      <4>1. 0 \in 0..(e - 1)
        BY <3>2
      <4> QED
        BY <1>4, <1>16, <2>1, <4>1
    <3> QED
      BY <3>1, <3>2
  <2>2. CASE j # i
    <3>1. j <= i - 1
      BY <1>1, <2>2
    <3>2. j \in Before(s, l + 1)
      BY <1>10, <3>1 DEF Complete, T, l
    <3>3. Before(s, l + 1) = V
      BY <1>2, <1>8 DEF Before
    <3> QED
      BY <1>16, <3>2, <3>3
  <2> QED
    BY <2>1, <2>2
<1>18. \A n \in 1..(l + e) : BelowParent(t, hs, r, n)
  <2> TAKE n \in 1..(l + e)
  <2>1. CASE n \in 1..l
    <3>1. BelowParent(t, hs, s, n)
      BY <2>1 DEF InOrder, l
    <3> QED
      BY <1>9, <1>11, <2>1, <3>1 DEF BelowParent
  <2>2. CASE n \in (l + 1)..(l + e)
    <3> DEFINE k == e + l - n
               p == ParentOf(t, hs, r[n])
    <3>1. k \in 0..(e - 1) /\ r[n] = up[k]
      BY <1>9, <1>13, <2>2
    <3>2. Before(r, n) = V \cup {up[m] : m \in (k + 1)..(e - 1)}
      BY <1>12, <2>2
    <3> HIDE DEF k
    <3>3. up[k] \in T /\ up[k] # 0
      BY <1>1, <1>5, <3>1
    <3>4. k + 1 \in 0..N /\ k + 1 # 0 /\ (k + 1) - 1 = k
      BY <1>1, <3>1
    <3>5. p = up[k + 1]
      BY <1>4, <3>1, <3>3, <3>4
    <3> HIDE DEF p
    <3>6. CASE k + 1 # e
      <4>1. k + 1 \in (k + 1)..(e - 1)
        BY <3>1, <3>6
      <4> QED
        BY <3>2, <3>5, <4>1 DEF BelowParent, p
    <3>7. CASE k + 1 = e /\ up[e] \notin T \ V
      BY <3>2, <3>5, <3>7 DEF BelowParent, p, T
    <3>8. ASSUME k + 1 = e, NEW m \in 0..(e - 1), up[m] = up[e]
          PROVE  r[n] \in Above(t, hs, r[n])
      <4> DEFINE x == up[k]
      <4>1. m \in Nat /\ k \in Nat /\ k - m \in Nat /\ m + (k - m) = k /\ 1 + (k - m) \in 1..N
        BY <1>1, <3>1, <3>8
      <4>2. k + 1 <= N /\ m + (k - m) <= N /\ 1 + (k - m) <= N
        BY <1>1, <4>1, <3>4
      <4>3. Line(t, hs, x)[1] = up[k + 1]
        BY <4>1, <4>2, LineGoesOn DEF up, N
      <4>4. Line(t, hs, x)[1 + (k - m)] = Line(t, hs, Line(t, hs, x)[1])[k - m]
        BY <4>1, <4>2, LineGoesOn DEF N
      <4>5. up[m + (k - m)] = Line(t, hs, up[m])[k - m]
        BY <4>1, <4>2, LineGoesOn DEF up, N
      <4> HIDE DEF x
      <4>6. Line(t, hs, x)[1 + (k - m)] = up[k]
        BY <3>8, <4>1, <4>3, <4>4, <4>5
      <4>7. up[k] \in Above(t, hs, x)
        BY <4>1, <4>6 DEF Above, IsPage, N
      <4> QED
        BY <3>1, <4>7 DEF x
    <3> QED
      BY <1>6, <3>6, <3>7, <3>8 DEF BelowParent
  <2> QED
    BY <1>14, <2>1, <2>2
<1>19. \A n \in 1..(l + e) : \E c \in 1..i : VisitedFor(t, hs, r, n, c)
  <2> TAKE n \in 1..(l + e)
  <2>1. CASE n \in 1..l
    <3>1. PICK c \in 1..(i - 1) : VisitedFor(t, hs, s, n, c)
      BY <2>1 DEF InOrder, l
    <3>2. c \in 1..i
      BY <1>1
    <3>3. VisitedFor(t, hs, r, n, c)
      BY <1>9, <1>11, <2>1, <3>1 DEF VisitedFor
    <3> QED
      BY <3>2, <3>3
  <2>2. CASE n \in (l + 1)..(l + e)
    <3> DEFINE k == e + l - n
    <3>1. k \in 0..(e - 1) /\ r[n] = up[k]
      BY <1>9, <1>13, <2>2
    <3>2. Before(r, n) = V \cup {up[m] : m \in (k + 1)..(e - 1)}
      BY <1>12, <2>2
    <3> HIDE DEF k
    <3>3. \A j \in T : j < i => j \in Before(r, n)
      <4> TAKE j \in T
      <4> HAVE j < i
      <4>1. j <= i - 1
        BY <1>1
      <4>2. j \in Before(s, l + 1)
        BY <1>10, <4>1 DEF Complete, T, l
      <4>3. Before(s, l + 1) = V
        BY <1>2, <1>8 DEF Before
      <4> QED
        BY <3>2, <4>2, <4>3
    <3>4. CASE k = 0
      BY <1>1, <1>4, <3>1, <3>3, <3>4 DEF VisitedFor, T
    <3>5. CASE k # 0
      <4>1. 0 \in 0..(e - 1) /\ 1 \in 0..(e - 1) /\ 1 \in 0..N /\ k \in 1..N /\ 1 - 1 = 0
        BY <1>1, <3>1, <3>5
      <4>2. up[0] # 0
        BY <1>1, <1>4
      <4>3. ParentOf(t, hs, i) = up[1]
        BY <1>4, <4>1, <4>2
      <4>4. \A m \in (k + 1)..(e - 1) : m \in 0..(e - 1) /\ 1 \in 0..(m - 1)
        BY <3>1, <3>5
      <4>5. up[1] \notin Before(r, n)
        BY <1>5, <3>2, <4>1, <4>4
      <4>6. r[n] \in Above(t, hs, i)
        BY <1>7, <3>1, <4>1 DEF N
      <4> QED
        BY <1>1, <3>3, <4>3, <4>5, <4>6 DEF VisitedFor, T
    <3> QED
      BY <3>4, <3>5
  <2> QED
    BY <1>14, <2>1, <2>2
<1>20. l + e \in Nat
  BY <1>2
<1> QED
  BY <1>9, <1>15, <1>17, <1>18, <1>19, <1>20 DEF InOrder, T, r

(* The recursion of Sorted is defined, and visits the elements in order.   *)
LEMMA SortedInOrder ==
  ASSUME NEW t, IsPage(t), NEW hs
  PROVE  InOrder(t, hs, Len(t.jsx), Sorted(t, hs))
<1> DEFINE N == Len(t.jsx)
           W(s, i) == s \o Visit(t, hs, ToSet(s), i)
           Longer(f, i) == IF i = 0 THEN <<>> ELSE W(f[i - 1], i)
           Defined(k) == \E f : f = [i \in 0..k |-> Longer(f, i)]
<1>1. N \in Nat /\ Taking(t, hs) \subseteq 1..N
  BY DEF IsPage, Taking
<1>2. ASSUME NEW i \in 1..N, NEW s, InOrder(t, hs, i - 1, s)
      PROVE  InOrder(t, hs, i, W(s, i))
  BY <1>2, VisitMeans, VisitKeepsOrder
<1> HIDE DEF N, W
<1>3. Defined(N)
  <2> DEFINE T == {k \in 0..N : ~Defined(k)}
  <2>1. ASSUME NEW k \in 0..N, \A j \in 0..(k - 1) : Defined(j)
        PROVE  Defined(k)
    <3>1. CASE k = 0
      <4> DEFINE f == [i \in 0..0 |-> <<>>]
      <4>1. f = [i \in 0..0 |-> Longer(f, i)]
        OBVIOUS
      <4> QED
        BY <3>1, <4>1
    <3>2. CASE k # 0
      <4>1. k - 1 \in 0..(k - 1) /\ k \in 1..N
        BY <3>2, <1>1
      <4>2. PICK f : f = [i \in 0..(k - 1) |-> Longer(f, i)]
        BY <2>1, <4>1
      <4> DEFINE g == [i \in 0..k |-> Longer(f, i)]
      <4>3. ASSUME NEW i \in 0..(k - 1)
            PROVE  g[i] = f[i]
        <5>1. i \in 0..k
          BY <1>1, <4>1
        <5>2. g[i] = Longer(f, i)
          BY <5>1
        <5> HIDE DEF Longer, g
        <5> QED
          BY <4>2, <5>2
      <4>4. \A i \in 0..k : i = 0 \/ i - 1 \in 0..(k - 1)
        BY <1>1, <4>1
      <4>5. \A i \in 0..k : Longer(g, i) = Longer(f, i)
        <5> HIDE DEF g
        <5> QED
          BY <4>3, <4>4
      <4>6. g = [i \in 0..k |-> Longer(g, i)]
        BY <4>5
      <4> QED
        BY <4>6
    <3> QED
      BY <3>1, <3>2
  <2> HIDE DEF Defined
  <2>2. T \in SUBSET Nat
    BY <1>1
  <2>3. CASE T # {}
    <3>1. PICK k \in T : \A j \in T : k <= j
      BY <2>2, <2>3, Least
    <3>2. \A j \in 0..(k - 1) : Defined(j)
      BY <3>1, <1>1
    <3> QED
      BY <2>1, <3>1, <3>2
  <2> QED
    BY <2>3, <1>1
<1> DEFINE sorted == CHOOSE f : f = [i \in 0..N |-> Longer(f, i)]
<1>4. sorted = [i \in 0..N |-> Longer(sorted, i)]
  BY <1>3
<1>5. Sorted(t, hs) = sorted[N]
  BY DEF Sorted, N, W
<1> HIDE DEF sorted
<1>6. \A i \in 0..N : sorted[i] = Longer(sorted, i)
  BY <1>4
<1>7. sorted[0] = <<>> /\ \A i \in 1..N : sorted[i] = W(sorted[i - 1], i)
  BY <1>1, <1>6
<1> DEFINE T == {i \in 0..N : ~InOrder(t, hs, i, sorted[i])}
<1>8. CASE T # {}
  <2>1. T \in SUBSET Nat
    BY <1>1
  <2>2. PICK i \in T : \A j \in T : i <= j
    BY <1>8, <2>1, Least
  <2>3. CASE i = 0
    <3>1. InOrder(t, hs, 0, <<>>)
      BY <1>1 DEF InOrder, Complete
    <3> QED
      BY <1>7, <2>2, <2>3, <3>1
  <2>4. CASE i # 0
    <3>1. i \in 1..N /\ i - 1 \in 0..N /\ ~(i <= i - 1)
      BY <1>1, <2>2, <2>4
    <3>2. InOrder(t, hs, i - 1, sorted[i - 1])
      BY <2>2, <3>1
    <3>3. InOrder(t, hs, i, sorted[i])
      BY <1>2, <1>7, <3>1, <3>2
    <3> QED
      BY <2>2, <3>3
  <2> QED
    BY <2>3, <2>4
<1>9. CASE T = {}
  BY <1>1, <1>5, <1>9 DEF N
<1> QED
  BY <1>8, <1>9

(* A node is made of the element at its place.                             *)
IsNode(t, hs, s, n, a) ==
  /\ a.element = s[n]
  /\ a.parent = IF ParentOf(t, hs, s[n]) \in Before(s, n) THEN ParentOf(t, hs, s[n]) ELSE 0
  /\ ParentOf(t, hs, s[n]) # 0 =>
       a.index = Cardinality({j \in Before(s, n + 1) : ParentOf(t, hs, j) = ParentOf(t, hs, s[n])})

(* What Nodes yields, one node for each element of the sorted ones.        *)
LEMMA NodeMeans ==
  ASSUME NEW t, NEW hs, NEW s, s = Sorted(t, hs), Len(s) \in Nat, DOMAIN s = 1..Len(s)
  PROVE  DOMAIN Nodes(t, hs) = 1..Len(s) /\ \A n \in 1..Len(s) : IsNode(t, hs, s, n, Nodes(t, hs)[n])
<1>1. Nodes(t, hs) = [n \in 1..Len(s) |-> Node(t, hs, s, n)]
  BY DEF Nodes
<1>2. ASSUME NEW n \in 1..Len(s)
      PROVE  IsNode(t, hs, s, n, Node(t, hs, s, n))
  <2> DEFINE p == ParentOf(t, hs, s[n])
             made(k) == {s[m] : m \in 1..k}
             same == {j \in made(n) : ParentOf(t, hs, j) = p}
  <2>1. /\ Node(t, hs, s, n).element = s[n]
        /\ Node(t, hs, s, n).parent = IF p \in made(n - 1) THEN p ELSE 0
        /\ p # 0 => Node(t, hs, s, n).index = Cardinality(same)
    BY DEF Node
  <2>2. made(n - 1) = Before(s, n) /\ made(n) = Before(s, n + 1)
    BY DEF Before
  <2> HIDE DEF p, made
  <2>3. same = {j \in Before(s, n + 1) : ParentOf(t, hs, j) = p}
    BY <2>2
  <2> HIDE DEF same
  <2> QED
    BY <2>1, <2>2, <2>3 DEF p, IsNode
<1> QED
  BY <1>1, <1>2

(* The elements of a page stand in the tree in order, whatever their       *)
(* hosts.                                                                  *)
LEMMA TreeInOrder ==
  ASSUME NEW t, IsPage(t), NEW hs
  PROVE  StandInOrder(t, hs)
<1> DEFINE N == Len(t.jsx)
           s == Sorted(t, hs)
           l == Len(s)
           nodes == Nodes(t, hs)
           T == Taking(t, hs)
           P(x) == ParentOf(t, hs, x)
           Same(n, p) == {j \in Before(s, n + 1) : P(j) = p}
<1>1. InOrder(t, hs, N, s) /\ N \in Nat /\ T \subseteq 1..N /\ 0 \notin T
  BY SortedInOrder DEF IsPage, Taking
<1>2. l \in Nat /\ DOMAIN s = 1..l
  BY <1>1 DEF InOrder
<1>3. /\ DOMAIN nodes = 1..l
      /\ \A n \in 1..l : /\ nodes[n].element = s[n]
                         /\ nodes[n].parent = IF P(s[n]) \in Before(s, n) THEN P(s[n]) ELSE 0
                         /\ P(s[n]) # 0 => nodes[n].index = Cardinality(Same(n, P(s[n])))
  <2>1. DOMAIN nodes = 1..l /\ \A n \in 1..l : IsNode(t, hs, s, n, nodes[n])
    BY <1>2, NodeMeans
  <2> HIDE DEF nodes, l, s
  <2> QED
    BY <2>1 DEF IsNode
<1>4. \A n \in 1..l : s[n] \in T /\ s[n] \notin Before(s, n)
  BY <1>1 DEF InOrder
<1>5. \A n \in 1..l : BelowParent(t, hs, s, n) /\ \E c \in 1..N : VisitedFor(t, hs, s, n, c)
  BY <1>1 DEF InOrder
<1>6. \A j \in T : j \in Before(s, l + 1)
  BY <1>1 DEF InOrder, Complete
<1> HIDE DEF N, s, l, nodes, T, P, Same
<1>7. Before(s, l + 1) = {s[n] : n \in 1..l}
  BY <1>2 DEF Before
<1>8. \A n, m \in 1..l : n < m => s[n] \in Before(s, m) /\ s[n] # s[m]
  <2> TAKE n, m \in 1..l
  <2> HAVE n < m
  <2>1. n \in 1..(m - 1)
    BY <1>2
  <2> QED
    BY <1>4, <2>1 DEF Before
<1>9. ToSet(nodes) = {nodes[n] : n \in 1..l}
  BY <1>3 DEF ToSet
<1>10. {a.element : a \in ToSet(nodes)} = T
  <2>1. {a.element : a \in ToSet(nodes)} \subseteq T
    BY <1>3, <1>4, <1>9
  <2>2. ASSUME NEW j \in T
        PROVE  \E a \in ToSet(nodes) : a.element = j
    <3>1. PICK n \in 1..l : j = s[n]
      BY <1>6, <1>7
    <3> QED
      BY <1>3, <1>9, <3>1
  <2> QED
    BY <2>1, <2>2
<1>11. \A n, m \in DOMAIN nodes : nodes[n].element = nodes[m].element => n = m
  <2> SUFFICES ASSUME NEW n \in 1..l, NEW m \in 1..l, s[n] = s[m], n # m
               PROVE  FALSE
    BY <1>3
  <2>1. n < m \/ m < n
    BY <1>2
  <2> QED
    BY <1>8, <2>1
<1>12. \A a \in ToSet(nodes) : a.parent = P(a.element) \/ a.element \in Above(t, hs, a.element)
                               \/ P(a.element) \notin T
  <2> SUFFICES ASSUME NEW n \in 1..l
               PROVE  \/ nodes[n].parent = P(s[n]) \/ s[n] \in Above(t, hs, s[n])
                      \/ P(s[n]) \notin T
    BY <1>3, <1>9
  <2> QED
    BY <1>3, <1>5 DEF BelowParent, P, T
<1>13. ASSUME NEW n \in 1..l, NEW m \in 1..l, nodes[n].parent = nodes[m].parent,
              nodes[n].parent # 0, s[n] < s[m], ~(nodes[n].index < nodes[m].index)
       PROVE  \E i \in 1..(s[n] - 1) : s[m] \in Above(t, hs, i)
  <2> DEFINE p == nodes[n].parent
  <2>1. /\ p = P(s[n]) /\ p = P(s[m]) /\ p # 0
        /\ p \in Before(s, n) /\ p \in Before(s, m)
    BY <1>3, <1>13
  <2>2. nodes[n].index = Cardinality(Same(n, p)) /\ nodes[m].index = Cardinality(Same(m, p))
    <3> HIDE DEF p
    <3> QED
      BY <1>3, <2>1
  <2> HIDE DEF p
  <2>3. s[n] \in 1..N /\ s[m] \in 1..N
    BY <1>1, <1>4
  <2>4. n # m
    BY <1>13, <2>3, <1>1
  <2>5. CASE n < m
    <3>1. IsFiniteSet(Same(m, p)) /\ Same(n, p) \subseteq Same(m, p)
      <4>1. Before(s, n + 1) \subseteq Before(s, m + 1)
        <5>1. \A k \in 1..((n + 1) - 1) : k \in 1..((m + 1) - 1)
          BY <1>2, <2>5
        <5> QED
          BY <5>1 DEF Before
      <4>2. Same(m, p) \subseteq 1..N
        <5>0. \A k \in 1..((m + 1) - 1) : k \in 1..l
          BY <1>2
        <5>1. \A k \in 1..((m + 1) - 1) : s[k] \in 1..N
          BY <1>1, <1>4, <5>0
        <5> QED
          BY <5>1 DEF Same, Before
      <4>3. IsFiniteSet(1..N)
        BY <1>1, FS_Interval
      <4> QED
        BY <4>1, <4>2, <4>3, FS_Subset DEF Same
    <3>2. s[m] \in Same(m, p)
      <4>1. m \in 1..((m + 1) - 1)
        BY <1>2
      <4> QED
        BY <2>1, <4>1 DEF Same, Before
    <3>3. s[m] \notin Same(n, p)
      <4>1. \A k \in 1..((n + 1) - 1) : k \in 1..l /\ k < m
        BY <1>2, <2>5
      <4> QED
        BY <1>8, <4>1 DEF Same, Before
    <3>4. Cardinality(Same(n, p)) <= Cardinality(Same(m, p)) /\ Cardinality(Same(n, p)) # Cardinality(Same(m, p))
      BY <3>1, <3>2, <3>3, FS_Subset
    <3>5. Cardinality(Same(n, p)) \in Nat /\ Cardinality(Same(m, p)) \in Nat
      BY <3>1, FS_Subset, FS_CardinalityType
    <3> QED
      BY <1>13, <2>2, <3>4, <3>5
  <2>6. CASE m < n
    <3>1. PICK c \in 1..N : VisitedFor(t, hs, s, m, c)
      BY <1>5
    <3>2. ~(s[n] < c)
      <4>1. s[n] \notin Before(s, m)
        <5>1. \A k \in 1..(m - 1) : k \in 1..l /\ k < n
          BY <1>2, <2>6
        <5> QED
          BY <1>8, <5>1 DEF Before
      <4> QED
        BY <1>4, <3>1, <4>1 DEF VisitedFor, T
    <3>3. s[m] # c
      BY <1>1, <1>13, <2>3, <3>2
    <3>4. s[m] \in Above(t, hs, c) /\ P(c) \notin Before(s, m)
      BY <3>1, <3>3 DEF VisitedFor, P
    <3>5. c # s[n]
      BY <2>1, <3>4
    <3>6. c \in 1..(s[n] - 1)
      BY <1>1, <2>3, <3>2, <3>5
    <3> QED
      BY <3>4, <3>6
  <2> QED
    BY <1>2, <2>4, <2>5, <2>6
<1>14. \A a, b \in ToSet(nodes) :
         (a.parent = b.parent /\ a.parent # 0 /\ a.element < b.element) =>
           \/ a.index < b.index
           \/ \E i \in 1..(a.element - 1) : b.element \in Above(t, hs, i)
  <2> SUFFICES ASSUME NEW n \in 1..l, NEW m \in 1..l,
                      nodes[n].parent = nodes[m].parent, nodes[n].parent # 0,
                      nodes[n].element < nodes[m].element
               PROVE  \/ nodes[n].index < nodes[m].index
                      \/ \E i \in 1..(nodes[n].element - 1) : nodes[m].element \in Above(t, hs, i)
    BY <1>9
  <2>1. nodes[n].element = s[n] /\ nodes[m].element = s[m]
    BY <1>3
  <2> QED
    BY <1>13, <2>1
<1> QED
  BY <1>10, <1>11, <1>12, <1>14 DEF StandInOrder, nodes, T, P
------------------------------------------------------------------------------
(* A page is a file of the compilation, whose tracker keeps its invariant. *)
TreeInv ==
  /\ IInv
  /\ page # NoFile => page \in Solids(tracker.compilation)

(* The invariant is kept by each action.                                   *)
LEMMA TreeInvKept ==
  ASSUME TreeInv, [TreeNext]_<<vars, treeVars>>
  PROVE  TreeInv'
<1>1. CASE UNCHANGED vars /\ (UNCHANGED page \/ page' = NoFile)
  <2>1. IInv'
    BY <1>1, StepIInv DEF TreeInv
  <2> QED
    BY <1>1, <2>1 DEF TreeInv, vars
<1>2. ASSUME NEW f \in Solid, Start(f)
      PROVE  TreeInv'
  <2>1. IInv'
    BY <1>2, StepIInv DEF TreeInv, Start
  <2> QED
    BY <1>2, <2>1 DEF TreeInv, Start, vars
<1>3. CASE Alter
  <2>1. Next
    BY <1>3 DEF Alter, Next
  <2>2. IInv'
    BY <2>1, StepIInv DEF TreeInv
  <2> QED
    BY <1>3, <2>2 DEF TreeInv, Alter, treeVars
<1>4. ASSUME NEW host, Take(host)
      PROVE  TreeInv'
  BY <1>1, <1>4 DEF Take
<1>5. CASE Stop
  BY <1>1, <1>5 DEF Stop
<1>6. CASE UNCHANGED <<vars, treeVars>>
  BY <1>1, <1>6 DEF treeVars
<1> QED
  BY <1>2, <1>3, <1>4, <1>5, <1>6 DEF TreeNext

(* The invariant holds throughout.                                         *)
LEMMA TreeInvHolds == TreeSpec => []TreeInv
<1>1. TreeInit => TreeInv
  BY InitIInv DEF TreeInit, TreeInv
<1>2. TreeInv /\ [TreeNext]_<<vars, treeVars>> => TreeInv'
  BY TreeInvKept
<1> QED
  BY <1>1, <1>2, PTL DEF TreeSpec

(* Whatever is edited and whatever hosts the resolver finds, each element  *)
(* that takes part stands in the tree once, below its parent, and children *)
(* stand in the order of the file, with the exceptions the property names  *)
(* (visitRecord, buildElementNodes).                                       *)
THEOREM ElementsKeepOrder == TreeSpec => []ElementsStandInOrder
<1>1. TreeInv => ElementsStandInOrder
  <2> SUFFICES ASSUME TreeInv, page # NoFile
               PROVE  StandInOrder(tracker.compilation.solid[page], hosts)
    BY DEF ElementsStandInOrder
  <2> DEFINE k == tracker.compilation
             t == k.solid[page]
  <2>1. page \in Solids(k) /\ page \in Solid /\ t \in Trees[page]
    <3>1. page \in Solids(k)
      BY DEF TreeInv
    <3>2. k \in Compilations /\ WellTyped(k)
      BY DEF TreeInv, IInv, HandleOK, Typed, Handles
    <3>3. page \in Solid
      BY <3>1, <3>2, CompilationFiles
    <3> QED
      BY <3>1, <3>2, <3>3 DEF WellTyped, TreeOf, HasTree
  <2>2. IsPage(t)
    BY <2>1, JsxAssumption DEF IsPage
  <2> QED
    BY <2>2, TreeInOrder
<1> QED
  BY <1>1, TreeInvHolds, PTL

------------------------------------------------------------------------------
(* Lists, keys.                                                            *)

(* A sequence, of whatever.                                                *)
IsList(s) == Len(s) \in Nat /\ s = [i \in 1..Len(s) |-> s[i]]

(* A list of members of S is a sequence over S.                            *)
LEMMA ListIsSeq ==
  ASSUME NEW s, IsList(s), NEW S, \A i \in 1..Len(s) : s[i] \in S
  PROVE  s \in Seq(S)
<1> DEFINE n == Len(s)
<1>1. n \in Nat /\ s = [i \in 1..n |-> s[i]]
  BY DEF IsList
<1> HIDE DEF n
<1>2. s \in [1..n -> S]
  <2>1. \A i \in 1..n : s[i] \in S
    BY DEF n
  <2> QED
    BY <1>1, <2>1
<1> QED
  BY <1>1, <1>2

(* A sequence is a list.                                                   *)
LEMMA SeqIsList ==
  ASSUME NEW S, NEW s \in Seq(S)
  PROVE  IsList(s) /\ DOMAIN s = 1..Len(s) /\ \A i \in 1..Len(s) : s[i] \in S
<1>1. Len(s) \in Nat /\ DOMAIN s = 1..Len(s) /\ \A i \in 1..Len(s) : s[i] \in S
  OBVIOUS
<1>2. s \in [1..Len(s) -> S]
  OBVIOUS
<1> QED
  BY <1>1, <1>2 DEF IsList

(* The empty sequence is a list.                                           *)
LEMMA EmptyIsList == IsList(<<>>) /\ Len(<<>>) = 0
<1>1. <<>> \in Seq({})
  OBVIOUS
<1> QED
  BY <1>1, SeqIsList

(* A list with one more element.                                           *)
LEMMA Appended ==
  ASSUME NEW s, IsList(s), NEW x
  PROVE  /\ IsList(Append(s, x)) /\ Append(s, x) # <<>>
         /\ Len(Append(s, x)) = Len(s) + 1 /\ Append(s, x)[Len(s) + 1] = x
         /\ \A i \in 1..Len(s) : Append(s, x)[i] = s[i]
<1> DEFINE S == {s[i] : i \in 1..Len(s)} \cup {x}
<1>1. s \in Seq(S) /\ x \in S
  BY ListIsSeq
<1> HIDE DEF S
<1>2. /\ Append(s, x) \in Seq(S) /\ Append(s, x) # <<>>
      /\ Len(Append(s, x)) = Len(s) + 1 /\ Append(s, x)[Len(s) + 1] = x
      /\ \A i \in 1..Len(s) : Append(s, x)[i] = s[i]
  BY <1>1, AppendProperties
<1> QED
  BY <1>2, SeqIsList

(* A list without its last element.                                        *)
LEMMA Fronted ==
  ASSUME NEW s, IsList(s), s # <<>>
  PROVE  /\ Len(s) \in Nat \ {0}
         /\ IsList(Front(s)) /\ Len(Front(s)) = Len(s) - 1
         /\ \A i \in 1..(Len(s) - 1) : Front(s)[i] = s[i]
<1> DEFINE S == {s[i] : i \in 1..Len(s)}
           n == Len(s)
<1>1. s \in Seq(S)
  BY ListIsSeq
<1>2. \A i \in 1..n : s[i] \in S
  OBVIOUS
<1> HIDE DEF S
<1>3. n \in Nat \ {0}
  BY <1>1
<1>4. \A i \in 1..(n - 1) : s[i] \in S
  BY <1>2, <1>3
<1>5. /\ SubSeq(s, 1, n - 1) \in Seq(S) /\ Len(SubSeq(s, 1, n - 1)) = n - 1
      /\ \A i \in 1..(n - 1) : SubSeq(s, 1, n - 1)[i] = s[i]
  <2> HIDE DEF n
  <2>1. 1 \in Int /\ n - 1 \in Int
    BY <1>3
  <2>2. /\ SubSeq(s, 1, n - 1) \in Seq(S)
        /\ Len(SubSeq(s, 1, n - 1)) = IF 1 <= n - 1 THEN n - 1 - 1 + 1 ELSE 0
        /\ \A i \in 1..(n - 1 - 1 + 1) : SubSeq(s, 1, n - 1)[i] = s[1 + i - 1]
    BY <1>4, <2>1, SubSeqProperties
  <2>3. n - 1 - 1 + 1 = n - 1
    BY <1>3
  <2>4. \A i \in 1..(n - 1) : 1 + i - 1 = i
    BY <1>3
  <2> QED
    BY <1>3, <2>2, <2>3, <2>4
<1> QED
  BY <1>3, <1>5, SeqIsList DEF Front

(* The last of a list whose front is empty is the only one.                *)
LEMMA FrontEmpty ==
  ASSUME NEW s, IsList(s), s # <<>>
  PROVE  (Front(s) = <<>>) <=> (Len(s) = 1)
<1>1. IsList(Front(s)) /\ Len(Front(s)) = Len(s) - 1 /\ Len(s) \in Nat
  BY Fronted
<1>2. Front(s) = <<>> => Len(Front(s)) = 0
  BY EmptyIsList
<1>3. Len(Front(s)) = 0 => Front(s) = <<>>
  <2>1. ASSUME Len(Front(s)) = 0
        PROVE  Front(s) = <<>>
    <3>1. Front(s) \in Seq({})
      BY <1>1, <2>1, ListIsSeq
    <3> QED
      BY <2>1, <3>1
  <2> QED
    BY <2>1
<1> QED
  BY <1>1, <1>2, <1>3

(* Everything from 0 to N has what 0 has and each next one takes on.       *)
LEMMA UpTo ==
  ASSUME NEW N \in Nat, NEW T, 0 \in T, \A n \in 0..N : n \in T /\ n # N => n + 1 \in T
  PROVE  \A n \in 0..N : n \in T
<1> DEFINE U == {n \in 0..N : n \notin T}
<1>1. U \in SUBSET Nat
  OBVIOUS
<1>2. CASE U # {}
  <2>1. PICK n \in U : \A m \in U : n <= m
    BY <1>1, <1>2, Least
  <2>2. n # 0 /\ n - 1 \in 0..N /\ n - 1 \notin U /\ n - 1 # N /\ (n - 1) + 1 = n
    BY <2>1
  <2> QED
    BY <2>1, <2>2
<1> QED
  BY <1>2
------------------------------------------------------------------------------
(* There are finitely many keys.                                           *)

(* There are finitely many keys.                                           *)
LEMMA KeysAreFinite == IsFiniteSet(NameKeys) /\ IsFiniteSet(AllKeys)
<1> DEFINE K == {"local", "export"}
           F == Solid \cup External
           P == (K \X F) \X Identifiers
           G == [p \in P |-> <<p[1][1], p[1][2], p[2]>>]
           H == [f \in F |-> SpaceKey(f)]
           Sp == {SpaceKey(f) : f \in F}
<1>1. IsFiniteSet(F) /\ IsFiniteSet(Identifiers)
  <2>1. F \in SUBSET (Solid \cup External \cup Identifiers) /\ Identifiers \in SUBSET (Solid \cup External \cup Identifiers)
    OBVIOUS
  <2> HIDE DEF F
  <2> QED
    BY <2>1, IdentifiersAssumption, FS_Subset
<1>2. IsFiniteSet(K)
  <2>1. K = {"local"} \cup {"export"}
    OBVIOUS
  <2>2. IsFiniteSet({"local"}) /\ IsFiniteSet({"export"})
    BY FS_Singleton
  <2> HIDE DEF K
  <2> QED
    BY <2>1, <2>2, FS_Union
<1>3. IsFiniteSet(P)
  <2> HIDE DEF K, F
  <2> QED
    BY <1>1, <1>2, FS_Product
<1>4. G \in Surjection(P, NameKeys)
  <2>1. \A p \in P : G[p] \in NameKeys
    BY DEF NameKeys
  <2>2. \A q \in NameKeys : \E p \in P : G[p] = q
    <3>1. ASSUME NEW q \in NameKeys
          PROVE  \E p \in P : G[p] = q
      <4>1. PICK a \in K, f \in F, n \in Identifiers : q = <<a, f, n>>
        BY DEF NameKeys
      <4>2. <<<<a, f>>, n>> \in P /\ G[<<<<a, f>>, n>>] = q
        BY <4>1
      <4> QED
        BY <4>2
    <3> QED
      BY <3>1
  <2> HIDE DEF P
  <2>3. G \in [P -> NameKeys]
    BY <2>1
  <2> QED
    BY <2>2, <2>3 DEF Surjection
<1>5. H \in Surjection(F, Sp)
  BY DEF Surjection
<1>6. IsFiniteSet(NameKeys)
  <2> HIDE DEF G, P
  <2> QED
    BY <1>3, <1>4, FS_Surjection
<1>7. IsFiniteSet(Sp)
  <2> HIDE DEF H, F, Sp
  <2> QED
    BY <1>1, <1>5, FS_Surjection
<1> QED
  BY <1>6, <1>7, FS_Union DEF AllKeys

(* Keys of names and exports, and their files.                             *)
LEMMA NameKey ==
  ASSUME NEW f \in Solid \cup External, NEW n \in Identifiers
  PROVE  /\ LocalKey(f, n) \in NameKeys /\ ExportKey(f, n) \in NameKeys
         /\ LocalKey(f, n)[2] = f /\ ExportKey(f, n)[2] = f
BY DEF LocalKey, ExportKey, NameKeys

(* The three kinds of keys are apart.                                      *)
LEMMA KeyKinds ==
  /\ \A key \in NameKeys : key[1] \in {"local", "export"} /\ key[2] \in Solid \cup External /\ key[3] \in Identifiers
  /\ \A f \in Solid \cup External :
       SpaceKey(f) \in AllKeys \ NameKeys /\ SpaceKey(f)[1] = "space" /\ SpaceKey(f)[2] = f
  /\ \A key \in AllKeys : key \in NameKeys <=> key[1] # "space"
  /\ \A key \in AllKeys : key # None /\ key[1] \in {"local", "export", "space"}
<1>1. \A key \in NameKeys : key[1] \in {"local", "export"} /\ key[2] \in Solid \cup External /\ key[3] \in Identifiers
  BY DEF NameKeys
<1>2. \A f : SpaceKey(f)[1] = "space" /\ SpaceKey(f)[2] = f
  BY DEF SpaceKey
<1> QED
  BY <1>1, <1>2, NoKeyAssumption DEF AllKeys

------------------------------------------------------------------------------
(* What names, exports and modules stand for can be evaluated.             *)

(* A compilation that the edits lead to.                                   *)
IsWorkspace(k) == k \in Compilations /\ WellTyped(k)

(* A file that can be looked into has a tree.                              *)
LEMMA IndexedTree ==
  ASSUME NEW k, IsWorkspace(k), NEW f, Indexed(k, f)
  PROVE  f \in Solid \cup External /\ IsTree(Tree(k, f))
<1>1. Solids(k) \subseteq Solid
  BY CompilationFiles DEF IsWorkspace
<1>2. CASE f \in Solids(k)
  <2>1. TreeOf(k, f) = k.solid[f] /\ f \in HasTree(k)
    BY <1>2 DEF TreeOf, HasTree
  <2>2. k.solid[f] \in Trees[f]
    BY <2>1 DEF IsWorkspace, WellTyped
  <2> QED
    BY <1>1, <1>2, <2>2, IdentifiersAssumption DEF Tree
<1>3. CASE f \in External \ Solids(k)
  BY <1>3, IdentifiersAssumption DEF Tree
<1> QED
  BY <1>2, <1>3 DEF Indexed

(* The nodes of a term of the file f that are looked up, and the others.   *)
IsLeaf(k, x) ==
  /\ x.form \in {"nothing", "name", "export", "import"}
  /\ x.form = "name" => x.name \in Identifiers
  /\ x.form = "export" => Indexed(k, x.file) /\ x.name \in Identifiers
  /\ x.form = "import" => x.of.name \in Identifiers \cup {"*"}
NodeOK(k, x) == IsMade(x) \/ IsLeaf(k, x)
IsCode(k, term) ==
  IsList(term) /\ Len(term) \in 1..MaxNodes /\ \A i \in 1..Len(term) : NodeOK(k, term[i])

(* Terms of one node, and of two.                                          *)
LEMMA Codes ==
  ASSUME NEW k
  PROVE  /\ \A x : IsLeaf(k, x) => IsCode(k, <<x>>)
         /\ \A x, y : NodeOK(k, x) /\ NodeOK(k, y) => IsCode(k, <<x, y>>)
<1>1. MaxNodes \in Nat \ {0, 1}
  BY IdentifiersAssumption
<1>2. ASSUME NEW x, IsLeaf(k, x)
      PROVE  IsCode(k, <<x>>)
  <2>1. IsList(<<x>>) /\ Len(<<x>>) = 1 /\ <<x>>[1] = x
    BY DEF IsList
  <2>2. 1 \in 1..MaxNodes
    BY <1>1
  <2> QED
    BY <1>2, <2>1, <2>2 DEF IsCode, NodeOK
<1>3. ASSUME NEW x, NEW y, NodeOK(k, x), NodeOK(k, y)
      PROVE  IsCode(k, <<x, y>>)
  <2>1. IsList(<<x, y>>) /\ Len(<<x, y>>) = 2 /\ <<x, y>>[1] = x /\ <<x, y>>[2] = y
    BY DEF IsList
  <2>2. 2 \in 1..MaxNodes /\ \A i \in 1..2 : i = 1 \/ i = 2
    BY <1>1
  <2> QED
    BY <1>3, <2>1, <2>2 DEF IsCode
<1> QED
  BY <1>2, <1>3

(* The term of an entry is one that can be evaluated.                      *)
LEMMA EntryCode ==
  ASSUME NEW k, NEW t, IsTree(t), NEW n, HostEntry(t, n) # None
  PROVE  IsCode(k, OfEntry(HostEntry(t, n)))
<1> DEFINE roots == ToSet(t.components[n].roots)
           returned == {Entry(t, i) : i \in roots}
           entry == HostEntry(t, n)
           x == IF entry.inner = None \/ Len(entry.inner) > 1 THEN Nothing ELSE Name(entry.inner[1])
           y == [form |-> "entry", of |-> 1, entry |-> entry]
<1>1. n \in DOMAIN t.components /\ entry \in returned
  BY DEF HostEntry
<1>2. PICK i \in roots : entry = Entry(t, i)
  BY <1>1
<1>3. i # 0 /\ i \in DOMAIN t.jsx
  BY <1>1, <1>2 DEF IsTree, Entry
<1>4. entry.inner # None => entry.inner = t.jsx[i].tag /\ t.jsx[i].tag # None
  BY <1>2, <1>3 DEF Entry
<1>5. entry.inner # None => entry.inner[1] \in Identifiers
  BY <1>3, <1>4 DEF IsTree
<1>6. IsLeaf(k, Nothing) /\ \A m \in Identifiers : IsLeaf(k, Name(m))
  BY DEF IsLeaf, Nothing, Name
<1>7. IsMade(y)
  BY DEF IsMade
<1> HIDE DEF entry, returned, roots
<1>8. NodeOK(k, x) /\ NodeOK(k, y)
  BY <1>5, <1>6, <1>7 DEF NodeOK
<1> HIDE DEF x, y
<1>9. IsCode(k, <<x, y>>)
  BY <1>8, Codes
<1> QED
  BY <1>9 DEF OfEntry, entry, x, y

(* So is that of a local name,                                             *)
LEMMA LocalCode ==
  ASSUME NEW k, IsWorkspace(k), NEW f, Indexed(k, f), NEW n
  PROVE  IsCode(k, LocalTerm(k, f, n))
<1> DEFINE t == Tree(k, f)
<1>1. IsTree(t)
  BY IndexedTree
<1> HIDE DEF t
<1>2. CASE HostEntry(t, n) # None
  BY <1>1, <1>2, EntryCode DEF LocalTerm, t
<1>3. CASE HostEntry(t, n) = None /\ n \in DOMAIN t.inits
  <2>1. IsTerm(t.inits[n])
    BY <1>1, <1>3 DEF IsTree
  <2> DEFINE term == t.inits[n]
  <2>2. Len(term) \in 1..MaxNodes /\ term = [i \in 1..Len(term) |-> term[i]]
    BY <2>1 DEF IsTerm
  <2>3. \A i \in 1..Len(term) : NodeOK(k, term[i])
    BY <2>1, <2>2 DEF IsTerm, NodeOK, IsMade, IsLeaf
  <2>4. IsList(term)
    <3>1. MaxNodes \in Nat
      BY IdentifiersAssumption
    <3> HIDE DEF term
    <3> QED
      BY <2>2, <3>1 DEF IsList
  <2> QED
    BY <1>3, <2>2, <2>3, <2>4 DEF IsCode, LocalTerm, t
<1>4. CASE HostEntry(t, n) = None /\ n \notin DOMAIN t.inits /\ n \in DOMAIN t.names
  <2>1. t.names[n].name \in Identifiers \cup {"*"}
    BY <1>1, <1>4 DEF IsTree
  <2>2. IsLeaf(k, Imported(t.names[n]))
    BY <2>1 DEF IsLeaf, Imported
  <2> QED
    BY <1>4, <2>2, Codes DEF LocalTerm, t
<1>5. CASE HostEntry(t, n) = None /\ n \notin DOMAIN t.inits /\ n \notin DOMAIN t.names
  <2>1. IsLeaf(k, Nothing)
    BY DEF IsLeaf, Nothing
  <2> QED
    BY <1>5, <2>1, Codes DEF LocalTerm, t
<1> QED
  BY <1>2, <1>3, <1>4, <1>5

(* that of an export,                                                      *)
LEMMA ExportCode ==
  ASSUME NEW k, IsWorkspace(k), NEW f, Indexed(k, f), NEW i \in DOMAIN Tree(k, f).exports
  PROVE  IsCode(k, ExportTerm(k, f, Tree(k, f).exports[i]))
<1> DEFINE t == Tree(k, f)
           e == t.exports[i]
<1>1. IsTree(t) /\ e.of \in Identifiers
  BY IndexedTree DEF IsTree
<1>2. /\ IsLeaf(k, Nothing) /\ IsLeaf(k, Name(e.of))
      /\ e.source \in Solids(k) => IsLeaf(k, Exported(e.source, e.of))
  BY <1>1 DEF IsLeaf, Nothing, Name, Exported, Indexed
<1>3. HostEntry(t, e.of) # None => IsCode(k, OfEntry(HostEntry(t, e.of)))
  BY <1>1, EntryCode
<1>4. IsCode(k, <<Nothing>>) /\ IsCode(k, <<Name(e.of)>>)
      /\ (e.source \in Solids(k) => IsCode(k, <<Exported(e.source, e.of)>>))
  BY <1>2, Codes
<1> HIDE DEF t, e
<1> QED
  BY <1>3, <1>4 DEF ExportTerm, t, e

(* and that of a module as a namespace, whose nodes ask for its exports.   *)
LEMMA SpaceCode ==
  ASSUME NEW k, IsWorkspace(k), NEW f, Indexed(k, f)
  PROVE  LET term == Terms(k, SpaceKey(f))[1]
         IN  /\ IsList(Terms(k, SpaceKey(f))) /\ Len(Terms(k, SpaceKey(f))) = 1 /\ IsCode(k, term)
             /\ \A i \in 1..Len(term) :
                  \/ IsMade(term[i]) \/ term[i] = Nothing
                  \/ \E e \in ToSet(Tree(k, f).exports) : term[i] = Exported(f, e.name) /\ e.name \in Identifiers
<1> DEFINE exports == Tree(k, f).exports
           n == Len(exports)
           a == <<Nothing>>
           b == [i \in DOMAIN exports |-> Exported(f, exports[i].name)]
           o == Object(1, [i \in DOMAIN exports |-> Part(exports[i].name, i + 1)])
           E == {Exported(f, e.name) : e \in ToSet(exports)}
           S == {Nothing, o} \cup E
           term == (a \o b) \o <<o>>
<1>1. n \in 0..(MaxNodes - 2) /\ DOMAIN exports = 1..n /\ \A i \in 1..n : exports[i].name \in Identifiers
  BY IndexedTree DEF IsTree
<1>2. MaxNodes \in Nat \ {0, 1} /\ n \in Nat /\ n + 2 \in 1..MaxNodes
  <2>1. MaxNodes \in Nat \ {0, 1}
    BY IdentifiersAssumption
  <2> HIDE DEF n
  <2> QED
    BY <1>1, <2>1
<1>3. Terms(k, SpaceKey(f)) = <<term>>
  BY DEF Terms, SpaceKey
<1>4. a \in Seq(S) /\ Len(a) = 1 /\ <<o>> \in Seq(S) /\ Len(<<o>>) = 1
  <2> HIDE DEF o, E
  <2> QED
    OBVIOUS
<1>5. b \in Seq(S) /\ Len(b) = n
  <2>1. \A i \in 1..n : b[i] \in S
    <3>1. \A i \in 1..n : exports[i] \in ToSet(exports) /\ b[i] = Exported(f, exports[i].name)
      BY <1>1 DEF ToSet
    <3> QED
      BY <3>1
  <2>2. b \in [1..n -> S]
    <3>1. b = [i \in 1..n |-> b[i]]
      BY <1>1
    <3> HIDE DEF b, S
    <3> QED
      BY <2>1, <3>1
  <2> HIDE DEF b, S, n
  <2> QED
    BY <1>2, <2>2
<1> HIDE DEF a, b, S
<1>6. a \o b \in Seq(S) /\ Len(a \o b) = 1 + n
  <2> HIDE DEF n, o, E
  <2>1. a \in Seq(S) /\ b \in Seq(S)
    BY <1>4, <1>5
  <2>2. a \o b \in Seq(S) /\ Len(a \o b) = Len(a) + Len(b)
    BY ONLY <2>1, ConcatProperties
  <2> QED
    BY <1>4, <1>5, <2>2
<1>7. term \in Seq(S) /\ Len(term) = n + 2
  <2> HIDE DEF o, n
  <2> QED
    BY <1>2, <1>4, <1>6, ConcatProperties
<1>8. IsList(term) /\ \A i \in 1..Len(term) : term[i] \in S
  <2> HIDE DEF term
  <2> QED
    BY <1>7, SeqIsList
<1>9. IsMade(o)
  BY DEF IsMade, Object
<1>10. \A x \in S : \/ IsMade(x) \/ x = Nothing
                    \/ \E e \in ToSet(exports) : x = Exported(f, e.name) /\ e.name \in Identifiers
  <2>1. \A e \in ToSet(exports) : e.name \in Identifiers
    BY <1>1 DEF ToSet
  <2> HIDE DEF o, exports
  <2> QED
    BY <1>9, <2>1 DEF S
<1>11. \A x \in S : NodeOK(k, x)
  <2>1. IsLeaf(k, Nothing) /\ \A m \in Identifiers : IsLeaf(k, Exported(f, m))
    BY DEF IsLeaf, Nothing, Exported
  <2> QED
    BY <1>10, <2>1 DEF NodeOK
<1>12. IsCode(k, term)
  BY <1>2, <1>7, <1>8, <1>11 DEF IsCode
<1>13. <<term>>[1] = term /\ Len(<<term>>) = 1 /\ IsList(<<term>>)
  <2> HIDE DEF term
  <2> QED
    BY DEF IsList
<1> HIDE DEF term, exports
<1> QED
  BY <1>3, <1>8, <1>10, <1>12, <1>13 DEF exports

(* What the terms of a key are.                                            *)
LEMMA TermsAreCode ==
  ASSUME NEW k, IsWorkspace(k), NEW key \in AllKeys, Indexed(k, key[2])
  PROVE  /\ IsList(Terms(k, key)) /\ Len(Terms(k, key)) \in 0..MaxNodes
         /\ \A i \in 1..Len(Terms(k, key)) : IsCode(k, Terms(k, key)[i])
<1> DEFINE f == key[2]
           terms == Terms(k, key)
<1>1. MaxNodes \in Nat \ {0, 1}
  BY IdentifiersAssumption
<1>2. CASE key[1] = "local"
  <2>1. terms = <<LocalTerm(k, f, key[3])>>
    BY <1>2 DEF Terms
  <2>2. IsCode(k, LocalTerm(k, f, key[3]))
    BY LocalCode
  <2>3. IsList(terms) /\ Len(terms) = 1 /\ terms[1] = LocalTerm(k, f, key[3])
    BY <2>1 DEF IsList
  <2> HIDE DEF terms
  <2> QED
    BY <1>1, <2>2, <2>3 DEF terms
<1>3. CASE key[1] = "export"
  <2> DEFINE exports == Tree(k, f).exports
  <2>1. terms = [i \in DOMAIN exports |-> IF exports[i].name = key[3] THEN ExportTerm(k, f, exports[i]) ELSE <<Nothing>>]
    BY <1>3 DEF Terms
  <2>2. Len(exports) \in 0..(MaxNodes - 2) /\ DOMAIN exports = 1..Len(exports)
    BY IndexedTree DEF IsTree
  <2>3. \A i \in DOMAIN exports : IsCode(k, terms[i])
    <3>1. IsCode(k, <<Nothing>>)
      BY Codes DEF IsLeaf, Nothing
    <3>2. \A i \in DOMAIN exports : IsCode(k, ExportTerm(k, f, exports[i]))
      BY ExportCode
    <3> HIDE DEF terms, exports
    <3> QED
      BY <2>1, <3>1, <3>2
  <2> DEFINE n == Len(exports)
  <2> HIDE DEF exports
  <2>4. n \in Nat /\ n \in 0..MaxNodes
    <3> HIDE DEF n
    <3> QED
      BY <1>1, <2>2 DEF n
  <2>5. terms = [i \in 1..n |-> terms[i]]
    BY <2>1, <2>2
  <2> HIDE DEF terms, n
  <2>6. Len(terms) = n
    BY <2>4, <2>5
  <2> QED
    BY <2>2, <2>3, <2>4, <2>5, <2>6 DEF terms, n, IsList
<1>4. CASE key[1] = "space"
  <2>1. key = SpaceKey(f)
    BY <1>4, KeyKinds DEF AllKeys
  <2>2. IsList(terms) /\ Len(terms) = 1 /\ IsCode(k, terms[1])
    BY <2>1, SpaceCode
  <2> QED
    BY <1>1, <2>2
<1> QED
  BY <1>2, <1>3, <1>4, KeyKinds

------------------------------------------------------------------------------
(* The memory of a resolver.                                               *)

(* What the memory says of the modules outside.                            *)
MemoOK(m) ==
  /\ m = [known |-> m.known, busy |-> m.busy, parsed |-> m.parsed, outside |-> m.outside]
  /\ m.parsed \in SUBSET External /\ Cardinality(m.parsed) <= MaxExternal
  /\ \A p \in DOMAIN m.outside :
       \/ m.outside[p] = p[2] /\ p[2] \in m.parsed
       \/ m.outside[p] = None /\ (p[2] \notin External \/ Cardinality(m.parsed) = MaxExternal)

(* A memory that has located more modules, and no more.                    *)
Locates(m, n) == MemoOK(n) /\ n.known = m.known /\ n.busy = m.busy /\ m.parsed \subseteq n.parsed

(* The modules that have been parsed are finitely many.                    *)
LEMMA ParsedIsFinite ==
  ASSUME NEW S \in SUBSET External
  PROVE  IsFiniteSet(S) /\ Cardinality(S) \in Nat
<1>1. S \in SUBSET (Solid \cup External \cup Identifiers)
  OBVIOUS
<1> QED
  BY <1>1, IdentifiersAssumption, FS_Subset, FS_CardinalityType

(* An import that is located leads to a module that may be looked into, or *)
(* to none: because there is none, or because no more may be parsed.       *)
LEMMA Locating ==
  ASSUME NEW k, NEW m, MemoOK(m), NEW f, NEW target
  PROVE  LET r == Located(k, m, f, target)
         IN  /\ Locates(m, r.memo) /\ r.memo.parsed \subseteq m.parsed \cup ({target} \ Solids(k))
             /\ \/ r.binding = target /\ Indexed(k, target) /\ (target \notin Solids(k) => target \in r.memo.parsed)
                \/ /\ r.binding = None /\ target \notin Solids(k)
                   /\ target \notin External \/ Cardinality(r.memo.parsed) = MaxExternal
<1> DEFINE r == Located(k, m, f, target)
           p == <<f, target>>
<1>1. CASE target \in Solids(k)
  <2>1. r = Found(target, m)
    BY <1>1 DEF Located
  <2> QED
    BY <1>1, <2>1 DEF Found, Locates, Indexed
<1>2. CASE target \notin Solids(k) /\ p \in DOMAIN m.outside
  <2>1. r = Found(m.outside[p], m)
    BY <1>2 DEF Located
  <2>2. p[2] = target
    OBVIOUS
  <2>3. \/ m.outside[p] = target /\ target \in m.parsed
        \/ m.outside[p] = None /\ (target \notin External \/ Cardinality(m.parsed) = MaxExternal)
    BY <1>2, <2>2 DEF MemoOK
  <2>4. target \in m.parsed => Indexed(k, target)
    BY DEF MemoOK, Indexed
  <2> HIDE DEF p, r
  <2> QED
    BY <1>2, <2>1, <2>3, <2>4 DEF Found, Locates, r
<1>3. CASE target \notin Solids(k) /\ p \notin DOMAIN m.outside
  <2> DEFINE refused == Cardinality(m.parsed) >= MaxExternal \/ target \notin External
             leads == IF refused THEN None ELSE target
             n == [known |-> m.known, busy |-> m.busy,
                   parsed |-> m.parsed \cup (IF refused THEN {} ELSE {target}),
                   outside |-> Put(m.outside, p, leads)]
  <2>1. r = Found(leads, n)
    BY <1>3 DEF Located
  <2>2. /\ n.known = m.known /\ n.busy = m.busy /\ n.outside = Put(m.outside, p, leads)
        /\ n.parsed = IF refused THEN m.parsed ELSE m.parsed \cup {target}
        /\ n = [known |-> n.known, busy |-> n.busy, parsed |-> n.parsed, outside |-> n.outside]
    <3> HIDE DEF p, leads
    <3> QED
      OBVIOUS
  <2> HIDE DEF n
  <2>3. IsFiniteSet(m.parsed) /\ Cardinality(m.parsed) \in Nat /\ MaxExternal \in Nat
        /\ Cardinality(m.parsed) <= MaxExternal
    BY ParsedIsFinite, ExternalAssumption DEF MemoOK
  <2>4. n.parsed \in SUBSET External /\ m.parsed \subseteq n.parsed /\ Cardinality(n.parsed) <= MaxExternal
        /\ n.parsed \subseteq m.parsed \cup {target} /\ Cardinality(n.parsed) >= Cardinality(m.parsed)
    <3>1. CASE refused
      BY <2>2, <2>3, <3>1 DEF MemoOK
    <3>2. CASE ~refused
      <4>1. n.parsed = m.parsed \cup {target} /\ target \in External
        BY <2>2, <3>2
      <4>2. Cardinality(m.parsed \cup {target}) = IF target \in m.parsed THEN Cardinality(m.parsed) ELSE Cardinality(m.parsed) + 1
        BY <2>3, FS_AddElement
      <4>3. Cardinality(m.parsed) < MaxExternal
        BY <2>3, <3>2
      <4> QED
        BY <2>3, <4>1, <4>2, <4>3 DEF MemoOK
    <3> QED
      BY <3>1, <3>2
  <2>5. \A q \in DOMAIN n.outside :
          \/ n.outside[q] = q[2] /\ q[2] \in n.parsed
          \/ n.outside[q] = None /\ (q[2] \notin External \/ Cardinality(n.parsed) = MaxExternal)
    <3>1. n.outside = Put(m.outside, p, leads)
      BY <2>2
    <3>2. ASSUME NEW q \in DOMAIN n.outside, q # p
          PROVE  \/ n.outside[q] = q[2] /\ q[2] \in n.parsed
                 \/ n.outside[q] = None /\ (q[2] \notin External \/ Cardinality(n.parsed) = MaxExternal)
      <4>1. q \in DOMAIN m.outside /\ n.outside[q] = m.outside[q]
        BY <3>1, <3>2 DEF Put
      <4>2. Cardinality(m.parsed) = MaxExternal => Cardinality(n.parsed) = MaxExternal
        <5>1. Cardinality(n.parsed) \in Nat
          BY <2>4, ParsedIsFinite
        <5> QED
          BY <2>3, <2>4, <5>1
      <4> QED
        BY <2>4, <4>1, <4>2 DEF MemoOK
    <3>3. p[2] = target /\ p \in DOMAIN n.outside /\ n.outside[p] = leads
      BY <3>1 DEF Put
    <3>4. \/ leads = target /\ target \in n.parsed
          \/ leads = None /\ (target \notin External \/ Cardinality(n.parsed) = MaxExternal)
      <4>1. CASE refused
        BY <2>2, <2>3, <4>1
      <4>2. CASE ~refused
        BY <2>2, <4>2
      <4> QED
        BY <4>1, <4>2
    <3> HIDE DEF p, leads
    <3> QED
      BY <3>2, <3>3, <3>4
  <2>6. /\ target \notin External \/ Cardinality(n.parsed) = MaxExternal \/ leads = target
        /\ leads = target \/ leads = None
        /\ ~refused => target \in External /\ target \in n.parsed
        /\ refused => leads = None /\ (target \notin External \/ Cardinality(n.parsed) = MaxExternal)
        /\ n.known = m.known /\ n.busy = m.busy
        /\ n = [known |-> n.known, busy |-> n.busy, parsed |-> n.parsed, outside |-> n.outside]
    BY <2>2, <2>3
  <2>7. ~refused => leads = target
    OBVIOUS
  <2>8. MemoOK(n)
    <3> HIDE DEF leads, refused
    <3> QED
      BY <2>4, <2>5, <2>6 DEF MemoOK
  <2>9. r.binding = leads /\ r.memo = n
    BY <2>1 DEF Found
  <2> HIDE DEF leads, refused, r
  <2>10. Locates(m, r.memo) /\ r.memo.parsed \subseteq m.parsed \cup ({target} \ Solids(k))
    BY <1>3, <2>4, <2>6, <2>8, <2>9 DEF Locates
  <2>11. \/ r.binding = target /\ Indexed(k, target) /\ (target \notin Solids(k) => target \in r.memo.parsed)
         \/ /\ r.binding = None /\ target \notin Solids(k)
            /\ target \notin External \/ Cardinality(r.memo.parsed) = MaxExternal
    BY <1>3, <2>6, <2>7, <2>9 DEF Indexed
  <2> QED
    BY <2>10, <2>11 DEF r
<1> HIDE DEF p
<1> QED
  BY <1>1, <1>2, <1>3

(* A module outside that a node has been led to.                           *)
Opened(k, m, x) == x.form = "import" => x.of.file \in Solids(k) \cup m.parsed

(* What a node looks up.                                                   *)
LEMMA Looking ==
  ASSUME NEW k, IsWorkspace(k), NEW m, MemoOK(m), NEW f, Indexed(k, f), NEW x, IsLeaf(k, x)
  PROVE  LET r == Key(k, m, f, x)
         IN  /\ Locates(m, r.memo)
             /\ r.memo.parsed # m.parsed => x.form = "import" /\ r.memo.parsed \subseteq m.parsed \cup ({x.of.file} \ Solids(k))
             /\ \/ /\ r.binding \in AllKeys /\ Indexed(k, r.binding[2]) /\ RefersTo(k, f, x) = {r.binding}
                   /\ Opened(k, r.memo, x)
                \/ /\ r.binding = None
                   /\ \/ RefersTo(k, f, x) = {} /\ (x.form = "import" => x.of.file \notin External)
                      \/ /\ x.form = "import" /\ x.of.file \in External /\ Cardinality(r.memo.parsed) = MaxExternal
                         /\ RefersTo(k, f, x) = {ImportKey(x.of.file, x.of.name)}
                         /\ ImportKey(x.of.file, x.of.name)[2] \in External
<1> DEFINE r == Key(k, m, f, x)
<1>0. /\ Locates(m, m) /\ \A g : Indexed(k, g) => g \in Solid \cup External
      /\ NameKeys \subseteq AllKeys
  BY IndexedTree DEF Locates, AllKeys
<1>1. CASE x.form = "nothing"
  <2>1. r = Found(None, m) /\ RefersTo(k, f, x) = {}
    BY <1>1 DEF Key, RefersTo
  <2> HIDE DEF r
  <2> QED
    BY <1>0, <1>1, <2>1 DEF Found, r
<1>2. CASE x.form = "name"
  <2>1. r = Found(LocalKey(f, x.name), m) /\ RefersTo(k, f, x) = {LocalKey(f, x.name)} /\ x.name \in Identifiers
    BY <1>2 DEF Key, RefersTo, IsLeaf
  <2>2. LocalKey(f, x.name) \in NameKeys /\ LocalKey(f, x.name)[2] = f
    BY <1>0, <2>1, NameKey
  <2> HIDE DEF r
  <2> QED
    BY <1>0, <1>2, <2>1, <2>2 DEF Found, r, Opened
<1>3. CASE x.form = "export"
  <2>1. r = Found(ExportKey(x.file, x.name), m) /\ RefersTo(k, f, x) = {ExportKey(x.file, x.name)}
        /\ Indexed(k, x.file) /\ x.name \in Identifiers
    BY <1>3 DEF Key, RefersTo, IsLeaf
  <2>2. ExportKey(x.file, x.name) \in NameKeys /\ ExportKey(x.file, x.name)[2] = x.file
    BY <1>0, <2>1, NameKey
  <2> HIDE DEF r
  <2> QED
    BY <1>0, <1>3, <2>1, <2>2 DEF Found, r, Opened
<1>4. CASE x.form = "import"
  <2> DEFINE at == Located(k, m, f, x.of.file)
             to == x.of.file
             key == ImportKey(to, x.of.name)
  <2>1. r = Found(ImportKey(at.binding, x.of.name), at.memo)
    BY <1>4 DEF Key
  <2>2. /\ Locates(m, at.memo) /\ at.memo.parsed \subseteq m.parsed \cup ({to} \ Solids(k))
        /\ \/ at.binding = to /\ Indexed(k, to) /\ (to \notin Solids(k) => to \in at.memo.parsed)
           \/ /\ at.binding = None /\ to \notin Solids(k)
              /\ to \notin External \/ Cardinality(at.memo.parsed) = MaxExternal
    BY Locating
  <2>3. x.of.name \in Identifiers \cup {"*"}
    BY <1>4 DEF IsLeaf
  <2>4. Indexed(k, to) => key \in AllKeys /\ key[2] = to
    <3>1. ASSUME Indexed(k, to)
          PROVE  key \in AllKeys /\ key[2] = to
      <4>1. to \in Solid \cup External /\ to # None
        BY <1>0, <3>1, ExternalAssumption DEF Files
      <4>2. key = IF x.of.name = "*" THEN SpaceKey(to) ELSE ExportKey(to, x.of.name)
        BY <4>1 DEF ImportKey
      <4>3. SpaceKey(to) \in AllKeys /\ SpaceKey(to)[2] = to
        BY <4>1, KeyKinds
      <4>4. x.of.name # "*" => ExportKey(to, x.of.name) \in AllKeys /\ ExportKey(to, x.of.name)[2] = to
        BY <1>0, <2>3, <4>1, NameKey
      <4> HIDE DEF key
      <4> QED
        BY <4>2, <4>3, <4>4
    <3> QED
      BY <3>1
  <2>5. RefersTo(k, f, x) = IF Indexed(k, to) THEN {key} ELSE {}
    BY <1>4 DEF RefersTo
  <2>6. r.memo = at.memo /\ r.binding = ImportKey(at.binding, x.of.name)
    BY <2>1 DEF Found
  <2>7. to \in External => Indexed(k, to)
    BY DEF Indexed
  <2> HIDE DEF r, at
  <2>8. CASE at.binding = to /\ Indexed(k, to) /\ (to \notin Solids(k) => to \in at.memo.parsed)
    <3>1. r.binding = key
      BY <2>6, <2>8
    <3>2. Opened(k, r.memo, x)
      BY <2>6, <2>8 DEF Opened
    <3> HIDE DEF key
    <3>3. /\ r.binding \in AllKeys /\ Indexed(k, r.binding[2]) /\ RefersTo(k, f, x) = {r.binding}
          /\ Opened(k, r.memo, x)
      BY <2>4, <2>5, <2>8, <3>1, <3>2
    <3> HIDE DEF to
    <3> QED
      BY <1>4, <2>2, <2>6, <3>3 DEF r, to
  <2>9. CASE at.binding = None /\ to \notin Solids(k) /\ (to \notin External \/ Cardinality(at.memo.parsed) = MaxExternal)
    <3>1. r.binding = None
      BY <2>6, <2>9 DEF ImportKey
    <3>2. to \notin External => RefersTo(k, f, x) = {}
      BY <2>5, <2>9 DEF Indexed
    <3>3. to \in External => RefersTo(k, f, x) = {key} /\ key[2] \in External
      BY <2>4, <2>5, <2>7
    <3> QED
      BY <1>4, <2>2, <2>6, <2>9, <3>1, <3>2, <3>3 DEF r
  <2> QED
    BY <2>2, <2>8, <2>9
<1> QED
  BY <1>1, <1>2, <1>3, <1>4 DEF IsLeaf

------------------------------------------------------------------------------
(* The calls of a resolver.                                                *)

(* The term that a frame evaluates, and the node that is next.             *)
TermOf(k, fr) == Terms(k, fr.key)[fr.term]
NextNode(k, fr) == TermOf(k, fr)[Len(fr.values) + 1]
AtTerm(k, fr) == fr.term <= Len(Terms(k, fr.key))
Evaluating(k, fr) == AtTerm(k, fr) /\ Len(fr.values) < Len(TermOf(k, fr))
Waits(k, fr, key) ==
  Evaluating(k, fr) /\ ~IsMade(NextNode(k, fr)) /\ RefersTo(k, fr.key[2], NextNode(k, fr)) = {key}

FrameOK(k, fr) ==
  /\ fr = [key |-> fr.key, term |-> fr.term, values |-> fr.values]
  /\ fr.key \in AllKeys /\ Indexed(k, fr.key[2])
  /\ fr.term \in 1..(Len(Terms(k, fr.key)) + 1) /\ IsList(fr.values)
  /\ Len(fr.values) \in 0..(IF AtTerm(k, fr) THEN Len(TermOf(k, fr)) ELSE 0)

(* The keys on the stack.                                                  *)
OnStack(s) == {s[i].key : i \in 1..Len(s)}
StackOK(k, s) ==
  /\ IsList(s) /\ \A i \in 1..Len(s) : FrameOK(k, s[i])
  /\ \A i \in 1..(Len(s) - 1) : Waits(k, s[i], s[i + 1].key)
  /\ \A i, j \in 1..Len(s) : i # j /\ s[i].key = s[j].key => s[i].key \notin NameKeys

(* A resolver in the middle of its calls: names that are being resolved    *)
(* are those on the stack, each once, and each frame waits for the next.   *)
Good(k, c) ==
  /\ c = [memo |-> c.memo, stack |-> c.stack] /\ MemoOK(c.memo)
  /\ StackOK(k, c.stack) /\ c.memo.busy = OnStack(c.stack) \cap NameKeys

(* What the frame on top does next.                                        *)
Returning(k, fr, b) ==
  \/ ~AtTerm(k, fr) /\ b = None
  \/ AtTerm(k, fr) /\ ~Evaluating(k, fr) /\ b = fr.values[Len(fr.values)] /\ b # None
Retrying(k, fr) == AtTerm(k, fr) /\ ~Evaluating(k, fr) /\ fr.values[Len(fr.values)] = None
Retry(fr) == [key |-> fr.key, term |-> fr.term + 1, values |-> <<>>]

(* Where a frame stands in the terms of its key.                           *)
LEMMA FrameTerms ==
  ASSUME NEW k, IsWorkspace(k), NEW fr, FrameOK(k, fr)
  PROVE  /\ IsList(Terms(k, fr.key)) /\ Len(Terms(k, fr.key)) \in 0..MaxNodes
         /\ fr.term \in Nat /\ Len(fr.values) \in Nat /\ fr.term \in 1..(MaxNodes + 1) /\ Len(fr.values) \in 0..MaxNodes
         /\ AtTerm(k, fr) => /\ fr.term \in 1..Len(Terms(k, fr.key)) /\ IsCode(k, TermOf(k, fr))
                             /\ Len(fr.values) \in 0..Len(TermOf(k, fr)) /\ Len(TermOf(k, fr)) \in 1..MaxNodes
         /\ Evaluating(k, fr) => NodeOK(k, NextNode(k, fr)) /\ Len(fr.values) < MaxNodes
<1> DEFINE n == Len(Terms(k, fr.key))
           l == Len(fr.values)
           tl == Len(TermOf(k, fr))
<1>1. /\ IsList(Terms(k, fr.key)) /\ n \in 0..MaxNodes
      /\ \A i \in 1..n : IsCode(k, Terms(k, fr.key)[i])
  BY TermsAreCode DEF FrameOK
<1>2. MaxNodes \in Nat \ {0, 1}
  BY IdentifiersAssumption
<1>3. fr.term \in 1..(n + 1) /\ l \in 0..(IF fr.term <= n THEN tl ELSE 0) /\ (AtTerm(k, fr) <=> fr.term <= n)
  BY DEF FrameOK, AtTerm
<1> HIDE DEF n
<1>4. fr.term \in Nat /\ fr.term \in 1..(MaxNodes + 1)
  BY <1>1, <1>2, <1>3
<1>5. fr.term <= n => fr.term \in 1..n
  BY <1>1, <1>2, <1>3
<1>6. fr.term <= n => IsCode(k, TermOf(k, fr)) /\ tl \in 1..MaxNodes
  BY <1>1, <1>5 DEF TermOf, IsCode
<1> HIDE DEF tl, l
<1>7. l \in Nat /\ l \in 0..MaxNodes /\ (fr.term <= n => l \in 0..tl)
  BY <1>2, <1>3, <1>6
<1>8. Evaluating(k, fr) => NodeOK(k, NextNode(k, fr)) /\ l < MaxNodes
  <2>1. ASSUME Evaluating(k, fr) PROVE NodeOK(k, NextNode(k, fr)) /\ l < MaxNodes
    <3>1. fr.term <= n /\ l < tl
      BY <1>3, <2>1 DEF Evaluating, tl, l
    <3>2. l + 1 \in 1..tl /\ l < MaxNodes
      BY <1>2, <1>6, <1>7, <3>1
    <3> QED
      BY <1>6, <3>1, <3>2 DEF NextNode, IsCode, tl, l
  <2> QED
    BY <2>1
<1> QED
  BY <1>1, <1>3, <1>4, <1>5, <1>6, <1>7, <1>8 DEF n, l, tl

(* The cases of a step.                                                    *)
LEMMA StepIs ==
  ASSUME NEW k, IsWorkspace(k), NEW c, Good(k, c), c.stack # <<>>
  PROVE  LET fr == Last(c.stack)
             at == Key(k, c.memo, fr.key[2], NextNode(k, fr))
         IN  \/ \E b : Returning(k, fr, b) /\ Step(k, c) = Return(c, b)
             \/ Retrying(k, fr) /\ Step(k, c) = OnTop(c, c.memo, Retry(fr))
             \/ Evaluating(k, fr) /\ IsMade(NextNode(k, fr))
                /\ Step(k, c) = OnTop(c, c.memo, Given(fr, Made(NextNode(k, fr), fr.values)))
             \/ /\ Evaluating(k, fr) /\ ~IsMade(NextNode(k, fr)) /\ IsLeaf(k, NextNode(k, fr))
                /\ \/ Unresolved(at.memo, at.binding) /\ Step(k, c) = Call(at.memo, c.stack, at.binding)
                   \/ /\ ~Unresolved(at.memo, at.binding)
                      /\ Step(k, c) = OnTop(c, at.memo, Given(fr, Known(at.memo, at.binding)))
<1> DEFINE fr == Last(c.stack)
           x == NextNode(k, fr)
           at == Key(k, c.memo, fr.key[2], x)
           terms == Terms(k, fr.key)
           n == Len(fr.values)
<1>1. IsList(c.stack) /\ FrameOK(k, fr)
  <2>1. IsList(c.stack) /\ Len(c.stack) \in Nat \ {0}
    BY Fronted DEF Good, StackOK
  <2>2. Len(c.stack) \in 1..Len(c.stack)
    BY <2>1
  <2> QED
    BY <2>1, <2>2 DEF Good, StackOK, Last
<1>2. Step(k, c) = Proceed(k, c, fr, terms)
  BY DEF Step
<1> HIDE DEF fr
<1>3. CASE ~AtTerm(k, fr)
  <2>1. fr.term > Len(terms)
    BY <1>1, <1>3, FrameTerms DEF AtTerm
  <2>2. Step(k, c) = Return(c, None)
    BY <1>2, <2>1 DEF Proceed
  <2> QED
    BY <1>3, <2>2 DEF Returning, fr
<1>4. CASE AtTerm(k, fr)
  <2>1. ~(fr.term > Len(terms))
    BY <1>1, <1>4, FrameTerms DEF AtTerm
  <2>2. Step(k, c) = Try(k, c, fr, TermOf(k, fr))
    BY <1>2, <2>1 DEF Proceed, TermOf
  <2>3. CASE Evaluating(k, fr)
    <3>1. n < Len(TermOf(k, fr))
      BY <2>3 DEF Evaluating
    <3>2. Step(k, c) = Evaluate(k, c, fr, x)
      BY <2>2, <3>1 DEF Try, NextNode
    <3>3. CASE IsMade(x)
      <4>1. Step(k, c) = OnTop(c, c.memo, Given(fr, Made(x, fr.values)))
        BY <3>2, <3>3 DEF Evaluate
      <4> QED
        BY <2>3, <3>3, <4>1 DEF fr
    <3>4. CASE ~IsMade(x)
      <4>1. IsLeaf(k, x)
        BY <1>1, <2>3, <3>4, FrameTerms DEF NodeOK
      <4>2. Step(k, c) = Ask(c, at)
        BY <3>2, <3>4 DEF Evaluate
      <4>3. CASE Unresolved(at.memo, at.binding)
        <5>1. Step(k, c) = Call(at.memo, c.stack, at.binding)
          BY <4>2, <4>3 DEF Ask
        <5> QED
          BY <2>3, <3>4, <4>1, <4>3, <5>1 DEF fr
      <4>4. CASE ~Unresolved(at.memo, at.binding)
        <5>1. Step(k, c) = OnTop(c, at.memo, Given(fr, Known(at.memo, at.binding)))
          BY <4>2, <4>4 DEF Ask, fr
        <5> QED
          BY <2>3, <3>4, <4>1, <4>4, <5>1 DEF fr
      <4> QED
        BY <4>3, <4>4
    <3> QED
      BY <3>3, <3>4
  <2>4. CASE ~Evaluating(k, fr)
    <3>1. ~(n < Len(TermOf(k, fr)))
      BY <1>4, <2>4 DEF Evaluating
    <3>2. CASE fr.values[n] # None
      <4>1. Step(k, c) = Return(c, fr.values[n])
        BY <2>2, <3>1, <3>2 DEF Try
      <4> QED
        BY <1>4, <2>4, <3>2, <4>1 DEF Returning, fr
    <3>3. CASE fr.values[n] = None
      <4>1. Step(k, c) = OnTop(c, c.memo, Retry(fr))
        BY <2>2, <3>1, <3>3 DEF Try, Retry
      <4> QED
        BY <1>4, <2>4, <3>3, <4>1 DEF Retrying, fr
    <3> QED
      BY <3>2, <3>3
  <2> QED
    BY <2>3, <2>4
<1> QED
  BY <1>3, <1>4

(* A frame that is given a binding goes on to the next node,               *)
LEMMA GivenOK ==
  ASSUME NEW k, IsWorkspace(k), NEW fr, FrameOK(k, fr), Evaluating(k, fr), NEW b
  PROVE  LET g == Given(fr, b)
         IN  /\ FrameOK(k, g) /\ g.key = fr.key /\ g.term = fr.term /\ g.values = Append(fr.values, b)
             /\ Len(g.values) = Len(fr.values) + 1
<1> DEFINE g == Given(fr, b)
           n == Len(fr.values)
           tl == Len(TermOf(k, fr))
<1>1. g = [key |-> fr.key, term |-> fr.term, values |-> Append(fr.values, b)]
  BY DEF Given, FrameOK
<1>2. g.key = fr.key /\ g.term = fr.term /\ g.values = Append(fr.values, b)
  BY <1>1
<1>3. IsList(g.values) /\ Len(g.values) = n + 1
  BY <1>2, Appended DEF FrameOK
<1>4. AtTerm(k, fr) /\ n \in 0..tl /\ tl \in Nat /\ n < tl
  BY FrameTerms DEF Evaluating
<1> HIDE DEF n, tl, g
<1>5. AtTerm(k, g) /\ Len(TermOf(k, g)) = tl
  BY <1>2, <1>4 DEF AtTerm, TermOf, tl
<1>6. n + 1 \in 0..tl
  BY <1>4
<1>7. g = [key |-> g.key, term |-> g.term, values |-> g.values]
  BY <1>1, <1>2
<1>8. FrameOK(k, g)
  BY <1>2, <1>3, <1>5, <1>6, <1>7 DEF FrameOK
<1> QED
  BY <1>2, <1>3, <1>8 DEF g, n

(* and one whose term has none goes on to the next term.                   *)
LEMMA RetryOK ==
  ASSUME NEW k, IsWorkspace(k), NEW fr, FrameOK(k, fr), AtTerm(k, fr)
  PROVE  FrameOK(k, Retry(fr)) /\ Retry(fr).key = fr.key /\ Retry(fr).term = fr.term + 1 /\ Retry(fr).values = <<>>
<1> DEFINE g == Retry(fr)
           n == Len(Terms(k, fr.key))
<1>1. g.key = fr.key /\ g.term = fr.term + 1 /\ g.values = <<>>
      /\ g = [key |-> g.key, term |-> g.term, values |-> g.values]
  BY DEF Retry
<1>2. n \in 0..MaxNodes /\ fr.term \in 1..n /\ MaxNodes \in Nat
  BY FrameTerms, IdentifiersAssumption
<1> HIDE DEF g, n
<1>3. g.term \in 1..(n + 1) /\ n \in Nat
  BY <1>1, <1>2
<1>4. IsList(g.values) /\ Len(g.values) = 0
  BY <1>1, EmptyIsList
<1>5. AtTerm(k, g) => Len(TermOf(k, g)) \in 1..MaxNodes
  <2>1. ASSUME AtTerm(k, g)
        PROVE  Len(TermOf(k, g)) \in 1..MaxNodes
    <3>1. g.term \in 1..n
      BY <1>1, <1>3, <2>1 DEF AtTerm, n
    <3> QED
      BY <1>1, <3>1, TermsAreCode DEF FrameOK, TermOf, IsCode, n
  <2> QED
    BY <2>1
<1>6. Len(g.values) \in 0..(IF AtTerm(k, g) THEN Len(TermOf(k, g)) ELSE 0)
  BY <1>2, <1>4, <1>5
<1> QED
  BY <1>1, <1>3, <1>4, <1>6 DEF FrameOK, g, n

(* Another frame in the place of the last.                                 *)
LEMMA Topped ==
  ASSUME NEW s, IsList(s), s # <<>>, NEW x
  PROVE  /\ IsList(Append(Front(s), x)) /\ Len(Append(Front(s), x)) = Len(s) /\ Len(s) \in Nat \ {0}
         /\ Append(Front(s), x) # <<>> /\ Last(Append(Front(s), x)) = x
         /\ \A i \in 1..Len(s) : Append(Front(s), x)[i] = IF i = Len(s) THEN x ELSE s[i]
<1> DEFINE n == Len(s)
           t == Append(Front(s), x)
<1>1. n \in Nat \ {0} /\ IsList(Front(s)) /\ Len(Front(s)) = n - 1 /\ \A i \in 1..(n - 1) : Front(s)[i] = s[i]
  BY Fronted
<1> HIDE DEF n
<1>2. IsList(t) /\ t # <<>> /\ Len(t) = (n - 1) + 1 /\ t[(n - 1) + 1] = x /\ \A i \in 1..(n - 1) : t[i] = Front(s)[i]
  BY <1>1, Appended
<1> HIDE DEF t
<1>3. (n - 1) + 1 = n /\ \A i \in 1..n : i = n \/ i \in 1..(n - 1)
  BY <1>1
<1>4. Last(t) = x
  BY <1>2, <1>3 DEF Last
<1> QED
  BY <1>1, <1>2, <1>3, <1>4 DEF n, t

(* The stack stays in order when its top goes on,                          *)
LEMMA TopOK ==
  ASSUME NEW k, NEW s, StackOK(k, s), s # <<>>, NEW fr, FrameOK(k, fr), fr.key = Last(s).key
  PROVE  StackOK(k, Append(Front(s), fr)) /\ OnStack(Append(Front(s), fr)) = OnStack(s)
<1> DEFINE n == Len(s)
           t == Append(Front(s), fr)
<1>1. /\ IsList(t) /\ Len(t) = n /\ n \in Nat \ {0}
      /\ \A i \in 1..n : t[i] = IF i = n THEN fr ELSE s[i]
  BY Topped DEF StackOK
<1>2. fr.key = s[n].key
  BY DEF Last
<1> HIDE DEF n, t
<1>3. \A i \in 1..n : t[i].key = s[i].key
  BY <1>1, <1>2
<1>4. \A i \in 1..n : FrameOK(k, t[i])
  BY <1>1 DEF StackOK, n
<1>5. \A i \in 1..(n - 1) : i \in 1..n /\ i + 1 \in 1..n /\ i # n
  BY <1>1
<1>6. \A i \in 1..(n - 1) : Waits(k, t[i], t[i + 1].key)
  BY <1>1, <1>3, <1>5 DEF StackOK, n
<1>7. \A i, j \in 1..n : i # j /\ t[i].key = t[j].key => t[i].key \notin NameKeys
  BY <1>3 DEF StackOK, n
<1>8. OnStack(t) = OnStack(s)
  BY <1>1, <1>3 DEF OnStack, n
<1> QED
  BY <1>1, <1>4, <1>6, <1>7, <1>8 DEF StackOK, t

(* when the key that the top waits for is entered,                         *)
LEMMA PushOK ==
  ASSUME NEW k, IsWorkspace(k), NEW s, StackOK(k, s), NEW key \in AllKeys, Indexed(k, key[2]),
         s # <<>> => Waits(k, Last(s), key), key \in NameKeys => key \notin OnStack(s)
  PROVE  /\ StackOK(k, Append(s, Frame(key))) /\ OnStack(Append(s, Frame(key))) = OnStack(s) \cup {key}
         /\ FrameOK(k, Frame(key))
<1> DEFINE n == Len(s)
           fr == Frame(key)
           t == Append(s, fr)
<1>1. fr.key = key /\ fr.term = 1 /\ fr.values = <<>> /\ fr = [key |-> fr.key, term |-> fr.term, values |-> fr.values]
  BY DEF Frame
<1> HIDE DEF fr
<1>2. FrameOK(k, fr)
  <2> DEFINE l == Len(Terms(k, key))
  <2>1. l \in 0..MaxNodes /\ MaxNodes \in Nat /\ \A i \in 1..l : IsCode(k, Terms(k, key)[i])
    BY TermsAreCode, IdentifiersAssumption
  <2>2. fr.term \in 1..(l + 1)
    <3> HIDE DEF l
    <3> QED
      BY <1>1, <2>1
  <2>3. AtTerm(k, fr) => Len(TermOf(k, fr)) \in 1..MaxNodes
    <3>1. ASSUME AtTerm(k, fr) PROVE 1 \in 1..l
      BY <1>1, <2>1, <3>1 DEF AtTerm
    <3> QED
      BY <1>1, <2>1, <3>1 DEF TermOf, IsCode
  <2>4. Len(fr.values) = 0 /\ IsList(fr.values)
    BY <1>1, EmptyIsList
  <2>5. Len(fr.values) \in 0..(IF AtTerm(k, fr) THEN Len(TermOf(k, fr)) ELSE 0)
    BY <2>1, <2>3, <2>4
  <2> QED
    BY <1>1, <2>2, <2>4, <2>5 DEF FrameOK
<1>3. IsList(s) /\ n \in Nat
  BY DEF StackOK, IsList
<1>4. IsList(t) /\ Len(t) = n + 1 /\ t[n + 1] = fr /\ \A i \in 1..n : t[i] = s[i]
  BY <1>3, Appended
<1>5. n # 0 => s # <<>> /\ Last(s) = s[n]
  BY EmptyIsList DEF Last
<1> HIDE DEF n, t
<1>6. \A i \in 1..(n + 1) : i = n + 1 \/ i \in 1..n
  BY <1>3
<1>7. \A i \in 1..(n + 1) : FrameOK(k, t[i])
  BY <1>2, <1>4, <1>6 DEF StackOK, n
<1>8. \A i \in 1..n : Waits(k, t[i], t[i + 1].key)
  <2>1. ASSUME NEW i \in 1..n, i # n
        PROVE  Waits(k, t[i], t[i + 1].key)
    <3>1. i \in 1..(n - 1) /\ i + 1 \in 1..n
      BY <1>3, <2>1
    <3> QED
      BY <1>4, <3>1 DEF StackOK, n
  <2>2. n # 0 => n \in 1..n
    BY <1>3
  <2>3. n # 0 => Waits(k, t[n], t[n + 1].key)
    BY <1>1, <1>4, <1>5, <2>2
  <2>4. \A i \in 1..n : n # 0
    BY <1>3
  <2> QED
    BY <2>1, <2>3, <2>4
<1>9. (n + 1) - 1 = n
  BY <1>3
<1>10. \A i, j \in 1..(n + 1) : i # j /\ t[i].key = t[j].key => t[i].key \notin NameKeys
  <2>1. \A i \in 1..n : t[i].key \in OnStack(s)
    BY <1>4 DEF OnStack, n
  <2>2. \A i, j \in 1..n : i # j /\ t[i].key = t[j].key => t[i].key \notin NameKeys
    BY <1>4 DEF StackOK, n
  <2>3. t[n + 1].key = key
    BY <1>1, <1>4
  <2> QED
    BY <1>6, <2>1, <2>2, <2>3
<1>11. OnStack(t) = OnStack(s) \cup {key}
  <2>1. n + 1 \in 1..(n + 1) /\ \A i \in 1..n : i \in 1..(n + 1)
    BY <1>3
  <2>2. OnStack(t) = {t[i].key : i \in 1..(n + 1)} /\ OnStack(s) = {t[i].key : i \in 1..n}
    BY <1>4 DEF OnStack, n
  <2>3. t[n + 1].key = key
    BY <1>1, <1>4
  <2> QED
    BY <1>6, <2>1, <2>2, <2>3
<1> QED
  BY <1>2, <1>4, <1>7, <1>8, <1>9, <1>10, <1>11 DEF StackOK, t, fr

(* The stack that a return leaves.                                         *)
Callers(s, b) ==
  LET callers == Front(s)
  IN  IF callers = <<>> THEN <<>> ELSE Append(Front(callers), Given(Last(callers), b))

(* The callers, the last of which is given what it waited for.             *)
LEMMA PopIs ==
  ASSUME NEW s, IsList(s), s # <<>>, NEW b
  PROVE  LET t == Callers(s, b)
         IN  /\ IsList(t) /\ Len(t) = Len(s) - 1 /\ Len(s) \in Nat \ {0}
             /\ \A i \in 1..(Len(s) - 1) : t[i] = IF i = Len(s) - 1 THEN Given(s[i], b) ELSE s[i]
             /\ (t = <<>>) <=> (Len(s) = 1)
<1> DEFINE callers == Front(s)
           t == Callers(s, b)
           n == Len(s)
<1>1. n \in Nat \ {0} /\ IsList(callers) /\ Len(callers) = n - 1 /\ \A i \in 1..(n - 1) : callers[i] = s[i]
  BY Fronted
<1>2. (callers = <<>>) <=> (n = 1)
  BY FrontEmpty
<1> HIDE DEF callers, n
<1>3. CASE callers = <<>>
  <2>1. t = <<>>
    BY <1>3 DEF Callers, callers
  <2>2. n = 1
    BY <1>2, <1>3
  <2>3. IsList(t) /\ Len(t) = 0
    BY <2>1, EmptyIsList
  <2> HIDE DEF t
  <2>4. Len(t) = n - 1 /\ \A i \in 1..(n - 1) : t[i] = IF i = n - 1 THEN Given(s[i], b) ELSE s[i]
    BY <2>2, <2>3
  <2> QED
    BY <1>1, <2>1, <2>2, <2>3, <2>4 DEF n, t
<1>4. CASE callers # <<>>
  <2>1. t = Append(Front(callers), Given(Last(callers), b))
    BY <1>4 DEF Callers, callers
  <2>2. /\ IsList(t) /\ Len(t) = n - 1 /\ t # <<>>
        /\ \A i \in 1..(n - 1) : t[i] = IF i = n - 1 THEN Given(Last(callers), b) ELSE callers[i]
    BY <1>1, <1>4, <2>1, Topped
  <2>3. Last(callers) = s[n - 1]
    <3>1. n - 1 \in 1..(n - 1)
      BY <1>1, <1>2, <1>4
    <3> QED
      BY <1>1, <3>1 DEF Last
  <2>4. \A i \in 1..(n - 1) : t[i] = IF i = n - 1 THEN Given(s[i], b) ELSE s[i]
    BY <1>1, <2>2, <2>3
  <2> HIDE DEF t
  <2> QED
    BY <1>1, <1>2, <1>4, <2>2, <2>4 DEF n, t
<1> QED
  BY <1>3, <1>4

(* and when the top returns: a name that was on it is not any more.        *)
LEMMA PopOK ==
  ASSUME NEW k, IsWorkspace(k), NEW s, StackOK(k, s), s # <<>>, NEW b
  PROVE  LET t == Callers(s, b)
         IN  /\ StackOK(k, t) /\ OnStack(t) \cap NameKeys = (OnStack(s) \cap NameKeys) \ {Last(s).key}
             /\ OnStack(s) = OnStack(t) \cup {Last(s).key}
<1> DEFINE n == Len(s)
           t == Callers(s, b)
<1>1. /\ IsList(t) /\ Len(t) = n - 1 /\ n \in Nat \ {0}
      /\ \A i \in 1..(n - 1) : t[i] = IF i = n - 1 THEN Given(s[i], b) ELSE s[i]
  BY PopIs DEF StackOK
<1>2. /\ \A i \in 1..n : FrameOK(k, s[i])
      /\ \A i \in 1..(n - 1) : Waits(k, s[i], s[i + 1].key)
      /\ \A i, j \in 1..n : i # j /\ s[i].key = s[j].key => s[i].key \notin NameKeys
      /\ Last(s) = s[n]
  BY DEF StackOK, Last
<1> HIDE DEF n, t
<1>3. /\ \A i \in 1..(n - 1) : i \in 1..n /\ i # n /\ i + 1 \in 1..n
      /\ n \in 1..n /\ \A i \in 1..n : i = n \/ i \in 1..(n - 1)
  BY <1>1
<1>4. ASSUME NEW i \in 1..(n - 1)
      PROVE  FrameOK(k, t[i]) /\ t[i].key = s[i].key
  <2>1. FrameOK(k, s[i]) /\ Evaluating(k, s[i])
    BY <1>2, <1>3 DEF Waits
  <2>2. FrameOK(k, Given(s[i], b)) /\ Given(s[i], b).key = s[i].key
    BY <2>1, GivenOK
  <2> QED
    BY <1>1, <2>1, <2>2
<1>5. \A i \in 1..((n - 1) - 1) : i \in 1..(n - 1) /\ i # n - 1 /\ i + 1 \in 1..(n - 1)
  BY <1>1
<1>6. \A i \in 1..((n - 1) - 1) : Waits(k, t[i], t[i + 1].key)
  BY <1>1, <1>2, <1>4, <1>5
<1>7. \A i, j \in 1..(n - 1) : i # j /\ t[i].key = t[j].key => t[i].key \notin NameKeys
  BY <1>2, <1>3, <1>4
<1>8. OnStack(t) = {s[i].key : i \in 1..(n - 1)}
  BY <1>1, <1>4 DEF OnStack
<1>9. OnStack(s) = OnStack(t) \cup {s[n].key}
  BY <1>3, <1>8 DEF OnStack, n
<1>10. s[n].key \in NameKeys => s[n].key \notin OnStack(t)
  BY <1>2, <1>3, <1>8
<1> QED
  BY <1>1, <1>2, <1>4, <1>6, <1>7, <1>9, <1>10 DEF StackOK, t

(* The top of the stack.                                                   *)
LEMMA LastOK ==
  ASSUME NEW k, NEW c, Good(k, c), c.stack # <<>>
  PROVE  FrameOK(k, Last(c.stack)) /\ Last(c.stack).key \in OnStack(c.stack) /\ MemoOK(c.memo)
<1>1. IsList(c.stack) /\ Len(c.stack) \in Nat \ {0}
  BY Fronted DEF Good, StackOK
<1>2. Len(c.stack) \in 1..Len(c.stack)
  BY <1>1
<1> QED
  BY <1>1, <1>2 DEF Good, StackOK, Last, OnStack

(* The invariant of the calls is kept when the top goes on,                *)
LEMMA OnTopGood ==
  ASSUME NEW k, NEW c, Good(k, c), c.stack # <<>>, NEW m, Locates(c.memo, m),
         NEW fr, FrameOK(k, fr), fr.key = Last(c.stack).key
  PROVE  LET d == OnTop(c, m, fr)
         IN  /\ Good(k, d) /\ d.memo = m /\ d.stack = Append(Front(c.stack), fr)
             /\ OnStack(d.stack) = OnStack(c.stack)
<1> DEFINE d == OnTop(c, m, fr)
<1>1. d.memo = m /\ d.stack = Append(Front(c.stack), fr) /\ d = [memo |-> d.memo, stack |-> d.stack]
  BY DEF OnTop
<1>2. StackOK(k, d.stack) /\ OnStack(d.stack) = OnStack(c.stack)
  BY <1>1, TopOK DEF Good
<1>3. MemoOK(m) /\ m.busy = c.memo.busy
  BY DEF Locates
<1> HIDE DEF d
<1>4. Good(k, d)
  BY <1>1, <1>2, <1>3 DEF Good
<1> QED
  BY <1>1, <1>2, <1>4 DEF d

(* Entering a key changes which names are being resolved,                  *)
LEMMA EnteredIs ==
  ASSUME NEW m, MemoOK(m), NEW key \in AllKeys
  PROVE  /\ MemoOK(Entered(m, key)) /\ Entered(m, key).busy = m.busy \cup ({key} \cap NameKeys)
         /\ Entered(m, key).known = m.known /\ Entered(m, key).parsed = m.parsed
         /\ Entered(m, key).outside = m.outside
<1> DEFINE e == Entered(m, key)
<1>1. CASE key[1] = "space"
  <2>1. e = m /\ key \notin NameKeys
    BY <1>1, KeyKinds DEF Entered
  <2> QED
    BY <2>1
<1>2. CASE key[1] # "space"
  <2>1. key \in NameKeys /\ e = [m EXCEPT !.busy = @ \cup {key}]
    BY <1>2, KeyKinds DEF Entered
  <2>2. m = [known |-> m.known, busy |-> m.busy, parsed |-> m.parsed, outside |-> m.outside]
    BY DEF MemoOK
  <2>3. e = [known |-> m.known, busy |-> m.busy \cup {key}, parsed |-> m.parsed, outside |-> m.outside]
    BY <2>1, <2>2
  <2> HIDE DEF e
  <2>4. /\ e.known = m.known /\ e.busy = m.busy \cup {key} /\ e.parsed = m.parsed /\ e.outside = m.outside
        /\ e = [known |-> e.known, busy |-> e.busy, parsed |-> e.parsed, outside |-> e.outside]
    BY <2>3
  <2>5. MemoOK(e)
    BY <2>4 DEF MemoOK
  <2> QED
    BY <2>1, <2>4, <2>5 DEF e
<1> QED
  BY <1>1, <1>2

(* and leaving it that, and what is known.                                 *)
LEMMA LeftIs ==
  ASSUME NEW m, MemoOK(m), NEW key, NEW b
  PROVE  /\ MemoOK(Left(m, key, b)) /\ Left(m, key, b).busy = m.busy \ {key}
         /\ Left(m, key, b).known = Put(m.known, key, b) /\ Left(m, key, b).parsed = m.parsed
         /\ Left(m, key, b).outside = m.outside
<1> DEFINE e == Left(m, key, b)
<1>1. e = [known |-> Put(m.known, key, b), busy |-> m.busy \ {key}, parsed |-> m.parsed, outside |-> m.outside]
  BY DEF Left
<1> HIDE DEF e
<1>2. /\ e.known = Put(m.known, key, b) /\ e.busy = m.busy \ {key} /\ e.parsed = m.parsed /\ e.outside = m.outside
      /\ e = [known |-> e.known, busy |-> e.busy, parsed |-> e.parsed, outside |-> e.outside]
  BY <1>1
<1>3. MemoOK(e)
  BY <1>2 DEF MemoOK
<1> QED
  BY <1>2, <1>3 DEF e

(* when it calls,                                                          *)
LEMMA CallGood ==
  ASSUME NEW k, IsWorkspace(k), NEW s, StackOK(k, s), NEW m, MemoOK(m), m.busy = OnStack(s) \cap NameKeys,
         NEW key \in AllKeys, Indexed(k, key[2]), Unresolved(m, key), s # <<>> => Waits(k, Last(s), key)
  PROVE  LET d == Call(m, s, key)
         IN  /\ Good(k, d) /\ d.memo = Entered(m, key) /\ d.stack = Append(s, Frame(key))
             /\ OnStack(d.stack) = OnStack(s) \cup {key} /\ key \notin DOMAIN m.known
             /\ FrameOK(k, Frame(key))
<1> DEFINE d == Call(m, s, key)
<1>1. d.memo = Entered(m, key) /\ d.stack = Append(s, Frame(key)) /\ d = [memo |-> d.memo, stack |-> d.stack]
  BY DEF Call
<1>2. key \notin DOMAIN m.known /\ key \notin m.busy
  BY DEF Unresolved, Remembered
<1>3. key \in NameKeys => key \notin OnStack(s)
  BY <1>2
<1>4. StackOK(k, d.stack) /\ OnStack(d.stack) = OnStack(s) \cup {key} /\ FrameOK(k, Frame(key))
  BY <1>1, <1>3, PushOK
<1>5. MemoOK(d.memo) /\ d.memo.busy = m.busy \cup ({key} \cap NameKeys)
  BY <1>1, EnteredIs
<1> HIDE DEF d
<1>6. Good(k, d)
  BY <1>1, <1>4, <1>5 DEF Good
<1> QED
  BY <1>1, <1>2, <1>4, <1>6 DEF d

(* when it returns,                                                        *)
LEMMA ReturnGood ==
  ASSUME NEW k, IsWorkspace(k), NEW c, Good(k, c), c.stack # <<>>, NEW b
  PROVE  LET d == Return(c, b)
         IN  /\ Good(k, d) /\ d.memo = Left(c.memo, Last(c.stack).key, b) /\ d.stack = Callers(c.stack, b)
<1> DEFINE d == Return(c, b)
           key == Last(c.stack).key
<1>1. d.memo = Left(c.memo, key, b) /\ d.stack = Callers(c.stack, b) /\ d = [memo |-> d.memo, stack |-> d.stack]
  BY DEF Return, Callers
<1>2. StackOK(k, d.stack) /\ OnStack(d.stack) \cap NameKeys = (OnStack(c.stack) \cap NameKeys) \ {key}
  BY <1>1, PopOK DEF Good
<1>3. MemoOK(d.memo) /\ d.memo.busy = c.memo.busy \ {key}
  BY <1>1, LeftIs DEF Good
<1> HIDE DEF d, key
<1>4. Good(k, d)
  BY <1>1, <1>2, <1>3 DEF Good
<1> QED
  BY <1>1, <1>4 DEF d, key

(* What a node that is looked up asks for.                                 *)
LEMMA AskedFor ==
  ASSUME NEW k, IsWorkspace(k), NEW m, MemoOK(m), NEW fr, FrameOK(k, fr), Evaluating(k, fr),
         ~IsMade(NextNode(k, fr)), IsLeaf(k, NextNode(k, fr))
  PROVE  LET at == Key(k, m, fr.key[2], NextNode(k, fr))
         IN  /\ Locates(m, at.memo)
             /\ Unresolved(at.memo, at.binding) => /\ at.binding \in AllKeys /\ Indexed(k, at.binding[2])
                                                  /\ Waits(k, fr, at.binding)
<1> DEFINE x == NextNode(k, fr)
           at == Key(k, m, fr.key[2], x)
<1>1. Indexed(k, fr.key[2])
  BY DEF FrameOK
<1>2. /\ Locates(m, at.memo)
      /\ \/ at.binding \in AllKeys /\ Indexed(k, at.binding[2]) /\ RefersTo(k, fr.key[2], x) = {at.binding}
         \/ at.binding = None
  <2> HIDE DEF x, at
  <2> QED
    BY <1>1, Looking DEF x, at
<1> HIDE DEF at
<1> QED
  BY <1>2 DEF Unresolved, Waits, at

(* and so by every step.                                                   *)
LEMMA StepGood ==
  ASSUME NEW k, IsWorkspace(k), NEW c, Good(k, c)
  PROVE  Good(k, Step(k, c))
<1> DEFINE fr == Last(c.stack)
           x == NextNode(k, fr)
           at == Key(k, c.memo, fr.key[2], x)
<1>1. CASE c.stack = <<>>
  BY <1>1 DEF Step
<1>2. CASE c.stack # <<>>
  <2>1. FrameOK(k, fr) /\ MemoOK(c.memo) /\ Locates(c.memo, c.memo)
    BY <1>2, LastOK DEF Locates
  <2>2. ASSUME NEW b, Step(k, c) = Return(c, b) PROVE Good(k, Step(k, c))
    BY <1>2, <2>2, ReturnGood
  <2>3. ASSUME Retrying(k, fr), Step(k, c) = OnTop(c, c.memo, Retry(fr)) PROVE Good(k, Step(k, c))
    <3>1. FrameOK(k, Retry(fr)) /\ Retry(fr).key = fr.key
      BY <2>1, <2>3, RetryOK DEF Retrying
    <3>2. Good(k, OnTop(c, c.memo, Retry(fr)))
      <4> DEFINE g == Retry(fr)
      <4>1. FrameOK(k, g) /\ g.key = Last(c.stack).key
        BY <3>1
      <4> HIDE DEF g
      <4>2. Good(k, OnTop(c, c.memo, g))
        BY ONLY <1>2, <2>1, <4>1, Good(k, c), OnTopGood
      <4> QED
        BY <4>2 DEF g
    <3> QED
      BY <2>3, <3>2
  <2>4. ASSUME Evaluating(k, fr), NEW m, Locates(c.memo, m), NEW b, Step(k, c) = OnTop(c, m, Given(fr, b))
        PROVE  Good(k, Step(k, c))
    <3>1. FrameOK(k, Given(fr, b)) /\ Given(fr, b).key = fr.key
      BY <2>1, <2>4, GivenOK
    <3> QED
      BY <1>2, <2>4, <3>1, OnTopGood
  <2>5. ASSUME Evaluating(k, fr), ~IsMade(x), IsLeaf(k, x), Unresolved(at.memo, at.binding),
               Step(k, c) = Call(at.memo, c.stack, at.binding)
        PROVE  Good(k, Step(k, c))
    <3>1. Locates(c.memo, at.memo) /\ at.binding \in AllKeys /\ Indexed(k, at.binding[2]) /\ Waits(k, fr, at.binding)
      BY <2>1, <2>5, AskedFor
    <3>2. StackOK(k, c.stack) /\ MemoOK(at.memo) /\ at.memo.busy = OnStack(c.stack) \cap NameKeys
      BY <3>1 DEF Good, Locates
    <3> QED
      BY <2>5, <3>1, <3>2, CallGood
  <2>6. Evaluating(k, fr) /\ ~IsMade(x) /\ IsLeaf(k, x) => Locates(c.memo, at.memo)
    BY <2>1, AskedFor
  <2> QED
    BY <1>2, <2>1, <2>2, <2>3, <2>4, <2>5, <2>6, StepIs
<1> QED
  BY <1>1, <1>2

------------------------------------------------------------------------------
(* A resolver comes to an end: each step uses up some of a budget, which   *)
(* the names it enters give back.                                          *)

(* The evaluations that are left to a frame, and to those that it calls    *)
(* for a module; names are counted by themselves, each is resolved once.   *)
Remaining(fr) == ((MaxNodes + 1) - fr.term) * (MaxNodes + 1) + (MaxNodes - Len(fr.values))
Weight(key, r) == IF key \in NameKeys THEN r * (Places + 1) + 1 ELSE r + 1
PerName == Places * (Places + 1)
Open(m) == NameKeys \ (DOMAIN m.known \cup m.busy)

Charged(s, w) ==
  /\ w \in [Nat -> Nat]
  /\ \A i \in 1..(Len(s) - 1) : w[i + 1] = w[i] + Weight(s[i].key, Remaining(s[i]) - 1)
Budget(c, p) ==
  c.stack # <<>> =>
    \E w : /\ Charged(c.stack, w)
           /\ Cardinality(Open(c.memo)) * PerName + w[Len(c.stack)]
                + Weight(Last(c.stack).key, Remaining(Last(c.stack))) <= p

(* Products of numbers.                                                    *)
LEMMA Times ==
  /\ \A a, b \in Nat : a * b \in Nat
  /\ \A a, b, d \in Nat : a <= b => a * d <= b * d
  /\ \A a, b \in Nat : (a + 1) * b = a * b + b
<1>1. \A a, b \in Nat : a * b \in Nat
  OBVIOUS
<1>2. \A a, b \in Nat : (a + 1) * b = a * b + b
  OBVIOUS
<1>3. ASSUME NEW a \in Nat, NEW b \in Nat, NEW d \in Nat, a <= b
      PROVE  a * d <= b * d
  <2>1. PICK e \in Nat : b = a + e
    <3>1. b - a \in Nat /\ b = a + (b - a)
      BY <1>3
    <3> QED
      BY <3>1
  <2>2. b * d = a * d + e * d /\ e * d \in Nat /\ a * d \in Nat
    BY <2>1
  <2> QED
    BY <2>2
<1> QED
  BY <1>1, <1>2, <1>3

(* The bounds are numbers, and the steps for all names fit into MaxBursts. *)
LEMMA PlacesAre ==
  /\ MaxNodes \in Nat /\ Places \in Nat \ {0} /\ PerName \in Nat /\ MaxBursts \in Nat
  /\ Cardinality(NameKeys) \in Nat /\ Cardinality(NameKeys) * PerName <= MaxBursts
  /\ Places = MaxNodes * (MaxNodes + 1) + MaxNodes + 1
  /\ PerName = Places * Places + Places
<1>1. MaxNodes \in Nat
  BY IdentifiersAssumption
<1>2. Cardinality(NameKeys) \in Nat
  BY KeysAreFinite, FS_CardinalityType
<1>3. Places = MaxNodes * (MaxNodes + 1) + MaxNodes + 1
  BY <1>1 DEF Places
<1>4. MaxNodes * (MaxNodes + 1) \in Nat
  BY <1>1
<1>5. Places \in Nat \ {0}
  BY <1>1, <1>3, <1>4
<1> DEFINE P == Places
           C == Cardinality(NameKeys)
<1> HIDE DEF P, C
<1>6. P \in Nat /\ C \in Nat
  BY <1>2, <1>5 DEF P, C
<1>7. P * (P + 1) \in Nat /\ P * (P + 1) = P * P + P
  BY <1>6
<1>8. PerName = P * (P + 1) /\ MaxBursts = (C + 1) * P * (P + 1)
  BY DEF PerName, MaxBursts, P, C
<1>9. (C + 1) * P * (P + 1) = C * (P * (P + 1)) + P * (P + 1) /\ C * (P * (P + 1)) \in Nat
  BY <1>6
<1>10. MaxBursts \in Nat /\ C * PerName <= MaxBursts
  BY <1>7, <1>8, <1>9
<1> QED
  BY <1>1, <1>2, <1>3, <1>5, <1>7, <1>8, <1>10 DEF P, C

(* The weight of a frame is more for more evaluations; that of a name is   *)
(* enough for a module to be entered on the way.                           *)
LEMMA Weights ==
  ASSUME NEW key
  PROVE  /\ \A r \in Nat : Weight(key, r) \in Nat \ {0}
         /\ \A r, q \in Nat : r < q => Weight(key, r) + 1 <= Weight(key, q)
         /\ \A r \in Nat : key \in NameKeys => Weight(key, r + 1) = Weight(key, r) + Places + 1
         /\ key \in NameKeys => Weight(key, Places - 1) = Places * Places
         /\ key \notin NameKeys => Weight(key, Places - 1) = Places
<1> DEFINE P == Places
           Q == Places + 1
<1>1. P \in Nat \ {0} /\ Q \in Nat \ {0} /\ Q = P + 1
  BY PlacesAre
<1> HIDE DEF P, Q
<1>2. CASE key \notin NameKeys
  <2>1. \A r : Weight(key, r) = r + 1
    BY <1>2 DEF Weight
  <2> QED
    BY <1>1, <1>2, <2>1 DEF P
<1>3. CASE key \in NameKeys
  <2>1. \A r : Weight(key, r) = r * Q + 1
    BY <1>3 DEF Weight, Q
  <2>2. \A r \in Nat : r * Q \in Nat
    BY <1>1, Times
  <2>3. ASSUME NEW r \in Nat, NEW q \in Nat, r < q
        PROVE  r * Q + 1 + 1 <= q * Q + 1
    <3>1. r + 1 \in Nat /\ r + 1 <= q
      BY <2>3
    <3>2. (r + 1) * Q <= q * Q /\ (r + 1) * Q = r * Q + Q
      BY <1>1, <3>1, Times
    <3>3. r * Q \in Nat /\ q * Q \in Nat
      BY <2>2
    <3> QED
      BY <1>1, <3>2, <3>3
  <2>4. \A r \in Nat : (r + 1) * Q + 1 = (r * Q + 1) + P + 1
    <3>1. \A r \in Nat : (r + 1) * Q = r * Q + Q
      BY <1>1, Times
    <3> QED
      BY <1>1, <2>2, <3>1
  <2>5. (P - 1) * Q + 1 = P * P
    BY <1>1
  <2>6. \A r \in Nat : r * Q + 1 \in Nat \ {0}
    BY <2>2
  <2> QED
    BY <1>3, <2>1, <2>3, <2>4, <2>5, <2>6 DEF P
<1> QED
  BY <1>2, <1>3

(* A frame that goes on has fewer evaluations left.                        *)
LEMMA RemainingIs ==
  ASSUME NEW k, IsWorkspace(k), NEW fr, FrameOK(k, fr)
  PROVE  /\ Remaining(fr) \in Nat
         /\ Evaluating(k, fr) => /\ Remaining(fr) - 1 \in Nat
                                 /\ \A b : Remaining(Given(fr, b)) = Remaining(fr) - 1
         /\ AtTerm(k, fr) => Remaining(Retry(fr)) \in Nat /\ Remaining(Retry(fr)) < Remaining(fr)
<1> DEFINE W == MaxNodes + 1
           l == Len(fr.values)
           t == fr.term
<1>1. MaxNodes \in Nat /\ t \in 1..(MaxNodes + 1) /\ l \in 0..MaxNodes /\ W = MaxNodes + 1
      /\ (Evaluating(k, fr) => l < MaxNodes)
  BY FrameTerms, PlacesAre
<1>2. Remaining(fr) = (W - t) * W + (MaxNodes - l)
  BY DEF Remaining
<1> HIDE DEF W, l, t
<1>3. W - t \in Nat /\ MaxNodes - l \in Nat /\ W \in Nat
  BY <1>1
<1>4. (W - t) * W \in Nat
  BY <1>3, Times
<1>5. Remaining(fr) \in Nat
  BY <1>2, <1>3, <1>4
<1>6. ASSUME Evaluating(k, fr)
      PROVE  Remaining(fr) - 1 \in Nat /\ \A b : Remaining(Given(fr, b)) = Remaining(fr) - 1
  <2>1. \A b : Given(fr, b).term = t /\ Len(Given(fr, b).values) = l + 1
    BY <1>6, GivenOK DEF t, l
  <2>2. \A b : Remaining(Given(fr, b)) = (W - t) * W + (MaxNodes - (l + 1))
    BY <2>1 DEF Remaining, W
  <2> QED
    BY <1>1, <1>2, <1>4, <1>6, <2>2
<1>7. ASSUME AtTerm(k, fr)
      PROVE  Remaining(Retry(fr)) \in Nat /\ Remaining(Retry(fr)) < Remaining(fr)
  <2>1. Retry(fr).term = t + 1 /\ Len(Retry(fr).values) = 0
    BY <1>7, RetryOK, EmptyIsList DEF t
  <2>2. Remaining(Retry(fr)) = (W - (t + 1)) * W + (MaxNodes - 0)
    BY <2>1 DEF Remaining, W
  <2>3. t \in 1..MaxNodes
    <3>1. t <= Len(Terms(k, fr.key)) /\ Len(Terms(k, fr.key)) \in 0..MaxNodes
      BY <1>7, FrameTerms DEF AtTerm, t
    <3> QED
      BY <1>1, <3>1
  <2>4. W - (t + 1) \in Nat /\ W - t = (W - (t + 1)) + 1
    BY <1>1, <2>3
  <2> DEFINE a == W - (t + 1)
  <2> HIDE DEF a
  <2>5. a \in Nat /\ W - t = a + 1 /\ (a + 1) * W = a * W + W /\ a * W \in Nat
    BY <1>3, <2>4, Times DEF a
  <2>6. Remaining(Retry(fr)) = a * W + MaxNodes /\ Remaining(fr) = a * W + W + (MaxNodes - l)
    BY <1>1, <1>2, <2>2, <2>5 DEF a
  <2> QED
    BY <1>1, <1>3, <2>5, <2>6
<1> QED
  BY <1>5, <1>6, <1>7

(* The top is the last frame.                                              *)
LEMMA FrontOf ==
  ASSUME NEW k, NEW s, StackOK(k, s), s # <<>>
  PROVE  Len(s) \in Nat \ {0} /\ Last(s) = s[Len(s)] /\ FrameOK(k, Last(s))
<1>1. IsList(s) /\ Len(s) \in Nat \ {0}
  BY Fronted DEF StackOK
<1>2. Len(s) \in 1..Len(s)
  BY <1>1
<1> QED
  BY <1>1, <1>2 DEF StackOK, Last

(* The names that have not been entered are finitely many.                 *)
LEMMA OpenIsFinite ==
  ASSUME NEW m
  PROVE  IsFiniteSet(Open(m)) /\ Cardinality(Open(m)) \in Nat /\ Cardinality(Open(m)) <= Cardinality(NameKeys)
<1>1. Open(m) \in SUBSET NameKeys
  BY DEF Open
<1> QED
  BY <1>1, KeysAreFinite, FS_Subset, FS_CardinalityType

(* A step in which the top goes on costs one.                              *)
LEMMA OnTopBudget ==
  ASSUME NEW k, NEW c, Good(k, c), c.stack # <<>>, NEW p \in Nat, Budget(c, p), NEW m, Locates(c.memo, m),
         NEW fr, fr.key = Last(c.stack).key, Remaining(Last(c.stack)) \in Nat,
         Remaining(fr) \in Nat, Remaining(fr) < Remaining(Last(c.stack))
  PROVE  p # 0 /\ Budget(OnTop(c, m, fr), p - 1)
<1> DEFINE s == c.stack
           n == Len(s)
           d == OnTop(c, m, fr)
           O == Cardinality(Open(c.memo)) * PerName
           old == Weight(Last(s).key, Remaining(Last(s)))
           new == Weight(fr.key, Remaining(fr))
<1>1. PICK w : Charged(s, w) /\ O + w[n] + old <= p
  BY DEF Budget
<1>2. d.memo = m /\ d.stack = Append(Front(s), fr)
  BY DEF OnTop
<1>3. /\ Len(d.stack) = n /\ n \in Nat \ {0} /\ Last(d.stack) = fr
      /\ \A i \in 1..n : d.stack[i] = IF i = n THEN fr ELSE s[i]
  <2>1. IsList(s) /\ s # <<>>
    BY DEF Good, StackOK
  <2> DEFINE t == Append(Front(s), fr)
  <2> HIDE DEF s, n
  <2>2. /\ Len(t) = Len(s) /\ Len(s) \in Nat \ {0} /\ Last(t) = fr
        /\ \A i \in 1..Len(s) : t[i] = IF i = Len(s) THEN fr ELSE s[i]
    BY <2>1, Topped
  <2>3. d.stack = t
    BY <1>2
  <2> HIDE DEF t, d
  <2> QED
    BY <2>2, <2>3 DEF n
<1>4. Cardinality(Open(d.memo)) * PerName = O
  BY <1>2 DEF Open, Locates
<1> HIDE DEF d, n
<1>5. Charged(d.stack, w)
  <2>1. \A i \in 1..(n - 1) : i \in 1..n /\ i # n
    BY <1>3
  <2> QED
    BY <1>1, <1>3, <2>1 DEF Charged, n
<1>6. old \in Nat /\ new \in Nat /\ new + 1 <= old
  BY Weights
<1>7. O \in Nat /\ w[n] \in Nat
  <2>1. Cardinality(Open(c.memo)) \in Nat /\ PerName \in Nat
    BY OpenIsFinite, PlacesAre
  <2>2. O \in Nat
    BY <2>1, Times
  <2> QED
    BY <1>1, <1>3, <2>2 DEF Charged
<1> HIDE DEF O, old, new
<1>8. p # 0 /\ O + w[n] + new <= p - 1
  BY <1>1, <1>6, <1>7
<1> QED
  BY <1>3, <1>4, <1>5, <1>8 DEF Budget, d, new

(* A namespace waits for names only: no two namespaces stand on each       *)
(* other.                                                                  *)
LEMMA SpaceAsksForNames ==
  ASSUME NEW k, IsWorkspace(k), NEW fr, FrameOK(k, fr), Evaluating(k, fr), fr.key \notin NameKeys,
         ~IsMade(NextNode(k, fr)), NEW key, RefersTo(k, fr.key[2], NextNode(k, fr)) = {key}
  PROVE  key \in NameKeys
<1> DEFINE f == fr.key[2]
           x == NextNode(k, fr)
<1>1. fr.key = SpaceKey(f) /\ Indexed(k, f) /\ f \in Solid \cup External
  <2>1. PICK g \in Solid \cup External : fr.key = SpaceKey(g)
    BY DEF FrameOK, AllKeys
  <2>2. f = g
    BY <2>1, KeyKinds
  <2> QED
    BY <2>1, <2>2 DEF FrameOK
<1>2. LET term == Terms(k, SpaceKey(f))[1]
      IN  /\ Len(Terms(k, SpaceKey(f))) = 1
          /\ \A i \in 1..Len(term) :
               \/ IsMade(term[i]) \/ term[i] = Nothing
               \/ \E e \in ToSet(Tree(k, f).exports) : term[i] = Exported(f, e.name) /\ e.name \in Identifiers
  BY <1>1, SpaceCode
<1>3. fr.term = 1
  <2>1. AtTerm(k, fr)
    BY DEF Evaluating
  <2>2. fr.term \in 1..Len(Terms(k, fr.key))
    BY <2>1, FrameTerms
  <2>3. Len(Terms(k, fr.key)) = 1
    BY <1>1, <1>2
  <2> QED
    BY <2>2, <2>3
<1>4. TermOf(k, fr) = Terms(k, SpaceKey(f))[1]
  BY <1>1, <1>3 DEF TermOf
<1>5. Len(fr.values) + 1 \in 1..Len(TermOf(k, fr))
  <2> DEFINE a == Len(fr.values)
             b == Len(TermOf(k, fr))
  <2>1. a \in Nat /\ b \in 1..MaxNodes /\ MaxNodes \in Nat /\ a < b
    BY FrameTerms, PlacesAre DEF Evaluating
  <2> HIDE DEF a, b
  <2>2. a + 1 \in 1..b
    BY <2>1
  <2> QED
    BY <2>2 DEF a, b
<1>6. x = Nothing \/ \E e \in ToSet(Tree(k, f).exports) : x = Exported(f, e.name) /\ e.name \in Identifiers
  BY <1>2, <1>4, <1>5 DEF NextNode
<1> HIDE DEF x
<1>7. CASE x = Nothing
  <2>1. RefersTo(k, f, x) = {}
    BY <1>7 DEF RefersTo, Nothing
  <2> QED
    BY <2>1 DEF x
<1>8. CASE \E e \in ToSet(Tree(k, f).exports) : x = Exported(f, e.name) /\ e.name \in Identifiers
  <2>1. PICK n \in Identifiers : x = Exported(f, n)
    BY <1>8
  <2>2. RefersTo(k, f, x) = {ExportKey(f, n)}
    BY <2>1 DEF RefersTo, Exported
  <2>3. key = ExportKey(f, n)
    BY <2>2 DEF x
  <2> QED
    BY <1>1, <2>3, NameKey
<1> QED
  BY <1>6, <1>7, <1>8

(* A new frame has all its evaluations before it.                          *)
LEMMA NewFrame ==
  ASSUME NEW key
  PROVE  Frame(key).key = key /\ Remaining(Frame(key)) = Places - 1
<1>1. Frame(key).key = key /\ Frame(key).term = 1 /\ Len(Frame(key).values) = 0
  BY EmptyIsList DEF Frame
<1>2. Remaining(Frame(key)) = ((MaxNodes + 1) - 1) * (MaxNodes + 1) + (MaxNodes - 0)
  BY <1>1 DEF Remaining
<1>3. Places = MaxNodes * (MaxNodes + 1) + MaxNodes + 1 /\ MaxNodes \in Nat
  BY PlacesAre
<1>4. (MaxNodes + 1) - 1 = MaxNodes /\ MaxNodes * (MaxNodes + 1) \in Nat
  BY <1>3
<1> QED
  BY <1>1, <1>2, <1>3, <1>4

(* A call is paid for by the name it enters, or by the evaluation that     *)
(* enters the module.                                                      *)
LEMMA CallBudget ==
  ASSUME NEW k, IsWorkspace(k), NEW c, Good(k, c), c.stack # <<>>, NEW p \in Nat, Budget(c, p),
         NEW m, Locates(c.memo, m), NEW key \in AllKeys, Unresolved(m, key), Waits(k, Last(c.stack), key)
  PROVE  p # 0 /\ Budget(Call(m, c.stack, key), p - 1)
<1> DEFINE s == c.stack
           n == Len(s)
           fr == Last(s)
           d == Call(m, s, key)
           O == Cardinality(Open(c.memo))
           U == Cardinality(Open(d.memo))
           old == Weight(fr.key, Remaining(fr))
           less == Weight(fr.key, Remaining(fr) - 1)
           new == Weight(key, Places - 1)
           P == Places
<1>1. PICK w : Charged(s, w) /\ O * PerName + w[n] + old <= p
  BY DEF Budget
<1>2. n \in Nat \ {0} /\ fr = s[n] /\ FrameOK(k, fr) /\ IsList(s)
  BY FrontOf DEF Good, StackOK
<1>3. Evaluating(k, fr) /\ ~IsMade(NextNode(k, fr)) /\ RefersTo(k, fr.key[2], NextNode(k, fr)) = {key}
  BY DEF Waits
<1>4. Remaining(fr) \in Nat /\ Remaining(fr) - 1 \in Nat
  BY <1>2, <1>3, RemainingIs
<1>5. d.memo = Entered(m, key) /\ d.stack = Append(s, Frame(key))
  BY DEF Call
<1> HIDE DEF n, d
<1>6. Len(d.stack) = n + 1 /\ d.stack[n + 1] = Frame(key) /\ \A i \in 1..n : d.stack[i] = s[i]
  BY <1>2, <1>5, Appended DEF n
<1>7. Last(d.stack) = Frame(key)
  BY <1>6 DEF Last
<1> DEFINE v == [i \in Nat |-> IF i = n + 1 THEN w[n] + less ELSE w[i]]
<1>8. old \in Nat /\ less \in Nat /\ new \in Nat /\ less + 1 <= old
  <2>1. Remaining(fr) - 1 < Remaining(fr)
    BY <1>4
  <2>2. old \in Nat /\ less \in Nat /\ less + 1 <= old
    BY <1>4, <2>1, Weights
  <2>3. Places - 1 \in Nat
    BY PlacesAre
  <2> HIDE DEF old, less
  <2> QED
    BY <2>2, <2>3, Weights
<1> HIDE DEF old, less, new
<1>9. w[n] \in Nat /\ v \in [Nat -> Nat] /\ v[n + 1] = w[n] + less /\ \A i \in 1..n : v[i] = w[i]
  <2>1. w \in [Nat -> Nat] /\ w[n] \in Nat
    BY <1>1, <1>2 DEF Charged
  <2>2. w[n] + less \in Nat
    <3> DEFINE wn == w[n]
    <3>1. wn \in Nat /\ less \in Nat
      BY <1>8, <2>1
    <3> HIDE DEF wn
    <3>2. wn + less \in Nat
      BY <3>1
    <3> QED
      BY <3>2 DEF wn
  <2>3. v \in [Nat -> Nat]
    BY <2>1, <2>2
  <2>4. n + 1 \in Nat /\ \A i \in 1..n : i \in Nat /\ i # n + 1
    BY <1>2
  <2> QED
    BY <2>1, <2>3, <2>4
<1> HIDE DEF v
<1>10. Charged(d.stack, v)
  <2>1. ASSUME NEW i \in 1..n
        PROVE  v[i + 1] = v[i] + Weight(d.stack[i].key, Remaining(d.stack[i]) - 1)
    <3>1. CASE i = n
      BY <1>2, <1>6, <1>9, <3>1 DEF less
    <3>2. CASE i # n
      <4>1. i \in 1..(n - 1) /\ i + 1 \in 1..n
        BY <1>2, <3>2
      <4>2. w[i + 1] = w[i] + Weight(s[i].key, Remaining(s[i]) - 1)
        BY <1>1, <4>1 DEF Charged, n
      <4> QED
        BY <1>6, <1>9, <4>1, <4>2
    <3> QED
      BY <3>1, <3>2
  <2>2. (n + 1) - 1 = n
    BY <1>2
  <2> QED
    BY <1>6, <1>9, <2>1, <2>2 DEF Charged
<1>11. P \in Nat \ {0} /\ PerName \in Nat /\ P * P \in Nat /\ PerName = P * P + P
  <2>1. P \in Nat \ {0} /\ PerName = P * P + P /\ PerName \in Nat
    BY PlacesAre
  <2> HIDE DEF P
  <2>2. P * P \in Nat
    BY <2>1, Times
  <2> QED
    BY <2>1, <2>2
<1>12. O \in Nat /\ U \in Nat /\ O * PerName \in Nat /\ U * PerName \in Nat
  BY <1>11, OpenIsFinite, Times
<1>13. MemoOK(m) /\ m.known = c.memo.known /\ m.busy = c.memo.busy
  BY DEF Locates
<1>14. d.memo.known = m.known /\ d.memo.busy = m.busy \cup ({key} \cap NameKeys)
  BY <1>5, <1>13, EnteredIs
<1>15. Remaining(Frame(key)) = P - 1 /\ Frame(key).key = key
  BY NewFrame
<1>16. U * PerName + v[n + 1] + new <= p - 1 /\ p # 0
  <2>1. CASE key \in NameKeys
    <3>1. key \in Open(m) /\ Open(m) = Open(c.memo)
      BY <1>13, <2>1 DEF Open, Unresolved, Remembered
    <3>2. Open(d.memo) = Open(c.memo) \ {key} /\ key \in Open(c.memo)
      BY <1>14, <2>1, <3>1 DEF Open
    <3>3. U = O - 1
      <4>1. Cardinality(Open(c.memo) \ {key}) = Cardinality(Open(c.memo)) - 1
        BY <3>2, OpenIsFinite, FS_RemoveElement
      <4> QED
        BY <3>2, <4>1
    <3>4. O * PerName = U * PerName + PerName
      <4> HIDE DEF O, U
      <4>1. O = U + 1
        BY <1>12, <3>3
      <4> QED
        BY <1>11, <1>12, <4>1, Times
    <3>5. new = P * P
      BY <2>1, Weights DEF new
    <3> HIDE DEF O, U, P
    <3> DEFINE a == U * PerName
               b == O * PerName
               pp == P * P
    <3>6. a \in Nat /\ b \in Nat /\ pp \in Nat /\ b = a + PerName /\ PerName = pp + P /\ new = pp /\ v[n + 1] = w[n] + less
          /\ b + w[n] + old <= p
      BY <1>1, <1>9, <1>11, <1>12, <3>4, <3>5
    <3> HIDE DEF a, b, pp
    <3> DEFINE wn == w[n]
               vn == v[n + 1]
               q == PerName
    <3>7. /\ wn \in Nat /\ vn = wn + less /\ less \in Nat /\ old \in Nat /\ less + 1 <= old
          /\ a \in Nat /\ pp \in Nat /\ P \in Nat /\ new = pp /\ b = a + q /\ q = pp + P /\ b + wn + old <= p
      BY <1>8, <1>9, <1>11, <3>6
    <3> HIDE DEF wn, vn, q
    <3>8. a + vn + new <= p - 1 /\ p # 0
      BY <3>7
    <3> QED
      BY <3>8 DEF a, vn
  <2>2. CASE key \notin NameKeys
    <3>1. fr.key \in NameKeys
      BY <1>2, <1>3, <2>2, SpaceAsksForNames
    <3>2. Open(d.memo) = Open(c.memo)
      BY <1>13, <1>14, <2>2 DEF Open
    <3>3. new = P
      BY <2>2, Weights DEF new
    <3>4. old = less + P + 1
      <4> DEFINE r == Remaining(fr) - 1
      <4>1. r \in Nat /\ r + 1 = Remaining(fr)
        BY <1>4
      <4>2. Weight(fr.key, r + 1) = Weight(fr.key, r) + P + 1
        <5> HIDE DEF r
        <5> QED
          BY <3>1, <4>1, Weights
      <4> QED
        BY <4>1, <4>2 DEF old, less
    <3>5. U * PerName = O * PerName
      BY <3>2
    <3> HIDE DEF O, U, P
    <3> DEFINE b == O * PerName
    <3>6. b \in Nat /\ U * PerName = b /\ b + w[n] + old <= p
      BY <1>1, <1>12, <3>5
    <3> HIDE DEF b
    <3> DEFINE wn == w[n]
               vn == v[n + 1]
    <3>7. /\ wn \in Nat /\ vn = wn + less /\ less \in Nat /\ b \in Nat
          /\ P \in Nat /\ new = P /\ old = less + P + 1 /\ b + wn + old <= p
      BY <1>8, <1>9, <1>11, <3>3, <3>4, <3>6
    <3> HIDE DEF wn, vn
    <3>8. b + vn + new <= p - 1 /\ p # 0
      BY <3>7
    <3> QED
      BY <3>6, <3>8 DEF vn
  <2> QED
    BY <2>1, <2>2
<1>17. Weight(Last(d.stack).key, Remaining(Last(d.stack))) = new
  BY <1>7, <1>15 DEF new
<1> QED
  BY <1>6, <1>10, <1>16, <1>17 DEF Budget, d

(* A return costs one.                                                     *)
LEMMA ReturnBudget ==
  ASSUME NEW k, IsWorkspace(k), NEW c, Good(k, c), c.stack # <<>>, NEW p \in Nat, Budget(c, p), NEW b
  PROVE  p # 0 /\ Budget(Return(c, b), p - 1)
<1> DEFINE s == c.stack
           n == Len(s)
           fr == Last(s)
           d == Return(c, b)
           O == Cardinality(Open(c.memo)) * PerName
           old == Weight(fr.key, Remaining(fr))
<1>1. PICK w : Charged(s, w) /\ O + w[n] + old <= p
  BY DEF Budget
<1>2. n \in Nat \ {0} /\ fr = s[n] /\ FrameOK(k, fr) /\ IsList(s)
  BY FrontOf DEF Good, StackOK
<1>3. old \in Nat \ {0} /\ O \in Nat /\ w[n] \in Nat
  <2>1. Remaining(fr) \in Nat
    BY <1>2, RemainingIs
  <2>2. Cardinality(Open(c.memo)) \in Nat /\ PerName \in Nat
    BY OpenIsFinite, PlacesAre
  <2>3. O \in Nat
    BY <2>2, Times
  <2> QED
    BY <1>1, <1>2, <2>1, <2>3, Weights DEF Charged
<1> HIDE DEF old
<1>4. d.memo = Left(c.memo, fr.key, b) /\ d.stack = Callers(s, b)
  BY DEF Return, Callers
<1>5. Open(d.memo) = Open(c.memo)
  <2>1. d.memo.known = Put(c.memo.known, fr.key, b) /\ d.memo.busy = c.memo.busy \ {fr.key}
    BY <1>4, LeftIs DEF Good
  <2>2. DOMAIN d.memo.known = DOMAIN c.memo.known \cup {fr.key}
    BY <2>1 DEF Put
  <2>3. fr.key \in OnStack(s) /\ c.memo.busy = OnStack(s) \cap NameKeys
    BY LastOK DEF Good
  <2> HIDE DEF d, fr
  <2> QED
    BY <2>1, <2>2, <2>3 DEF Open
<1>6. /\ Len(d.stack) = n - 1 /\ ((d.stack = <<>>) <=> (n = 1))
      /\ \A i \in 1..(n - 1) : d.stack[i] = IF i = n - 1 THEN Given(s[i], b) ELSE s[i]
  BY <1>2, <1>4, PopIs
<1> HIDE DEF d, O, n
<1>7. p # 0
  BY <1>1, <1>3
<1>8. CASE n = 1
  BY <1>6, <1>7, <1>8 DEF Budget, d
<1>9. CASE n # 1
  <2> DEFINE below == s[n - 1]
  <2>1. n - 1 \in 1..(n - 1) /\ n - 1 \in 1..n /\ (n - 1) + 1 = n
    BY <1>2, <1>9
  <2>2. Waits(k, below, s[n].key) /\ FrameOK(k, below)
    BY <2>1 DEF Good, StackOK, n
  <2>3. Evaluating(k, below)
    BY <2>2 DEF Waits
  <2>4. w[n] = w[n - 1] + Weight(below.key, Remaining(below) - 1)
    BY <1>1, <2>1 DEF Charged, n
  <2>5. Last(d.stack) = Given(below, b)
    BY <1>6, <2>1 DEF Last
  <2>6. Given(below, b).key = below.key /\ Remaining(Given(below, b)) = Remaining(below) - 1
    BY <2>2, <2>3, GivenOK, RemainingIs
  <2>7. Weight(Last(d.stack).key, Remaining(Last(d.stack))) = Weight(below.key, Remaining(below) - 1)
    BY <2>5, <2>6
  <2>8. Charged(d.stack, w)
    <3>1. \A i \in 1..((n - 1) - 1) : i \in 1..(n - 1) /\ i # n - 1
      BY <1>2
    <3> QED
      BY <1>1, <1>6, <3>1 DEF Charged, n
  <2>9. w[n - 1] \in Nat /\ Weight(below.key, Remaining(below) - 1) \in Nat
    <3>1. Remaining(below) - 1 \in Nat
      BY <2>2, <2>3, RemainingIs
    <3>2. n - 1 \in Nat /\ w \in [Nat -> Nat]
      BY <1>1, <1>2 DEF Charged
    <3> QED
      BY <3>1, <3>2, Weights
  <2> DEFINE l == Weight(below.key, Remaining(below) - 1)
  <2> HIDE DEF below, l
  <2>10. O + w[n - 1] + l <= p - 1
    BY <1>1, <1>3, <2>4, <2>9 DEF l
  <2>11. Cardinality(Open(d.memo)) * PerName + w[Len(d.stack)] + Weight(Last(d.stack).key, Remaining(Last(d.stack))) <= p - 1
    BY <1>5, <1>6, <2>7, <2>10 DEF O, l
  <2> QED
    BY <1>7, <2>8, <2>11 DEF Budget, d
<1> QED
  BY <1>8, <1>9

(* More than enough is enough.                                             *)
LEMMA BudgetGrows ==
  ASSUME NEW k, IsWorkspace(k), NEW c, Good(k, c), NEW p \in Nat, Budget(c, p), NEW q \in Nat, p <= q
  PROVE  Budget(c, q)
<1>1. CASE c.stack = <<>>
  BY <1>1 DEF Budget
<1>2. CASE c.stack # <<>>
  <2> DEFINE s == c.stack
             a == Cardinality(Open(c.memo)) * PerName
             e == Weight(Last(s).key, Remaining(Last(s)))
  <2>1. PICK w : Charged(s, w) /\ a + w[Len(s)] + e <= p
    BY <1>2 DEF Budget
  <2> DEFINE b == w[Len(s)]
  <2>2. b \in Nat
    <3>1. Len(s) \in Nat
      BY <1>2, FrontOf DEF Good
    <3> QED
      BY <2>1, <3>1 DEF Charged
  <2>3. a \in Nat
    BY OpenIsFinite, PlacesAre, Times
  <2>4. e \in Nat
    <3>1. Remaining(Last(s)) \in Nat
      BY <1>2, FrontOf, RemainingIs DEF Good
    <3> QED
      BY <3>1, Weights
  <2>5. a + b + e <= p
    BY <2>1
  <2> HIDE DEF a, b, e
  <2>6. a + b + e <= q
    BY <2>2, <2>3, <2>4, <2>5
  <2> QED
    BY <2>1, <2>6 DEF Budget, a, b, e
<1> QED
  BY <1>1, <1>2

(* Every step costs one, while there is something on the stack,            *)
LEMMA StepBudget ==
  ASSUME NEW k, IsWorkspace(k), NEW c, Good(k, c), NEW p \in Nat, Budget(c, p), NEW q \in Nat, p <= q + 1
  PROVE  Budget(Step(k, c), q)
<1> DEFINE fr == Last(c.stack)
           x == NextNode(k, fr)
           at == Key(k, c.memo, fr.key[2], x)
<1>1. CASE c.stack = <<>>
  BY <1>1 DEF Step, Budget
<1>2. CASE c.stack # <<>>
  <2>1. FrameOK(k, fr) /\ MemoOK(c.memo) /\ Locates(c.memo, c.memo) /\ Remaining(fr) \in Nat
    BY <1>2, LastOK, RemainingIs DEF Locates
  <2>2. ASSUME NEW b, Step(k, c) = Return(c, b) PROVE p # 0 /\ Budget(Step(k, c), p - 1)
    BY <1>2, <2>2, ReturnBudget
  <2>3. ASSUME Retrying(k, fr), Step(k, c) = OnTop(c, c.memo, Retry(fr)) PROVE p # 0 /\ Budget(Step(k, c), p - 1)
    <3> DEFINE g == Retry(fr)
    <3>1. g.key = fr.key /\ Remaining(g) \in Nat /\ Remaining(g) < Remaining(fr)
      BY <2>1, <2>3, RetryOK, RemainingIs DEF Retrying
    <3> HIDE DEF g
    <3>2. p # 0 /\ Budget(OnTop(c, c.memo, g), p - 1)
      BY <1>2, <2>1, <3>1, OnTopBudget
    <3> QED
      BY <2>3, <3>2 DEF g
  <2>4. ASSUME Evaluating(k, fr), NEW m, Locates(c.memo, m), NEW b, Step(k, c) = OnTop(c, m, Given(fr, b))
        PROVE  p # 0 /\ Budget(Step(k, c), p - 1)
    <3> DEFINE g == Given(fr, b)
    <3>1. g.key = fr.key
      BY <2>1, <2>4, GivenOK
    <3>2. Remaining(g) = Remaining(fr) - 1 /\ Remaining(fr) - 1 \in Nat
      BY <2>1, <2>4, RemainingIs
    <3> HIDE DEF g
    <3>3. Remaining(g) \in Nat /\ Remaining(g) < Remaining(fr)
      BY <2>1, <3>2
    <3>4. p # 0 /\ Budget(OnTop(c, m, g), p - 1)
      BY <1>2, <2>1, <2>4, <3>1, <3>3, OnTopBudget
    <3> QED
      BY <2>4, <3>4 DEF g
  <2>5. ASSUME Evaluating(k, fr), ~IsMade(x), IsLeaf(k, x), Unresolved(at.memo, at.binding),
               Step(k, c) = Call(at.memo, c.stack, at.binding)
        PROVE  p # 0 /\ Budget(Step(k, c), p - 1)
    <3>1. Locates(c.memo, at.memo) /\ at.binding \in AllKeys /\ Waits(k, fr, at.binding)
      BY <2>1, <2>5, AskedFor
    <3> QED
      BY <1>2, <2>5, <3>1, CallBudget
  <2>6. Evaluating(k, fr) /\ ~IsMade(x) /\ IsLeaf(k, x) => Locates(c.memo, at.memo)
    BY <2>1, AskedFor
  <2>7. p # 0 /\ Budget(Step(k, c), p - 1)
    BY <1>2, <2>1, <2>2, <2>3, <2>4, <2>5, <2>6, StepIs
  <2>8. p - 1 \in Nat /\ p - 1 <= q
    BY <2>7
  <2> QED
    BY <2>7, <2>8, StepGood, BudgetGrows
<1> QED
  BY <1>1, <1>2

(* and so does a burst.                                                    *)
LEMMA BurstOK ==
  ASSUME NEW k, IsWorkspace(k), NEW c, Good(k, c)
  PROVE  /\ Good(k, Burst(k, c))
         /\ \A p, q \in Nat : Budget(c, p) /\ p <= q + 1 => Budget(Burst(k, c), q)
<1>1. \A d : Good(k, d) => Good(k, Step(k, d))
  BY StepGood
<1>2. \A d : Good(k, d) => \A p, q \in Nat : Budget(d, p) /\ p <= q + 1 => Budget(Step(k, d), q)
  BY StepBudget
<1>3. \A q \in Nat : q <= q + 1
  OBVIOUS
<1> QED
  BY <1>1, <1>2, <1>3 DEF Burst

(* The recursion of Calls is defined.                                      *)
LEMMA CallsAre ==
  ASSUME NEW k, NEW c
  PROVE  /\ Calls(k, c) = [n \in 0..MaxBursts |-> Calls(k, c)[n]] /\ Calls(k, c)[0] = c
         /\ \A n \in 0..MaxBursts : n # 0 => Calls(k, c)[n] = Burst(k, Calls(k, c)[n - 1])
<1> DEFINE N == MaxBursts
           B(d) == Burst(k, d)
           T == {n \in 0..N : \E f : f[0] = c /\ \A i \in 1..n : f[i] = B(f[i - 1])}
           run == CHOOSE f : f = [n \in 0..N |-> IF n = 0 THEN c ELSE B(f[n - 1])]
<1>1. N \in Nat
  BY PlacesAre
<1> HIDE DEF N, B
<1>2. 0 \in T
  <2> DEFINE f == [i \in {0} |-> c]
  <2>1. f[0] = c /\ 1..0 = {}
    OBVIOUS
  <2>2. \E g : g[0] = c /\ \A i \in 1..0 : g[i] = B(g[i - 1])
    BY <2>1
  <2> QED
    BY <1>1, <2>2
<1>3. ASSUME NEW n \in 0..N, n \in T, n # N
      PROVE  n + 1 \in T
  <2>1. PICK f : f[0] = c /\ \A i \in 1..n : f[i] = B(f[i - 1])
    BY <1>3
  <2> DEFINE g == [i \in 0..(n + 1) |-> IF i = n + 1 THEN B(f[n]) ELSE f[i]]
  <2>2. /\ 0 \in 0..(n + 1) /\ 0 # n + 1 /\ n + 1 \in 0..(n + 1) /\ n + 1 \in 0..N /\ (n + 1) - 1 = n
        /\ \A i \in 1..(n + 1) : i \in 0..(n + 1) /\ i - 1 \in 0..(n + 1) /\ i - 1 # n + 1 /\ (i = n + 1 \/ i \in 1..n)
    BY <1>1, <1>3
  <2>3. g[0] = c /\ g[n + 1] = B(f[n]) /\ \A i \in 0..(n + 1) : i # n + 1 => g[i] = f[i]
    BY <2>1, <2>2
  <2> HIDE DEF g
  <2>4. \A i \in 1..(n + 1) : g[i] = B(g[i - 1])
    <3>1. ASSUME NEW i \in 1..(n + 1) PROVE g[i] = B(g[i - 1])
      <4>1. g[i - 1] = f[i - 1]
        BY <2>2, <2>3
      <4>2. CASE i = n + 1
        BY <2>2, <2>3, <4>1, <4>2
      <4>3. CASE i # n + 1
        BY <2>1, <2>2, <2>3, <4>1, <4>3
      <4> QED
        BY <4>2, <4>3
    <3> QED
      BY <3>1
  <2>5. \E f2 : f2[0] = c /\ \A i \in 1..(n + 1) : f2[i] = B(f2[i - 1])
    BY <2>3, <2>4
  <2> QED
    BY <2>2, <2>5
<1>4. N \in T
  <2> HIDE DEF T
  <2>1. \A n \in 0..N : n \in T
    BY <1>1, <1>2, <1>3, UpTo
  <2> QED
    BY <1>1, <2>1
<1>5. \E f : f = [n \in 0..N |-> IF n = 0 THEN c ELSE B(f[n - 1])]
  <2>1. PICK f : f[0] = c /\ \A i \in 1..N : f[i] = B(f[i - 1])
    BY <1>4
  <2> DEFINE g == [n \in 0..N |-> f[n]]
  <2>2. \A n \in 0..N : g[n] = f[n] /\ (n # 0 => n - 1 \in 0..N /\ n \in 1..N)
    BY <1>1
  <2>3. g = [n \in 0..N |-> g[n]]
    OBVIOUS
  <2> HIDE DEF g
  <2>4. \A n \in 0..N : g[n] = IF n = 0 THEN c ELSE B(g[n - 1])
    BY <2>1, <2>2
  <2>5. g = [n \in 0..N |-> IF n = 0 THEN c ELSE B(g[n - 1])]
    BY <2>3, <2>4
  <2> QED
    BY <2>5
<1>6. run = [n \in 0..N |-> IF n = 0 THEN c ELSE B(run[n - 1])]
  BY <1>5
<1>7. Calls(k, c) = run
  BY DEF Calls, N, B
<1> HIDE DEF run
<1>8. \A n \in 0..N : run[n] = IF n = 0 THEN c ELSE B(run[n - 1])
  BY <1>6
<1>9. run = [n \in 0..N |-> run[n]]
  BY <1>6, <1>8
<1>10. run[0] = c /\ \A n \in 0..N : n # 0 => run[n] = B(run[n - 1])
  BY <1>1, <1>8
<1> QED
  BY <1>7, <1>9, <1>10 DEF N, B

(* A resolver comes to an end.                                             *)
LEMMA CallsEnd ==
  ASSUME NEW k, IsWorkspace(k), NEW c, Good(k, c), Budget(c, MaxBursts)
  PROVE  /\ Good(k, Ended(k, c)) /\ Ended(k, c).stack = <<>>
         /\ \E n \in 0..MaxBursts : Ended(k, c) = Calls(k, c)[n]
<1> DEFINE N == MaxBursts
           run == Calls(k, c)
           T == {n \in 0..N : Good(k, run[n]) /\ Budget(run[n], N - n)}
<1>1. N \in Nat
  BY PlacesAre
<1>2. run[0] = c /\ \A n \in 0..N : n # 0 => run[n] = Burst(k, run[n - 1])
  BY CallsAre
<1> HIDE DEF run
<1>3. 0 \in T
  <2>1. 0 \in 0..N /\ N - 0 = N
    BY <1>1
  <2> QED
    BY <1>2, <2>1
<1> HIDE DEF N
<1>4. ASSUME NEW n \in 0..N, n \in T, n # N
      PROVE  n + 1 \in T
  <2>1. n + 1 \in 0..N /\ n + 1 # 0 /\ (n + 1) - 1 = n /\ N - n \in Nat /\ N - (n + 1) \in Nat
        /\ N - n <= (N - (n + 1)) + 1
    BY <1>1, <1>4
  <2>2. run[n + 1] = Burst(k, run[n])
    BY <1>2, <2>1
  <2>3. Good(k, run[n + 1]) /\ Budget(run[n + 1], N - (n + 1))
    BY <1>4, <2>1, <2>2, BurstOK
  <2> QED
    BY <2>1, <2>3
<1>5. \A n \in 0..N : n \in T
  <2> HIDE DEF T
  <2> QED
    BY <1>1, <1>3, <1>4, UpTo
<1>6. Good(k, run[N]) /\ Budget(run[N], 0)
  <2>1. N - N = 0 /\ N \in 0..N
    BY <1>1
  <2> QED
    BY <1>5, <2>1
<1>7. run[N].stack = <<>>
  <2>1. Budget(Step(k, run[N]), 0)
    BY <1>6, StepBudget
  <2>2. CASE run[N].stack # <<>>
    <3> DEFINE s == run[N].stack
               a == Cardinality(Open(run[N].memo)) * PerName
               e == Weight(Last(s).key, Remaining(Last(s)))
    <3>1. PICK w : Charged(s, w) /\ a + w[Len(s)] + e <= 0
      BY <1>6, <2>2 DEF Budget
    <3> DEFINE b == w[Len(s)]
    <3>2. b \in Nat
      <4>1. Len(s) \in Nat
        BY <1>6, <2>2, FrontOf DEF Good
      <4> QED
        BY <3>1, <4>1 DEF Charged
    <3>3. a \in Nat
      BY OpenIsFinite, PlacesAre, Times
    <3>4. e \in Nat \ {0}
      <4>1. Remaining(Last(s)) \in Nat
        BY <1>6, <2>2, FrontOf, RemainingIs DEF Good
      <4> QED
        BY <4>1, Weights
    <3>5. a + b + e <= 0
      BY <3>1
    <3> HIDE DEF a, b, e
    <3> QED
      BY <3>2, <3>3, <3>4, <3>5
  <2> QED
    BY <2>2
<1>8. \E n \in 0..N : run[n].stack = <<>>
  BY <1>1, <1>7
<1>9. Ended(k, c) = run[CHOOSE n \in 0..N : run[n].stack = <<>>]
  BY DEF Ended, EndOf, run, N
<1>10. PICK n \in 0..N : run[n].stack = <<>> /\ Ended(k, c) = run[n]
  BY <1>8, <1>9
<1>11. Good(k, run[n])
  BY <1>5
<1> QED
  BY <1>10, <1>11 DEF run, N

(* A question for a name starts in order, with enough for all its steps.   *)
LEMMA Starting ==
  ASSUME NEW k, IsWorkspace(k), NEW m, MemoOK(m), m.busy = {}, NEW key \in NameKeys, Indexed(k, key[2]),
         Unresolved(m, key)
  PROVE  LET c == Call(m, <<>>, key)
         IN  /\ Good(k, c) /\ Budget(c, MaxBursts) /\ c.memo = Entered(m, key) /\ c.stack = Append(<<>>, Frame(key))
             /\ Len(c.stack) = 1 /\ c.stack[1] = Frame(key) /\ Last(c.stack) = Frame(key)
<1> DEFINE c == Call(m, <<>>, key)
<1>1. IsList(<<>>) /\ Len(<<>>) = 0
  BY EmptyIsList
<1>2. StackOK(k, <<>>) /\ OnStack(<<>>) = {}
  BY <1>1 DEF StackOK, OnStack
<1>3. key \in AllKeys
  BY DEF AllKeys
<1>4. Good(k, c) /\ c.memo = Entered(m, key) /\ c.stack = Append(<<>>, Frame(key)) /\ key \notin DOMAIN m.known
  BY <1>2, <1>3, CallGood
<1>5. Len(c.stack) = 1 /\ c.stack[1] = Frame(key)
  <2> DEFINE e == <<>>
             fr == Frame(key)
  <2>1. IsList(e) /\ Len(e) = 0 /\ c.stack = Append(e, fr)
    BY <1>1, <1>4
  <2> HIDE DEF e, fr
  <2>2. Len(Append(e, fr)) = Len(e) + 1 /\ Append(e, fr)[Len(e) + 1] = fr
    BY <2>1, Appended
  <2>3. Len(e) + 1 = 1
    BY <2>1
  <2> QED
    BY <2>1, <2>2, <2>3 DEF fr
<1> HIDE DEF c
<1>6. Len(c.stack) = 1 /\ c.stack[1] = Frame(key) /\ Last(c.stack) = Frame(key)
  BY <1>5 DEF Last
<1> DEFINE w == [i \in Nat |-> 0]
           O == Cardinality(Open(c.memo))
           P == Places
<1>7. Charged(c.stack, w) /\ w[1] = 0
  BY <1>6 DEF Charged
<1>8. Weight(key, Remaining(Frame(key))) = P * P /\ Frame(key).key = key
  BY NewFrame, Weights
<1>9. O + 1 <= Cardinality(NameKeys) /\ O \in Nat /\ Cardinality(NameKeys) \in Nat
  <2>1. key \notin Open(c.memo)
    BY <1>3, <1>4, EnteredIs DEF Open
  <2>2. Open(c.memo) \in SUBSET (NameKeys \ {key})
    BY <2>1 DEF Open
  <2>3. IsFiniteSet(NameKeys \ {key}) /\ Cardinality(NameKeys \ {key}) = Cardinality(NameKeys) - 1
    BY KeysAreFinite, FS_RemoveElement
  <2>4. O <= Cardinality(NameKeys) - 1 /\ O \in Nat
    BY <2>2, <2>3, FS_Subset, OpenIsFinite
  <2>5. Cardinality(NameKeys) \in Nat
    BY PlacesAre
  <2> HIDE DEF O
  <2> QED
    BY <2>4, <2>5
<1>10. O * PerName + w[1] + P * P <= MaxBursts
  <2> DEFINE N == Cardinality(NameKeys) * PerName
             a == O * PerName
             q == P * P
  <2>1. PerName \in Nat /\ PerName = P * P + P /\ P \in Nat /\ N <= MaxBursts /\ MaxBursts \in Nat
    BY PlacesAre
  <2> HIDE DEF O, P
  <2>2. a \in Nat /\ q \in Nat /\ N \in Nat /\ (O + 1) * PerName = a + PerName
    BY <1>9, <2>1, Times
  <2>3. (O + 1) * PerName <= N
    <3>1. O + 1 \in Nat
      BY <1>9
    <3> QED
      BY <1>9, <2>1, <3>1, Times
  <2>4. w[1] = 0 /\ a + PerName <= N /\ PerName = q + P
    BY <1>7, <2>1, <2>2, <2>3
  <2> HIDE DEF a, q, N, w
  <2>5. a + w[1] + q <= MaxBursts
    BY <2>1, <2>2, <2>4
  <2> QED
    BY <2>5 DEF a, q
<1>11. Budget(c, MaxBursts)
  <2> HIDE DEF w
  <2>1. Cardinality(Open(c.memo)) * PerName + w[Len(c.stack)] + Weight(Last(c.stack).key, Remaining(Last(c.stack))) <= MaxBursts
    BY <1>6, <1>8, <1>10
  <2> QED
    BY <1>7, <2>1 DEF Budget
<1> QED
  BY <1>4, <1>6, <1>11 DEF c

(* What a resolver passes through on its way.                              *)
Stages(k, c) ==
  {Calls(k, c)[n] : n \in 0..MaxBursts}
  \cup UNION {LET a == Calls(k, c)[n] IN {Step(k, a), Step(k, Step(k, a)), Step(k, Step(k, Step(k, a)))} : n \in 0..MaxBursts}

(* What holds at the start and of each next stage holds at the end.        *)
LEMMA Through ==
  ASSUME NEW k, NEW c, NEW I, c \in I, \A d \in I : Step(k, d) \in Stages(k, c) => Step(k, d) \in I
  PROVE  \A n \in 0..MaxBursts : Calls(k, c)[n] \in I
<1> DEFINE N == MaxBursts
           run == Calls(k, c)
           T == {n \in 0..N : run[n] \in I}
<1>1. N \in Nat
  BY PlacesAre
<1>2. run[0] = c /\ \A n \in 0..N : n # 0 => run[n] = Burst(k, run[n - 1])
  BY CallsAre
<1>3. \A n \in 0..N : LET a == run[n] IN {a, Step(k, a), Step(k, Step(k, a)), Step(k, Step(k, Step(k, a)))} \subseteq Stages(k, c)
  BY DEF Stages
<1> HIDE DEF N, run
<1>4. 0 \in T
  BY <1>1, <1>2
<1>5. ASSUME NEW n \in 0..N, n \in T, n # N
      PROVE  n + 1 \in T
  <2>1. n + 1 \in 0..N /\ n + 1 # 0 /\ (n + 1) - 1 = n
    BY <1>1, <1>5
  <2> DEFINE a == run[n]
             e == run[n + 1]
  <2>2. e = Step(k, Step(k, Step(k, Step(k, a))))
    BY <1>2, <2>1 DEF Burst
  <2>3. a \in I /\ e \in Stages(k, c) /\ {Step(k, a), Step(k, Step(k, a)), Step(k, Step(k, Step(k, a)))} \subseteq Stages(k, c)
    BY <1>3, <1>5, <2>1
  <2> HIDE DEF a, e
  <2>4. Step(k, a) \in I
    BY <2>3
  <2>5. Step(k, Step(k, a)) \in I
    BY <2>3, <2>4
  <2>6. Step(k, Step(k, Step(k, a))) \in I
    BY <2>3, <2>5
  <2>7. e \in I
    BY <2>2, <2>3, <2>6
  <2> QED
    BY <2>1, <2>7 DEF e
<1> HIDE DEF T
<1>6. \A n \in 0..N : n \in T
  BY <1>1, <1>4, <1>5, UpTo
<1> QED
  BY <1>6 DEF T, N, run

(* The first stage.                                                        *)
LEMMA StagesStart ==
  ASSUME NEW k, NEW c
  PROVE  c \in Stages(k, c)
<1>1. 0 \in 0..MaxBursts
  BY PlacesAre
<1>2. Calls(k, c)[0] \in Stages(k, c)
  BY <1>1 DEF Stages
<1> QED
  BY <1>2, CallsAre
------------------------------------------------------------------------------
(* Between two questions the resolver is not resolving anything.           *)
Rested(m) == MemoOK(m) /\ m.busy = {}

(* A new resolver is not resolving anything.                               *)
LEMMA NewMemoRests == Rested(NewMemo) /\ DOMAIN NewMemo.known = {} /\ NewMemo.parsed = {}
<1>1. /\ NewMemo.busy = {} /\ NewMemo.parsed = {} /\ NewMemo.outside = <<>> /\ NewMemo.known = <<>>
      /\ NewMemo = [known |-> NewMemo.known, busy |-> NewMemo.busy, parsed |-> NewMemo.parsed, outside |-> NewMemo.outside]
  BY DEF NewMemo
<1>2. DOMAIN <<>> = {}
  OBVIOUS
<1>3. Cardinality({}) = 0 /\ MaxExternal \in Nat
  BY FS_EmptySet, ExternalAssumption
<1> QED
  BY <1>1, <1>2, <1>3 DEF Rested, MemoOK

(* Every question for a name comes to an end, whatever circles the names   *)
(* make: within the steps that MaxBursts allows nothing is left on the     *)
(* stack, and no name is left as one that is being resolved                *)
(* (resolveLocalIdentifierBinding, resolveExportBinding).                  *)
THEOREM ResolverEnds ==
  ASSUME NEW k, IsWorkspace(k), NEW m, Rested(m), NEW key \in NameKeys, Indexed(k, key[2]), Unresolved(m, key)
  PROVE  LET end == Ended(k, Call(m, <<>>, key))
         IN  /\ end.stack = <<>> /\ Rested(end.memo)
             /\ \E n \in 0..MaxBursts : end = Calls(k, Call(m, <<>>, key))[n]
<1> DEFINE c == Call(m, <<>>, key)
<1>1. Good(k, c) /\ Budget(c, MaxBursts)
  BY Starting DEF Rested
<1> HIDE DEF c
<1>2. /\ Good(k, Ended(k, c)) /\ Ended(k, c).stack = <<>>
      /\ \E n \in 0..MaxBursts : Ended(k, c) = Calls(k, c)[n]
  BY <1>1, CallsEnd
<1>3. OnStack(<<>>) = {}
  BY EmptyIsList DEF OnStack
<1>4. Rested(Ended(k, c).memo)
  BY <1>2, <1>3 DEF Good, Rested
<1> QED
  BY <1>2, <1>4 DEF c

(* After a question the resolver rests again: one for a name,              *)
LEMMA ResolvedRests ==
  ASSUME NEW k, IsWorkspace(k), NEW m, Rested(m), NEW key \in NameKeys, Indexed(k, key[2])
  PROVE  Rested(Resolved(k, m, key).memo)
<1>1. CASE ~Unresolved(m, key)
  <2>1. Resolved(k, m, key).memo = m
    BY <1>1 DEF Resolved, Found
  <2> QED
    BY <2>1
<1>2. CASE Unresolved(m, key)
  <2> DEFINE e == Ended(k, Call(m, <<>>, key))
  <2>1. Rested(e.memo)
    BY <1>2, ResolverEnds
  <2>2. Resolved(k, m, key).memo = e.memo
    BY <1>2 DEF Resolved, Answered, Found
  <2> QED
    BY <2>1, <2>2
<1> QED
  BY <1>1, <1>2

(* for a tag,                                                              *)
LEMMA HostRests ==
  ASSUME NEW k, IsWorkspace(k), NEW m, Rested(m), NEW f, Indexed(k, f), NEW tag, tag[1] \in Identifiers
  PROVE  Rested(Host(k, m, f, tag).memo)
<1> DEFINE key == LocalKey(f, tag[1])
<1>1. key \in NameKeys /\ key[2] = f
  BY IndexedTree, NameKey
<1> HIDE DEF key
<1>2. Rested(Resolved(k, m, key).memo)
  BY <1>1, ResolvedRests
<1> QED
  BY <1>2 DEF Host, HostAt, Found, key

(* and for an element.                                                     *)
LEMMA HostForRests ==
  ASSUME NEW k, IsWorkspace(k), NEW f, Indexed(k, f), NEW i \in DOMAIN Tree(k, f).jsx, NEW m, Rested(m)
  PROVE  Rested(HostFor(k, m, f, Tree(k, f).jsx[i]).memo)
<1> DEFINE e == Tree(k, f).jsx[i]
           outer == Host(k, m, f, e.tag)
           inner == Host(k, outer.memo, f, e.as)
<1>1. e.tag # None /\ \A tag \in {e.tag, e.as} \ {None} : tag[1] \in Identifiers
  BY IndexedTree DEF IsTree
<1> HIDE DEF e
<1>2. Rested(outer.memo)
  BY <1>1, HostRests
<1>3. e.as # None => Rested(inner.memo)
  <2> HIDE DEF outer
  <2> QED
    BY <1>1, <1>2, HostRests
<1>4. HostFor(k, m, f, e).memo \in {m, outer.memo, inner.memo}
      /\ (e.as = None => HostFor(k, m, f, e).memo \in {m, outer.memo})
  <2> HIDE DEF outer, inner
  <2>1. e.dom => HostFor(k, m, f, e).memo = m
    BY DEF HostFor, Found
  <2>2. ~e.dom => HostFor(k, m, f, e) = HostAs(k, f, e, outer)
    BY DEF HostFor, outer
  <2>3. e.as = None => HostAs(k, f, e, outer) = outer
    BY DEF HostAs
  <2>4. e.as # None => HostAs(k, f, e, outer).memo = inner.memo
    BY DEF HostAs, Composed, Found, inner
  <2> QED
    BY <2>1, <2>2, <2>3, <2>4
<1> QED
  BY <1>2, <1>3, <1>4 DEF e
------------------------------------------------------------------------------
(* A build has at most the hosts of its elements, and its resolver rests.  *)
BuilderInv ==
  /\ TreeInv /\ Rested(memo)
  /\ page # NoFile => IsList(hosts) /\ Len(hosts) <= Len(Jsx(page))

(* A page has a tree of the workspace.                                     *)
LEMMA PageIs ==
  ASSUME TreeInv, page # NoFile
  PROVE  LET k == tracker.compilation
         IN  /\ IsWorkspace(k) /\ page \in Solids(k) /\ page \in Solid /\ Indexed(k, page) /\ Jsx(page) = Tree(k, page).jsx
             /\ Len(Jsx(page)) \in Nat /\ DOMAIN Jsx(page) = 1..Len(Jsx(page))
<1> DEFINE k == tracker.compilation
           t == k.solid[page]
<1>1. page \in Solids(k)
  BY DEF TreeInv
<1>2. IsWorkspace(k)
  BY DEF TreeInv, IInv, HandleOK, Typed, Handles, IsWorkspace
<1>3. page \in Solid
  BY <1>1, <1>2, CompilationFiles DEF IsWorkspace
<1>4. t \in Trees[page]
  BY <1>1, <1>2, <1>3 DEF WellTyped, TreeOf, HasTree, IsWorkspace
<1>5. Len(t.jsx) \in Nat /\ DOMAIN t.jsx = 1..Len(t.jsx)
  BY <1>3, <1>4, JsxAssumption
<1> QED
  BY <1>1, <1>2, <1>3, <1>5 DEF Indexed, Tree, Jsx

(* The element builder does what the element tree allows, with some host.  *)
LEMMA BuilderSteps ==
  /\ BuilderInit => TreeInit
  /\ [BuilderNext]_<<vars, builderVars>> => [TreeNext]_<<vars, treeVars>>
BY DEF BuilderInit, BuilderNext, TreeNext, Begin, Resolve, Finish, Edit, builderVars, treeVars

(* The invariant holds throughout.                                         *)
LEMMA BuilderInvHolds == BuilderSpec => []BuilderInv
<1>1. BuilderInit => BuilderInv
  <2>1. BuilderInit => TreeInit
    BY BuilderSteps
  <2>2. TreeInit => TreeInv
    BY InitIInv DEF TreeInit, TreeInv
  <2> QED
    BY <2>1, <2>2, NewMemoRests DEF BuilderInit, BuilderInv, TreeInit
<1>2. BuilderInv /\ [BuilderNext]_<<vars, builderVars>> => BuilderInv'
  <2> SUFFICES ASSUME BuilderInv, [BuilderNext]_<<vars, builderVars>>
               PROVE  BuilderInv'
    OBVIOUS
  <2> USE DEF BuilderInv
  <2>1. TreeInv'
    BY BuilderSteps, TreeInvKept
  <2>2. ASSUME NEW f \in Solid, Begin(f)
        PROVE  BuilderInv'
    <3>1. page' = f /\ hosts' = <<>> /\ tracker' = tracker /\ memo' = NewMemo /\ f \in Solids(tracker.compilation)
      BY <2>2 DEF Begin, Start, vars
    <3>2. IsList(<<>>) /\ Len(<<>>) = 0
      BY EmptyIsList
    <3>3. page' # NoFile => Len(Jsx(page)') \in Nat
      BY <2>1, PageIs
    <3> QED
      BY <2>1, <3>1, <3>2, <3>3, NewMemoRests
  <2>3. CASE Resolve
    <3> DEFINE k == tracker.compilation
               n == Len(hosts)
               r == HostFor(k, memo, page, Jsx(page)[n + 1])
    <3>1. page # NoFile /\ n < Len(Jsx(page)) /\ hosts' = Append(hosts, r.binding) /\ memo' = r.memo
          /\ page' = page /\ tracker' = tracker
      BY <2>3 DEF Resolve, Take, vars
    <3>2. /\ IsWorkspace(k) /\ Indexed(k, page) /\ Jsx(page) = Tree(k, page).jsx
          /\ Len(Jsx(page)) \in Nat /\ DOMAIN Jsx(page) = 1..Len(Jsx(page))
      BY <3>1, PageIs
    <3>3. n \in Nat /\ IsList(hosts)
      BY <3>1 DEF IsList
    <3>4. n + 1 \in DOMAIN Tree(k, page).jsx /\ n + 1 <= Len(Jsx(page))
      BY <3>1, <3>2, <3>3
    <3>5. Rested(r.memo)
      BY <3>2, <3>4, HostForRests
    <3> HIDE DEF r
    <3>6. IsList(hosts') /\ Len(hosts') = n + 1
      BY <3>1, <3>3, Appended
    <3>7. Jsx(page)' = Jsx(page)
      BY <3>1 DEF Jsx
    <3> QED
      BY <2>1, <3>1, <3>4, <3>5, <3>6, <3>7
  <2>4. CASE Finish
    BY <2>1, <2>4, NewMemoRests DEF Finish, Stop
  <2>5. CASE Edit
    BY <2>1, <2>5 DEF Edit, Alter, treeVars
  <2>6. CASE UNCHANGED <<vars, builderVars>>
    BY <2>1, <2>6 DEF vars, builderVars, Jsx
  <2> QED
    BY <2>2, <2>3, <2>4, <2>5, <2>6 DEF BuilderNext
<1> QED
  BY <1>1, <1>2, PTL DEF BuilderSpec

(* Between two questions a resolver is not resolving anything, and it has  *)
(* not parsed more modules than it may.                                    *)
THEOREM ResolverRests == BuilderSpec => []BuilderTypeOK
<1>1. BuilderInv => BuilderTypeOK
  <2> SUFFICES ASSUME BuilderInv
               PROVE  BuilderTypeOK
    OBVIOUS
  <2>1. page # NoFile => page \in Solids(tracker.compilation) /\ page \in Solid
    BY PageIs DEF BuilderInv
  <2> QED
    BY <2>1 DEF BuilderInv, BuilderTypeOK, Rested, MemoOK
<1> QED
  BY <1>1, BuilderInvHolds, PTL

(* The tree is in order with the hosts that the resolver finds, too        *)
(* (buildElementNodes).                                                    *)
THEOREM BuilderKeepsOrder == BuilderSpec => []ElementsStandInOrder
<1>1. BuilderSpec => TreeSpec
  BY BuilderSteps, PTL DEF BuilderSpec, TreeSpec
<1> QED
  BY <1>1, ElementsKeepOrder, PTL

------------------------------------------------------------------------------
(* What a key's meaning rests on.                                          *)

(* The keys of the files that can be looked into.                          *)
KeysOf(k) == {q \in AllKeys : Indexed(k, q[2])}

(* A list has the elements at its places.                                  *)
LEMMA ListHas ==
  ASSUME NEW s, IsList(s)
  PROVE  DOMAIN s = 1..Len(s) /\ ToSet(s) = {s[i] : i \in 1..Len(s)}
<1>1. DOMAIN s = 1..Len(s)
  <2>1. DOMAIN [i \in 1..Len(s) |-> s[i]] = 1..Len(s)
    OBVIOUS
  <2> QED
    BY <2>1 DEF IsList
<1> QED
  BY <1>1 DEF ToSet

(* A node refers to keys that can be looked into.                          *)
LEMMA RefersToKeys ==
  ASSUME NEW k, IsWorkspace(k), NEW f, Indexed(k, f), NEW x, NodeOK(k, x)
  PROVE  RefersTo(k, f, x) \subseteq KeysOf(k) /\ (IsMade(x) => RefersTo(k, f, x) = {})
<1>1. CASE IsMade(x)
  BY <1>1 DEF IsMade, RefersTo
<1>2. CASE IsLeaf(k, x)
  <2>1. Rested(NewMemo)
    BY NewMemoRests
  <2> DEFINE r == Key(k, NewMemo, f, x)
  <2>2. \/ r.binding \in AllKeys /\ Indexed(k, r.binding[2]) /\ RefersTo(k, f, x) = {r.binding}
        \/ RefersTo(k, f, x) = {}
        \/ x.form = "import" /\ x.of.file \in External /\ RefersTo(k, f, x) = {ImportKey(x.of.file, x.of.name)}
    BY <1>2, <2>1, Looking DEF Rested
  <2>3. ASSUME x.form = "import", x.of.file \in External
        PROVE  ImportKey(x.of.file, x.of.name) \in KeysOf(k)
    <3> DEFINE to == x.of.file
               n == x.of.name
    <3>1. Indexed(k, to) /\ to \in Solid \cup External /\ to # None
      BY <2>3, ExternalAssumption DEF Indexed
    <3>2. n \in Identifiers \cup {"*"}
      BY <1>2, <2>3 DEF IsLeaf
    <3> HIDE DEF to, n
    <3>3. ImportKey(to, n) = IF n = "*" THEN SpaceKey(to) ELSE ExportKey(to, n)
      BY <3>1 DEF ImportKey
    <3>4. SpaceKey(to) \in AllKeys /\ SpaceKey(to)[2] = to
      BY <3>1, KeyKinds
    <3>5. n # "*" => ExportKey(to, n) \in AllKeys /\ ExportKey(to, n)[2] = to
      BY <3>1, <3>2, NameKey DEF AllKeys
    <3>6. ImportKey(to, n) \in KeysOf(k)
      BY <3>1, <3>3, <3>4, <3>5 DEF KeysOf
    <3> QED
      BY <3>6 DEF to, n
  <2>4. ~IsMade(x)
    BY <1>2 DEF IsLeaf, IsMade
  <2> HIDE DEF r
  <2> QED
    BY <2>2, <2>3, <2>4 DEF KeysOf
<1> QED
  BY <1>1, <1>2 DEF NodeOK

(* So does a key, to those that its nodes refer to,                        *)
LEMMA RestsAreKeys ==
  ASSUME NEW k, IsWorkspace(k), NEW key \in KeysOf(k)
  PROVE  /\ Rests(k, key) \subseteq KeysOf(k)
         /\ \A t \in 1..Len(Terms(k, key)) : \A i \in 1..Len(Terms(k, key)[t]) :
              RefersTo(k, key[2], Terms(k, key)[t][i]) \subseteq Rests(k, key)
<1> DEFINE terms == Terms(k, key)
           f == key[2]
<1>1. key \in AllKeys /\ Indexed(k, f)
  BY DEF KeysOf
<1>2. IsList(terms) /\ \A t \in 1..Len(terms) : IsCode(k, terms[t])
  BY <1>1, TermsAreCode
<1>3. Rests(k, key) = UNION {UNION {RefersTo(k, f, x) : x \in ToSet(term)} : term \in ToSet(terms)}
  BY DEF Rests
<1>4. ToSet(terms) = {terms[t] : t \in 1..Len(terms)}
  BY <1>2, ListHas
<1>5. \A t \in 1..Len(terms) : ToSet(terms[t]) = {terms[t][i] : i \in 1..Len(terms[t])}
  BY <1>2, ListHas DEF IsCode
<1>6. \A t \in 1..Len(terms) : \A i \in 1..Len(terms[t]) : NodeOK(k, terms[t][i])
  BY <1>2 DEF IsCode
<1> HIDE DEF terms, f
<1>7. \A t \in 1..Len(terms) : \A i \in 1..Len(terms[t]) : RefersTo(k, f, terms[t][i]) \subseteq KeysOf(k)
  BY <1>1, <1>6, RefersToKeys
<1>8. Rests(k, key) \subseteq KeysOf(k)
  <2>1. ASSUME NEW q \in Rests(k, key)
        PROVE  q \in KeysOf(k)
    <3>1. PICK term \in ToSet(terms) : q \in UNION {RefersTo(k, f, x) : x \in ToSet(term)}
      BY <1>3, <2>1
    <3>2. PICK t \in 1..Len(terms) : term = terms[t]
      BY <1>4, <3>1
    <3>3. PICK x \in ToSet(term) : q \in RefersTo(k, f, x)
      BY <3>1
    <3>4. PICK i \in 1..Len(terms[t]) : x = terms[t][i]
      BY <1>5, <3>2, <3>3
    <3> QED
      BY <1>7, <3>3, <3>4
  <2> QED
    BY <2>1
<1>9. ASSUME NEW t \in 1..Len(terms), NEW i \in 1..Len(terms[t])
      PROVE  RefersTo(k, f, terms[t][i]) \subseteq Rests(k, key)
  <2>1. terms[t] \in ToSet(terms) /\ terms[t][i] \in ToSet(terms[t])
    BY <1>4, <1>5
  <2> QED
    BY <1>3, <2>1
<1> QED
  BY <1>8, <1>9 DEF terms, f

(* the next node of a frame among them.                                    *)
LEMMA FrameRests ==
  ASSUME NEW k, IsWorkspace(k), NEW fr, FrameOK(k, fr), Evaluating(k, fr)
  PROVE  fr.key \in KeysOf(k) /\ RefersTo(k, fr.key[2], NextNode(k, fr)) \subseteq Rests(k, fr.key)
<1>1. fr.key \in KeysOf(k)
  BY DEF FrameOK, KeysOf
<1>2. AtTerm(k, fr)
  BY DEF Evaluating
<1>3. fr.term \in 1..Len(Terms(k, fr.key))
  BY <1>2, FrameTerms
<1> DEFINE a == Len(fr.values)
           b == Len(TermOf(k, fr))
<1>4. a \in Nat /\ b \in 1..MaxNodes /\ MaxNodes \in Nat /\ a < b
  BY <1>2, FrameTerms, PlacesAre DEF Evaluating
<1> HIDE DEF a, b
<1>5. a + 1 \in 1..b
  BY <1>4
<1> QED
  BY <1>1, <1>3, <1>5, RestsAreKeys DEF a, b, NextNode, TermOf
------------------------------------------------------------------------------
(* Keys that rest on nothing outside.                                      *)
IsClosed(k, S) == \A q \in S : Rests(k, q) \subseteq S

(* The recursion of Reached is defined.                                    *)
LEMMA ReachedAre ==
  ASSUME NEW k, NEW keys
  PROVE  /\ Reached(k, keys)[0] = keys
         /\ \A n \in 0..Cardinality(AllKeys) : n # 0 => Reached(k, keys)[n] = More(k, Reached(k, keys)[n - 1])
<1> DEFINE N == Cardinality(AllKeys)
           B(d) == More(k, d)
           T == {n \in 0..N : \E f : f[0] = keys /\ \A i \in 1..n : f[i] = B(f[i - 1])}
           run == CHOOSE f : f = [n \in 0..N |-> IF n = 0 THEN keys ELSE B(f[n - 1])]
<1>1. N \in Nat
  BY KeysAreFinite, FS_CardinalityType
<1> HIDE DEF N, B
<1>2. 0 \in T
  <2> DEFINE f == [i \in {0} |-> keys]
  <2>1. f[0] = keys /\ 1..0 = {}
    OBVIOUS
  <2>2. \E g : g[0] = keys /\ \A i \in 1..0 : g[i] = B(g[i - 1])
    BY <2>1
  <2> QED
    BY <1>1, <2>2
<1>3. ASSUME NEW n \in 0..N, n \in T, n # N
      PROVE  n + 1 \in T
  <2>1. PICK f : f[0] = keys /\ \A i \in 1..n : f[i] = B(f[i - 1])
    BY <1>3
  <2> DEFINE g == [i \in 0..(n + 1) |-> IF i = n + 1 THEN B(f[n]) ELSE f[i]]
  <2>2. /\ 0 \in 0..(n + 1) /\ 0 # n + 1 /\ n + 1 \in 0..(n + 1) /\ n + 1 \in 0..N /\ (n + 1) - 1 = n
        /\ \A i \in 1..(n + 1) : i \in 0..(n + 1) /\ i - 1 \in 0..(n + 1) /\ i - 1 # n + 1 /\ (i = n + 1 \/ i \in 1..n)
    BY <1>1, <1>3
  <2>3. g[0] = keys /\ g[n + 1] = B(f[n]) /\ \A i \in 0..(n + 1) : i # n + 1 => g[i] = f[i]
    BY <2>1, <2>2
  <2> HIDE DEF g
  <2>4. \A i \in 1..(n + 1) : g[i] = B(g[i - 1])
    <3>1. ASSUME NEW i \in 1..(n + 1) PROVE g[i] = B(g[i - 1])
      <4>1. g[i - 1] = f[i - 1]
        BY <2>2, <2>3
      <4>2. CASE i = n + 1
        BY <2>2, <2>3, <4>1, <4>2
      <4>3. CASE i # n + 1
        BY <2>1, <2>2, <2>3, <4>1, <4>3
      <4> QED
        BY <4>2, <4>3
    <3> QED
      BY <3>1
  <2>5. \E f2 : f2[0] = keys /\ \A i \in 1..(n + 1) : f2[i] = B(f2[i - 1])
    BY <2>3, <2>4
  <2> QED
    BY <2>2, <2>5
<1>4. N \in T
  <2> HIDE DEF T
  <2>1. \A n \in 0..N : n \in T
    BY <1>1, <1>2, <1>3, UpTo
  <2> QED
    BY <1>1, <2>1
<1>5. \E f : f = [n \in 0..N |-> IF n = 0 THEN keys ELSE B(f[n - 1])]
  <2>1. PICK f : f[0] = keys /\ \A i \in 1..N : f[i] = B(f[i - 1])
    BY <1>4
  <2> DEFINE g == [n \in 0..N |-> f[n]]
  <2>2. \A n \in 0..N : g[n] = f[n] /\ (n # 0 => n - 1 \in 0..N /\ n \in 1..N)
    BY <1>1
  <2>3. g = [n \in 0..N |-> g[n]]
    OBVIOUS
  <2> HIDE DEF g
  <2>4. \A n \in 0..N : g[n] = IF n = 0 THEN keys ELSE B(g[n - 1])
    BY <2>1, <2>2
  <2>5. g = [n \in 0..N |-> IF n = 0 THEN keys ELSE B(g[n - 1])]
    BY <2>3, <2>4
  <2> QED
    BY <2>5
<1>6. run = [n \in 0..N |-> IF n = 0 THEN keys ELSE B(run[n - 1])]
  BY <1>5
<1>7. Reached(k, keys) = run
  BY DEF Reached, N, B
<1> HIDE DEF run
<1>8. \A n \in 0..N : run[n] = IF n = 0 THEN keys ELSE B(run[n - 1])
  BY <1>6
<1>9. run[0] = keys /\ \A n \in 0..N : n # 0 => run[n] = B(run[n - 1])
  BY <1>1, <1>8
<1> QED
  BY <1>7, <1>9 DEF N, B

(* What some keys rest on: the least closed set that has them.             *)
LEMMA RestsOnIs ==
  ASSUME NEW k, IsWorkspace(k), NEW keys \in SUBSET KeysOf(k)
  PROVE  /\ keys \subseteq RestsOn(k, keys) /\ RestsOn(k, keys) \subseteq KeysOf(k) /\ IsClosed(k, RestsOn(k, keys))
         /\ \A S : keys \subseteq S /\ IsClosed(k, S) => RestsOn(k, keys) \subseteq S
<1> DEFINE N == Cardinality(AllKeys)
           on == Reached(k, keys)
<1>1. IsFiniteSet(AllKeys) /\ N \in Nat
  BY KeysAreFinite, FS_CardinalityType
<1>2. on[0] = keys /\ \A n \in 0..N : n # 0 => on[n] = More(k, on[n - 1])
  BY ReachedAre
<1> HIDE DEF on, N
<1>3. \A S : S \subseteq More(k, S) /\ (IsClosed(k, S) => More(k, S) = S)
  BY DEF More, IsClosed
<1>4. \A S \in SUBSET KeysOf(k) : More(k, S) \in SUBSET KeysOf(k)
  BY RestsAreKeys DEF More
<1>5. \A n \in 0..N : keys \subseteq on[n] /\ on[n] \in SUBSET KeysOf(k)
  <2> DEFINE T == {n \in 0..N : keys \subseteq on[n] /\ on[n] \in SUBSET KeysOf(k)}
  <2>1. 0 \in T
    BY <1>1, <1>2
  <2>2. ASSUME NEW n \in 0..N, n \in T, n # N PROVE n + 1 \in T
    <3>1. n + 1 \in 0..N /\ n + 1 # 0 /\ (n + 1) - 1 = n
      BY <1>1, <2>2
    <3>2. on[n + 1] = More(k, on[n])
      BY <1>2, <3>1
    <3> QED
      BY <1>3, <1>4, <2>2, <3>1, <3>2
  <2> HIDE DEF T
  <2>3. \A n \in 0..N : n \in T
    BY <1>1, <2>1, <2>2, UpTo
  <2> QED
    BY <2>3 DEF T
<1>6. \E n \in 0..N : More(k, on[n]) = on[n]
  <2> SUFFICES ASSUME \A n \in 0..N : More(k, on[n]) # on[n]
               PROVE  FALSE
    OBVIOUS
  <2> DEFINE T == {n \in 0..N : n <= Cardinality(on[n])}
  <2>1. \A n \in 0..N : IsFiniteSet(on[n]) /\ Cardinality(on[n]) \in Nat
    <3>1. \A n \in 0..N : on[n] \in SUBSET AllKeys
      BY <1>5 DEF KeysOf
    <3> QED
      BY <1>1, <3>1, FS_Subset, FS_CardinalityType
  <2>2. \A n \in 0..N : LET S == More(k, on[n]) IN IsFiniteSet(S) /\ Cardinality(on[n]) + 1 <= Cardinality(S) /\ Cardinality(S) <= N
    <3>1. ASSUME NEW n \in 0..N
          PROVE  LET S == More(k, on[n]) IN IsFiniteSet(S) /\ Cardinality(on[n]) + 1 <= Cardinality(S) /\ Cardinality(S) <= N
      <4> DEFINE R == on[n]
                 S == More(k, R)
      <4>1. R \in SUBSET AllKeys /\ S \in SUBSET AllKeys /\ R \subseteq S /\ R # S
        BY <1>3, <1>4, <1>5 DEF KeysOf
      <4> HIDE DEF R, S
      <4>2. IsFiniteSet(R) /\ IsFiniteSet(S) /\ Cardinality(S) <= N /\ Cardinality(R) <= Cardinality(S)
            /\ Cardinality(R) \in Nat /\ Cardinality(S) \in Nat
        BY <1>1, <4>1, FS_Subset, FS_CardinalityType DEF N
      <4>3. Cardinality(R) # Cardinality(S)
        BY <4>1, <4>2, FS_Subset
      <4>4. Cardinality(R) + 1 <= Cardinality(S)
        BY <4>2, <4>3
      <4> QED
        BY <4>2, <4>4 DEF R, S
    <3> QED
      BY <3>1
  <2>3. 0 \in T
    <3>1. 0 \in 0..N
      BY <1>1
    <3> QED
      BY <2>1, <3>1
  <2>4. ASSUME NEW n \in 0..N, n \in T, n # N PROVE n + 1 \in T
    <3>1. n + 1 \in 0..N /\ n + 1 # 0 /\ (n + 1) - 1 = n /\ n \in Nat
      BY <1>1, <2>4
    <3>2. on[n + 1] = More(k, on[n])
      BY <1>2, <3>1
    <3>3. n <= Cardinality(on[n]) /\ Cardinality(on[n]) + 1 <= Cardinality(on[n + 1])
          /\ Cardinality(on[n]) \in Nat /\ Cardinality(on[n + 1]) \in Nat
      BY <2>1, <2>2, <2>4, <3>1, <3>2
    <3>4. n + 1 <= Cardinality(on[n + 1])
      BY <3>1, <3>3
    <3> QED
      BY <3>1, <3>4
  <2> HIDE DEF T
  <2>5. \A n \in 0..N : n \in T
    BY <1>1, <2>3, <2>4, UpTo
  <2>6. N \in 0..N /\ N <= Cardinality(on[N])
    BY <1>1, <2>5 DEF T
  <2> DEFINE a == Cardinality(on[N])
             b == Cardinality(More(k, on[N]))
  <2>7. a \in Nat /\ N <= a /\ a + 1 <= b /\ b <= N
    BY <2>1, <2>2, <2>6
  <2>8. b \in Nat
    BY <2>2, <2>6, FS_CardinalityType
  <2> HIDE DEF a, b
  <2> QED
    BY <1>1, <2>7, <2>8
<1>7. RestsOn(k, keys) = on[CHOOSE n \in 0..N : More(k, on[n]) = on[n]]
  BY DEF RestsOn, Closed, on, N
<1>8. PICK n \in 0..N : RestsOn(k, keys) = on[n] /\ More(k, on[n]) = on[n]
  BY <1>6, <1>7
<1>9. IsClosed(k, on[n])
  BY <1>8 DEF IsClosed, More
<1>10. ASSUME NEW S, keys \subseteq S, IsClosed(k, S)
       PROVE  on[n] \subseteq S
  <2> DEFINE T == {j \in 0..N : on[j] \subseteq S}
  <2>1. 0 \in T
    BY <1>1, <1>2, <1>10
  <2>2. ASSUME NEW j \in 0..N, j \in T, j # N PROVE j + 1 \in T
    <3>1. j + 1 \in 0..N /\ j + 1 # 0 /\ (j + 1) - 1 = j
      BY <1>1, <2>2
    <3>2. on[j + 1] = More(k, on[j]) /\ on[j] \subseteq S
      BY <1>2, <2>2, <3>1
    <3>3. More(k, on[j]) \subseteq S
      BY <1>10, <3>2 DEF More, IsClosed
    <3> QED
      BY <3>1, <3>2, <3>3
  <2> HIDE DEF T
  <2>3. \A j \in 0..N : j \in T
    BY <1>1, <2>1, <2>2, UpTo
  <2> QED
    BY <2>3 DEF T
<1> QED
  BY <1>5, <1>8, <1>9, <1>10

------------------------------------------------------------------------------
(* Keys that are clear, and their bindings.                                *)

(* A key whose meaning no memory can change: what it rests on goes round   *)
(* in no circle, and leads outside only while modules may be parsed.       *)
Clear(k, parsed, q) ==
  /\ q \in KeysOf(k) /\ ~Circular(k, RestsOn(k, {q}))
  /\ Cardinality(parsed) < MaxExternal \/ \A p \in RestsOn(k, {q}) : p[2] \notin External

(* What a clear key rests on is clear.                                     *)
LEMMA ClearRests ==
  ASSUME NEW k, IsWorkspace(k), NEW P, NEW q, Clear(k, P, q), NEW p \in Rests(k, q)
  PROVE  Clear(k, P, p)
<1>1. q \in KeysOf(k) /\ p \in KeysOf(k)
  BY RestsAreKeys DEF Clear
<1>2. q \in RestsOn(k, {q}) /\ IsClosed(k, RestsOn(k, {q}))
  BY <1>1, RestsOnIs
<1>3. {p} \subseteq RestsOn(k, {q})
  BY <1>2 DEF IsClosed
<1>4. RestsOn(k, {p}) \subseteq RestsOn(k, {q})
  BY <1>1, <1>2, <1>3, RestsOnIs
<1> QED
  BY <1>1, <1>4 DEF Clear, Circular

(* A key that is clear now was clear before more modules were parsed.      *)
LEMMA ClearBefore ==
  ASSUME NEW k, NEW P, NEW Q \in SUBSET External, P \subseteq Q, NEW q, Clear(k, Q, q)
  PROVE  Clear(k, P, q)
<1>1. P \in SUBSET External
  OBVIOUS
<1>2. IsFiniteSet(Q) /\ Cardinality(Q) \in Nat /\ Cardinality(P) \in Nat /\ Cardinality(P) <= Cardinality(Q)
  BY <1>1, ParsedIsFinite, FS_Subset
<1>3. Cardinality(Q) < MaxExternal => Cardinality(P) < MaxExternal
  BY <1>2, ExternalAssumption
<1> QED
  BY <1>3 DEF Clear

(* A clear key does not rest on itself.                                    *)
LEMMA ClearOff ==
  ASSUME NEW k, IsWorkspace(k), NEW P, NEW q, Clear(k, P, q)
  PROVE  q \notin RestsOn(k, Rests(k, q)) /\ q \notin Rests(k, q)
<1>1. q \in KeysOf(k)
  BY DEF Clear
<1>2. q \in RestsOn(k, {q}) /\ Rests(k, q) \subseteq RestsOn(k, Rests(k, q))
  BY <1>1, RestsAreKeys, RestsOnIs
<1> QED
  BY <1>2 DEF Clear, Circular

(* Each frame's key is among those that the key of the one below rests on. *)
LEMMA StackKeys ==
  ASSUME NEW k, IsWorkspace(k), NEW s, StackOK(k, s)
  PROVE  /\ Len(s) \in Nat /\ \A i \in 1..Len(s) : s[i].key \in KeysOf(k)
         /\ \A i \in 1..(Len(s) - 1) : s[i + 1].key \in Rests(k, s[i].key)
<1>1. Len(s) \in Nat /\ \A i \in 1..Len(s) : FrameOK(k, s[i])
  BY DEF StackOK, IsList
<1>2. \A i \in 1..(Len(s) - 1) : i \in 1..Len(s)
  BY <1>1
<1>3. \A i \in 1..(Len(s) - 1) : Waits(k, s[i], s[i + 1].key) /\ FrameOK(k, s[i])
  BY <1>1, <1>2 DEF StackOK
<1>4. ASSUME NEW i \in 1..(Len(s) - 1)
      PROVE  s[i + 1].key \in Rests(k, s[i].key)
  BY <1>3, FrameRests DEF Waits
<1> QED
  BY <1>1, <1>4 DEF FrameOK, KeysOf

(* Each key on the stack is what those before it rest on.                  *)
LEMMA Chained ==
  ASSUME NEW k, IsWorkspace(k), NEW s, StackOK(k, s), NEW i \in 1..Len(s)
  PROVE  \A j \in (i + 1)..Len(s) : s[j].key \in RestsOn(k, Rests(k, s[i].key))
<1> DEFINE n == Len(s)
           R == RestsOn(k, Rests(k, s[i].key))
           T == {d \in 0..(n - i) : d = 0 \/ s[i + d].key \in R}
<1>1. n \in Nat /\ i \in 1..n /\ n - i \in Nat
  BY StackKeys
<1>2. s[i].key \in KeysOf(k)
  BY StackKeys
<1>3. Rests(k, s[i].key) \subseteq R /\ IsClosed(k, R)
  BY <1>2, RestsAreKeys, RestsOnIs
<1>4. \A j \in 1..(n - 1) : s[j + 1].key \in Rests(k, s[j].key)
  BY StackKeys
<1> HIDE DEF n, R
<1>5. 0 \in T
  BY <1>1
<1>6. ASSUME NEW d \in 0..(n - i), d \in T, d # n - i
      PROVE  d + 1 \in T
  <2>1. d + 1 \in 0..(n - i) /\ i + d \in 1..(n - 1) /\ (i + d) + 1 = i + (d + 1) /\ i + 0 = i
    BY <1>1, <1>6
  <2>2. s[i + (d + 1)].key \in Rests(k, s[i + d].key)
    BY <1>4, <2>1
  <2>3. s[i + (d + 1)].key \in R
    <3>1. CASE d = 0
      BY <1>3, <2>1, <2>2, <3>1
    <3>2. CASE d # 0
      BY <1>3, <1>6, <2>2, <3>2 DEF IsClosed
    <3> QED
      BY <3>1, <3>2
  <2> QED
    BY <2>1, <2>3
<1> HIDE DEF T
<1>7. \A d \in 0..(n - i) : d \in T
  BY <1>1, <1>5, <1>6, UpTo
<1>8. ASSUME NEW j \in (i + 1)..n
      PROVE  s[j].key \in R
  <2>1. j - i \in 0..(n - i) /\ j - i # 0 /\ i + (j - i) = j
    BY <1>1, <1>8
  <2>2. j - i \in T
    BY <1>7, <2>1
  <2> QED
    BY <2>1, <2>2 DEF T
<1> QED
  BY <1>8 DEF n, R

(* A clear key is on the stack once.                                       *)
LEMMA ClearOnce ==
  ASSUME NEW k, IsWorkspace(k), NEW s, StackOK(k, s), NEW P, NEW i \in 1..Len(s), NEW j \in 1..Len(s),
         Clear(k, P, s[i].key), s[i].key = s[j].key
  PROVE  i = j
<1>1. s[i].key \notin RestsOn(k, Rests(k, s[i].key))
  BY ClearOff
<1>2. ~(i < j)
  <2>1. i < j => j \in (i + 1)..Len(s)
    BY StackKeys
  <2> QED
    BY <1>1, <2>1, Chained
<1>3. ~(j < i)
  <2>1. j < i => i \in (j + 1)..Len(s)
    BY StackKeys
  <2> QED
    BY <1>1, <2>1, Chained
<1>4. i \in Nat /\ j \in Nat
  BY StackKeys
<1> QED
  BY <1>2, <1>3, <1>4

(* What a clear key asks for is not being resolved.                        *)
LEMMA ClearAsks ==
  ASSUME NEW k, IsWorkspace(k), NEW s, StackOK(k, s), s # <<>>, NEW P, Clear(k, P, Last(s).key),
         Evaluating(k, Last(s)), NEW q, q \in RefersTo(k, Last(s).key[2], NextNode(k, Last(s)))
  PROVE  q \notin OnStack(s) /\ Clear(k, P, q)
<1> DEFINE n == Len(s)
           key == Last(s).key
<1>1. n \in Nat \ {0} /\ Last(s) = s[n] /\ FrameOK(k, Last(s))
  BY FrontOf
<1>2. q \in Rests(k, key)
  BY <1>1, FrameRests
<1>3. Clear(k, P, q)
  BY <1>2, ClearRests
<1>4. q \notin RestsOn(k, Rests(k, q)) /\ key \in KeysOf(k) /\ q \in KeysOf(k) /\ key \notin Rests(k, key)
  BY <1>3, ClearOff DEF Clear
<1>5. ASSUME NEW j \in 1..n, s[j].key = q
      PROVE  FALSE
  <2>1. CASE j = n
    BY <1>1, <1>2, <1>4, <1>5, <2>1
  <2>2. CASE j # n
    <3>1. n \in (j + 1)..n
      BY <1>1, <2>2
    <3>2. key \in RestsOn(k, Rests(k, q))
      BY <1>1, <1>5, <3>1, Chained
    <3>3. q \in RestsOn(k, Rests(k, q))
      BY <1>2, <1>4, <3>2, RestsAreKeys, RestsOnIs DEF IsClosed
    <3> QED
      BY <1>4, <3>3
  <2> QED
    BY <2>1, <2>2
<1>6. q \notin OnStack(s)
  BY <1>5 DEF OnStack
<1> QED
  BY <1>3, <1>6
------------------------------------------------------------------------------
(* The binding b of a node, given those of the nodes before it, where the  *)
(* others are as the memory says; of a term; of a key.                     *)
NodeIs(k, m, f, x, values, b) ==
  \/ IsMade(x) /\ b = Made(x, values)
  \/ ~IsMade(x) /\ RefersTo(k, f, x) = {} /\ b = None
  \/ ~IsMade(x) /\ \E q \in DOMAIN m.known : RefersTo(k, f, x) = {q} /\ b = m.known[q] /\ Opened(k, m, x)

Prefix(vs, n) == [j \in 1..n |-> vs[j]]
Values(k, m, f, term, vs) ==
  /\ IsList(vs) /\ Len(vs) <= Len(term)
  /\ \A i \in 1..Len(vs) : NodeIs(k, m, f, term[i], Prefix(vs, i - 1), vs[i])
Yields(k, m, f, term, b) ==
  \E vs : Values(k, m, f, term, vs) /\ Len(vs) = Len(term) /\ b = vs[Len(vs)]

Passed(k, m, key, t) == \A j \in 1..(t - 1) : Yields(k, m, key[2], Terms(k, key)[j], None)
Justified(k, m, key, b) ==
  \/ b = None /\ Passed(k, m, key, Len(Terms(k, key)) + 1)
  \/ b # None /\ \E t \in 1..Len(Terms(k, key)) :
                   Passed(k, m, key, t) /\ Yields(k, m, key[2], Terms(k, key)[t], b)
Partly(k, m, fr) ==
  /\ Passed(k, m, fr.key, fr.term)
  /\ AtTerm(k, fr) => Values(k, m, fr.key[2], TermOf(k, fr), fr.values)

(* A node has one binding,                                                 *)
LEMMA NodeOnce ==
  ASSUME NEW k, NEW m, NEW f, NEW x, NEW values, NEW a, NEW b, NodeIs(k, m, f, x, values, a), NodeIs(k, m, f, x, values, b)
  PROVE  a = b
<1>1. CASE IsMade(x)
  BY <1>1 DEF NodeIs
<1>2. CASE ~IsMade(x)
  BY <1>2 DEF NodeIs
<1> QED
  BY <1>1, <1>2

(* Two evaluations of a term agree as far as both go.                      *)
LEMMA ValuesAgree ==
  ASSUME NEW k, NEW m, NEW f, NEW term, NEW us, NEW vs, Values(k, m, f, term, us), Values(k, m, f, term, vs),
         Len(us) <= Len(vs)
  PROVE  \A n \in 0..Len(us) : Prefix(us, n) = Prefix(vs, n)
<1> DEFINE N == Len(us)
           M == Len(vs)
           T == {n \in 0..N : Prefix(us, n) = Prefix(vs, n)}
<1>1. N \in Nat /\ M \in Nat /\ N <= M
  BY DEF Values, IsList
<1>2. /\ \A i \in 1..N : NodeIs(k, m, f, term[i], Prefix(us, i - 1), us[i])
      /\ \A i \in 1..M : NodeIs(k, m, f, term[i], Prefix(vs, i - 1), vs[i])
  BY DEF Values
<1> HIDE DEF N, M
<1>3. 0 \in T
  <2>1. 1..0 = {}
    OBVIOUS
  <2>2. Prefix(us, 0) = Prefix(vs, 0)
    BY <2>1 DEF Prefix
  <2> QED
    BY <1>1, <2>2
<1>4. ASSUME NEW n \in 0..N, n \in T, n # N
      PROVE  n + 1 \in T
  <2>1. n + 1 \in 0..N /\ n + 1 \in 1..N /\ n + 1 \in 1..M /\ (n + 1) - 1 = n
        /\ \A j \in 1..(n + 1) : j = n + 1 \/ j \in 1..n
    BY <1>1, <1>4
  <2>2. Prefix(us, n) = Prefix(vs, n)
    BY <1>4
  <2>3. NodeIs(k, m, f, term[n + 1], Prefix(us, n), us[n + 1]) /\ NodeIs(k, m, f, term[n + 1], Prefix(vs, n), vs[n + 1])
    BY <1>2, <2>1
  <2>4. us[n + 1] = vs[n + 1]
    BY <2>2, <2>3, NodeOnce
  <2>5. \A j \in 1..n : us[j] = vs[j]
    <3>1. \A j \in 1..n : Prefix(us, n)[j] = us[j] /\ Prefix(vs, n)[j] = vs[j]
      BY DEF Prefix
    <3> QED
      BY <2>2, <3>1
  <2>6. \A j \in 1..(n + 1) : us[j] = vs[j]
    BY <2>1, <2>4, <2>5
  <2>7. Prefix(us, n + 1) = Prefix(vs, n + 1)
    BY <2>6 DEF Prefix
  <2> QED
    BY <2>1, <2>7
<1> HIDE DEF T
<1>5. \A n \in 0..N : n \in T
  BY <1>1, <1>3, <1>4, UpTo
<1> QED
  BY <1>5 DEF T, N

(* and so has a term.                                                      *)
LEMMA YieldsOnce ==
  ASSUME NEW k, NEW m, NEW f, NEW term, Len(term) \in Nat \ {0}, NEW a, NEW b,
         Yields(k, m, f, term, a), Yields(k, m, f, term, b)
  PROVE  a = b
<1> DEFINE n == Len(term)
<1>1. PICK us : Values(k, m, f, term, us) /\ Len(us) = n /\ a = us[Len(us)]
  BY DEF Yields
<1>2. PICK vs : Values(k, m, f, term, vs) /\ Len(vs) = n /\ b = vs[Len(vs)]
  BY DEF Yields
<1> HIDE DEF n
<1>3. n \in Nat \ {0} /\ n <= n /\ n \in 0..n /\ n \in 1..n
  BY DEF n
<1>4. Prefix(us, n) = Prefix(vs, n)
  BY <1>1, <1>2, <1>3, ValuesAgree
<1>5. Prefix(us, n)[n] = us[n] /\ Prefix(vs, n)[n] = vs[n]
  BY <1>3 DEF Prefix
<1> QED
  BY <1>1, <1>2, <1>4, <1>5

(* The prefix that is the whole.                                           *)
LEMMA WholePrefix ==
  ASSUME NEW s, IsList(s)
  PROVE  Prefix(s, Len(s)) = s
BY DEF IsList, Prefix

(* A key has finitely many terms, none of them empty.                      *)
LEMMA KeyTerms ==
  ASSUME NEW k, IsWorkspace(k), NEW key \in KeysOf(k)
  PROVE  /\ Len(Terms(k, key)) \in Nat
         /\ \A t \in 1..Len(Terms(k, key)) : Len(Terms(k, key)[t]) \in Nat \ {0}
<1>1. MaxNodes \in Nat
  BY PlacesAre
<1>2. Len(Terms(k, key)) \in 0..MaxNodes /\ \A t \in 1..Len(Terms(k, key)) : Len(Terms(k, key)[t]) \in 1..MaxNodes
  BY TermsAreCode DEF KeysOf, IsCode
<1> QED
  BY <1>1, <1>2

(* A key has one justified binding.                                        *)
LEMMA JustifiedOnce ==
  ASSUME NEW k, IsWorkspace(k), NEW m, NEW key \in KeysOf(k), NEW a, NEW b,
         Justified(k, m, key, a), Justified(k, m, key, b)
  PROVE  a = b
<1> DEFINE n == Len(Terms(k, key))
           Y(t, v) == Yields(k, m, key[2], Terms(k, key)[t], v)
<1>1. n \in Nat /\ \A t \in 1..n : Len(Terms(k, key)[t]) \in Nat \ {0}
  BY KeyTerms
<1>2. \A t \in 1..n : \A u, v : Y(t, u) /\ Y(t, v) => u = v
  BY <1>1, YieldsOnce
<1>3. \A v : Justified(k, m, key, v) =>
        \/ v = None /\ \A j \in 1..((n + 1) - 1) : Y(j, None)
        \/ v # None /\ \E t \in 1..n : (\A j \in 1..(t - 1) : Y(j, None)) /\ Y(t, v)
  BY DEF Justified, Passed
<1> HIDE DEF n, Y
<1>4. (n + 1) - 1 = n
  BY <1>1
<1>5. ASSUME NEW v, v # None, Justified(k, m, key, v), \A j \in 1..n : Y(j, None)
      PROVE  FALSE
  BY <1>2, <1>3, <1>5
<1>6. ASSUME a # None, b # None
      PROVE  a = b
  <2>1. PICK t \in 1..n : (\A j \in 1..(t - 1) : Y(j, None)) /\ Y(t, a)
    BY <1>3, <1>6
  <2>2. PICK u \in 1..n : (\A j \in 1..(u - 1) : Y(j, None)) /\ Y(u, b)
    BY <1>3, <1>6
  <2>3. t < u => t \in 1..(u - 1)
    BY <1>1
  <2>4. u < t => u \in 1..(t - 1)
    BY <1>1
  <2>5. t = u
    BY <1>1, <1>2, <1>6, <2>1, <2>2, <2>3, <2>4
  <2> QED
    BY <1>2, <2>1, <2>2, <2>5
<1> QED
  BY <1>3, <1>4, <1>5, <1>6

(* A frame on its way to a binding that is justified.                      *)
LEMMA NextIs ==
  ASSUME NEW k, IsWorkspace(k), NEW m, NEW fr, FrameOK(k, fr), Partly(k, m, fr), NEW b,
         Justified(k, m, fr.key, b), Evaluating(k, fr)
  PROVE  \E v : NodeIs(k, m, fr.key[2], NextNode(k, fr), fr.values, v)
<1> DEFINE key == fr.key
           terms == Terms(k, key)
           n == Len(terms)
           T == fr.term
           Y(t, v) == Yields(k, m, key[2], terms[t], v)
<1>1. n \in Nat /\ T \in 1..n /\ (\A t \in 1..n : Len(terms[t]) \in Nat \ {0})
  <2>1. AtTerm(k, fr) /\ key \in KeysOf(k)
    BY DEF Evaluating, FrameOK, KeysOf
  <2> QED
    BY <2>1, FrameTerms, KeyTerms
<1>2. \A t \in 1..n : \A u, v : Y(t, u) /\ Y(t, v) => u = v
  BY <1>1, YieldsOnce
<1>3. \A j \in 1..(T - 1) : Y(j, None)
  BY DEF Partly, Passed
<1>4. \/ \A j \in 1..((n + 1) - 1) : Y(j, None)
      \/ b # None /\ \E t \in 1..n : (\A j \in 1..(t - 1) : Y(j, None)) /\ Y(t, b)
  BY DEF Justified, Passed
<1>5. \E v : Y(T, v)
  <2> HIDE DEF n, Y, T
  <2>1. CASE \A j \in 1..((n + 1) - 1) : Y(j, None)
    <3>1. T \in 1..((n + 1) - 1)
      BY <1>1
    <3> QED
      BY <2>1, <3>1
  <2>2. CASE b # None /\ \E t \in 1..n : (\A j \in 1..(t - 1) : Y(j, None)) /\ Y(t, b)
    <3>1. PICK t \in 1..n : (\A j \in 1..(t - 1) : Y(j, None)) /\ Y(t, b)
      BY <2>2
    <3>2. CASE t = T
      BY <3>1, <3>2
    <3>3. CASE t < T
      <4>1. t \in 1..(T - 1)
        BY <1>1, <3>3
      <4> QED
        BY <1>2, <1>3, <2>2, <3>1, <4>1
    <3>4. CASE T < t
      <4>1. T \in 1..(t - 1)
        BY <1>1, <3>4
      <4> QED
        BY <3>1, <4>1
    <3> QED
      BY <1>1, <3>2, <3>3, <3>4
  <2> QED
    BY <1>4, <2>1, <2>2
<1> DEFINE term == TermOf(k, fr)
           us == fr.values
           l == Len(us)
<1>6. PICK vs : Values(k, m, key[2], term, vs) /\ Len(vs) = Len(term)
  BY <1>5 DEF Yields, TermOf
<1>7. Values(k, m, key[2], term, us) /\ l < Len(term) /\ l \in Nat /\ Len(term) \in Nat
  <2>1. AtTerm(k, fr)
    BY DEF Evaluating
  <2>2. Len(term) \in Nat
    BY <1>1 DEF TermOf
  <2> QED
    BY <2>1, <2>2, FrameTerms DEF Evaluating, Partly
<1> HIDE DEF term, key, us, l
<1>8. l <= Len(vs) /\ l \in 0..l /\ l + 1 \in 1..Len(vs) /\ (l + 1) - 1 = l
  BY <1>6, <1>7
<1>9. Prefix(us, l) = Prefix(vs, l)
  BY <1>6, <1>7, <1>8, ValuesAgree DEF l
<1>10. NodeIs(k, m, key[2], term[l + 1], Prefix(vs, l), vs[l + 1])
  BY <1>6, <1>8 DEF Values
<1>11. Prefix(us, l) = us
  BY <1>7, WholePrefix DEF Values, l
<1>12. term[l + 1] = NextNode(k, fr)
  BY DEF NextNode, term, l, us
<1> QED
  BY <1>9, <1>10, <1>11, <1>12 DEF key, us

(* A new frame is on its way,                                              *)
LEMMA FramePartly ==
  ASSUME NEW k, IsWorkspace(k), NEW m, NEW key, FrameOK(k, Frame(key))
  PROVE  Partly(k, m, Frame(key))
<1> DEFINE g == Frame(key)
<1>1. g.key = key /\ g.term = 1 /\ g.values = <<>>
  BY DEF Frame
<1> HIDE DEF g
<1>2. IsList(<<>>) /\ Len(<<>>) = 0 /\ 1..0 = {} /\ 1..(1 - 1) = {}
  BY EmptyIsList
<1>3. Passed(k, m, g.key, g.term)
  BY <1>1, <1>2 DEF Passed
<1>4. AtTerm(k, g) => Values(k, m, g.key[2], TermOf(k, g), g.values)
  <2>1. AtTerm(k, g) => Len(TermOf(k, g)) \in 1..MaxNodes /\ MaxNodes \in Nat
    BY FrameTerms, PlacesAre DEF g
  <2> QED
    BY <1>1, <1>2, <2>1 DEF Values
<1> QED
  BY <1>3, <1>4 DEF Partly, g

(* it stays so if it is given the binding of its next node,                *)
LEMMA GivenPartly ==
  ASSUME NEW k, IsWorkspace(k), NEW m, NEW fr, FrameOK(k, fr), Partly(k, m, fr), Evaluating(k, fr), NEW b,
         NodeIs(k, m, fr.key[2], NextNode(k, fr), fr.values, b)
  PROVE  Partly(k, m, Given(fr, b))
<1> DEFINE g == Given(fr, b)
           us == fr.values
           vs == g.values
           n == Len(us)
           term == TermOf(k, fr)
           f == fr.key[2]
<1>1. g.key = fr.key /\ g.term = fr.term /\ vs = Append(us, b) /\ Len(vs) = n + 1
  BY GivenOK
<1>2. AtTerm(k, fr) /\ n < Len(term) /\ n \in Nat /\ Len(term) \in 1..MaxNodes /\ MaxNodes \in Nat /\ IsList(us)
  BY FrameTerms, PlacesAre DEF Evaluating, FrameOK
<1>3. /\ IsList(us) /\ \A i \in 1..n : NodeIs(k, m, f, term[i], Prefix(us, i - 1), us[i])
  BY <1>2 DEF Partly, Values
<1>4. IsList(vs) /\ vs[n + 1] = b /\ \A i \in 1..n : vs[i] = us[i]
  BY <1>1, <1>2, Appended
<1>5. TermOf(k, g) = term
  BY <1>1 DEF TermOf
<1>6. Prefix(us, n) = us /\ term[n + 1] = NextNode(k, fr)
  BY <1>2, WholePrefix DEF NextNode
<1>7. NodeIs(k, m, f, term[n + 1], us, b)
  BY <1>6
<1> HIDE DEF g, us, vs, n, term, f
<1>8. \A i \in 1..(n + 1) : (i = n + 1 \/ i \in 1..n) /\ \A j \in 1..(i - 1) : j \in 1..n
  BY <1>2
<1>9. \A i \in 1..(n + 1) : Prefix(vs, i - 1) = Prefix(us, i - 1)
  BY <1>4, <1>8 DEF Prefix
<1>10. (n + 1) - 1 = n /\ n + 1 <= Len(term) /\ n + 1 \in 1..(n + 1)
  BY <1>2
<1>11. \A i \in 1..(n + 1) : NodeIs(k, m, f, term[i], Prefix(vs, i - 1), vs[i])
  <2>1. ASSUME NEW i \in 1..n
        PROVE  NodeIs(k, m, f, term[i], Prefix(vs, i - 1), vs[i])
    <3>1. i \in 1..(n + 1)
      BY <1>2
    <3> QED
      BY <1>3, <1>4, <1>9, <3>1
  <2>2. NodeIs(k, m, f, term[n + 1], Prefix(vs, (n + 1) - 1), vs[n + 1])
    BY <1>4, <1>6, <1>7, <1>9, <1>10
  <2> QED
    BY <1>8, <2>1, <2>2
<1>12. Values(k, m, f, term, vs)
  BY <1>1, <1>4, <1>10, <1>11 DEF Values
<1>13. Passed(k, m, g.key, g.term)
  BY <1>1 DEF Partly
<1> QED
  BY <1>1, <1>5, <1>12, <1>13 DEF Partly, g, vs, f

(* The values of a term that is done.                                      *)
LEMMA DoneYields ==
  ASSUME NEW k, IsWorkspace(k), NEW m, NEW fr, FrameOK(k, fr), Partly(k, m, fr), AtTerm(k, fr), ~Evaluating(k, fr)
  PROVE  Yields(k, m, fr.key[2], TermOf(k, fr), fr.values[Len(fr.values)])
<1>1. Len(fr.values) = Len(TermOf(k, fr))
  <2> DEFINE a == Len(fr.values)
             b == Len(TermOf(k, fr))
  <2>1. a \in Nat /\ b \in 1..MaxNodes /\ a \in 0..b /\ ~(a < b) /\ MaxNodes \in Nat
    BY FrameTerms, PlacesAre DEF Evaluating
  <2> HIDE DEF a, b
  <2>2. a = b
    BY <2>1
  <2> QED
    BY <2>2 DEF a, b
<1> QED
  BY <1>1 DEF Yields, Partly

(* and if it goes on to the next term,                                     *)
LEMMA RetryPartly ==
  ASSUME NEW k, IsWorkspace(k), NEW m, NEW fr, FrameOK(k, fr), Partly(k, m, fr), Retrying(k, fr)
  PROVE  Partly(k, m, Retry(fr))
<1> DEFINE g == Retry(fr)
           T == fr.term
<1>1. Yields(k, m, fr.key[2], Terms(k, fr.key)[T], None) /\ AtTerm(k, fr)
  BY DoneYields DEF Retrying, TermOf
<1>2. FrameOK(k, g) /\ g.key = fr.key /\ g.term = T + 1 /\ g.values = <<>>
  BY <1>1, RetryOK
<1>3. T \in Nat /\ \A j \in 1..((T + 1) - 1) : j = T \/ j \in 1..(T - 1)
  BY FrameTerms
<1> HIDE DEF g
<1>4. Passed(k, m, g.key, g.term)
  BY <1>1, <1>2, <1>3 DEF Partly, Passed
<1>5. IsList(<<>>) /\ Len(<<>>) = 0 /\ 1..0 = {}
  BY EmptyIsList
<1>6. AtTerm(k, g) => Values(k, m, g.key[2], TermOf(k, g), g.values)
  <2>1. AtTerm(k, g) => Len(TermOf(k, g)) \in 1..MaxNodes /\ MaxNodes \in Nat
    BY <1>2, FrameTerms, PlacesAre
  <2> QED
    BY <1>2, <1>5, <2>1 DEF Values
<1> QED
  BY <1>4, <1>6 DEF Partly, g

(* and what it returns is justified.                                       *)
LEMMA ReturnJustified ==
  ASSUME NEW k, IsWorkspace(k), NEW m, NEW fr, FrameOK(k, fr), Partly(k, m, fr), NEW b, Returning(k, fr, b)
  PROVE  Justified(k, m, fr.key, b)
<1> DEFINE n == Len(Terms(k, fr.key))
           T == fr.term
<1>1. T \in Nat /\ n \in 0..MaxNodes /\ MaxNodes \in Nat /\ T \in 1..(n + 1)
  BY FrameTerms, PlacesAre DEF FrameOK
<1>2. CASE ~AtTerm(k, fr) /\ b = None
  <2>1. ~(T <= n)
    BY <1>2 DEF AtTerm
  <2> HIDE DEF n, T
  <2>2. T = n + 1
    BY <1>1, <2>1
  <2> QED
    BY <1>2, <2>2 DEF Justified, Partly, n, T
<1>3. CASE AtTerm(k, fr) /\ ~Evaluating(k, fr) /\ b = fr.values[Len(fr.values)] /\ b # None
  <2>1. Yields(k, m, fr.key[2], TermOf(k, fr), b)
    BY <1>3, DoneYields
  <2>2. T \in 1..n
    BY <1>3, FrameTerms
  <2> QED
    BY <1>3, <2>1, <2>2 DEF Justified, Partly, TermOf
<1> QED
  BY <1>2, <1>3 DEF Returning
------------------------------------------------------------------------------
(* A memory that knows more, but for keys that are not clear.              *)
Grows(k, m, n) ==
  /\ m.parsed \subseteq n.parsed
  /\ \A q \in DOMAIN m.known : Clear(k, n.parsed, q) => q \in DOMAIN n.known /\ n.known[q] = m.known[q]

(* What is justified of a clear key stays so when more is known: the       *)
(* bindings of a term,                                                     *)
LEMMA GrowsYields ==
  ASSUME NEW k, IsWorkspace(k), NEW m, NEW n, Grows(k, m, n), NEW key, Clear(k, n.parsed, key),
         NEW t \in 1..Len(Terms(k, key))
  PROVE  /\ \A vs : Values(k, m, key[2], Terms(k, key)[t], vs) => Values(k, n, key[2], Terms(k, key)[t], vs)
         /\ \A b : Yields(k, m, key[2], Terms(k, key)[t], b) => Yields(k, n, key[2], Terms(k, key)[t], b)
<1> DEFINE term == Terms(k, key)[t]
           f == key[2]
<1>1. key \in KeysOf(k)
  BY DEF Clear
<1>2. \A i \in 1..Len(term) : RefersTo(k, f, term[i]) \subseteq Rests(k, key)
  BY <1>1, RestsAreKeys
<1>3. \A i \in 1..Len(term) : \A q \in RefersTo(k, f, term[i]) : Clear(k, n.parsed, q)
  BY <1>2, ClearRests
<1> HIDE DEF term, f
<1>4. \A i \in 1..Len(term) : \A us, b : NodeIs(k, m, f, term[i], us, b) => NodeIs(k, n, f, term[i], us, b)
  <2>1. ASSUME NEW i \in 1..Len(term), NEW us, NEW b, NodeIs(k, m, f, term[i], us, b)
        PROVE  NodeIs(k, n, f, term[i], us, b)
    <3> DEFINE x == term[i]
    <3>1. Opened(k, m, x) => Opened(k, n, x)
      BY DEF Opened, Grows
    <3>2. \A q \in RefersTo(k, f, x) : Clear(k, n.parsed, q)
      BY <1>3
    <3> HIDE DEF x
    <3>3. NodeIs(k, m, f, x, us, b)
      BY <2>1 DEF x
    <3>4. CASE ~IsMade(x) /\ \E q \in DOMAIN m.known : RefersTo(k, f, x) = {q} /\ b = m.known[q] /\ Opened(k, m, x)
      <4>1. PICK q \in DOMAIN m.known : RefersTo(k, f, x) = {q} /\ b = m.known[q] /\ Opened(k, m, x)
        BY <3>4
      <4>2. q \in DOMAIN n.known /\ n.known[q] = b
        BY <3>2, <4>1 DEF Grows
      <4> QED
        BY <3>1, <3>4, <4>1, <4>2 DEF NodeIs, x
    <3> QED
      BY <3>3, <3>4 DEF NodeIs, x
  <2> QED
    BY <2>1
<1>5. \A vs : Values(k, m, f, term, vs) => Values(k, n, f, term, vs)
  <2>1. ASSUME NEW vs, Values(k, m, f, term, vs)
        PROVE  Values(k, n, f, term, vs)
    <3>1. \A i \in 1..Len(vs) : i \in 1..Len(term)
      <4>1. Len(vs) \in Nat /\ Len(vs) <= Len(term) /\ Len(term) \in Nat
        BY <1>1, <2>1, KeyTerms DEF Values, IsList, term
      <4> QED
        BY <4>1
    <3> QED
      BY <1>4, <2>1, <3>1 DEF Values
  <2> QED
    BY <2>1
<1>6. \A b : Yields(k, m, f, term, b) => Yields(k, n, f, term, b)
  BY <1>5 DEF Yields
<1> QED
  BY <1>5, <1>6 DEF term, f

(* that of the key,                                                        *)
LEMMA GrowsJustified ==
  ASSUME NEW k, IsWorkspace(k), NEW m, NEW n, Grows(k, m, n), NEW key, Clear(k, n.parsed, key), NEW b,
         Justified(k, m, key, b)
  PROVE  Justified(k, n, key, b)
<1> DEFINE N == Len(Terms(k, key))
<1>1. N \in Nat
  BY KeyTerms DEF Clear
<1>2. \A t \in 1..N : \A v : Yields(k, m, key[2], Terms(k, key)[t], v) => Yields(k, n, key[2], Terms(k, key)[t], v)
  BY GrowsYields
<1>3. \A t \in 1..(N + 1) : \A j \in 1..(t - 1) : j \in 1..N
  BY <1>1
<1>4. \A t \in 1..(N + 1) : Passed(k, m, key, t) => Passed(k, n, key, t)
  BY <1>2, <1>3 DEF Passed
<1>5. N + 1 \in 1..(N + 1) /\ \A t \in 1..N : t \in 1..(N + 1)
  BY <1>1
<1> QED
  BY <1>2, <1>4, <1>5 DEF Justified

(* and a frame on its way.                                                 *)
LEMMA GrowsPartly ==
  ASSUME NEW k, IsWorkspace(k), NEW m, NEW n, Grows(k, m, n), NEW fr, FrameOK(k, fr), Clear(k, n.parsed, fr.key),
         Partly(k, m, fr)
  PROVE  Partly(k, n, fr)
<1> DEFINE N == Len(Terms(k, fr.key))
           key == fr.key
<1>1. N \in Nat
  BY KeyTerms DEF Clear
<1>2. \A t \in 1..N :
        /\ \A vs : Values(k, m, key[2], Terms(k, key)[t], vs) => Values(k, n, key[2], Terms(k, key)[t], vs)
        /\ \A v : Yields(k, m, key[2], Terms(k, key)[t], v) => Yields(k, n, key[2], Terms(k, key)[t], v)
  BY GrowsYields
<1>3. \A t \in 1..(N + 1) : \A j \in 1..(t - 1) : j \in 1..N
  BY <1>1
<1>4. \A t \in 1..(N + 1) : Passed(k, m, key, t) => Passed(k, n, key, t)
  BY <1>2, <1>3 DEF Passed
<1>5. fr.term \in 1..(N + 1) /\ (AtTerm(k, fr) => fr.term \in 1..N)
  BY FrameTerms DEF FrameOK
<1> QED
  BY <1>2, <1>4, <1>5 DEF Partly, TermOf

(* What a clear key is told of a node that is looked up without a call.    *)
LEMMA KnownIs ==
  ASSUME NEW k, IsWorkspace(k), NEW c, Good(k, c), c.stack # <<>>,
         Evaluating(k, Last(c.stack)), ~IsMade(NextNode(k, Last(c.stack))), IsLeaf(k, NextNode(k, Last(c.stack)))
  PROVE  LET fr == Last(c.stack)
             x == NextNode(k, fr)
             at == Key(k, c.memo, fr.key[2], x)
         IN  /\ ~Unresolved(at.memo, at.binding) /\ Clear(k, at.memo.parsed, fr.key) =>
                  NodeIs(k, at.memo, fr.key[2], x, fr.values, Known(at.memo, at.binding))
             /\ Unresolved(at.memo, at.binding) => /\ Opened(k, at.memo, x) /\ at.binding \in AllKeys
                                                  /\ Indexed(k, at.binding[2]) /\ Waits(k, fr, at.binding)
<1> DEFINE fr == Last(c.stack)
           x == NextNode(k, fr)
           f == fr.key[2]
           at == Key(k, c.memo, f, x)
           q == at.binding
           m == at.memo
<1>1. FrameOK(k, fr) /\ MemoOK(c.memo) /\ StackOK(k, c.stack)
  BY LastOK DEF Good
<1>2. fr.key \in KeysOf(k) /\ Indexed(k, f) /\ RefersTo(k, f, x) \subseteq Rests(k, fr.key)
  BY <1>1, FrameRests DEF FrameOK
<1>3. /\ Locates(c.memo, m)
      /\ \/ /\ q \in AllKeys /\ Indexed(k, q[2]) /\ RefersTo(k, f, x) = {q}
            /\ Opened(k, m, x)
         \/ /\ q = None
            /\ \/ RefersTo(k, f, x) = {}
               \/ /\ x.form = "import" /\ x.of.file \in External /\ Cardinality(m.parsed) = MaxExternal
                  /\ RefersTo(k, f, x) = {ImportKey(x.of.file, x.of.name)}
                  /\ ImportKey(x.of.file, x.of.name)[2] \in External
  <2> HIDE DEF x, f
  <2> QED
    BY <1>1, <1>2, Looking DEF x, f
<1>4. m.busy \subseteq OnStack(c.stack)
  BY <1>3 DEF Good, Locates
<1>5. Evaluating(k, fr) /\ ~IsMade(x) /\ c.stack # <<>>
  OBVIOUS
<1> HIDE DEF m, q, at, x, f, fr
<1>6. ASSUME ~Unresolved(m, q), Clear(k, m.parsed, fr.key)
      PROVE  NodeIs(k, m, f, x, fr.values, Known(m, q))
  <2>1. CASE q \in AllKeys /\ RefersTo(k, f, x) = {q} /\ Opened(k, m, x)
    <3>1. q # None
      BY <2>1, NoKeyAssumption
    <3>2. q \notin OnStack(c.stack)
      BY <1>1, <1>5, <1>6, <2>1, ClearAsks DEF x, f, fr
    <3>3. q \in DOMAIN m.known
      BY <1>4, <1>6, <3>1, <3>2 DEF Unresolved, Remembered
    <3>4. Remembered(m, q) = {q}
      BY <3>3 DEF Remembered
    <3>5. Known(m, q) = m.known[q]
      BY <3>1, <3>4 DEF Known
    <3> QED
      BY <1>5, <2>1, <3>3, <3>5 DEF NodeIs
  <2>2. CASE q = None /\ RefersTo(k, f, x) = {}
    <3>1. Known(m, q) = None
      BY <2>2 DEF Known
    <3> QED
      BY <1>5, <2>2, <3>1 DEF NodeIs
  <2>3. CASE Cardinality(m.parsed) = MaxExternal /\ \E p \in RefersTo(k, f, x) : p[2] \in External
    <3>1. PICK p \in Rests(k, fr.key) : p[2] \in External
      BY <1>2, <2>3
    <3>2. p \in RestsOn(k, {fr.key})
      BY <1>2, <3>1, RestsOnIs DEF IsClosed
    <3>3. ~(Cardinality(m.parsed) < MaxExternal)
      BY <2>3, ExternalAssumption
    <3> QED
      BY <1>6, <3>1, <3>2, <3>3 DEF Clear
  <2> QED
    BY <1>3, <2>1, <2>2, <2>3
<1>7. ASSUME Unresolved(m, q)
      PROVE  Opened(k, m, x) /\ q \in AllKeys /\ Indexed(k, q[2]) /\ Waits(k, fr, q)
  BY <1>3, <1>5, <1>7 DEF Unresolved, Waits, x, f
<1> QED
  BY <1>6, <1>7 DEF m, q, at, x, f, fr
------------------------------------------------------------------------------
(* What is remembered of clear keys is justified.                          *)
SoundMemo(k, m) == \A q \in DOMAIN m.known : Clear(k, m.parsed, q) => Justified(k, m, q, m.known[q])
Fixed(k, m, q) == q \in NameKeys \/ Clear(k, m.parsed, q)
Sound(k, c) ==
  /\ Good(k, c) /\ SoundMemo(k, c.memo)
  /\ \A i \in 1..Len(c.stack) : Fixed(k, c.memo, c.stack[i].key) => c.stack[i].key \notin DOMAIN c.memo.known
  /\ \A i \in 1..Len(c.stack) : Clear(k, c.memo.parsed, c.stack[i].key) => Partly(k, c.memo, c.stack[i])
  /\ \A i \in 1..(Len(c.stack) - 1) : Opened(k, c.memo, NextNode(k, c.stack[i]))

(* The bindings of names stay.                                             *)
Keeps(m, n) ==
  /\ m.parsed \subseteq n.parsed
  /\ \A q \in NameKeys \cap DOMAIN m.known : q \in DOMAIN n.known /\ n.known[q] = m.known[q]
Answers(c, key) == key \in OnStack(c.stack) \cup DOMAIN c.memo.known

(* A sound memory stays sound when more is known.                          *)
LEMMA GrowsSound ==
  ASSUME NEW k, IsWorkspace(k), NEW m, NEW n, n.parsed \in SUBSET External, Grows(k, m, n), SoundMemo(k, m),
         NEW q \in DOMAIN m.known, Clear(k, n.parsed, q)
  PROVE  q \in DOMAIN n.known /\ Justified(k, n, q, n.known[q])
<1>1. Clear(k, m.parsed, q)
  BY ClearBefore DEF Grows
<1>2. Justified(k, m, q, m.known[q])
  BY <1>1 DEF SoundMemo
<1>3. q \in DOMAIN n.known /\ n.known[q] = m.known[q]
  BY DEF Grows
<1> QED
  BY <1>2, <1>3, GrowsJustified

(* The calls stay sound when the top goes on,                              *)
LEMMA OnTopSound ==
  ASSUME NEW k, IsWorkspace(k), NEW c, Sound(k, c), c.stack # <<>>, NEW m, Locates(c.memo, m),
         NEW fr, FrameOK(k, fr), fr.key = Last(c.stack).key, Clear(k, m.parsed, fr.key) => Partly(k, m, fr)
  PROVE  LET d == OnTop(c, m, fr)
         IN  Sound(k, d) /\ Keeps(c.memo, d.memo) /\ \A key : Answers(c, key) => Answers(d, key)
<1> DEFINE d == OnTop(c, m, fr)
           s == c.stack
           n == Len(s)
           t == d.stack
<1>1. Good(k, c) /\ SoundMemo(k, c.memo) /\ IsList(s)
  BY DEF Sound, Good, StackOK
<1>2. Good(k, d) /\ d.memo = m /\ t = Append(Front(s), fr) /\ OnStack(t) = OnStack(s)
  BY <1>1, OnTopGood
<1>3. Len(t) = n /\ n \in Nat \ {0} /\ \A i \in 1..n : t[i] = IF i = n THEN fr ELSE s[i]
  BY <1>1, <1>2, Topped
<1>4. m.known = c.memo.known /\ c.memo.parsed \subseteq m.parsed /\ m.parsed \in SUBSET External
  BY DEF Locates, MemoOK
<1>5. Grows(k, c.memo, m) /\ Keeps(c.memo, m)
  BY <1>4 DEF Grows, Keeps
<1>6. fr.key = s[n].key
  BY DEF Last
<1>7. /\ \A i \in 1..n : Fixed(k, c.memo, s[i].key) => s[i].key \notin DOMAIN c.memo.known
      /\ \A i \in 1..n : Clear(k, c.memo.parsed, s[i].key) => Partly(k, c.memo, s[i])
      /\ \A i \in 1..(n - 1) : Opened(k, c.memo, NextNode(k, s[i]))
      /\ \A i \in 1..n : FrameOK(k, s[i])
  BY <1>1 DEF Sound, Good, StackOK
<1> HIDE DEF d, s, n, t
<1>8. \A i \in 1..n : t[i].key = s[i].key
  BY <1>3, <1>6
<1>9. \A q : Clear(k, m.parsed, q) => Clear(k, c.memo.parsed, q)
  BY <1>4, ClearBefore
<1>10. SoundMemo(k, m)
  BY <1>1, <1>4, <1>5, GrowsSound DEF SoundMemo
<1>11. \A i \in 1..n : Fixed(k, m, t[i].key) => t[i].key \notin DOMAIN m.known
  BY <1>4, <1>7, <1>8, <1>9 DEF Fixed
<1>12. ASSUME NEW i \in 1..n, Clear(k, m.parsed, t[i].key)
       PROVE  Partly(k, m, t[i])
  <2>1. CASE i = n
    BY <1>3, <1>12, <2>1
  <2>2. CASE i # n
    <3>1. t[i] = s[i] /\ FrameOK(k, s[i]) /\ Clear(k, m.parsed, s[i].key)
      BY <1>3, <1>7, <1>12, <2>2
    <3>2. Partly(k, c.memo, s[i])
      BY <1>7, <1>9, <3>1
    <3> QED
      BY <1>5, <3>1, <3>2, GrowsPartly
  <2> QED
    BY <2>1, <2>2
<1>13. \A i \in 1..(n - 1) : Opened(k, m, NextNode(k, t[i]))
  <2>1. \A i \in 1..(n - 1) : i \in 1..n /\ i # n
    BY <1>3
  <2>2. \A i \in 1..(n - 1) : t[i] = s[i]
    BY <1>3, <2>1
  <2> QED
    BY <1>4, <1>7, <2>2 DEF Opened
<1>14. Sound(k, d)
  BY <1>2, <1>3, <1>10, <1>11, <1>12, <1>13 DEF Sound, t
<1>15. \A key : Answers(c, key) => Answers(d, key)
  BY <1>2, <1>4 DEF Answers, s, t
<1> QED
  BY <1>2, <1>5, <1>14, <1>15 DEF d

(* when it calls,                                                          *)
LEMMA CallSound ==
  ASSUME NEW k, IsWorkspace(k), NEW c, Good(k, c), Sound(k, c), NEW m, Locates(c.memo, m),
         NEW key \in AllKeys, Indexed(k, key[2]), Unresolved(m, key),
         c.stack # <<>> => Waits(k, Last(c.stack), key) /\ Opened(k, m, NextNode(k, Last(c.stack)))
  PROVE  LET d == Call(m, c.stack, key)
         IN  /\ Sound(k, d) /\ Keeps(c.memo, d.memo) /\ Answers(d, key)
             /\ \A q : Answers(c, q) => Answers(d, q)
<1> DEFINE d == Call(m, c.stack, key)
           s == c.stack
           n == Len(s)
           t == d.stack
<1>1. Good(k, c) /\ SoundMemo(k, c.memo) /\ IsList(s) /\ StackOK(k, s)
  BY DEF Sound, Good, StackOK
<1>2. MemoOK(m) /\ m.busy = OnStack(s) \cap NameKeys
  BY <1>1 DEF Locates, Good
<1>3. /\ Good(k, d) /\ d.memo = Entered(m, key) /\ t = Append(s, Frame(key)) /\ OnStack(t) = OnStack(s) \cup {key}
      /\ key \notin DOMAIN m.known /\ FrameOK(k, Frame(key))
  BY <1>1, <1>2, CallGood
<1>4. /\ d.memo.known = m.known /\ d.memo.parsed = m.parsed
      /\ m.known = c.memo.known /\ c.memo.parsed \subseteq m.parsed /\ m.parsed \in SUBSET External
  BY <1>2, <1>3, EnteredIs DEF Locates, MemoOK
<1>5. Grows(k, c.memo, d.memo) /\ Keeps(c.memo, d.memo)
  BY <1>4 DEF Grows, Keeps
<1>6. Len(t) = n + 1 /\ n \in Nat /\ t[n + 1] = Frame(key) /\ \A i \in 1..n : t[i] = s[i]
  BY <1>1, <1>3, Appended DEF IsList
<1>7. /\ \A i \in 1..n : Fixed(k, c.memo, s[i].key) => s[i].key \notin DOMAIN c.memo.known
      /\ \A i \in 1..n : Clear(k, c.memo.parsed, s[i].key) => Partly(k, c.memo, s[i])
      /\ \A i \in 1..(n - 1) : Opened(k, c.memo, NextNode(k, s[i]))
      /\ \A i \in 1..n : FrameOK(k, s[i])
  BY <1>1 DEF Sound, Good, StackOK
<1>8. n # 0 => s # <<>> /\ Last(s) = s[n]
  BY EmptyIsList DEF Last
<1>9. Frame(key).key = key
  BY DEF Frame
<1> HIDE DEF d, s, n, t
<1>10. \A q : Clear(k, d.memo.parsed, q) => Clear(k, c.memo.parsed, q)
  BY <1>4, ClearBefore
<1>11. SoundMemo(k, d.memo)
  BY <1>1, <1>4, <1>5, GrowsSound DEF SoundMemo
<1>12. \A i \in 1..(n + 1) : i = n + 1 \/ i \in 1..n
  BY <1>6
<1>13. \A i \in 1..(n + 1) : Fixed(k, d.memo, t[i].key) => t[i].key \notin DOMAIN d.memo.known
  BY <1>3, <1>4, <1>6, <1>7, <1>9, <1>10, <1>12 DEF Fixed
<1>14. ASSUME NEW i \in 1..(n + 1), Clear(k, d.memo.parsed, t[i].key)
       PROVE  Partly(k, d.memo, t[i])
  <2>1. CASE i = n + 1
    BY <1>3, <1>6, <2>1, FramePartly
  <2>2. CASE i \in 1..n
    BY <1>5, <1>6, <1>7, <1>10, <1>14, <2>2, GrowsPartly
  <2> QED
    BY <1>12, <2>1, <2>2
<1>15. ASSUME NEW i \in 1..n
       PROVE  Opened(k, d.memo, NextNode(k, t[i]))
  <2>1. CASE i = n
    <3>1. n # 0
      BY <1>6
    <3>2. Opened(k, m, NextNode(k, s[n]))
      BY <1>8, <3>1 DEF s
    <3> QED
      BY <1>4, <1>6, <2>1, <3>2 DEF Opened
  <2>2. CASE i # n
    <3>1. i \in 1..(n - 1)
      BY <1>6, <2>2
    <3> QED
      BY <1>4, <1>6, <1>7, <3>1 DEF Opened
  <2> QED
    BY <2>1, <2>2
<1>16. (n + 1) - 1 = n
  BY <1>6
<1>17. Sound(k, d)
  BY <1>3, <1>6, <1>11, <1>13, <1>14, <1>15, <1>16 DEF Sound, t
<1>18. Answers(d, key) /\ \A q : Answers(c, q) => Answers(d, q)
  BY <1>3, <1>4 DEF Answers, s, t
<1> QED
  BY <1>5, <1>17, <1>18 DEF d

(* when it returns,                                                        *)
LEMMA ReturnSound ==
  ASSUME NEW k, IsWorkspace(k), NEW c, Sound(k, c), c.stack # <<>>, NEW b, Returning(k, Last(c.stack), b)
  PROVE  LET d == Return(c, b)
         IN  Sound(k, d) /\ Keeps(c.memo, d.memo) /\ \A key : Answers(c, key) => Answers(d, key)
<1> DEFINE d == Return(c, b)
           s == c.stack
           n == Len(s)
           t == d.stack
           fr == Last(s)
           key == fr.key
           m == c.memo
           mm == d.memo
<1>1. Good(k, c) /\ SoundMemo(k, m) /\ IsList(s) /\ StackOK(k, s) /\ MemoOK(m)
  BY DEF Sound, Good, StackOK
<1>2. Good(k, d) /\ mm = Left(m, key, b) /\ t = Callers(s, b)
  BY <1>1, ReturnGood
<1>3. /\ Len(t) = n - 1 /\ n \in Nat \ {0}
      /\ \A i \in 1..(n - 1) : t[i] = IF i = n - 1 THEN Given(s[i], b) ELSE s[i]
  BY <1>1, <1>2, PopIs
<1>4. mm.known = Put(m.known, key, b) /\ mm.parsed = m.parsed
  BY <1>1, <1>2, LeftIs
<1>5. /\ \A i \in 1..n : Fixed(k, m, s[i].key) => s[i].key \notin DOMAIN m.known
      /\ \A i \in 1..n : Clear(k, m.parsed, s[i].key) => Partly(k, m, s[i])
      /\ \A i \in 1..(n - 1) : Opened(k, m, NextNode(k, s[i]))
      /\ \A i \in 1..n : FrameOK(k, s[i])
      /\ \A i \in 1..(n - 1) : Waits(k, s[i], s[i + 1].key)
      /\ \A i, j \in 1..n : i # j /\ s[i].key = s[j].key => s[i].key \notin NameKeys
      /\ fr = s[n]
  BY <1>1 DEF Sound, Good, StackOK, Last
<1>6. Returning(k, fr, b)
  OBVIOUS
<1>7. \A i, j \in 1..n : Clear(k, m.parsed, s[i].key) /\ s[i].key = s[j].key => i = j
  BY <1>1, ClearOnce
<1> HIDE DEF d, s, n, t, fr, m, mm
<1>8. n \in 1..n /\ (\A i \in 1..(n - 1) : i \in 1..n /\ i + 1 \in 1..n /\ i # n) /\ \A i \in 1..n : i = n \/ i \in 1..(n - 1)
  BY <1>3
<1>9. /\ DOMAIN mm.known = DOMAIN m.known \cup {key} /\ mm.known[key] = b
      /\ \A q \in DOMAIN m.known : q # key => mm.known[q] = m.known[q]
  BY <1>4 DEF Put
<1>10. Fixed(k, m, key) => key \notin DOMAIN m.known
  BY <1>5, <1>8
<1>11. Grows(k, m, mm) /\ Keeps(m, mm)
  BY <1>4, <1>9, <1>10 DEF Grows, Keeps, Fixed
<1>12. mm.parsed \in SUBSET External
  BY <1>1, <1>4 DEF MemoOK
<1>13. SoundMemo(k, mm)
  <2>1. ASSUME Clear(k, mm.parsed, key)
        PROVE  Justified(k, mm, key, b)
    <3>1. Partly(k, m, fr) /\ FrameOK(k, fr)
      BY <1>4, <1>5, <1>8, <2>1
    <3>2. Justified(k, m, key, b)
      BY <1>6, <3>1, ReturnJustified
    <3> QED
      BY <1>11, <2>1, <3>2, GrowsJustified
  <2>2. ASSUME NEW q \in DOMAIN m.known, Clear(k, mm.parsed, q)
        PROVE  Justified(k, mm, q, mm.known[q])
    BY <1>1, <1>11, <1>12, <2>2, GrowsSound
  <2> QED
    BY <1>9, <2>1, <2>2 DEF SoundMemo
<1>14. ASSUME NEW i \in 1..(n - 1)
       PROVE  t[i].key = s[i].key /\ Evaluating(k, s[i]) /\ FrameOK(k, s[i])
  <2>1. Evaluating(k, s[i]) /\ FrameOK(k, s[i])
    BY <1>5, <1>8 DEF Waits
  <2>2. Given(s[i], b).key = s[i].key
    BY <2>1, GivenOK
  <2> QED
    BY <1>3, <2>1, <2>2
<1>15. ASSUME NEW i \in 1..(n - 1), Fixed(k, mm, t[i].key)
       PROVE  t[i].key \notin DOMAIN mm.known
  <2>1. Fixed(k, m, s[i].key) /\ i \in 1..n /\ i # n
    BY <1>4, <1>8, <1>14, <1>15 DEF Fixed
  <2>2. s[i].key \notin DOMAIN m.known
    BY <1>5, <2>1
  <2>3. s[i].key # s[n].key
    BY <1>5, <1>7, <1>8, <2>1 DEF Fixed
  <2> QED
    BY <1>5, <1>9, <1>14, <2>2, <2>3
<1>16. ASSUME NEW i \in 1..(n - 1), Clear(k, mm.parsed, t[i].key)
       PROVE  Partly(k, mm, t[i])
  <2>1. Clear(k, mm.parsed, s[i].key) /\ Clear(k, m.parsed, s[i].key) /\ FrameOK(k, s[i]) /\ i \in 1..n
    BY <1>4, <1>8, <1>14, <1>16
  <2>2. Partly(k, mm, s[i])
    BY <1>5, <1>11, <2>1, GrowsPartly
  <2>3. CASE i # n - 1
    BY <1>3, <2>2, <2>3
  <2>4. CASE i = n - 1
    <3> DEFINE x == NextNode(k, s[i])
    <3>1. i + 1 = n
      BY <1>3, <2>4
    <3>2. ~IsMade(x) /\ RefersTo(k, s[i].key[2], x) = {key} /\ Evaluating(k, s[i])
      BY <1>5, <3>1 DEF Waits
    <3>3. Opened(k, mm, x)
      BY <1>4, <1>5 DEF Opened
    <3> HIDE DEF x
    <3>4. NodeIs(k, mm, s[i].key[2], x, s[i].values, b)
      BY <1>9, <3>2, <3>3 DEF NodeIs
    <3>5. Partly(k, mm, Given(s[i], b))
      BY <2>1, <2>2, <3>2, <3>4, GivenPartly DEF x
    <3> QED
      BY <1>3, <2>4, <3>5
  <2> QED
    BY <2>3, <2>4
<1>17. ASSUME NEW i \in 1..((n - 1) - 1)
       PROVE  Opened(k, mm, NextNode(k, t[i]))
  <2>1. i \in 1..(n - 1) /\ i # n - 1
    BY <1>3
  <2> QED
    BY <1>3, <1>4, <1>5, <2>1 DEF Opened
<1>18. Sound(k, d)
  BY <1>2, <1>3, <1>13, <1>15, <1>16, <1>17 DEF Sound, t, mm
<1>19. \A q : Answers(c, q) => Answers(d, q)
  <2>1. OnStack(s) = OnStack(t) \cup {key}
    BY <1>1, <1>2, PopOK DEF s, fr, t
  <2> QED
    BY <1>9, <2>1 DEF Answers, s, t, m, mm
<1> QED
  BY <1>11, <1>18, <1>19 DEF d, m, mm

(* The top of sound calls.                                                 *)
LEMMA LastSound ==
  ASSUME NEW k, NEW c, Sound(k, c), c.stack # <<>>
  PROVE  /\ Good(k, c) /\ MemoOK(c.memo) /\ FrameOK(k, Last(c.stack)) /\ Locates(c.memo, c.memo)
         /\ Clear(k, c.memo.parsed, Last(c.stack).key) => Partly(k, c.memo, Last(c.stack))
<1>1. Good(k, c) /\ IsList(c.stack)
  BY DEF Sound, Good, StackOK
<1>2. Len(c.stack) \in 1..Len(c.stack)
  BY <1>1, FrontOf
<1>3. MemoOK(c.memo) /\ FrameOK(k, Last(c.stack))
  BY <1>1, LastOK
<1> QED
  BY <1>1, <1>2, <1>3 DEF Sound, Last, Locates

(* and so by every step.                                                   *)
LEMMA SoundStep ==
  ASSUME NEW k, IsWorkspace(k), NEW c, Sound(k, c)
  PROVE  LET d == Step(k, c)
         IN  Sound(k, d) /\ Keeps(c.memo, d.memo) /\ \A key : Answers(c, key) => Answers(d, key)
<1> DEFINE fr == Last(c.stack)
           x == NextNode(k, fr)
           at == Key(k, c.memo, fr.key[2], x)
           m == c.memo
<1>1. CASE c.stack = <<>>
  <2>1. Step(k, c) = c
    BY <1>1 DEF Step
  <2> QED
    BY <2>1 DEF Keeps
<1>2. CASE c.stack # <<>>
  <2>1. /\ Good(k, c) /\ MemoOK(m) /\ FrameOK(k, fr) /\ Locates(m, m)
        /\ Clear(k, m.parsed, fr.key) => Partly(k, m, fr)
    BY <1>2, LastSound
  <2>2. \/ \E b : Returning(k, fr, b) /\ Step(k, c) = Return(c, b)
        \/ Retrying(k, fr) /\ Step(k, c) = OnTop(c, m, Retry(fr))
        \/ Evaluating(k, fr) /\ IsMade(x) /\ Step(k, c) = OnTop(c, m, Given(fr, Made(x, fr.values)))
        \/ /\ Evaluating(k, fr) /\ ~IsMade(x) /\ IsLeaf(k, x)
           /\ \/ Unresolved(at.memo, at.binding) /\ Step(k, c) = Call(at.memo, c.stack, at.binding)
              \/ /\ ~Unresolved(at.memo, at.binding)
                 /\ Step(k, c) = OnTop(c, at.memo, Given(fr, Known(at.memo, at.binding)))
    BY <1>2, <2>1, StepIs
  <2>3. CASE \E b : Returning(k, fr, b) /\ Step(k, c) = Return(c, b)
    BY <1>2, <2>3, ReturnSound
  <2>4. CASE Retrying(k, fr) /\ Step(k, c) = OnTop(c, m, Retry(fr))
    <3> DEFINE g == Retry(fr)
    <3>1. FrameOK(k, g) /\ g.key = fr.key
      BY <2>1, <2>4, RetryOK DEF Retrying
    <3>2. Clear(k, m.parsed, g.key) => Partly(k, m, g)
      BY <2>1, <2>4, <3>1, RetryPartly
    <3> HIDE DEF g
    <3> QED
      BY <1>2, <2>1, <2>4, <3>1, <3>2, OnTopSound DEF g
  <2>5. CASE Evaluating(k, fr) /\ IsMade(x) /\ Step(k, c) = OnTop(c, m, Given(fr, Made(x, fr.values)))
    <3> DEFINE b == Made(x, fr.values)
               g == Given(fr, b)
    <3>1. NodeIs(k, m, fr.key[2], x, fr.values, b)
      BY <2>5 DEF NodeIs
    <3> HIDE DEF b
    <3>2. FrameOK(k, g) /\ g.key = fr.key
      BY <2>1, <2>5, GivenOK
    <3>3. Clear(k, m.parsed, g.key) => Partly(k, m, g)
      BY <2>1, <2>5, <3>1, <3>2, GivenPartly
    <3> HIDE DEF g
    <3> QED
      BY <1>2, <2>1, <2>5, <3>2, <3>3, OnTopSound DEF g, b
  <2>6. CASE /\ Evaluating(k, fr) /\ ~IsMade(x) /\ IsLeaf(k, x)
             /\ Unresolved(at.memo, at.binding) /\ Step(k, c) = Call(at.memo, c.stack, at.binding)
    <3>1. /\ Opened(k, at.memo, x) /\ at.binding \in AllKeys
          /\ Indexed(k, at.binding[2]) /\ Waits(k, fr, at.binding)
      BY <1>2, <2>1, <2>6, KnownIs
    <3>2. Locates(m, at.memo)
      BY <2>1, <2>6, AskedFor
    <3> HIDE DEF at
    <3> QED
      BY <2>1, <2>6, <3>1, <3>2, CallSound, SMTT(30)
  <2>7. CASE /\ Evaluating(k, fr) /\ ~IsMade(x) /\ IsLeaf(k, x)
             /\ ~Unresolved(at.memo, at.binding)
             /\ Step(k, c) = OnTop(c, at.memo, Given(fr, Known(at.memo, at.binding)))
    <3> DEFINE b == Known(at.memo, at.binding)
               g == Given(fr, b)
    <3>1. Clear(k, at.memo.parsed, fr.key) => NodeIs(k, at.memo, fr.key[2], x, fr.values, b)
      BY <1>2, <2>1, <2>7, KnownIs
    <3>2. Locates(m, at.memo)
      BY <2>1, <2>7, AskedFor
    <3> HIDE DEF b, at
    <3>3. FrameOK(k, g) /\ g.key = fr.key
      BY <2>1, <2>7, GivenOK
    <3>4. at.memo.known = m.known /\ m.parsed \subseteq at.memo.parsed /\ at.memo.parsed \in SUBSET External
      BY <3>2 DEF Locates, MemoOK
    <3>5. Clear(k, at.memo.parsed, fr.key) => Clear(k, m.parsed, fr.key)
      BY <3>4, ClearBefore
    <3>6. Grows(k, m, at.memo)
      BY <3>4 DEF Grows
    <3>7. Clear(k, at.memo.parsed, fr.key) => Partly(k, at.memo, fr)
      BY <2>1, <3>5, <3>6, GrowsPartly
    <3>8. Clear(k, at.memo.parsed, g.key) => Partly(k, at.memo, g)
      BY <2>1, <2>7, <3>1, <3>3, <3>7, GivenPartly
    <3> HIDE DEF g
    <3> QED
      BY <1>2, <2>7, <3>2, <3>3, <3>8, OnTopSound, SMTT(30) DEF g, b
  <2> QED
    BY <2>2, <2>3, <2>4, <2>5, <2>6, <2>7
<1> QED
  BY <1>1, <1>2

(* Keeping is transitive.                                                  *)
LEMMA KeepsOn ==
  ASSUME NEW m, NEW n, NEW o, Keeps(m, n), Keeps(n, o)
  PROVE  Keeps(m, o)
BY DEF Keeps

(* What a resolver leaves behind when it has been asked for a name.        *)
LEMMA ResolvedSound ==
  ASSUME NEW k, IsWorkspace(k), NEW m, Rested(m), SoundMemo(k, m), NEW key \in NameKeys, Indexed(k, key[2])
  PROVE  LET r == Resolved(k, m, key)
         IN  /\ Rested(r.memo) /\ SoundMemo(k, r.memo) /\ Keeps(m, r.memo)
             /\ key \in DOMAIN r.memo.known /\ r.binding = r.memo.known[key]
<1> DEFINE r == Resolved(k, m, key)
<1>1. key # None
  BY NoKeyAssumption DEF AllKeys
<1>2. CASE ~Unresolved(m, key)
  <2>1. r = Found(Known(m, key), m)
    BY <1>2 DEF Resolved
  <2>2. key \in DOMAIN m.known
    BY <1>1, <1>2 DEF Unresolved, Rested, Remembered
  <2>3. Remembered(m, key) = {key}
    BY <2>2 DEF Remembered
  <2>4. Known(m, key) = m.known[key]
    BY <1>1, <2>3 DEF Known
  <2>5. r.memo = m /\ r.binding = m.known[key]
    BY <2>1, <2>4 DEF Found
  <2> HIDE DEF r
  <2>6. Rested(r.memo) /\ SoundMemo(k, r.memo) /\ Keeps(m, r.memo) /\ key \in DOMAIN r.memo.known /\ r.binding = r.memo.known[key]
    BY <2>2, <2>5 DEF Keeps
  <2> QED
    BY <2>6 DEF r
<1>3. CASE Unresolved(m, key)
  <2> DEFINE c == Call(m, <<>>, key)
             e == Ended(k, c)
             I == {d \in Stages(k, c) : Sound(k, d) /\ Keeps(m, d.memo) /\ Answers(d, key)}
  <2>1. /\ Good(k, c) /\ Budget(c, MaxBursts) /\ c.memo = Entered(m, key)
        /\ Len(c.stack) = 1 /\ c.stack[1] = Frame(key)
    BY <1>3, Starting DEF Rested
  <2>2. c.memo.known = m.known /\ c.memo.parsed = m.parsed /\ key \in AllKeys /\ key \notin DOMAIN m.known
    BY <1>3, <2>1, EnteredIs DEF Rested, AllKeys, Unresolved, Remembered
  <2>3. Frame(key).key = key
    BY DEF Frame
  <2>4. FrameOK(k, c.stack[1])
    BY <2>1 DEF Good, StackOK
  <2>5. Partly(k, c.memo, Frame(key))
    BY <2>1, <2>4, FramePartly
  <2>6. e.stack = <<>> /\ \E n \in 0..MaxBursts : e = Calls(k, c)[n]
    <3> HIDE DEF c
    <3> QED
      BY <2>1, CallsEnd
  <2>7. r = Found(e.memo.known[key], e.memo)
    BY <1>3 DEF Resolved, Answered
  <2> HIDE DEF c, e
  <2>8. Sound(k, c)
    <3>1. SoundMemo(k, c.memo)
      <4>1. Grows(k, m, c.memo) /\ c.memo.parsed \in SUBSET External
        BY <2>2 DEF Grows, Rested, MemoOK
      <4> QED
        BY <2>2, <4>1, GrowsSound DEF SoundMemo
    <3>2. \A i \in 1..1 : i = 1
      OBVIOUS
    <3>3. \A i \in 1..(1 - 1) : FALSE
      OBVIOUS
    <3> QED
      BY <2>1, <2>2, <2>3, <2>5, <3>1, <3>2, <3>3 DEF Sound
  <2>9. Keeps(m, c.memo) /\ Answers(c, key)
    <3>1. key \in OnStack(c.stack)
      BY <2>1, <2>3 DEF OnStack
    <3> QED
      BY <2>2, <3>1 DEF Keeps, Answers
  <2>10. c \in I
    BY <2>8, <2>9, StagesStart
  <2>11. \A d \in I : Step(k, d) \in Stages(k, c) => Step(k, d) \in I
    <3>1. ASSUME NEW d \in I, Step(k, d) \in Stages(k, c)
          PROVE  Step(k, d) \in I
      BY <3>1, SoundStep, KeepsOn
    <3> QED
      BY <3>1
  <2> HIDE DEF I
  <2>12. e \in I
    BY <2>6, <2>10, <2>11, Through
  <2>13. Sound(k, e) /\ Keeps(m, e.memo) /\ Answers(e, key)
    BY <2>12 DEF I
  <2>14. OnStack(<<>>) = {}
    BY EmptyIsList DEF OnStack
  <2>15. Rested(e.memo) /\ SoundMemo(k, e.memo)
    BY <2>6, <2>13, <2>14 DEF Sound, Good, Rested
  <2>16. key \in DOMAIN e.memo.known
    BY <2>6, <2>13, <2>14 DEF Answers
  <2>17. r.memo = e.memo /\ r.binding = e.memo.known[key]
    BY <2>7 DEF Found
  <2> HIDE DEF r
  <2>18. Rested(r.memo) /\ SoundMemo(k, r.memo) /\ Keeps(m, r.memo) /\ key \in DOMAIN r.memo.known /\ r.binding = r.memo.known[key]
    BY <2>13, <2>15, <2>16, <2>17
  <2> QED
    BY <2>18 DEF r
<1> QED
  BY <1>2, <1>3

------------------------------------------------------------------------------
(* A second resolver.                                                      *)

(* A memory that knows no more than another.                               *)
Agrees(n, m) ==
  /\ n.parsed \subseteq m.parsed
  /\ \A q \in DOMAIN n.known : q \in DOMAIN m.known /\ n.known[q] = m.known[q]

(* A resolver that finds again what the memory m has of clear keys.        *)
FrameFollows(k, m, fr) == Clear(k, m.parsed, fr.key) /\ fr.key \in DOMAIN m.known /\ Partly(k, m, fr)
Follows(k, m, c) ==
  /\ Good(k, c) /\ Agrees(c.memo, m)
  /\ \A i \in 1..Len(c.stack) : FrameFollows(k, m, c.stack[i])
  /\ \A i \in 1..(Len(c.stack) - 1) : Opened(k, m, NextNode(k, c.stack[i]))

(* A resolver still follows a memory when its top goes on as the memory    *)
(* says,                                                                   *)
LEMMA OnTopFollows ==
  ASSUME NEW k, IsWorkspace(k), NEW m, NEW c, Follows(k, m, c), c.stack # <<>>,
         NEW n, Locates(c.memo, n), n.parsed \subseteq m.parsed,
         NEW fr, FrameOK(k, fr), fr.key = Last(c.stack).key, Partly(k, m, fr)
  PROVE  Follows(k, m, OnTop(c, n, fr))
<1> DEFINE d == OnTop(c, n, fr)
           s == c.stack
           l == Len(s)
           t == d.stack
<1>1. Good(k, c) /\ IsList(s)
  BY DEF Follows, Good, StackOK
<1>2. Good(k, d) /\ d.memo = n /\ t = Append(Front(s), fr)
  BY <1>1, OnTopGood
<1>3. Len(t) = l /\ l \in Nat \ {0} /\ \A i \in 1..l : t[i] = IF i = l THEN fr ELSE s[i]
  BY <1>1, <1>2, Topped
<1>4. Agrees(n, m)
  BY DEF Locates, Follows, Agrees
<1>5. /\ \A i \in 1..l : FrameFollows(k, m, s[i])
      /\ \A i \in 1..(l - 1) : Opened(k, m, NextNode(k, s[i]))
      /\ fr.key = s[l].key
  BY DEF Follows, Last
<1> HIDE DEF d, s, l, t
<1>6. l \in 1..l /\ \A i \in 1..(l - 1) : i \in 1..l /\ i # l
  BY <1>3
<1>7. FrameFollows(k, m, fr)
  BY <1>5, <1>6 DEF FrameFollows
<1>8. \A i \in 1..l : FrameFollows(k, m, t[i])
  BY <1>3, <1>5, <1>7
<1>9. \A i \in 1..(l - 1) : Opened(k, m, NextNode(k, t[i]))
  BY <1>3, <1>5, <1>6
<1>10. Follows(k, m, d)
  BY <1>2, <1>3, <1>4, <1>8, <1>9 DEF Follows, t
<1> QED
  BY <1>10 DEF d

(* when it calls for a key that the memory has,                            *)
LEMMA CallFollows ==
  ASSUME NEW k, IsWorkspace(k), NEW m, NEW c, Good(k, c), Follows(k, m, c),
         NEW n, Locates(c.memo, n), n.parsed \subseteq m.parsed,
         NEW key \in AllKeys, Indexed(k, key[2]), Unresolved(n, key),
         c.stack # <<>> => Waits(k, Last(c.stack), key) /\ Opened(k, m, NextNode(k, Last(c.stack))),
         Clear(k, m.parsed, key), key \in DOMAIN m.known
  PROVE  Follows(k, m, Call(n, c.stack, key))
<1> DEFINE d == Call(n, c.stack, key)
           s == c.stack
           l == Len(s)
           t == d.stack
           fr == Frame(key)
<1>1. IsList(s) /\ StackOK(k, s) /\ MemoOK(n) /\ n.busy = OnStack(s) \cap NameKeys
  BY DEF Good, StackOK, Locates
<1>2. Good(k, d) /\ d.memo = Entered(n, key) /\ t = Append(s, fr) /\ FrameOK(k, fr)
  BY <1>1, CallGood
<1>3. d.memo.known = n.known /\ d.memo.parsed = n.parsed
  BY <1>1, <1>2, EnteredIs
<1>4. Agrees(d.memo, m)
  BY <1>3 DEF Locates, Follows, Agrees
<1>5. Len(t) = l + 1 /\ l \in Nat /\ t[l + 1] = fr /\ \A i \in 1..l : t[i] = s[i]
  BY <1>1, <1>2, Appended DEF IsList
<1>6. /\ \A i \in 1..l : FrameFollows(k, m, s[i])
      /\ \A i \in 1..(l - 1) : Opened(k, m, NextNode(k, s[i]))
  BY DEF Follows
<1>7. l # 0 => Opened(k, m, NextNode(k, s[l]))
  BY EmptyIsList DEF Last
<1>8. fr.key = key /\ Partly(k, m, fr)
  BY <1>2, FramePartly DEF Frame
<1> HIDE DEF d, s, l, t, fr
<1>9. FrameFollows(k, m, fr)
  BY <1>8 DEF FrameFollows
<1>10. (l + 1) - 1 = l /\ (\A i \in 1..(l + 1) : i = l + 1 \/ i \in 1..l) /\ \A i \in 1..l : l # 0 /\ (i = l \/ i \in 1..(l - 1))
  BY <1>5
<1>11. \A i \in 1..(l + 1) : FrameFollows(k, m, t[i])
  BY <1>5, <1>6, <1>9, <1>10
<1>12. \A i \in 1..l : Opened(k, m, NextNode(k, t[i]))
  BY <1>5, <1>6, <1>7, <1>10
<1>13. Follows(k, m, d)
  BY <1>2, <1>4, <1>5, <1>10, <1>11, <1>12 DEF Follows, t
<1> QED
  BY <1>13 DEF d

(* when it returns: that is what the memory has,                           *)
LEMMA ReturnFollows ==
  ASSUME NEW k, IsWorkspace(k), NEW m, SoundMemo(k, m), NEW c, Follows(k, m, c), c.stack # <<>>,
         NEW b, Returning(k, Last(c.stack), b)
  PROVE  Follows(k, m, Return(c, b))
<1> DEFINE d == Return(c, b)
           s == c.stack
           l == Len(s)
           t == d.stack
           fr == Last(s)
           key == fr.key
<1>1. Good(k, c) /\ IsList(s) /\ StackOK(k, s) /\ MemoOK(c.memo)
  BY DEF Follows, Good, StackOK
<1>2. Good(k, d) /\ d.memo = Left(c.memo, key, b) /\ t = Callers(s, b)
  BY <1>1, ReturnGood
<1>3. /\ Len(t) = l - 1 /\ l \in Nat \ {0}
      /\ \A i \in 1..(l - 1) : t[i] = IF i = l - 1 THEN Given(s[i], b) ELSE s[i]
  BY <1>1, <1>2, PopIs
<1>4. d.memo.known = Put(c.memo.known, key, b) /\ d.memo.parsed = c.memo.parsed
  BY <1>1, <1>2, LeftIs
<1>5. /\ \A i \in 1..l : FrameFollows(k, m, s[i]) /\ FrameOK(k, s[i])
      /\ \A i \in 1..(l - 1) : Opened(k, m, NextNode(k, s[i])) /\ Waits(k, s[i], s[i + 1].key)
      /\ fr = s[l]
  BY <1>1 DEF Follows, StackOK, Last
<1>6. Returning(k, fr, b)
  OBVIOUS
<1> HIDE DEF d, s, l, t, fr
<1>7. l \in 1..l /\ \A i \in 1..(l - 1) : i \in 1..l
  BY <1>3
<1>8. FrameFollows(k, m, fr) /\ FrameOK(k, fr)
  BY <1>5, <1>7
<1>9. key \in DOMAIN m.known /\ m.known[key] = b
  <2>1. Justified(k, m, key, b)
    BY <1>6, <1>8, ReturnJustified DEF FrameFollows
  <2>2. Justified(k, m, key, m.known[key]) /\ key \in KeysOf(k) /\ key \in DOMAIN m.known
    BY <1>8 DEF FrameFollows, SoundMemo, Clear
  <2> HIDE DEF key
  <2> QED
    BY <2>1, <2>2, JustifiedOnce
<1>10. Agrees(d.memo, m)
  BY <1>4, <1>9 DEF Agrees, Follows, Put
<1>11. ASSUME NEW i \in 1..(l - 1)
       PROVE  FrameFollows(k, m, t[i])
  <2>1. FrameFollows(k, m, s[i]) /\ FrameOK(k, s[i]) /\ Evaluating(k, s[i])
    BY <1>5, <1>7 DEF Waits
  <2>2. CASE i # l - 1
    BY <1>3, <2>1, <2>2
  <2>3. CASE i = l - 1
    <3> DEFINE x == NextNode(k, s[i])
    <3>1. i + 1 = l
      BY <1>3, <2>3
    <3>2. ~IsMade(x) /\ RefersTo(k, s[i].key[2], x) = {key} /\ Opened(k, m, x)
      BY <1>5, <3>1 DEF Waits
    <3> HIDE DEF x
    <3>3. NodeIs(k, m, s[i].key[2], x, s[i].values, b)
      BY <1>9, <3>2 DEF NodeIs
    <3>4. Partly(k, m, Given(s[i], b)) /\ Given(s[i], b).key = s[i].key
      BY <2>1, <3>3, GivenPartly, GivenOK DEF x, FrameFollows
    <3> QED
      BY <1>3, <2>1, <2>3, <3>4 DEF FrameFollows
  <2> QED
    BY <2>2, <2>3
<1>12. ASSUME NEW i \in 1..((l - 1) - 1)
       PROVE  Opened(k, m, NextNode(k, t[i]))
  <2>1. i \in 1..(l - 1) /\ i # l - 1
    BY <1>3
  <2> QED
    BY <1>3, <1>5, <2>1
<1>13. Follows(k, m, d)
  BY <1>2, <1>3, <1>10, <1>11, <1>12 DEF Follows, t
<1> QED
  BY <1>13 DEF d

(* and so by every step.                                                   *)
LEMMA FollowsStep ==
  ASSUME NEW k, IsWorkspace(k), NEW m, Rested(m), SoundMemo(k, m), NEW c, Follows(k, m, c)
  PROVE  Follows(k, m, Step(k, c))
<1> DEFINE fr == Last(c.stack)
           x == NextNode(k, fr)
           f == fr.key[2]
           at == Key(k, c.memo, f, x)
           q == at.binding
           n == at.memo
<1>1. CASE c.stack = <<>>
  BY <1>1 DEF Step
<1>2. CASE c.stack # <<>>
  <2>1. Good(k, c) /\ MemoOK(c.memo) /\ FrameOK(k, fr) /\ Locates(c.memo, c.memo) /\ StackOK(k, c.stack)
    BY <1>2, LastOK DEF Follows, Good, Locates
  <2>2. FrameFollows(k, m, fr) /\ c.memo.parsed \subseteq m.parsed /\ m.parsed \in SUBSET External
    <3>1. Len(c.stack) \in 1..Len(c.stack)
      BY <1>2, <2>1, FrontOf
    <3> QED
      BY <3>1 DEF Follows, Agrees, Last, Rested, MemoOK
  <2>3. fr.key \in KeysOf(k) /\ Partly(k, m, fr) /\ Clear(k, m.parsed, fr.key) /\ fr.key \in DOMAIN m.known
        /\ Justified(k, m, fr.key, m.known[fr.key])
    BY <2>2 DEF FrameFollows, Clear, SoundMemo
  <2>4. \/ \E b : Returning(k, fr, b) /\ Step(k, c) = Return(c, b)
        \/ Retrying(k, fr) /\ Step(k, c) = OnTop(c, c.memo, Retry(fr))
        \/ Evaluating(k, fr) /\ IsMade(x) /\ Step(k, c) = OnTop(c, c.memo, Given(fr, Made(x, fr.values)))
        \/ /\ Evaluating(k, fr) /\ ~IsMade(x) /\ IsLeaf(k, x)
           /\ \/ Unresolved(n, q) /\ Step(k, c) = Call(n, c.stack, q)
              \/ ~Unresolved(n, q) /\ Step(k, c) = OnTop(c, n, Given(fr, Known(n, q)))
    BY <1>2, <2>1, StepIs
  <2>5. CASE \E b : Returning(k, fr, b) /\ Step(k, c) = Return(c, b)
    BY <1>2, <2>5, ReturnFollows
  <2>6. CASE Retrying(k, fr) /\ Step(k, c) = OnTop(c, c.memo, Retry(fr))
    <3> DEFINE g == Retry(fr)
    <3>1. FrameOK(k, g) /\ g.key = fr.key /\ Partly(k, m, g)
      BY <2>1, <2>3, <2>6, RetryOK, RetryPartly DEF Retrying
    <3> HIDE DEF g
    <3> QED
      BY <1>2, <2>1, <2>2, <2>6, <3>1, OnTopFollows DEF g
  <2>7. CASE Evaluating(k, fr) /\ IsMade(x) /\ Step(k, c) = OnTop(c, c.memo, Given(fr, Made(x, fr.values)))
    <3> DEFINE b == Made(x, fr.values)
               g == Given(fr, b)
    <3>1. NodeIs(k, m, f, x, fr.values, b)
      BY <2>7 DEF NodeIs
    <3> HIDE DEF b
    <3>2. FrameOK(k, g) /\ g.key = fr.key /\ Partly(k, m, g)
      BY <2>1, <2>3, <2>7, <3>1, GivenOK, GivenPartly
    <3> HIDE DEF g
    <3> QED
      BY <1>2, <2>1, <2>2, <2>7, <3>2, OnTopFollows DEF g, b
  <2>8. ASSUME Evaluating(k, fr), ~IsMade(x), IsLeaf(k, x)
        PROVE  /\ Locates(c.memo, n) /\ n.parsed \subseteq m.parsed
               /\ Unresolved(n, q) => /\ q \in AllKeys /\ Indexed(k, q[2]) /\ Waits(k, fr, q) /\ Opened(k, m, x)
                                      /\ Clear(k, m.parsed, q) /\ q \in DOMAIN m.known
               /\ ~Unresolved(n, q) => NodeIs(k, m, f, x, fr.values, Known(n, q))
    <3>1. PICK v : NodeIs(k, m, f, x, fr.values, v)
      BY <2>1, <2>3, <2>8, NextIs
    <3>2. \/ RefersTo(k, f, x) = {}
          \/ \E p \in DOMAIN m.known : RefersTo(k, f, x) = {p} /\ Opened(k, m, x)
      BY <2>8, <3>1 DEF NodeIs
    <3>3. /\ Locates(c.memo, n)
          /\ n.parsed # c.memo.parsed => x.form = "import" /\ n.parsed \subseteq c.memo.parsed \cup ({x.of.file} \ Solids(k))
      <4>1. Indexed(k, f)
        BY <2>1 DEF FrameOK
      <4> HIDE DEF f, x
      <4> QED
        BY <2>1, <2>8, <4>1, Looking, SMTT(30)
    <3>4. n.parsed \in SUBSET External /\ n.known = c.memo.known
      BY <3>3 DEF Locates, MemoOK
    <3>5. x.form = "import" /\ RefersTo(k, f, x) = {} => x.of.file \notin External
      <4>1. x.form = "import" => RefersTo(k, f, x) = IF Indexed(k, x.of.file) THEN {ImportKey(x.of.file, x.of.name)} ELSE {}
        BY DEF RefersTo
      <4> QED
        BY <4>1 DEF Indexed
    <3>6. /\ ~Unresolved(n, q) /\ Clear(k, n.parsed, fr.key) => NodeIs(k, n, f, x, fr.values, Known(n, q))
          /\ Unresolved(n, q) => q \in AllKeys /\ Indexed(k, q[2]) /\ Waits(k, fr, q)
      BY <1>2, <2>1, <2>8, KnownIs
    <3> HIDE DEF f, x, n, q, fr
    <3>7. n.parsed \subseteq m.parsed
      <4>1. CASE RefersTo(k, f, x) = {}
        BY <2>2, <3>3, <3>4, <3>5, <4>1
      <4>2. CASE Opened(k, m, x)
        BY <2>2, <3>3, <4>2 DEF Opened
      <4> QED
        BY <3>2, <4>1, <4>2
    <3>8. ASSUME Unresolved(n, q)
          PROVE  Opened(k, m, x) /\ Clear(k, m.parsed, q) /\ q \in DOMAIN m.known
      <4>1. RefersTo(k, f, x) = {q}
        BY <3>6, <3>8 DEF Waits, f, x
      <4>2. Opened(k, m, x) /\ q \in DOMAIN m.known
        BY <3>2, <4>1
      <4>3. Clear(k, m.parsed, q)
        BY <1>2, <2>1, <2>3, <2>8, <4>1, ClearAsks DEF f, x, fr
      <4> QED
        BY <4>2, <4>3
    <3>9. ASSUME ~Unresolved(n, q)
          PROVE  NodeIs(k, m, f, x, fr.values, Known(n, q))
      <4>1. Clear(k, n.parsed, fr.key)
        BY <2>2, <2>3, <3>7, ClearBefore
      <4>2. NodeIs(k, n, f, x, fr.values, Known(n, q))
        BY <3>6, <3>9, <4>1
      <4>3. \A p \in DOMAIN n.known : p \in DOMAIN m.known /\ n.known[p] = m.known[p]
        BY <3>4 DEF Follows, Agrees
      <4>4. Opened(k, n, x) => Opened(k, m, x)
        BY <3>7 DEF Opened
      <4> QED
        BY <4>2, <4>3, <4>4 DEF NodeIs
    <3> QED
      BY <3>3, <3>6, <3>7, <3>8, <3>9
  <2>9. CASE Evaluating(k, fr) /\ ~IsMade(x) /\ IsLeaf(k, x) /\ Unresolved(n, q) /\ Step(k, c) = Call(n, c.stack, q)
    <3>1. /\ Locates(c.memo, n) /\ n.parsed \subseteq m.parsed
          /\ q \in AllKeys /\ Indexed(k, q[2]) /\ Waits(k, fr, q) /\ Opened(k, m, x)
          /\ Clear(k, m.parsed, q) /\ q \in DOMAIN m.known
      BY <2>8, <2>9
    <3> HIDE DEF n, q
    <3> QED
      BY <2>1, <2>9, <3>1, CallFollows, SMTT(30)
  <2>10. CASE Evaluating(k, fr) /\ ~IsMade(x) /\ IsLeaf(k, x) /\ ~Unresolved(n, q)
              /\ Step(k, c) = OnTop(c, n, Given(fr, Known(n, q)))
    <3> DEFINE b == Known(n, q)
               g == Given(fr, b)
    <3>1. Locates(c.memo, n) /\ n.parsed \subseteq m.parsed /\ NodeIs(k, m, f, x, fr.values, b)
      BY <2>8, <2>10
    <3> HIDE DEF n, b
    <3>2. FrameOK(k, g) /\ g.key = fr.key /\ Partly(k, m, g)
      BY <2>1, <2>3, <2>10, <3>1, GivenOK, GivenPartly
    <3> HIDE DEF g
    <3> QED
      BY <1>2, <2>10, <3>1, <3>2, OnTopFollows DEF g, b
  <2> QED
    BY <2>4, <2>5, <2>6, <2>7, <2>9, <2>10
<1> QED
  BY <1>1, <1>2

(* A resolver that knows no more than the memory m finds what that has of  *)
(* a clear name.                                                           *)
LEMMA ResolvedFollows ==
  ASSUME NEW k, IsWorkspace(k), NEW m, Rested(m), SoundMemo(k, m), NEW n, Rested(n), SoundMemo(k, n), Agrees(n, m),
         NEW key \in NameKeys, Indexed(k, key[2]), Clear(k, m.parsed, key), key \in DOMAIN m.known
  PROVE  LET r == Resolved(k, n, key)
         IN  r.binding = m.known[key] /\ Rested(r.memo) /\ SoundMemo(k, r.memo) /\ Agrees(r.memo, m)
<1> DEFINE r == Resolved(k, n, key)
<1>1. /\ Rested(r.memo) /\ SoundMemo(k, r.memo)
      /\ key \in DOMAIN r.memo.known /\ r.binding = r.memo.known[key]
  BY ResolvedSound
<1>2. Agrees(r.memo, m)
  <2>1. CASE ~Unresolved(n, key)
    <3>1. r.memo = n
      BY <2>1 DEF Resolved, Found
    <3> HIDE DEF r
    <3> QED
      BY <3>1
  <2>2. CASE Unresolved(n, key)
    <3> DEFINE c == Call(n, <<>>, key)
               e == Ended(k, c)
               I == {d \in Stages(k, c) : Follows(k, m, d)}
    <3>1. /\ Good(k, c) /\ Budget(c, MaxBursts) /\ c.memo = Entered(n, key)
          /\ Len(c.stack) = 1 /\ c.stack[1] = Frame(key)
      BY <2>2, Starting DEF Rested
    <3>2. c.memo.known = n.known /\ c.memo.parsed = n.parsed
      BY <3>1, EnteredIs DEF Rested, AllKeys
    <3>3. FrameOK(k, c.stack[1]) /\ Frame(key).key = key
      BY <3>1 DEF Good, StackOK, Frame
    <3>4. Partly(k, m, Frame(key))
      BY <3>1, <3>3, FramePartly
    <3>5. e.stack = <<>> /\ \E i \in 0..MaxBursts : e = Calls(k, c)[i]
      <4> HIDE DEF c
      <4> QED
        BY <3>1, CallsEnd
    <3>6. r.memo = e.memo
      BY <2>2 DEF Resolved, Answered, Found
    <3> HIDE DEF c, e
    <3>7. Follows(k, m, c)
      <4>1. (\A i \in 1..1 : i = 1) /\ \A i \in 1..(1 - 1) : FALSE
        OBVIOUS
      <4>2. Agrees(c.memo, m) /\ FrameFollows(k, m, Frame(key))
        BY <3>2, <3>3, <3>4 DEF Agrees, FrameFollows
      <4> QED
        BY <3>1, <4>1, <4>2 DEF Follows
    <3>8. c \in I
      BY <3>7, StagesStart
    <3>9. \A d \in I : Step(k, d) \in Stages(k, c) => Step(k, d) \in I
      <4>1. ASSUME NEW d \in I, Step(k, d) \in Stages(k, c)
            PROVE  Step(k, d) \in I
        BY <4>1, FollowsStep
      <4> QED
        BY <4>1
    <3> HIDE DEF I
    <3>10. e \in I
      BY <3>5, <3>8, <3>9, Through
    <3>11. Agrees(e.memo, m)
      BY <3>10 DEF I, Follows
    <3> HIDE DEF r
    <3> QED
      BY <3>6, <3>11
  <2> QED
    BY <2>1, <2>2
<1> HIDE DEF r
<1>3. r.binding = m.known[key]
  BY <1>1, <1>2 DEF Agrees
<1>4. r.binding = m.known[key] /\ Rested(r.memo) /\ SoundMemo(k, r.memo) /\ Agrees(r.memo, m)
  BY <1>1, <1>2, <1>3
<1> QED
  BY <1>4 DEF r

------------------------------------------------------------------------------
(* The hosts of a page's elements.                                         *)

(* What a memory says of the host of a tag, and of an element.             *)
Kept(m, f, tag) == LocalKey(f, tag[1]) \in DOMAIN m.known
HostIn(m, f, tag) == AtPath(m.known[LocalKey(f, tag[1])], tag)
HostIs(m, f, e, h) ==
  IF e.dom THEN h = None
  ELSE /\ Kept(m, f, e.tag)
       /\ e.as = None => h = HostIn(m, f, e.tag)
       /\ e.as # None => /\ Kept(m, f, e.as)
                         /\ h = Composed(HostIn(m, f, e.tag), Found(HostIn(m, f, e.as), m)).binding

(* The memory plays no part in composing two hosts.                        *)
LEMMA ComposedIs ==
  ASSUME NEW outer, NEW b, NEW m, NEW n
  PROVE  /\ Composed(outer, Found(b, m)).binding = Composed(outer, Found(b, n)).binding
         /\ Composed(outer, Found(b, m)).memo = m
BY DEF Composed, Found

(* The key of a tag.                                                       *)
LEMMA TagKey ==
  ASSUME NEW k, IsWorkspace(k), NEW f, Indexed(k, f), NEW tag, tag[1] \in Identifiers
  PROVE  /\ LocalKey(f, tag[1]) \in NameKeys /\ LocalKey(f, tag[1])[2] = f
         /\ LocalKey(f, tag[1]) \in KeysOf(k)
<1>1. LocalKey(f, tag[1]) \in NameKeys /\ LocalKey(f, tag[1])[2] = f
  BY IndexedTree, NameKey
<1> QED
  BY <1>1 DEF KeysOf, AllKeys

(* What a resolver leaves behind when it has been asked for the host of a  *)
(* tag.                                                                    *)
LEMMA HostSound ==
  ASSUME NEW k, IsWorkspace(k), NEW m, Rested(m), SoundMemo(k, m), NEW f, Indexed(k, f), NEW tag, tag[1] \in Identifiers
  PROVE  LET r == Host(k, m, f, tag)
         IN  /\ Rested(r.memo) /\ SoundMemo(k, r.memo) /\ Keeps(m, r.memo)
             /\ Kept(r.memo, f, tag) /\ r = Found(HostIn(r.memo, f, tag), r.memo)
<1> DEFINE key == LocalKey(f, tag[1])
           a == Resolved(k, m, key)
           r == Host(k, m, f, tag)
<1>1. key \in NameKeys /\ key[2] = f
  BY TagKey
<1>2. r = Found(AtPath(a.binding, tag), a.memo)
  BY DEF Host, HostAt
<1>3. r.memo = a.memo
  BY <1>2 DEF Found
<1> HIDE DEF key
<1>4. /\ Rested(a.memo) /\ SoundMemo(k, a.memo) /\ Keeps(m, a.memo)
      /\ key \in DOMAIN a.memo.known /\ a.binding = a.memo.known[key]
  BY <1>1, ResolvedSound
<1> HIDE DEF a, r
<1>5. /\ Rested(r.memo) /\ SoundMemo(k, r.memo) /\ Keeps(m, r.memo)
      /\ Kept(r.memo, f, tag) /\ r = Found(HostIn(r.memo, f, tag), r.memo)
  BY <1>2, <1>3, <1>4 DEF Kept, HostIn, key
<1> QED
  BY <1>5 DEF r

(* A resolver that knows no more than a memory finds the host that the     *)
(* memory has of a tag that is clear.                                      *)
LEMMA HostFollows ==
  ASSUME NEW k, IsWorkspace(k), NEW m, Rested(m), SoundMemo(k, m), NEW n, Rested(n), SoundMemo(k, n), Agrees(n, m),
         NEW f, Indexed(k, f), NEW tag, tag[1] \in Identifiers, Kept(m, f, tag), Clear(k, m.parsed, LocalKey(f, tag[1]))
  PROVE  LET r == Host(k, n, f, tag)
         IN  /\ Rested(r.memo) /\ SoundMemo(k, r.memo) /\ Agrees(r.memo, m)
             /\ r = Found(HostIn(m, f, tag), r.memo)
<1> DEFINE key == LocalKey(f, tag[1])
           a == Resolved(k, n, key)
           r == Host(k, n, f, tag)
<1>1. key \in NameKeys /\ key[2] = f /\ key \in DOMAIN m.known /\ Clear(k, m.parsed, key)
  BY TagKey DEF Kept
<1>2. r = Found(AtPath(a.binding, tag), a.memo)
  BY DEF Host, HostAt
<1>3. r.memo = a.memo
  BY <1>2 DEF Found
<1> HIDE DEF key
<1>4. Rested(a.memo) /\ SoundMemo(k, a.memo) /\ Agrees(a.memo, m) /\ a.binding = m.known[key]
  BY <1>1, ResolvedFollows
<1> HIDE DEF a, r
<1>5. /\ Rested(r.memo) /\ SoundMemo(k, r.memo) /\ Agrees(r.memo, m)
      /\ r = Found(HostIn(m, f, tag), r.memo)
  BY <1>2, <1>3, <1>4 DEF HostIn, key
<1> QED
  BY <1>5 DEF r

(* The hosts of tags stay,                                                 *)
LEMMA HostKept ==
  ASSUME NEW k, IsWorkspace(k), NEW m, NEW n, Keeps(m, n), NEW f, Indexed(k, f), NEW tag, tag[1] \in Identifiers,
         Kept(m, f, tag)
  PROVE  Kept(n, f, tag) /\ HostIn(n, f, tag) = HostIn(m, f, tag)
<1>1. LocalKey(f, tag[1]) \in NameKeys
  BY TagKey
<1> QED
  BY <1>1 DEF Keeps, Kept, HostIn

(* The tags of an element.                                                 *)
LEMMA TagsOf ==
  ASSUME NEW k, IsWorkspace(k), NEW f, Indexed(k, f), NEW i \in DOMAIN Tree(k, f).jsx
  PROVE  LET e == Tree(k, f).jsx[i]
         IN  /\ e.tag # None /\ e.tag[1] \in Identifiers /\ (e.as # None => e.as[1] \in Identifiers)
             /\ {e.tag, e.as} \ {None} = {e.tag} \cup (IF e.as = None THEN {} ELSE {e.as})
BY IndexedTree DEF IsTree

(* and so do those of elements.                                            *)
LEMMA HostIsKept ==
  ASSUME NEW k, IsWorkspace(k), NEW m, NEW n, Keeps(m, n), NEW f, Indexed(k, f), NEW i \in DOMAIN Tree(k, f).jsx, NEW h,
         HostIs(m, f, Tree(k, f).jsx[i], h)
  PROVE  HostIs(n, f, Tree(k, f).jsx[i], h)
<1> DEFINE e == Tree(k, f).jsx[i]
<1>1. e.tag[1] \in Identifiers /\ (e.as # None => e.as[1] \in Identifiers)
  BY TagsOf
<1>2. HostIs(m, f, e, h)
  OBVIOUS
<1> HIDE DEF e
<1>3. CASE e.dom
  BY <1>2, <1>3 DEF HostIs, e
<1>4. CASE ~e.dom
  <2>1. Kept(m, f, e.tag) /\ Kept(n, f, e.tag) /\ HostIn(n, f, e.tag) = HostIn(m, f, e.tag)
    BY <1>1, <1>2, <1>4, HostKept DEF HostIs
  <2>2. CASE e.as = None
    BY <1>2, <1>4, <2>1, <2>2 DEF HostIs, e
  <2>3. CASE e.as # None
    <3>1. Kept(n, f, e.as) /\ HostIn(n, f, e.as) = HostIn(m, f, e.as)
      BY <1>1, <1>2, <1>4, <2>3, HostKept DEF HostIs
    <3>2. h = Composed(HostIn(m, f, e.tag), Found(HostIn(m, f, e.as), m)).binding
      BY <1>2, <1>4, <2>3 DEF HostIs
    <3>3. h = Composed(HostIn(n, f, e.tag), Found(HostIn(n, f, e.as), n)).binding
      BY <2>1, <3>1, <3>2, ComposedIs
    <3> QED
      BY <1>4, <2>1, <2>3, <3>1, <3>3 DEF HostIs, e
  <2> QED
    BY <2>2, <2>3
<1> QED
  BY <1>3, <1>4 DEF e

(* What a resolver leaves behind when it has been asked for the host of an *)
(* element.                                                                *)
LEMMA HostForSound ==
  ASSUME NEW k, IsWorkspace(k), NEW m, Rested(m), SoundMemo(k, m), NEW f, Indexed(k, f), NEW i \in DOMAIN Tree(k, f).jsx
  PROVE  LET r == HostFor(k, m, f, Tree(k, f).jsx[i])
         IN  /\ Rested(r.memo) /\ SoundMemo(k, r.memo) /\ Keeps(m, r.memo)
             /\ HostIs(r.memo, f, Tree(k, f).jsx[i], r.binding)
<1> DEFINE e == Tree(k, f).jsx[i]
           r == HostFor(k, m, f, e)
           outer == Host(k, m, f, e.tag)
           inner == Host(k, outer.memo, f, e.as)
<1>1. e.tag[1] \in Identifiers /\ (e.as # None => e.as[1] \in Identifiers)
  BY TagsOf
<1> HIDE DEF e
<1>2. /\ e.dom => r = Found(None, m)
      /\ ~e.dom /\ e.as = None => r = outer
      /\ ~e.dom /\ e.as # None => r = Composed(outer.binding, inner)
  BY DEF HostFor, HostAs
<1>3. /\ Rested(outer.memo) /\ SoundMemo(k, outer.memo) /\ Keeps(m, outer.memo)
      /\ Kept(outer.memo, f, e.tag) /\ outer = Found(HostIn(outer.memo, f, e.tag), outer.memo)
  BY <1>1, HostSound
<1> HIDE DEF r, outer
<1>4. CASE e.dom
  <2>1. r.memo = m /\ r.binding = None
    BY <1>2, <1>4 DEF Found
  <2> QED
    BY <1>4, <2>1 DEF HostIs, Keeps, r, e
<1>5. CASE ~e.dom /\ e.as = None
  <2>1. r = outer /\ r.binding = HostIn(outer.memo, f, e.tag)
    BY <1>2, <1>3, <1>5 DEF Found
  <2> QED
    BY <1>3, <1>5, <2>1 DEF HostIs, r, e
<1>6. CASE ~e.dom /\ e.as # None
  <2>1. /\ Rested(inner.memo) /\ SoundMemo(k, inner.memo) /\ Keeps(outer.memo, inner.memo)
        /\ Kept(inner.memo, f, e.as) /\ inner = Found(HostIn(inner.memo, f, e.as), inner.memo)
    BY <1>1, <1>3, <1>6, HostSound
  <2> HIDE DEF inner
  <2>2. Kept(inner.memo, f, e.tag) /\ HostIn(inner.memo, f, e.tag) = HostIn(outer.memo, f, e.tag)
    BY <1>1, <1>3, <2>1, HostKept
  <2>3. outer.binding = HostIn(outer.memo, f, e.tag)
    BY <1>3 DEF Found
  <2>4. r = Composed(HostIn(inner.memo, f, e.tag), Found(HostIn(inner.memo, f, e.as), inner.memo))
    BY <1>2, <1>6, <2>1, <2>2, <2>3
  <2>5. r.memo = inner.memo
    BY <2>4, ComposedIs
  <2>6. Keeps(m, inner.memo)
    BY <1>3, <2>1, KeepsOn
  <2>7. HostIs(r.memo, f, e, r.binding)
    BY <1>6, <2>1, <2>2, <2>4, <2>5 DEF HostIs
  <2> QED
    BY <2>1, <2>5, <2>6, <2>7 DEF r, e
<1> QED
  BY <1>4, <1>5, <1>6

(* What the tags of an element mean is clear.                              *)
TagsClear(k, m, f, e) == \A tag \in {e.tag, e.as} \ {None} : Clear(k, m.parsed, LocalKey(f, tag[1]))

(* Without a memory the host is the same, if what its tags mean is clear.  *)
LEMMA HostForFollows ==
  ASSUME NEW k, IsWorkspace(k), NEW m, Rested(m), SoundMemo(k, m), NEW f, Indexed(k, f), NEW i \in DOMAIN Tree(k, f).jsx,
         NEW h, HostIs(m, f, Tree(k, f).jsx[i], h), TagsClear(k, m, f, Tree(k, f).jsx[i])
  PROVE  HostFor(k, NewMemo, f, Tree(k, f).jsx[i]).binding = h
<1> DEFINE e == Tree(k, f).jsx[i]
           r == HostFor(k, NewMemo, f, e)
           outer == Host(k, NewMemo, f, e.tag)
           inner == Host(k, outer.memo, f, e.as)
<1>1. /\ e.tag # None /\ e.tag[1] \in Identifiers /\ (e.as # None => e.as[1] \in Identifiers)
      /\ HostIs(m, f, e, h) /\ \A tag \in {e.tag, e.as} \ {None} : Clear(k, m.parsed, LocalKey(f, tag[1]))
  BY TagsOf DEF TagsClear
<1> HIDE DEF e
<1>2. /\ e.dom => r = Found(None, NewMemo)
      /\ ~e.dom /\ e.as = None => r = outer
      /\ ~e.dom /\ e.as # None => r = Composed(outer.binding, inner)
  BY DEF HostFor, HostAs
<1>3. Rested(NewMemo) /\ SoundMemo(k, NewMemo) /\ Agrees(NewMemo, m)
  BY NewMemoRests DEF SoundMemo, Agrees
<1>4. CASE e.dom
  <2>1. r.binding = None
    BY <1>2, <1>4 DEF Found
  <2> QED
    BY <1>1, <1>4, <2>1 DEF HostIs, e
<1>5. CASE ~e.dom
  <2> HIDE DEF r
  <2>1. Kept(m, f, e.tag) /\ Clear(k, m.parsed, LocalKey(f, e.tag[1]))
    BY <1>1, <1>5 DEF HostIs
  <2>2. /\ Rested(outer.memo) /\ SoundMemo(k, outer.memo) /\ Agrees(outer.memo, m)
        /\ outer = Found(HostIn(m, f, e.tag), outer.memo)
    BY <1>1, <1>3, <2>1, HostFollows
  <2> HIDE DEF outer
  <2>3. outer.binding = HostIn(m, f, e.tag)
    BY <2>2 DEF Found
  <2>4. CASE e.as = None
    <3>1. h = HostIn(m, f, e.tag) /\ r.binding = outer.binding
      BY <1>1, <1>2, <1>5, <2>4 DEF HostIs
    <3> QED
      BY <2>3, <3>1 DEF r, e
  <2>5. CASE e.as # None
    <3>1. Kept(m, f, e.as) /\ Clear(k, m.parsed, LocalKey(f, e.as[1])) /\ e.as[1] \in Identifiers
      BY <1>1, <1>5, <2>5 DEF HostIs
    <3>2. inner = Found(HostIn(m, f, e.as), inner.memo)
      BY <2>2, <3>1, HostFollows
    <3> HIDE DEF inner
    <3>3. h = Composed(HostIn(m, f, e.tag), Found(HostIn(m, f, e.as), m)).binding
      BY <1>1, <1>5, <2>5 DEF HostIs
    <3>4. r.binding = h
      BY <1>2, <1>5, <2>3, <2>5, <3>2, <3>3, ComposedIs
    <3> QED
      BY <3>4 DEF r, e
  <2> QED
    BY <2>4, <2>5
<1> QED
  BY <1>4, <1>5
------------------------------------------------------------------------------
(* The memory of the page's resolver is sound, and each host found so far  *)
(* is what it says.                                                        *)
HostsInv ==
  /\ BuilderInv /\ (page = NoFile => hosts = <<>>)
  /\ page # NoFile => /\ SoundMemo(tracker.compilation, memo)
                      /\ \A i \in 1..Len(hosts) : HostIs(memo, page, Jsx(page)[i], hosts[i])

(* The invariant holds throughout.                                         *)
LEMMA HostsInvHolds == BuilderSpec => []HostsInv
<1>1. BuilderInit /\ BuilderInv => HostsInv
  BY DEF BuilderInit, TreeInit, HostsInv
<1>2. HostsInv /\ BuilderInv' /\ [BuilderNext]_<<vars, builderVars>> => HostsInv'
  <2> SUFFICES ASSUME HostsInv, BuilderInv', [BuilderNext]_<<vars, builderVars>>
               PROVE  HostsInv'
    OBVIOUS
  <2>1. BuilderInv
    BY DEF HostsInv
  <2>2. ASSUME NEW f \in Solid, Begin(f)
        PROVE  HostsInv'
    <3>1. page' = f /\ hosts' = <<>> /\ memo' = NewMemo
      BY <2>2 DEF Begin, Start
    <3>2. \A i \in 1..Len(hosts') : FALSE
      <4>1. Len(<<>>) = 0
        BY EmptyIsList
      <4> QED
        BY <3>1, <4>1
    <3>3. SoundMemo(tracker.compilation, memo)'
      BY <3>1, NewMemoRests DEF SoundMemo
    <3> QED
      BY <3>2, <3>3 DEF HostsInv
  <2>3. CASE Resolve
    <3> DEFINE k == tracker.compilation
               n == Len(hosts)
               r == HostFor(k, memo, page, Jsx(page)[n + 1])
    <3>1. /\ page # NoFile /\ n < Len(Jsx(page)) /\ hosts' = Append(hosts, r.binding) /\ memo' = r.memo
          /\ page' = page /\ tracker' = tracker
      BY <2>3 DEF Resolve, Take, vars
    <3>2. /\ IsWorkspace(k) /\ Indexed(k, page) /\ Jsx(page) = Tree(k, page).jsx
          /\ Len(Jsx(page)) \in Nat /\ DOMAIN Jsx(page) = 1..Len(Jsx(page))
      BY <2>1, <3>1, PageIs DEF BuilderInv
    <3>3. n \in Nat /\ IsList(hosts) /\ Rested(memo) /\ SoundMemo(k, memo)
      BY <2>1, <3>1 DEF BuilderInv, IsList, HostsInv
    <3>4. n + 1 \in DOMAIN Tree(k, page).jsx /\ \A i \in 1..n : i \in DOMAIN Tree(k, page).jsx
      BY <3>1, <3>2, <3>3
    <3>5. SoundMemo(k, r.memo) /\ Keeps(memo, r.memo) /\ HostIs(r.memo, page, Jsx(page)[n + 1], r.binding)
      BY <3>2, <3>3, <3>4, HostForSound
    <3> HIDE DEF r
    <3>6. Len(hosts') = n + 1 /\ hosts'[n + 1] = r.binding /\ \A i \in 1..n : hosts'[i] = hosts[i]
      BY <3>1, <3>3, Appended
    <3>7. Jsx(page)' = Jsx(page) /\ tracker.compilation' = k
      BY <3>1 DEF Jsx
    <3>8. \A i \in 1..n : HostIs(memo, page, Jsx(page)[i], hosts[i])
      BY <3>1 DEF HostsInv
    <3>9. \A i \in 1..n : HostIs(r.memo, page, Jsx(page)[i], hosts[i])
      BY <3>2, <3>4, <3>5, <3>8, HostIsKept
    <3>10. \A i \in 1..(n + 1) : i = n + 1 \/ i \in 1..n
      BY <3>3
    <3>11. \A i \in 1..(n + 1) : HostIs(r.memo, page, Jsx(page)[i], hosts'[i])
      BY <3>5, <3>6, <3>9, <3>10
    <3> QED
      BY <3>1, <3>5, <3>6, <3>7, <3>11 DEF HostsInv
  <2>4. CASE Finish
    BY <2>4 DEF Finish, Stop, HostsInv
  <2>5. CASE Edit
    BY <2>5 DEF Edit, Alter, treeVars, HostsInv
  <2>6. CASE UNCHANGED <<vars, builderVars>>
    BY <2>6 DEF vars, builderVars, Jsx, HostsInv
  <2> QED
    BY <2>2, <2>3, <2>4, <2>5, <2>6 DEF BuilderNext
<1> QED
  BY <1>1, <1>2, BuilderInvHolds, PTL DEF BuilderSpec

(* What an element stands for does not depend on the elements before it:   *)
(* a resolver finds the host that one without a memory finds, but where    *)
(* components go round in a circle and after the last module outside.      *)
THEOREM HostsArePlain == BuilderSpec => []HostsAreTheirOwn
<1>1. HostsInv => HostsAreTheirOwn
  <2> SUFFICES ASSUME HostsInv
               PROVE  HostsAreTheirOwn
    OBVIOUS
  <2>1. BuilderInv /\ Rested(memo)
    BY DEF HostsInv, BuilderInv
  <2>2. CASE page = NoFile
    <3>1. DOMAIN hosts = {}
      BY <2>2 DEF HostsInv
    <3> QED
      BY <3>1 DEF HostsAreTheirOwn
  <2>3. CASE page # NoFile
    <3> DEFINE k == tracker.compilation
    <3>1. /\ IsWorkspace(k) /\ Indexed(k, page) /\ Jsx(page) = Tree(k, page).jsx
          /\ Len(Jsx(page)) \in Nat /\ DOMAIN Jsx(page) = 1..Len(Jsx(page))
      BY <2>1, <2>3, PageIs DEF BuilderInv
    <3>2. DOMAIN hosts = 1..Len(hosts) /\ Len(hosts) \in Nat /\ Len(hosts) <= Len(Jsx(page))
      BY <2>1, <2>3, ListHas DEF BuilderInv, IsList
    <3>3. SoundMemo(k, memo) /\ \A i \in 1..Len(hosts) : HostIs(memo, page, Jsx(page)[i], hosts[i])
      BY <2>3 DEF HostsInv
    <3>4. ASSUME NEW i \in DOMAIN hosts
          PROVE  LET e == Jsx(page)[i]
                     grounds == UNION {Grounds(k, page, tag) : tag \in {e.tag, e.as} \ {None}}
                 IN  \/ hosts[i] = HostFor(k, NewMemo, page, e).binding
                     \/ Circular(k, grounds)
                     \/ Cardinality(memo.parsed) = MaxExternal /\ \E key \in grounds : key[2] \in External
      <4> DEFINE e == Jsx(page)[i]
                 tags == {e.tag, e.as} \ {None}
                 grounds == UNION {Grounds(k, page, tag) : tag \in tags}
      <4>1. i \in DOMAIN Tree(k, page).jsx /\ HostIs(memo, page, e, hosts[i]) /\ e = Tree(k, page).jsx[i]
        BY <3>1, <3>2, <3>3, <3>4
      <4>2. \A tag \in tags : tag[1] \in Identifiers
        BY <3>1, <4>1, TagsOf
      <4> HIDE DEF e, k
      <4> SUFFICES ASSUME ~Circular(k, grounds),
                          ~(Cardinality(memo.parsed) = MaxExternal /\ \E key \in grounds : key[2] \in External)
                   PROVE  hosts[i] = HostFor(k, NewMemo, page, e).binding
        BY DEF e
      <4>3. ASSUME NEW tag \in tags
            PROVE  Clear(k, memo.parsed, LocalKey(page, tag[1]))
        <5> DEFINE q == LocalKey(page, tag[1])
        <5>1. q \in KeysOf(k) /\ RestsOn(k, {q}) \subseteq grounds
          BY <3>1, <4>2, TagKey DEF Grounds
        <5>2. ~Circular(k, RestsOn(k, {q}))
          BY <5>1 DEF Circular
        <5>3. Cardinality(memo.parsed) < MaxExternal \/ Cardinality(memo.parsed) = MaxExternal
          <6>1. Cardinality(memo.parsed) \in Nat /\ Cardinality(memo.parsed) <= MaxExternal /\ MaxExternal \in Nat
            BY <2>1, ParsedIsFinite, ExternalAssumption DEF Rested, MemoOK
          <6> QED
            BY <6>1
        <5>4. Cardinality(memo.parsed) < MaxExternal \/ \A p \in RestsOn(k, {q}) : p[2] \notin External
          BY <5>1, <5>3
        <5> QED
          BY <5>1, <5>2, <5>4 DEF Clear
      <4> DEFINE h == hosts[i]
      <4>4. /\ i \in DOMAIN Tree(k, page).jsx /\ HostIs(memo, page, Tree(k, page).jsx[i], h)
            /\ TagsClear(k, memo, page, Tree(k, page).jsx[i])
        BY ONLY <4>1, <4>3 DEF TagsClear
      <4> HIDE DEF grounds, tags
      <4>5. IsWorkspace(k) /\ Rested(memo) /\ SoundMemo(k, memo) /\ Indexed(k, page)
        BY <2>1, <3>1, <3>3
      <4> HIDE DEF h
      <4>6. HostFor(k, NewMemo, page, Tree(k, page).jsx[i]).binding = h
        BY ONLY <4>4, <4>5, HostForFollows, SMTT(30)
      <4> QED
        BY ONLY <4>1, <4>6 DEF h
    <3> QED
      BY <3>4 DEF HostsAreTheirOwn
  <2> QED
    BY <2>2, <2>3
<1> QED
  BY <1>1, HostsInvHolds, PTL

------------------------------------------------------------------------------
(* Files that are not stale.                                               *)

(* The files from which a change goes on to the file f.                    *)
Feeds(k, f) == {g \in Solids(k) : f \in Affected(k, g)}

(* The files that lead to a file have what they import among them.         *)
LEMMA FeedsBack ==
  ASSUME NEW k, Solids(k) \subseteq Solid, NEW f \in Solids(k)
  PROVE  /\ f \in Feeds(k, f)
         /\ \A g \in Feeds(k, f) : JsImports(k, g) \subseteq Feeds(k, f)
<1>1. \A g \in Solids(k) : g \in Files
  BY DEF Files
<1>2. f \in Feeds(k, f)
  BY <1>1, ReachStart DEF Feeds, Affected
<1>3. ASSUME NEW g \in Feeds(k, f), NEW to \in JsImports(k, g)
      PROVE  to \in Feeds(k, f)
  <2>1. g \in Solids(k) /\ f \in Reach(ReverseEdges(k), g) /\ f \in Files
    BY <1>1 DEF Feeds, Affected
  <2>2. to \in Solids(k) /\ <<to, g>> \in ReverseEdges(k)
    BY <2>1, SolidEdgeReversed DEF JsImports, SolidEdges
  <2>3. ASSUME NEW S \in SUBSET Files, to \in S, \A e \in ReverseEdges(k) : e[1] \in S => e[2] \in S
        PROVE  f \in S
    <3>1. <<to, g>>[1] \in S => <<to, g>>[2] \in S
      BY ONLY <2>2, <2>3
    <3>2. g \in S
      BY <2>3, <3>1
    <3> QED
      BY <2>1, <2>3, <3>2 DEF Reach
  <2>4. f \in Reach(ReverseEdges(k), to)
    BY <2>1, <2>3 DEF Reach
  <2> QED
    BY <2>2, <2>4 DEF Feeds, Affected
<1> QED
  BY <1>2, <1>3

(* None of them has been changed if the file is not stale.                 *)
LEMMA FeedsStay ==
  ASSUME NEW k, IsWorkspace(k), NEW b, IsWorkspace(b), NEW changed,
         \A g \in HasTree(k) \ changed : TreeOf(k, g) = TreeOf(b, g),
         NEW f \in Solids(k), f \notin StaleFiles(k, changed), NEW g \in Feeds(k, f)
  PROVE  g \in Solids(b) /\ k.solid[g] = b.solid[g]
<1>1. g \in Solids(k) /\ g \in HasTree(k) /\ g \in Solid
  BY CompilationFiles DEF Feeds, HasTree, IsWorkspace
<1>2. g \notin changed
  BY DEF StaleFiles, Feeds
<1>3. TreeOf(b, g) = k.solid[g] /\ k.solid[g] \in Trees[g] /\ k.solid[g] # None
  BY <1>1, <1>2, TreesAssumption DEF TreeOf, WellTyped, IsWorkspace, Files
<1>4. g \notin Sheets(b)
  BY <1>1, CompilationFiles, FilesAssumption DEF IsWorkspace
<1> QED
  BY <1>3, <1>4 DEF TreeOf
------------------------------------------------------------------------------
(* Where the nodes of a key's terms may lead.                              *)
NodeFits(k, q, x) ==
  /\ x.form = "import" => \E n \in DOMAIN Tree(k, q[2]).names : x.of = Tree(k, q[2]).names[n]
  /\ x.form = "export" => \/ x.file = q[2]
                          \/ q[1] = "export" /\ \E e \in ToSet(Tree(k, q[2]).exports) : e.name = q[3] /\ e.source # None

(* Sequences of one, and of two.                                           *)
LEMMA Singly ==
  ASSUME NEW x, NEW y
  PROVE  /\ Len(<<x>>) = 1 /\ <<x>>[1] = x /\ \A i \in 1..Len(<<x>>) : <<x>>[i] = x
         /\ \A i \in 1..Len(<<x, y>>) : <<x, y>>[i] \in {x, y}
<1>1. Len(<<x>>) = 1 /\ <<x>>[1] = x /\ Len(<<x, y>>) = 2 /\ <<x, y>>[1] = x /\ <<x, y>>[2] = y
  OBVIOUS
<1>2. (\A i \in 1..1 : i = 1) /\ \A i \in 1..2 : i = 1 \/ i = 2
  OBVIOUS
<1>3. \A i \in 1..Len(<<x>>) : i = 1
  BY <1>1, <1>2
<1>4. \A i \in 1..Len(<<x, y>>) : i = 1 \/ i = 2
  BY <1>1, <1>2
<1> QED
  BY <1>1, <1>3, <1>4

(* The term of an entry asks for a local name at most;                     *)
LEMMA EntryFits ==
  ASSUME NEW entry, NEW i \in 1..Len(OfEntry(entry))
  PROVE  OfEntry(entry)[i].form \notin {"import", "export"}
<1> DEFINE x == IF entry.inner = None \/ Len(entry.inner) > 1 THEN Nothing ELSE Name(entry.inner[1])
           y == [form |-> "entry", of |-> 1, entry |-> entry]
<1>1. OfEntry(entry) = <<x, y>>
  BY DEF OfEntry
<1>2. x.form \notin {"import", "export"} /\ y.form \notin {"import", "export"}
  BY DEF Nothing, Name
<1> HIDE DEF x, y
<1>3. OfEntry(entry)[i] \in {x, y}
  BY <1>1, Singly
<1> QED
  BY <1>2, <1>3

(* that of a local name may import what the file imports;                  *)
LEMMA LocalFits ==
  ASSUME NEW k, IsWorkspace(k), NEW f, Indexed(k, f), NEW n, NEW i \in 1..Len(LocalTerm(k, f, n))
  PROVE  LET x == LocalTerm(k, f, n)[i]
         IN  /\ x.form = "import" => \E v \in DOMAIN Tree(k, f).names : x.of = Tree(k, f).names[v]
             /\ x.form # "export"
<1> DEFINE t == Tree(k, f)
           term == LocalTerm(k, f, n)
           x == term[i]
<1>1. IsTree(t)
  BY IndexedTree
<1> HIDE DEF t
<1>2. CASE HostEntry(t, n) # None
  <2>1. term = OfEntry(HostEntry(t, n))
    BY <1>2 DEF LocalTerm, t
  <2>2. x.form \notin {"import", "export"}
    BY <2>1, EntryFits
  <2> QED
    BY <2>2
<1>3. CASE HostEntry(t, n) = None /\ n \in DOMAIN t.inits
  <2>1. term = t.inits[n] /\ IsTerm(t.inits[n])
    BY <1>1, <1>3 DEF LocalTerm, t, IsTree
  <2>2. x.form \in {"nothing", "name", "member", "object"}
    <3> DEFINE u == t.inits[n]
    <3>1. u = [j \in 1..Len(u) |-> u[j]] /\ \A j \in DOMAIN u : u[j].form \in {"nothing", "name", "member", "object"}
      BY <2>1 DEF IsTerm
    <3>2. i \in 1..Len(u) /\ x = u[i]
      BY <2>1
    <3> HIDE DEF u
    <3>3. DOMAIN u = 1..Len(u)
      BY <3>1
    <3> QED
      BY <3>1, <3>2, <3>3
  <2> HIDE DEF term
  <2>3. x.form # "import" /\ x.form # "export"
    BY <2>2
  <2> QED
    BY <2>3 DEF term
<1>4. CASE HostEntry(t, n) = None /\ n \notin DOMAIN t.inits /\ n \in DOMAIN t.names
  <2>1. term = <<Imported(t.names[n])>>
    BY <1>4 DEF LocalTerm, t
  <2>2. x = Imported(t.names[n])
    BY <2>1, Singly
  <2>3. x.form = "import" /\ x.of = t.names[n]
    BY <2>2 DEF Imported
  <2> QED
    BY <1>4, <2>3 DEF t
<1>5. CASE HostEntry(t, n) = None /\ n \notin DOMAIN t.inits /\ n \notin DOMAIN t.names
  <2>1. term = <<Nothing>>
    BY <1>5 DEF LocalTerm, t
  <2>2. x = Nothing
    BY <2>1, Singly
  <2>3. x.form = "nothing"
    BY <2>2 DEF Nothing
  <2> QED
    BY <2>3
<1> QED
  BY <1>2, <1>3, <1>4, <1>5

(* that of an export leads to another file only if it is a re-export;      *)
LEMMA ExportFits ==
  ASSUME NEW k, NEW f, NEW e, NEW i \in 1..Len(ExportTerm(k, f, e))
  PROVE  LET x == ExportTerm(k, f, e)[i]
         IN  x.form # "import" /\ (x.form = "export" => e.source # None)
<1> DEFINE t == Tree(k, f)
           term == ExportTerm(k, f, e)
           x == term[i]
<1>1. Nothing.form = "nothing" /\ (\A n : Name(n).form = "name") /\ \A g, v : Exported(g, v).form = "export"
  BY DEF Nothing, Name, Exported
<1>2. CASE e.typeOnly
  <2>1. term = <<Nothing>>
    BY <1>2 DEF ExportTerm
  <2>2. x = Nothing
    BY <2>1, Singly
  <2> QED
    BY <1>1, <2>2
<1>3. CASE ~e.typeOnly /\ e.source # None
  <2> DEFINE y == IF e.source \in Solids(k) THEN Exported(e.source, e.of) ELSE Nothing
  <2>1. term = <<y>>
    BY <1>3 DEF ExportTerm
  <2>2. y.form # "import"
    BY <1>1
  <2> HIDE DEF y
  <2>3. x = y
    BY <2>1, Singly
  <2> QED
    BY <1>3, <2>2, <2>3
<1>4. CASE ~e.typeOnly /\ e.source = None
  <2>1. term \in {OfEntry(HostEntry(t, e.of)), <<Nothing>>, <<Name(e.of)>>}
    BY <1>4 DEF ExportTerm
  <2>2. CASE term = OfEntry(HostEntry(t, e.of))
    <3>1. x.form \notin {"import", "export"}
      BY <2>2, EntryFits
    <3> QED
      BY <3>1
  <2>3. CASE term = <<Nothing>>
    <3>1. x = Nothing
      BY <2>3, Singly
    <3> QED
      BY <1>1, <3>1
  <2>4. CASE term = <<Name(e.of)>>
    <3>1. x = Name(e.of)
      BY <2>4, Singly
    <3> QED
      BY <1>1, <3>1
  <2> QED
    BY <2>1, <2>2, <2>3, <2>4
<1> QED
  BY <1>2, <1>3, <1>4

(* and so the terms of every key.                                          *)
LEMMA NodesFit ==
  ASSUME NEW k, IsWorkspace(k), NEW q \in KeysOf(k), NEW t \in 1..Len(Terms(k, q)), NEW i \in 1..Len(Terms(k, q)[t])
  PROVE  NodeFits(k, q, Terms(k, q)[t][i])
<1> DEFINE f == q[2]
           terms == Terms(k, q)
           x == terms[t][i]
<1>1. q \in AllKeys /\ Indexed(k, f)
  BY DEF KeysOf
<1>2. CASE q[1] = "local"
  <2>1. terms = <<LocalTerm(k, f, q[3])>>
    BY <1>2 DEF Terms
  <2>2. terms[t] = LocalTerm(k, f, q[3])
    BY <2>1, Singly
  <2>3. i \in 1..Len(LocalTerm(k, f, q[3])) /\ x = LocalTerm(k, f, q[3])[i]
    BY <2>2
  <2> HIDE DEF terms, x
  <2> QED
    BY <1>1, <2>3, LocalFits DEF NodeFits, terms, x
<1>3. CASE q[1] = "export"
  <2> DEFINE exports == Tree(k, f).exports
             e == exports[t]
  <2>1. terms = [j \in DOMAIN exports |-> IF exports[j].name = q[3] THEN ExportTerm(k, f, exports[j]) ELSE <<Nothing>>]
    BY <1>3 DEF Terms
  <2>2. IsList(terms)
    BY <1>1, TermsAreCode
  <2>3. t \in DOMAIN terms
    BY <2>2, ListHas
  <2> HIDE DEF exports
  <2>4. t \in DOMAIN exports
    BY <2>1, <2>3
  <2>5. terms[t] = IF e.name = q[3] THEN ExportTerm(k, f, e) ELSE <<Nothing>>
    BY <2>1, <2>4
  <2>6. CASE e.name # q[3]
    <3>1. x = Nothing
      BY <2>5, <2>6, Singly
    <3>2. x.form = "nothing"
      BY <3>1 DEF Nothing
    <3> QED
      BY <3>2 DEF NodeFits
  <2>7. CASE e.name = q[3]
    <3>1. terms[t] = ExportTerm(k, f, e)
      BY <2>5, <2>7
    <3>2. x.form # "import" /\ (x.form = "export" => e.source # None)
      BY <3>1, ExportFits
    <3>3. e \in ToSet(exports)
      BY <2>4 DEF ToSet
    <3> QED
      BY <1>3, <2>7, <3>2, <3>3 DEF NodeFits, exports
  <2> QED
    BY <2>6, <2>7
<1>4. CASE q[1] = "space"
  <2>1. q = SpaceKey(f)
    BY <1>1, <1>4, KeyKinds DEF AllKeys
  <2>2. /\ Len(terms) = 1
        /\ \A j \in 1..Len(terms[1]) :
             \/ IsMade(terms[1][j]) \/ terms[1][j] = Nothing
             \/ \E e \in ToSet(Tree(k, f).exports) : terms[1][j] = Exported(f, e.name) /\ e.name \in Identifiers
    BY <1>1, <2>1, SpaceCode
  <2>3. t = 1
    BY <2>2
  <2>4. IsMade(x) \/ x = Nothing \/ \E n : x = Exported(f, n)
    BY <2>2, <2>3
  <2> HIDE DEF x
  <2>5. x.form # "import" /\ (x.form = "export" => x.file = f)
    BY <2>4 DEF IsMade, Nothing, Exported
  <2> QED
    BY <2>5 DEF NodeFits, x
<1> QED
  BY <1>1, <1>2, <1>3, <1>4, KeyKinds

(* Two compilations in which some keys mean the same.                      *)
TermsAlike(k, b, q) ==
  /\ Terms(k, q) = Terms(b, q)
  /\ \A t \in 1..Len(Terms(k, q)) : \A i \in 1..Len(Terms(k, q)[t]) :
       LET x == Terms(k, q)[t][i]
       IN  x.form = "import" => (x.of.file \in Solids(k) <=> x.of.file \in Solids(b))
Alike(k, b, Q) ==
  \A q \in Q : q \in KeysOf(k) \cap KeysOf(b) /\ Rests(k, q) \subseteq Q /\ TermsAlike(k, b, q)

(* The keys that the elements of a file ask for.                           *)
Starts(k, f) ==
  UNION {{LocalKey(f, tag[1]) : tag \in {e.tag, e.as} \ {None}} : e \in {x \in ToSet(Tree(k, f).jsx) : ~x.dom}}

(* The file of a key.                                                      *)
LEMMA KeyFiles ==
  /\ \A f, n : LocalKey(f, n)[2] = f /\ ExportKey(f, n)[2] = f /\ SpaceKey(f)[2] = f
  /\ \A f, n : f # None => ImportKey(f, n)[2] = f
<1>1. \A f, n : LocalKey(f, n)[2] = f /\ ExportKey(f, n)[2] = f /\ SpaceKey(f)[2] = f
  BY DEF LocalKey, ExportKey, SpaceKey
<1>2. \A f, n : f # None => ImportKey(f, n) \in {SpaceKey(f), ExportKey(f, n)}
  BY DEF ImportKey
<1> QED
  BY <1>1, <1>2

(* The elements of a file ask for local names.                             *)
LEMMA StartsAreKeys ==
  ASSUME NEW k, IsWorkspace(k), NEW f, Indexed(k, f)
  PROVE  Starts(k, f) \subseteq KeysOf(k) /\ \A q \in Starts(k, f) : q[2] = f
<1>1. ASSUME NEW q \in Starts(k, f)
      PROVE  q \in KeysOf(k) /\ q[2] = f
  <2> DEFINE jsx == Tree(k, f).jsx
  <2>1. PICK e \in ToSet(jsx) : q \in {LocalKey(f, tag[1]) : tag \in {e.tag, e.as} \ {None}}
    BY DEF Starts
  <2>2. PICK i \in DOMAIN jsx : e = jsx[i]
    BY <2>1 DEF ToSet
  <2>3. PICK tag \in {e.tag, e.as} \ {None} : q = LocalKey(f, tag[1])
    BY <2>1
  <2>4. tag[1] \in Identifiers
    BY <2>2, <2>3, TagsOf
  <2> HIDE DEF jsx
  <2> QED
    BY <2>3, <2>4, TagKey
<1> QED
  BY <1>1

Reexported(k, q) ==
  q[1] = "export" /\ \E e \in ToSet(Tree(k, q[2]).exports) : e.name = q[3] /\ e.source # None
LeadsTo(k, q, x, p) ==
  /\ RefersTo(k, q[2], x) = {p}
  /\ \/ p[2] = q[2] /\ x.form # "import"
     \/ /\ x.form = "import" /\ p[2] = x.of.file /\ p = ImportKey(x.of.file, x.of.name)
        /\ \E n \in DOMAIN Tree(k, q[2]).names : x.of.file = Tree(k, q[2]).names[n].file

(* What a node refers to lies in its file, or where it imports from.       *)
LEMMA Leads ==
  ASSUME NEW k, IsWorkspace(k), NEW q \in KeysOf(k), NEW p \in Rests(k, q),
         ~Reexported(k, q)
  PROVE  \E t \in 1..Len(Terms(k, q)) : \E i \in 1..Len(Terms(k, q)[t]) :
           LeadsTo(k, q, Terms(k, q)[t][i], p)
<1> DEFINE terms == Terms(k, q)
           f == q[2]
<1>1. q \in AllKeys /\ Indexed(k, f)
  BY DEF KeysOf
<1>2. IsList(terms) /\ \A t \in 1..Len(terms) : IsCode(k, terms[t])
  BY <1>1, TermsAreCode
<1>3. PICK term \in ToSet(terms) : p \in UNION {RefersTo(k, f, x) : x \in ToSet(term)}
  BY DEF Rests
<1> HIDE DEF terms, f, LeadsTo
<1>4. PICK t \in 1..Len(terms) : term = terms[t]
  BY <1>2, <1>3, ListHas
<1>5. PICK y \in ToSet(term) : p \in RefersTo(k, f, y)
  BY <1>3
<1>6. IsList(term)
  BY <1>2, <1>4 DEF IsCode
<1>7. PICK i \in 1..Len(term) : y = term[i]
  BY <1>5, <1>6, ListHas
<1>8. NodeFits(k, q, y)
  BY <1>4, <1>7, NodesFit DEF terms
<1>9. CASE y.form = "name"
  <2>1. RefersTo(k, f, y) = {LocalKey(f, y.name)}
    BY <1>9 DEF RefersTo
  <2>2. p = LocalKey(f, y.name)
    BY <1>5, <2>1
  <2>3. p[2] = f
    BY <2>2, KeyFiles
  <2> QED
    BY <1>4, <1>7, <1>9, <2>1, <2>2, <2>3 DEF terms, f, LeadsTo
<1>10. CASE y.form = "export"
  <2>1. RefersTo(k, f, y) = {ExportKey(y.file, y.name)}
    BY <1>10 DEF RefersTo
  <2>2. p = ExportKey(y.file, y.name)
    BY <1>5, <2>1
  <2>3. y.file = f
    BY <1>8, <1>10 DEF NodeFits, f, Reexported
  <2>4. p[2] = f
    BY <2>2, <2>3, KeyFiles
  <2> QED
    BY <1>4, <1>7, <1>10, <2>1, <2>2, <2>4 DEF terms, f, LeadsTo
<1>11. CASE y.form = "import"
  <2>1. RefersTo(k, f, y) = IF Indexed(k, y.of.file) THEN {ImportKey(y.of.file, y.of.name)} ELSE {}
    BY <1>11 DEF RefersTo
  <2>2. RefersTo(k, f, y) = {p} /\ p = ImportKey(y.of.file, y.of.name) /\ Indexed(k, y.of.file)
    BY <1>5, <2>1
  <2>3. y.of.file # None
    BY <2>2, IndexedTree, ExternalAssumption DEF Files
  <2>4. p[2] = y.of.file
    BY <2>2, <2>3, KeyFiles
  <2>5. \E n \in DOMAIN Tree(k, q[2]).names : y.of.file = Tree(k, q[2]).names[n].file
    BY <1>8, <1>11 DEF NodeFits
  <2> QED
    BY <1>4, <1>7, <1>11, <2>2, <2>4, <2>5 DEF terms, f, LeadsTo
<1>12. CASE y.form \notin {"name", "export", "import"}
  BY <1>5, <1>12 DEF RefersTo
<1> QED
  BY <1>9, <1>10, <1>11, <1>12

(* The trees that a file's keys are in have not been changed if the file   *)
(* is not stale, unless one of the keys leads on through a re-export.      *)
LEMMA KeysStay ==
  ASSUME NEW k, IsWorkspace(k), NEW f \in Solids(k), NEW Q, Q = Keys(k, f), ~ThroughReexport(k, Q)
  PROVE  /\ Starts(k, f) \subseteq Q /\ Q \subseteq KeysOf(k) /\ IsClosed(k, Q)
         /\ \A q \in Q : q[2] \in Feeds(k, f) \cup External
         /\ \A S : Starts(k, f) \subseteq S /\ IsClosed(k, S) => Q \subseteq S
<1>1. Indexed(k, f) /\ Solids(k) \subseteq Solid /\ f \in Solid
  BY CompilationFiles DEF Indexed, IsWorkspace
<1>2. Starts(k, f) \in SUBSET KeysOf(k)
  BY <1>1, StartsAreKeys
<1>3. Q = RestsOn(k, Starts(k, f))
  BY DEF Keys, Starts
<1>4. /\ Starts(k, f) \subseteq Q /\ Q \subseteq KeysOf(k) /\ IsClosed(k, Q)
      /\ \A S : Starts(k, f) \subseteq S /\ IsClosed(k, S) => Q \subseteq S
  BY <1>2, <1>3, RestsOnIs
<1> DEFINE S == {q \in Q : q[2] \in Feeds(k, f) \cup External}
<1>5. f \in Feeds(k, f) /\ \A g \in Feeds(k, f) : JsImports(k, g) \subseteq Feeds(k, f)
  BY <1>1, FeedsBack
<1>6. Starts(k, f) \subseteq S
  BY <1>1, <1>4, <1>5, StartsAreKeys
<1>7. ASSUME NEW q \in S, NEW p \in Rests(k, q)
      PROVE  p \in S
  <2>1. q \in KeysOf(k) /\ p \in Q /\ p \in KeysOf(k)
    BY <1>4, <1>7 DEF IsClosed
  <2> DEFINE g == q[2]
  <2>2. g \in Feeds(k, f) \cup External
    BY <1>7
  <2>3. ~Reexported(k, q)
    BY <1>7 DEF ThroughReexport, Reexported
  <2>4. PICK t \in 1..Len(Terms(k, q)) : \E i \in 1..Len(Terms(k, q)[t]) :
           LeadsTo(k, q, Terms(k, q)[t][i], p)
    BY <1>7, <2>1, <2>3, Leads
  <2>5. \/ p[2] = g
        \/ \E n \in DOMAIN Tree(k, g).names : p[2] = Tree(k, g).names[n].file
    BY <2>4 DEF LeadsTo
  <2>6. Indexed(k, p[2])
    BY <2>1 DEF KeysOf
  <2> HIDE DEF g
  <2>7. CASE p[2] = g
    BY <2>1, <2>2, <2>7
  <2>8. CASE \E n \in DOMAIN Tree(k, g).names : p[2] = Tree(k, g).names[n].file
    <3>1. PICK n \in DOMAIN Tree(k, g).names : p[2] = Tree(k, g).names[n].file
      BY <2>8
    <3>2. CASE p[2] \in External
      BY <2>1, <3>2
    <3>3. CASE p[2] \in Solids(k)
      <4>1. p[2] \in Solid
        BY <1>1, <3>3
      <4>2. CASE g \in External
        <5>1. g \notin Solids(k)
          BY <1>1, <4>2, ExternalAssumption DEF Files
        <5>2. Tree(k, g) = ExternalTree[g]
          BY <5>1 DEF Tree
        <5> QED
          BY <3>1, <4>1, <4>2, <5>2, ImportsAssumption
      <4>3. CASE g \in Feeds(k, f)
        <5>1. g \in Solids(k) /\ g \in Solid
          BY <1>1, <4>3 DEF Feeds
        <5>2. Tree(k, g) = k.solid[g] /\ k.solid[g] \in Trees[g]
          BY <5>1 DEF Tree, TreeOf, WellTyped, IsWorkspace, HasTree
        <5>3. p[2] \in k.solid[g].imports
          BY <3>1, <4>1, <5>1, <5>2, ImportsAssumption
        <5>4. p[2] \in JsImports(k, g)
          BY <3>3, <5>3 DEF JsImports
        <5> QED
          BY <1>5, <2>1, <4>3, <5>4
      <4> QED
        BY <2>2, <4>2, <4>3
    <3> QED
      BY <2>6, <3>2, <3>3 DEF Indexed
  <2> QED
    BY <2>5, <2>7, <2>8
<1>8. Q \subseteq S
  BY <1>4, <1>6, <1>7 DEF IsClosed
<1> QED
  BY <1>4, <1>8

(* The terms of a key whose tree has stayed.                               *)
LEMMA TermsStay ==
  ASSUME NEW k, IsWorkspace(k), NEW b, IsWorkspace(b), NEW q \in KeysOf(k),
         q[2] \in Solids(k) <=> q[2] \in Solids(b), Tree(k, q[2]) = Tree(b, q[2]), ~Reexported(k, q)
  PROVE  Terms(k, q) = Terms(b, q)
<1> DEFINE f == q[2]
           n == q[3]
           exports == Tree(k, f).exports
<1>1. q \in AllKeys /\ Indexed(k, f)
  BY DEF KeysOf
<1>2. Tree(k, f) = Tree(b, f)
  OBVIOUS
<1>3. CASE q[1] = "local"
  <2>1. LocalTerm(k, f, n) = LocalTerm(b, f, n)
    BY <1>2 DEF LocalTerm
  <2> QED
    BY <1>3, <2>1 DEF Terms
<1>4. CASE q[1] = "export"
  <2> DEFINE of(c, i) == IF exports[i].name = n THEN ExportTerm(c, f, exports[i]) ELSE <<Nothing>>
  <2>1. ASSUME NEW i \in DOMAIN exports
        PROVE  of(k, i) = of(b, i)
    <3>1. CASE exports[i].name = n
      <4>1. exports[i] \in ToSet(exports)
        BY DEF ToSet
      <4>2. exports[i].source = None
        BY <1>4, <3>1, <4>1 DEF Reexported
      <4>3. ExportTerm(k, f, exports[i]) = ExportTerm(b, f, exports[i])
        BY <1>2, <4>2 DEF ExportTerm
      <4> QED
        BY <4>3
    <3>2. CASE exports[i].name # n
      BY <3>2
    <3> QED
      BY <3>1, <3>2
  <2>2. Terms(k, q) = [i \in DOMAIN exports |-> of(k, i)]
    BY <1>4 DEF Terms
  <2>3. Terms(b, q) = [i \in DOMAIN exports |-> of(b, i)]
    BY <1>2, <1>4 DEF Terms
  <2> HIDE DEF of, exports
  <2> QED
    BY <2>1, <2>2, <2>3, SMTT(30)
<1>5. CASE q[1] = "space"
  BY <1>2, <1>5 DEF Terms
<1> QED
  BY <1>1, <1>3, <1>4, <1>5, KeyKinds

(* A file that is not stale asks for keys that mean what they meant,       *)
(* unless one leads on through a re-export or to a module that is gone.    *)
LEMMA StaysAlike ==
  ASSUME NEW k, IsWorkspace(k), NEW b, IsWorkspace(b), NEW changed,
         \A g \in HasTree(k) \ changed : TreeOf(k, g) = TreeOf(b, g),
         NEW f \in Solids(k), f \notin StaleFiles(k, changed),
         ~ThroughReexport(k, Keys(k, f)),
         ~\E key \in Keys(b, f) : Indexed(b, key[2]) /\ ~Indexed(k, key[2])
  PROVE  /\ f \in Solids(b) /\ Tree(k, f) = Tree(b, f)
         /\ Starts(k, f) \subseteq Keys(k, f) /\ Alike(k, b, Keys(k, f))
<1> DEFINE Q == Keys(k, f)
           P == Keys(b, f)
<1>1. /\ Starts(k, f) \subseteq Q /\ Q \subseteq KeysOf(k) /\ IsClosed(k, Q)
      /\ \A q \in Q : q[2] \in Feeds(k, f) \cup External
      /\ \A S : Starts(k, f) \subseteq S /\ IsClosed(k, S) => Q \subseteq S
  BY KeysStay
<1>2. /\ Solids(k) \subseteq Solid /\ Solids(b) \subseteq Solid /\ External \cap Solid = {}
  BY CompilationFiles, ExternalAssumption DEF IsWorkspace, Files
<1>3. ASSUME NEW g \in Feeds(k, f)
      PROVE  g \in Solids(k) /\ g \in Solids(b) /\ Tree(k, g) = Tree(b, g)
  <2>1. g \in Solids(b) /\ k.solid[g] = b.solid[g]
    BY <1>3, FeedsStay
  <2>2. g \in Solids(k)
    BY <1>3 DEF Feeds
  <2> QED
    BY <2>1, <2>2 DEF Tree
<1>4. ASSUME NEW g \in External
      PROVE  g \notin Solids(k) /\ g \notin Solids(b) /\ Tree(k, g) = Tree(b, g)
  <2>1. g \notin Solids(k) /\ g \notin Solids(b)
    BY <1>2, <1>4
  <2> QED
    BY <2>1 DEF Tree
<1>5. f \in Feeds(k, f)
  BY <1>2, FeedsBack
<1>6. f \in Solids(b) /\ Tree(k, f) = Tree(b, f)
  BY <1>3, <1>5
<1>7. ASSUME NEW q \in Q
      PROVE  /\ q \in KeysOf(k) /\ q \in KeysOf(b) /\ Terms(k, q) = Terms(b, q) /\ ~Reexported(k, q)
  <2>1. q \in KeysOf(k) /\ (q[2] \in Solids(k) <=> q[2] \in Solids(b)) /\ Tree(k, q[2]) = Tree(b, q[2])
    BY <1>1, <1>3, <1>4
  <2>2. q \in KeysOf(b)
    BY <2>1 DEF KeysOf, Indexed
  <2>3. ~Reexported(k, q)
    BY <1>7 DEF Reexported, ThroughReexport
  <2> HIDE DEF Q
  <2> QED
    BY <2>1, <2>2, <2>3, TermsStay
<1>8. /\ Starts(b, f) = Starts(k, f) /\ Starts(b, f) \in SUBSET KeysOf(b)
  <2>1. Indexed(b, f)
    BY <1>6 DEF Indexed
  <2> QED
    BY <1>6, <2>1, StartsAreKeys DEF Starts
<1>9. Starts(k, f) \subseteq P /\ IsClosed(b, P)
  <2>1. P = RestsOn(b, Starts(b, f))
    BY DEF Keys, Starts
  <2> HIDE DEF P
  <2> QED
    BY <1>8, <2>1, RestsOnIs
<1> HIDE DEF Q, P
<1>10. ASSUME NEW q \in Q, NEW p \in Rests(k, q)
       PROVE  p \in Q /\ p \in Rests(b, q)
  <2>1. p \in Q /\ p \in KeysOf(b) /\ q \in KeysOf(k) /\ q \in KeysOf(b) /\ Terms(k, q) = Terms(b, q) /\ ~Reexported(k, q)
    BY <1>1, <1>7 DEF IsClosed
  <2>2. PICK t \in 1..Len(Terms(k, q)) : \E i \in 1..Len(Terms(k, q)[t]) : LeadsTo(k, q, Terms(k, q)[t][i], p)
    BY <2>1, Leads
  <2>3. PICK i \in 1..Len(Terms(k, q)[t]) : LeadsTo(k, q, Terms(k, q)[t][i], p)
    BY <2>2
  <2> DEFINE x == Terms(k, q)[t][i]
  <2>4. RefersTo(b, q[2], x) \subseteq Rests(b, q)
    BY <2>1, RestsAreKeys
  <2>5. LeadsTo(k, q, x, p)
    BY <2>3
  <2> HIDE DEF x
  <2>6. p \in RefersTo(b, q[2], x)
    <3>1. CASE x.form # "import"
      <4>1. RefersTo(b, q[2], x) = RefersTo(k, q[2], x)
        BY <3>1 DEF RefersTo
      <4> QED
        BY <2>5, <4>1 DEF LeadsTo
    <3>2. CASE x.form = "import"
      <4>1. p[2] = x.of.file /\ p = ImportKey(x.of.file, x.of.name)
        BY <2>5, <3>2 DEF LeadsTo
      <4>2. Indexed(b, x.of.file)
        BY <2>1, <4>1 DEF KeysOf
      <4> QED
        BY <3>2, <4>1, <4>2 DEF RefersTo
    <3> QED
      BY <3>1, <3>2
  <2> QED
    BY <2>1, <2>4, <2>6
<1>11. Q \subseteq P
  <2> DEFINE S == {q \in Q : q \in P}
  <2>1. Starts(k, f) \subseteq S
    BY <1>1, <1>9
  <2>2. IsClosed(k, S)
    BY <1>9, <1>10 DEF IsClosed
  <2> HIDE DEF S
  <2>3. Q \subseteq S
    BY <1>1, <2>1, <2>2
  <2> QED
    BY <2>3 DEF S
<1>12. ASSUME NEW q \in Q, NEW t \in 1..Len(Terms(k, q)), NEW i \in 1..Len(Terms(k, q)[t]),
              Terms(k, q)[t][i].form = "import"
       PROVE  Terms(k, q)[t][i].of.file \in Solids(k) <=> Terms(k, q)[t][i].of.file \in Solids(b)
  <2> DEFINE x == Terms(k, q)[t][i]
             g == x.of.file
             p == ImportKey(g, x.of.name)
  <2>1. q \in KeysOf(k) /\ q \in KeysOf(b) /\ Terms(k, q) = Terms(b, q) /\ q \in P
    BY <1>7, <1>11
  <2>2. RefersTo(b, q[2], x) \subseteq Rests(b, q)
    BY <2>1, RestsAreKeys
  <2>3. RefersTo(k, q[2], x) \subseteq Rests(k, q)
    BY <2>1, RestsAreKeys
  <2>4. x.form = "import"
    BY <1>12
  <2> HIDE DEF x
  <2>5. /\ RefersTo(k, q[2], x) = IF Indexed(k, g) THEN {p} ELSE {}
        /\ RefersTo(b, q[2], x) = IF Indexed(b, g) THEN {p} ELSE {}
    BY <2>4 DEF RefersTo
  <2>6. g # None => p[2] = g
    BY KeyFiles
  <2>7. ASSUME g \in Solids(k)
        PROVE  g \in Solids(b)
    <3>1. g # None /\ Indexed(k, g) /\ g \notin External
      BY <1>2, <2>7, ExternalAssumption DEF Indexed, Files
    <3>2. p \in Q /\ p[2] = g
      BY <1>10, <2>3, <2>5, <2>6, <3>1
    <3>3. g \in Feeds(k, f)
      BY <1>1, <3>1, <3>2
    <3> QED
      BY <1>3, <3>3
  <2>8. ASSUME g \in Solids(b)
        PROVE  g \in Solids(k)
    <3>1. g # None /\ Indexed(b, g) /\ g \notin External
      BY <1>2, <2>8, ExternalAssumption DEF Indexed, Files
    <3>2. p \in P /\ p[2] = g
      BY <1>9, <2>1, <2>2, <2>5, <2>6, <3>1 DEF IsClosed
    <3>3. Indexed(k, g)
      BY <3>1, <3>2 DEF P
    <3> QED
      BY <3>1, <3>3 DEF Indexed
  <2>9. g \in Solids(k) <=> g \in Solids(b)
    BY <2>7, <2>8
  <2> QED
    BY <2>9 DEF x
<1>13. Alike(k, b, Q)
  BY <1>1, <1>7, <1>12 DEF Alike, TermsAlike, IsClosed
<1> QED
  BY <1>1, <1>6, <1>13 DEF Q

(* A node looks up the same key in both compilations if its import leads   *)
(* into both or into none.                                                 *)
LEMMA KeySame ==
  ASSUME NEW k, NEW b, NEW m, NEW f, NEW x, IsLeaf(k, x),
         x.form = "import" => (x.of.file \in Solids(k) <=> x.of.file \in Solids(b))
  PROVE  Key(k, m, f, x) = Key(b, m, f, x)
<1>1. CASE x.form = "import"
  <2>1. Located(k, m, f, x.of.file) = Located(b, m, f, x.of.file)
    BY <1>1 DEF Located
  <2> QED
    BY <1>1, <2>1 DEF Key
<1>2. CASE x.form # "import"
  BY <1>2 DEF IsLeaf, Key
<1> QED
  BY <1>1, <1>2

(* A resolver that is resolving some keys only, in which both agree.       *)
Within(k, Q, c) == Good(k, c) /\ OnStack(c.stack) \subseteq Q

(* Then the resolver takes the same step in both,                          *)
LEMMA StepSame ==
  ASSUME NEW k, IsWorkspace(k), NEW b, NEW Q, Alike(k, b, Q), NEW c, Within(k, Q, c)
  PROVE  Step(b, c) = Step(k, c)
<1> DEFINE fr == Last(c.stack)
           terms == Terms(k, fr.key)
           x == NextNode(k, fr)
<1>1. CASE c.stack = <<>>
  BY <1>1 DEF Step
<1>2. CASE c.stack # <<>>
  <2>1. FrameOK(k, fr) /\ fr.key \in Q
    BY <1>2, LastOK DEF Within
  <2>2. Terms(b, fr.key) = terms /\ TermsAlike(k, b, fr.key)
    BY <2>1 DEF Alike, TermsAlike
  <2>3. Step(k, c) = Proceed(k, c, fr, terms) /\ Step(b, c) = Proceed(b, c, fr, terms)
    BY <1>2, <2>2 DEF Step
  <2> DEFINE term == terms[fr.term]
             n == Len(fr.values)
  <2>4. CASE fr.term > Len(terms)
    BY <2>3, <2>4 DEF Proceed
  <2>5. CASE ~(fr.term > Len(terms)) /\ ~(n < Len(term))
    <3>1. Try(k, c, fr, term) = Try(b, c, fr, term)
      BY <2>5 DEF Try
    <3> QED
      BY <2>3, <2>5, <3>1 DEF Proceed
  <2>6. CASE ~(fr.term > Len(terms)) /\ n < Len(term)
    <3>1. term = TermOf(k, fr) /\ x = term[n + 1]
      BY DEF TermOf, NextNode
    <3>2. fr.term \in Nat /\ Len(terms) \in Nat
      BY <2>1, FrameTerms
    <3>3. fr.term <= Len(terms)
      <4> DEFINE l == Len(terms)
                 u == fr.term
      <4>1. u \in Nat /\ l \in Nat /\ ~(u > l)
        BY <2>6, <3>2
      <4> HIDE DEF l, u
      <4>2. u <= l
        BY <4>1
      <4> QED
        BY <4>2 DEF l, u
    <3>4. AtTerm(k, fr) /\ Evaluating(k, fr)
      BY <2>6, <3>1, <3>3 DEF AtTerm, Evaluating
    <3>5. NodeOK(k, x)
      BY <2>1, <3>4, FrameTerms
    <3>6. fr.term \in 1..Len(terms) /\ n \in 0..Len(TermOf(k, fr)) /\ Len(TermOf(k, fr)) \in 1..MaxNodes /\ MaxNodes \in Nat
      BY <2>1, <3>4, FrameTerms, PlacesAre
    <3>7. n + 1 \in 1..Len(term)
      <4> DEFINE l == Len(term)
      <4>1. n \in Nat /\ l \in Nat /\ n < l
        BY <2>6, <3>1, <3>6
      <4> HIDE DEF l, n
      <4>2. n + 1 \in 1..l
        BY <4>1
      <4> QED
        BY <4>2 DEF l
    <3>8. x.form = "import" => (x.of.file \in Solids(k) <=> x.of.file \in Solids(b))
      BY <2>2, <3>1, <3>6, <3>7 DEF TermsAlike
    <3>9. Evaluate(k, c, fr, x) = Evaluate(b, c, fr, x)
      <4>1. CASE IsMade(x)
        BY <4>1 DEF Evaluate
      <4>2. CASE ~IsMade(x)
        <5>1. Key(k, c.memo, fr.key[2], x) = Key(b, c.memo, fr.key[2], x)
          BY <3>5, <3>8, <4>2, KeySame DEF NodeOK
        <5> QED
          BY <4>2, <5>1 DEF Evaluate
      <4> QED
        BY <4>1, <4>2
    <3>10. Try(k, c, fr, term) = Try(b, c, fr, term)
      BY <2>6, <3>1, <3>9 DEF Try
    <3> QED
      BY <2>3, <2>6, <3>10 DEF Proceed
  <2> QED
    BY <2>4, <2>5, <2>6
<1> QED
  BY <1>1, <1>2

(* and stays with these keys,                                              *)
LEMMA StepWithin ==
  ASSUME NEW k, IsWorkspace(k), NEW b, NEW Q, Alike(k, b, Q), NEW c, Within(k, Q, c)
  PROVE  Within(k, Q, Step(k, c))
<1> DEFINE fr == Last(c.stack)
           x == NextNode(k, fr)
           at == Key(k, c.memo, fr.key[2], x)
<1>1. CASE c.stack = <<>>
  BY <1>1 DEF Step
<1>2. CASE c.stack # <<>>
  <2>1. /\ Good(k, c) /\ FrameOK(k, fr) /\ MemoOK(c.memo) /\ Locates(c.memo, c.memo) /\ StackOK(k, c.stack)
        /\ OnStack(c.stack) \subseteq Q /\ fr.key \in Q
    BY <1>2, LastOK DEF Locates, Within, Good
  <2>2. ASSUME NEW v, Step(k, c) = Return(c, v) PROVE OnStack(Step(k, c).stack) \subseteq Q
    <3> DEFINE d == Return(c, v)
    <3>1. d.stack = Callers(c.stack, v)
      BY <1>2, <2>1, ReturnGood
    <3>2. OnStack(Callers(c.stack, v)) \subseteq OnStack(c.stack)
      BY <1>2, <2>1, PopOK
    <3> HIDE DEF d
    <3> QED
      BY <2>1, <2>2, <3>1, <3>2 DEF d
  <2>3. ASSUME NEW m, Locates(c.memo, m), NEW g, FrameOK(k, g), g.key = fr.key, Step(k, c) = OnTop(c, m, g)
        PROVE  OnStack(Step(k, c).stack) \subseteq Q
    <3>1. Good(k, c) /\ c.stack # <<>> /\ g.key = Last(c.stack).key /\ FrameOK(k, g) /\ Locates(c.memo, m)
      BY <1>2, <2>1, <2>3
    <3> HIDE DEF fr
    <3> DEFINE d == OnTop(c, m, g)
    <3>2. OnStack(d.stack) = OnStack(c.stack)
      BY ONLY <3>1, OnTopGood
    <3> QED
      BY <2>1, <2>3, <3>2
  <2>4. Retrying(k, fr) => FrameOK(k, Retry(fr)) /\ Retry(fr).key = fr.key
    BY <2>1, RetryOK DEF Retrying
  <2>5. ASSUME Evaluating(k, fr), NEW v
        PROVE  FrameOK(k, Given(fr, v)) /\ Given(fr, v).key = fr.key
    BY <2>1, <2>5, GivenOK
  <2>6. ASSUME Evaluating(k, fr), ~IsMade(x), IsLeaf(k, x)
        PROVE  /\ Locates(c.memo, at.memo)
               /\ Unresolved(at.memo, at.binding) => /\ at.binding \in AllKeys /\ Indexed(k, at.binding[2])
                                                    /\ Waits(k, fr, at.binding)
    BY <2>1, <2>6, AskedFor
  <2>7. ASSUME Evaluating(k, fr), ~IsMade(x), IsLeaf(k, x), Unresolved(at.memo, at.binding),
               Step(k, c) = Call(at.memo, c.stack, at.binding)
        PROVE  OnStack(Step(k, c).stack) \subseteq Q
    <3>1. StackOK(k, c.stack) /\ MemoOK(at.memo) /\ at.memo.busy = OnStack(c.stack) \cap NameKeys
      BY <2>1, <2>6, <2>7 DEF Good, Locates
    <3> DEFINE key == at.binding
               m == at.memo
               d == Call(m, c.stack, key)
               s == c.stack
    <3>6. /\ key \in AllKeys /\ Indexed(k, key[2]) /\ Unresolved(m, key) /\ Waits(k, Last(s), key)
          /\ StackOK(k, s) /\ MemoOK(m) /\ m.busy = OnStack(s) \cap NameKeys
      BY <2>6, <2>7, <3>1
    <3>7. Step(k, c) = d
      BY <2>7
    <3> HIDE DEF key, m, d, s
    <3>8. OnStack(Call(m, s, key).stack) = OnStack(s) \cup {key}
      BY <3>6, CallGood
    <3>2. OnStack(Step(k, c).stack) = OnStack(c.stack) \cup {at.binding}
      BY <3>7, <3>8 DEF d, s, key
    <3>3. RefersTo(k, fr.key[2], x) = {at.binding}
      BY <2>6, <2>7 DEF Waits
    <3>4. RefersTo(k, fr.key[2], x) \subseteq Rests(k, fr.key)
      BY <2>1, <2>7, FrameRests
    <3>5. Rests(k, fr.key) \subseteq Q
      BY <2>1 DEF Alike
    <3> QED
      BY <2>1, <3>2, <3>3, <3>4, <3>5
  <2>8. OnStack(Step(k, c).stack) \subseteq Q
    <3> HIDE DEF fr, x, at
    <3> DEFINE r == Retry(fr)
    <3>1. \/ \E v : Returning(k, fr, v) /\ Step(k, c) = Return(c, v)
          \/ Retrying(k, fr) /\ Step(k, c) = OnTop(c, c.memo, r)
          \/ Evaluating(k, fr) /\ IsMade(x) /\ Step(k, c) = OnTop(c, c.memo, Given(fr, Made(x, fr.values)))
          \/ /\ Evaluating(k, fr) /\ ~IsMade(x) /\ IsLeaf(k, x)
             /\ \/ Unresolved(at.memo, at.binding) /\ Step(k, c) = Call(at.memo, c.stack, at.binding)
                \/ /\ ~Unresolved(at.memo, at.binding)
                   /\ Step(k, c) = OnTop(c, at.memo, Given(fr, Known(at.memo, at.binding)))
      BY <1>2, <2>1, StepIs DEF fr, x, at
    <3> HIDE DEF r
    <3>2. Retrying(k, fr) => FrameOK(k, r) /\ r.key = fr.key
      BY <2>4 DEF r
    <3> QED
      BY <2>1, <2>2, <2>3, <2>5, <2>6, <2>7, <3>1, <3>2
  <2> QED
    BY <2>1, <2>8, StepGood DEF Within
<1> QED
  BY <1>1, <1>2

(* and so comes to the same end.                                           *)
LEMMA CallsSame ==
  ASSUME NEW k, IsWorkspace(k), NEW b, NEW Q, Alike(k, b, Q), NEW c, Within(k, Q, c)
  PROVE  Ended(b, c) = Ended(k, c)
<1> DEFINE N == MaxBursts
           run == Calls(k, c)
           again == Calls(b, c)
<1>1. N \in Nat
  BY PlacesAre
<1>2. run = [n \in 0..N |-> run[n]] /\ run[0] = c /\ \A n \in 0..N : n # 0 => run[n] = Burst(k, run[n - 1])
  BY CallsAre
<1>3. again = [n \in 0..N |-> again[n]] /\ again[0] = c /\ \A n \in 0..N : n # 0 => again[n] = Burst(b, again[n - 1])
  BY CallsAre
<1>4. Ended(k, c) = EndOf(run) /\ Ended(b, c) = EndOf(again)
  BY DEF Ended
<1> HIDE DEF N, run, again
<1> DEFINE T == {n \in 0..N : again[n] = run[n] /\ Within(k, Q, run[n])}
<1>5. 0 \in T
  BY <1>1, <1>2, <1>3
<1>6. ASSUME NEW n \in 0..N, n \in T, n # N
      PROVE  n + 1 \in T
  <2>1. n + 1 \in 0..N /\ n + 1 # 0 /\ (n + 1) - 1 = n
    BY <1>1, <1>6
  <2> DEFINE a == run[n]
             d == Step(k, a)
             e == Step(k, d)
             g == Step(k, e)
  <2>2. Within(k, Q, a) /\ again[n] = a
    BY <1>6
  <2>3. run[n + 1] = Burst(k, a) /\ again[n + 1] = Burst(b, a)
    BY <1>2, <1>3, <2>1, <2>2
  <2> HIDE DEF a
  <2>4. Within(k, Q, d) /\ Step(b, a) = d
    BY <2>2, StepSame, StepWithin
  <2> HIDE DEF d
  <2>5. Within(k, Q, e) /\ Step(b, d) = e
    BY <2>4, StepSame, StepWithin
  <2> HIDE DEF e
  <2>6. Within(k, Q, g) /\ Step(b, e) = g
    BY <2>5, StepSame, StepWithin
  <2> HIDE DEF g
  <2>7. Within(k, Q, Step(k, g)) /\ Step(b, g) = Step(k, g)
    BY <2>6, StepSame, StepWithin
  <2>8. Burst(k, a) = Step(k, g) /\ Burst(b, a) = Step(b, g)
    BY <2>4, <2>5, <2>6 DEF Burst, d, e, g
  <2> QED
    BY <2>1, <2>3, <2>7, <2>8
<1>7. again = run
  <2> HIDE DEF T
  <2>1. \A n \in 0..N : n \in T
    BY <1>1, <1>5, <1>6, UpTo
  <2>2. \A n \in 0..N : again[n] = run[n]
    BY <2>1 DEF T
  <2> QED
    BY <1>2, <1>3, <2>2
<1> QED
  BY <1>4, <1>7

(* It gives the same answer to a question for a name,                      *)
LEMMA ResolvedSame ==
  ASSUME NEW k, IsWorkspace(k), NEW b, NEW Q, Alike(k, b, Q), NEW m, Rested(m), NEW key \in Q \cap NameKeys
  PROVE  Resolved(b, m, key) = Resolved(k, m, key)
<1>1. CASE ~Unresolved(m, key)
  BY <1>1 DEF Resolved
<1>2. CASE Unresolved(m, key)
  <2> DEFINE c == Call(m, <<>>, key)
  <2>1. Indexed(k, key[2])
    BY DEF Alike, KeysOf
  <2>2. Good(k, c) /\ Len(c.stack) = 1 /\ c.stack[1] = Frame(key)
    BY <1>2, <2>1, Starting DEF Rested
  <2>3. Frame(key).key = key
    BY NewFrame
  <2> HIDE DEF c
  <2>4. \A i \in 1..Len(c.stack) : c.stack[i].key = key
    <3>1. \A i \in 1..1 : i = 1
      OBVIOUS
    <3> QED
      BY <2>2, <2>3, <3>1
  <2>5. Within(k, Q, c)
    BY <2>2, <2>4 DEF Within, OnStack
  <2>6. Ended(b, c) = Ended(k, c)
    BY <2>5, CallsSame
  <2> QED
    BY <1>2, <2>6 DEF Resolved, c
<1> QED
  BY <1>1, <1>2

(* for a tag,                                                              *)
LEMMA HostSame ==
  ASSUME NEW k, IsWorkspace(k), NEW b, NEW Q, Alike(k, b, Q), NEW m, Rested(m), NEW f, Indexed(k, f),
         NEW tag, tag[1] \in Identifiers, LocalKey(f, tag[1]) \in Q
  PROVE  Host(b, m, f, tag) = Host(k, m, f, tag)
<1>1. LocalKey(f, tag[1]) \in Q \cap NameKeys
  BY TagKey
<1>2. Resolved(b, m, LocalKey(f, tag[1])) = Resolved(k, m, LocalKey(f, tag[1]))
  BY <1>1, ResolvedSame
<1> QED
  BY <1>2 DEF Host

(* and for an element.                                                     *)
LEMMA HostForSame ==
  ASSUME NEW k, IsWorkspace(k), NEW b, NEW f, Indexed(k, f), NEW Q, Alike(k, b, Q), Starts(k, f) \subseteq Q,
         NEW m, Rested(m), NEW i \in DOMAIN Tree(k, f).jsx
  PROVE  HostFor(b, m, f, Tree(k, f).jsx[i]) = HostFor(k, m, f, Tree(k, f).jsx[i])
<1> DEFINE jsx == Tree(k, f).jsx
           e == jsx[i]
<1>1. /\ e.tag # None /\ e.tag[1] \in Identifiers /\ (e.as # None => e.as[1] \in Identifiers)
      /\ {e.tag, e.as} \ {None} = {e.tag} \cup (IF e.as = None THEN {} ELSE {e.as})
  BY TagsOf
<1>2. e \in ToSet(jsx)
  BY DEF ToSet
<1>3. CASE e.dom
  BY <1>3 DEF HostFor
<1>4. CASE ~e.dom
  <2>1. \A tag \in {e.tag, e.as} \ {None} : LocalKey(f, tag[1]) \in Q
    <3>1. e \in {x \in ToSet(jsx) : ~x.dom}
      BY <1>2, <1>4
    <3>2. \A tag \in {e.tag, e.as} \ {None} : LocalKey(f, tag[1]) \in Starts(k, f)
      BY <3>1 DEF Starts
    <3> QED
      BY <3>2
  <2> HIDE DEF jsx, e
  <2> DEFINE outer == Host(k, m, f, e.tag)
  <2>2. Host(b, m, f, e.tag) = outer
    BY <1>1, <2>1, HostSame
  <2>3. Rested(outer.memo)
    BY <1>1, HostRests
  <2> HIDE DEF outer
  <2>4. e.as # None => Host(b, outer.memo, f, e.as) = Host(k, outer.memo, f, e.as)
    BY <1>1, <2>1, <2>3, HostSame
  <2>5. HostAs(b, f, e, outer) = HostAs(k, f, e, outer)
    BY <2>4 DEF HostAs
  <2>6. HostFor(b, m, f, e) = HostFor(k, m, f, e)
    BY <1>4, <2>2, <2>5 DEF HostFor, outer
  <2> QED
    BY <2>6 DEF e, jsx
<1> QED
  BY <1>3, <1>4

(* The recursion of HostsOf is defined.                                    *)
LEMMA FoundAre ==
  ASSUME NEW k, NEW f, Len(Tree(k, f).jsx) \in Nat
  PROVE  \E g : /\ HostsOf(k, f) = g[Len(Tree(k, f).jsx)].binding /\ g[0] = Found(<<>>, NewMemo)
                /\ \A n \in 1..Len(Tree(k, f).jsx) : g[n] = NextHost(k, f, g[n - 1], Tree(k, f).jsx[n])
<1> DEFINE jsx == Tree(k, f).jsx
           N == Len(jsx)
           start == Found(<<>>, NewMemo)
           B(d, n) == NextHost(k, f, d, jsx[n])
           T == {n \in 0..N : \E h : h[0] = start /\ \A i \in 1..n : h[i] = B(h[i - 1], i)}
           run == CHOOSE h : h = [n \in 0..N |-> IF n = 0 THEN start ELSE B(h[n - 1], n)]
<1>1. N \in Nat
  OBVIOUS
<1>2. HostsOf(k, f) = run[N].binding
  BY DEF HostsOf, N, B, start, jsx
<1> HIDE DEF jsx, N, start, B
<1>3. 0 \in T
  <2> DEFINE h == [i \in {0} |-> start]
  <2>1. h[0] = start /\ 1..0 = {}
    OBVIOUS
  <2>2. \E g : g[0] = start /\ \A i \in 1..0 : g[i] = B(g[i - 1], i)
    BY <2>1
  <2> QED
    BY <1>1, <2>2
<1>4. ASSUME NEW n \in 0..N, n \in T, n # N
      PROVE  n + 1 \in T
  <2>1. PICK h : h[0] = start /\ \A i \in 1..n : h[i] = B(h[i - 1], i)
    BY <1>4
  <2> DEFINE g == [i \in 0..(n + 1) |-> IF i = n + 1 THEN B(h[n], n + 1) ELSE h[i]]
  <2>2. /\ 0 \in 0..(n + 1) /\ 0 # n + 1 /\ n + 1 \in 0..(n + 1) /\ n + 1 \in 0..N /\ (n + 1) - 1 = n
        /\ \A i \in 1..(n + 1) : i \in 0..(n + 1) /\ i - 1 \in 0..(n + 1) /\ i - 1 # n + 1 /\ (i = n + 1 \/ i \in 1..n)
    BY <1>1, <1>4
  <2>3. g[0] = start /\ g[n + 1] = B(h[n], n + 1) /\ \A i \in 0..(n + 1) : i # n + 1 => g[i] = h[i]
    BY <2>1, <2>2
  <2> HIDE DEF g
  <2>4. \A i \in 1..(n + 1) : g[i] = B(g[i - 1], i)
    <3>1. ASSUME NEW i \in 1..(n + 1) PROVE g[i] = B(g[i - 1], i)
      <4>1. g[i - 1] = h[i - 1]
        BY <2>2, <2>3
      <4>2. CASE i = n + 1
        BY <2>2, <2>3, <4>1, <4>2
      <4>3. CASE i # n + 1
        BY <2>1, <2>2, <2>3, <4>1, <4>3
      <4> QED
        BY <4>2, <4>3
    <3> QED
      BY <3>1
  <2>5. \E u : u[0] = start /\ \A i \in 1..(n + 1) : u[i] = B(u[i - 1], i)
    BY <2>3, <2>4
  <2> QED
    BY <2>2, <2>5
<1>5. N \in T
  <2> HIDE DEF T
  <2>1. \A n \in 0..N : n \in T
    BY <1>1, <1>3, <1>4, UpTo
  <2> QED
    BY <1>1, <2>1
<1>6. \E h : h = [n \in 0..N |-> IF n = 0 THEN start ELSE B(h[n - 1], n)]
  <2>1. PICK h : h[0] = start /\ \A i \in 1..N : h[i] = B(h[i - 1], i)
    BY <1>5
  <2> DEFINE g == [n \in 0..N |-> h[n]]
  <2>2. \A n \in 0..N : g[n] = h[n] /\ (n # 0 => n - 1 \in 0..N /\ n \in 1..N)
    BY <1>1
  <2>3. g = [n \in 0..N |-> g[n]]
    OBVIOUS
  <2> HIDE DEF g
  <2>4. \A n \in 0..N : g[n] = IF n = 0 THEN start ELSE B(g[n - 1], n)
    BY <2>1, <2>2
  <2>5. g = [n \in 0..N |-> IF n = 0 THEN start ELSE B(g[n - 1], n)]
    BY <2>3, <2>4
  <2> QED
    BY <2>5
<1>7. run = [n \in 0..N |-> IF n = 0 THEN start ELSE B(run[n - 1], n)]
  BY <1>6
<1> HIDE DEF run
<1>8. \A n \in 0..N : run[n] = IF n = 0 THEN start ELSE B(run[n - 1], n)
  BY <1>7
<1>9. run[0] = start /\ \A n \in 1..N : run[n] = B(run[n - 1], n)
  BY <1>1, <1>8
<1> QED
  BY <1>2, <1>9 DEF N, B, start, jsx

(* The hosts of a file whose keys mean the same.                           *)
LEMMA HostsOfSame ==
  ASSUME NEW k, IsWorkspace(k), NEW b, NEW f, Indexed(k, f), NEW Q, Alike(k, b, Q), Starts(k, f) \subseteq Q,
         Tree(k, f) = Tree(b, f), Len(Tree(k, f).jsx) \in Nat, DOMAIN Tree(k, f).jsx = 1..Len(Tree(k, f).jsx)
  PROVE  HostsOf(k, f) = HostsOf(b, f)
<1> DEFINE jsx == Tree(k, f).jsx
           N == Len(jsx)
<1>1. N \in Nat /\ jsx = Tree(b, f).jsx
  OBVIOUS
<1>2. PICK g : /\ HostsOf(k, f) = g[N].binding /\ g[0] = Found(<<>>, NewMemo)
               /\ \A n \in 1..N : g[n] = NextHost(k, f, g[n - 1], jsx[n])
  BY FoundAre
<1>3. PICK h : /\ HostsOf(b, f) = h[N].binding /\ h[0] = Found(<<>>, NewMemo)
               /\ \A n \in 1..N : h[n] = NextHost(b, f, h[n - 1], jsx[n])
  BY <1>1, FoundAre
<1>4. ASSUME NEW m, Rested(m), NEW n \in 1..N
      PROVE  /\ HostFor(b, m, f, jsx[n]) = HostFor(k, m, f, jsx[n]) /\ Rested(HostFor(k, m, f, jsx[n]).memo)
  <2>1. n \in DOMAIN Tree(k, f).jsx /\ Rested(m)
    BY <1>4
  <2>2. HostFor(b, m, f, Tree(k, f).jsx[n]) = HostFor(k, m, f, Tree(k, f).jsx[n])
    BY <2>1, HostForSame
  <2>3. Rested(HostFor(k, m, f, Tree(k, f).jsx[n]).memo)
    BY <2>1, HostForRests
  <2> QED
    BY <2>2, <2>3
<1> HIDE DEF jsx, N
<1> DEFINE T == {n \in 0..N : g[n] = h[n] /\ Rested(g[n].memo)}
<1>5. 0 \in T
  <2>1. g[0] = h[0] /\ g[0].memo = NewMemo
    BY <1>2, <1>3 DEF Found
  <2> QED
    BY <1>1, <2>1, NewMemoRests
<1>6. ASSUME NEW n \in 0..N, n \in T, n # N
      PROVE  n + 1 \in T
  <2>1. n + 1 \in 0..N /\ n + 1 \in 1..N /\ (n + 1) - 1 = n
    BY <1>1, <1>6
  <2> DEFINE r == g[n]
             x == HostFor(k, r.memo, f, jsx[n + 1])
  <2>2. h[n] = r /\ Rested(r.memo)
    BY <1>6
  <2>3. g[n + 1] = NextHost(k, f, r, jsx[n + 1]) /\ h[n + 1] = NextHost(b, f, r, jsx[n + 1])
    BY <1>2, <1>3, <2>1, <2>2
  <2>4. HostFor(b, r.memo, f, jsx[n + 1]) = x /\ Rested(x.memo)
    BY <1>4, <2>1, <2>2
  <2>5. NextHost(k, f, r, jsx[n + 1]) = AlsoFound(r.binding, x) /\ NextHost(b, f, r, jsx[n + 1]) = AlsoFound(r.binding, x)
    BY <2>4 DEF NextHost
  <2>6. AlsoFound(r.binding, x).memo = x.memo
    BY DEF AlsoFound, Found
  <2> HIDE DEF r, x
  <2> QED
    BY <2>1, <2>3, <2>4, <2>5, <2>6
<1>7. g[N] = h[N]
  <2> HIDE DEF T
  <2>1. \A n \in 0..N : n \in T
    BY <1>1, <1>5, <1>6, UpTo
  <2>2. N \in 0..N
    BY <1>1
  <2> QED
    BY <2>1, <2>2 DEF T
<1> QED
  BY <1>2, <1>3, <1>7
------------------------------------------------------------------------------
(* The tracker was made from one of the compilations it may be made from.  *)
BasesInv == BuilderInv /\ base \in Bases

(* The invariant holds throughout.                                         *)
LEMMA BasesInvHolds == BuilderSpec => []BasesInv
<1>1. BuilderInit => base \in Bases
  BY DEF BuilderInit, TreeInit, Init
<1>2. base \in Bases /\ [BuilderNext]_<<vars, builderVars>> => (base \in Bases)'
  BY DEF BuilderNext, Begin, Start, Resolve, Take, Finish, Stop, Edit, Alter, ApplyBatch, ApplyDeletion, vars, builderVars
<1>3. BuilderSpec => [](base \in Bases)
  BY <1>1, <1>2, PTL DEF BuilderSpec
<1> QED
  BY <1>3, BuilderInvHolds, PTL DEF BasesInv

(* The elements of a file that is not stale are those it had when the      *)
(* tracker was created.                                                    *)
THEOREM UnstaleElementsAreKept == BuilderSpec => []UnstaleElementsStay
<1>1. ASSUME BasesInv
      PROVE  UnstaleElementsStay
  <2> DEFINE k == tracker.compilation
             changed == tracker.changed
  <2> SUFFICES ASSUME NEW f \in Solids(k) \ tracker.stale,
                      ~ThroughReexport(k, Keys(k, f)),
                      ~\E key \in Keys(base, f) : Indexed(base, key[2]) /\ ~Indexed(k, key[2])
               PROVE  Nodes(Tree(k, f), HostsOf(k, f)) = Nodes(Tree(base, f), HostsOf(base, f))
    BY DEF UnstaleElementsStay
  <2>1. /\ IsWorkspace(k) /\ tracker.stale = StaleFiles(k, changed)
        /\ \A g \in HasTree(k) \ changed : TreeOf(k, g) = TreeOf(base, g)
    BY <1>1 DEF BasesInv, BuilderInv, TreeInv, IInv, HandleOK, Typed, Handles, IsWorkspace, StaleIsComputed, ChangesAreRecorded
  <2>2. IsWorkspace(base)
    BY <1>1, BasesAssumption DEF BasesInv, IsWorkspace, WellTyped
  <2> HIDE DEF k, changed
  <2>3. f \in Solids(k) /\ f \notin StaleFiles(k, changed)
    BY <2>1
  <2>4. Tree(k, f) = Tree(base, f) /\ Starts(k, f) \subseteq Keys(k, f) /\ Alike(k, base, Keys(k, f))
    BY <2>1, <2>2, <2>3, StaysAlike
  <2>5. Indexed(k, f) /\ Len(Tree(k, f).jsx) \in Nat /\ DOMAIN Tree(k, f).jsx = 1..Len(Tree(k, f).jsx)
    <3>1. f \in Solid /\ k.solid[f] \in Trees[f]
      BY <2>1, <2>3, CompilationFiles DEF IsWorkspace, WellTyped, TreeOf, HasTree
    <3> QED
      BY <2>3, <3>1, JsxAssumption DEF Indexed, Tree
  <2>6. HostsOf(k, f) = HostsOf(base, f)
    BY <2>1, <2>4, <2>5, HostsOfSame
  <2> QED
    BY <2>4, <2>6
<1> QED
  BY <1>1, BasesInvHolds, PTL
==============================================================================
