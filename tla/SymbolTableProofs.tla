--------------------------- MODULE SymbolTableProofs ---------------------------
(***************************************************************************)
(* Proofs about the symbol table, the matcher it feeds and the cascade.    *)
(* First what the matcher's answers mean, for every document and every     *)
(* selector: "none" that the selector holds for no value of the attributes *)
(* that are not static, "match" that it holds for all.  Then which rules   *)
(* the table has, in which layers, and which of them win, for every        *)
(* workspace and every sequence of edits.                                  *)
(***************************************************************************)
EXTENDS SymbolTable, CompilationTrackerProofs, WellFoundedInduction, FiniteSetTheorems

(* Every set of numbers that is not empty has a least.                     *)
LEMMA Least ==
  ASSUME NEW T \in SUBSET Nat, T # {}
  PROVE  \E n \in T : \A m \in T : n <= m
<1>1. PICK n \in T : \A m \in T : <<m, n>> \notin OpToRel(<, Nat)
  BY NatLessThanWellFounded, WFMin
<1>2. ASSUME NEW m \in T
      PROVE  n <= m
  <2>1. m < n => <<m, n>> \in OpToRel(<, Nat)
    BY DEF OpToRel
  <2>2. ~(m < n)
    BY <1>1, <2>1
  <2> QED
    BY <2>2
<1> QED
  BY <1>2

(* Every set of elements of a document that is not empty has a last.       *)
LEMMA Greatest ==
  ASSUME NEW m \in Nat, NEW T \in SUBSET (1..m), T # {}
  PROVE  Max(T) \in T /\ \A y \in T : y <= Max(T)
<1> DEFINE U == {k \in 0..m : m - k \in T}
<1>1. U \in SUBSET Nat /\ \A y \in T : m - y \in U
  OBVIOUS
<1> HIDE DEF U
<1>2. PICK u \in U : \A w \in U : u <= w
  BY <1>1, Least
<1>3. m - u \in T /\ u \in 0..m
  BY DEF U
<1>4. \A y \in T : m - u >= y
  BY <1>1, <1>2, <1>3
<1> QED
  BY <1>3, <1>4 DEF Max

(* A position that a step and an offset lead to: what matchesNthPattern    *)
(* divides to find.                                                        *)
LEMMA NthMeans ==
  ASSUME NEW m \in Nat, NEW i \in 1..m, NEW step \in Int, NEW offset \in Int
  PROVE  NthMatches(i, step, offset)
           <=> \E n \in 0..(m + Max({offset, -offset})) : i = step * n + offset
<1> DEFINE far == Max({offset, -offset})
<1>0. far \in Nat /\ far >= offset /\ far >= -offset
  <2>1. \E x \in {offset, -offset} : \A y \in {offset, -offset} : x >= y
    OBVIOUS
  <2>2. far \in {offset, -offset} /\ \A y \in {offset, -offset} : far >= y
    BY <2>1 DEF Max
  <2> QED
    BY <2>2
<1> HIDE DEF far
<1>1. CASE step = 0
  <2>1. NthMatches(i, step, offset) <=> i = offset
    BY <1>1 DEF NthMatches
  <2>2. \A n \in 0..(m + far) : step * n + offset = offset
    BY <1>1, <1>0
  <2>3. 0 \in 0..(m + far)
    BY <1>0
  <2> QED
    BY <2>1, <2>2, <2>3 DEF far
<1>2. CASE step > 0
  <2>1. ASSUME i >= offset, (i - offset) % step = 0
        PROVE  \E n \in 0..(m + far) : i = step * n + offset
    <3> DEFINE n == (i - offset) \div step
    <3>1. n \in Nat /\ i - offset = step * n
      BY <2>1, <1>2
    <3> HIDE DEF n
    <3>2. n <= step * n
      BY <3>1, <1>2
    <3>3. n \in 0..(m + far)
      BY <3>1, <3>2, <1>0
    <3>4. i = step * n + offset
      BY <3>1, <1>2
    <3> QED
      BY <3>3, <3>4
  <2>2. ASSUME NEW n \in 0..(m + far), i = step * n + offset
        PROVE  i >= offset /\ (i - offset) % step = 0
    <3>1. n \in Nat
      BY <1>0
    <3>2. step * n \in Nat
      BY <3>1, <1>2
    <3>3. (step * n) % step = 0
      BY <3>1, <1>2
    <3>4. i - offset = step * n
      BY <2>2, <3>2
    <3> QED
      BY <3>2, <3>3, <3>4
  <2> QED
    BY <2>1, <2>2, <1>2 DEF NthMatches, far
<1>3. CASE step < 0
  <2> DEFINE back == -step
  <2>0. back \in Nat /\ back > 0 /\ step = -back
    BY <1>3
  <2>3. NthMatches(i, step, offset) <=> offset >= i /\ (offset - i) % back = 0
    BY <1>3 DEF NthMatches
  <2>1. ASSUME offset >= i, (offset - i) % back = 0
        PROVE  \E n \in 0..(m + far) : i = step * n + offset
    <3> DEFINE n == (offset - i) \div back
    <3> HIDE DEF back
    <3>1. n \in Nat /\ offset - i = back * n
      BY <2>1, <2>0
    <3> HIDE DEF n
    <3>2. n <= back * n
      BY <3>1, <2>0
    <3>3. n \in 0..(m + far)
      BY <3>1, <3>2, <1>0
    <3>4. i = step * n + offset
      BY <3>1, <2>0
    <3> QED
      BY <3>3, <3>4
  <2>2. ASSUME NEW n \in 0..(m + far), i = step * n + offset
        PROVE  offset >= i /\ (offset - i) % back = 0
    <3> HIDE DEF back
    <3>1. n \in Nat
      BY <1>0
    <3>2. back * n \in Nat
      BY <3>1, <2>0
    <3>3. (back * n) % back = 0
      BY <3>1, <2>0
    <3>4. offset - i = back * n
      BY <2>2, <3>2, <2>0
    <3> QED
      BY <3>2, <3>3, <3>4
  <2> HIDE DEF back
  <2> QED
    BY <2>1, <2>2, <2>3 DEF far
<1> QED
  BY <1>1, <1>2, <1>3
------------------------------------------------------------------------------
(* A document at run time has the elements and attributes of the one in    *)
(* the source, and the values that were static.                            *)
LEMMA RunTimeShape ==
  ASSUME NEW Vals, NEW d, IsDocument(d), NEW r \in AtRunTime(d, Vals)
  PROVE  /\ Len(r) = Len(d) /\ DOMAIN r = 1..Len(d) /\ DOMAIN d = 1..Len(d) /\ Len(d) \in Nat
         /\ \A e \in 1..Len(d) :
              /\ r[e].parent = d[e].parent /\ r[e].tag = d[e].tag /\ r[e].classes = d[e].classes
              /\ DOMAIN r[e].attributes = DOMAIN d[e].attributes
              /\ \A n \in DOMAIN d[e].attributes :
                   d[e].attributes[n] # Dynamic => r[e].attributes[n] = d[e].attributes[n]
<1>1. DOMAIN d = 1..Len(d) /\ Len(d) \in Nat
  BY DEF IsDocument
<1>2. PICK v \in [Unknown(d) -> Vals] :
        r = [e \in DOMAIN d |->
               [d[e] EXCEPT !.attributes =
                  [n \in DOMAIN @ |-> IF @[n] = Dynamic THEN v[<<e, n>>] ELSE @[n]]]]
  BY DEF AtRunTime
<1>3. DOMAIN r = 1..Len(d)
  BY <1>1, <1>2
<1>4. Len(r) = Len(d)
  BY <1>1, <1>2
<1>5. ASSUME NEW e \in 1..Len(d)
      PROVE  /\ r[e].parent = d[e].parent /\ r[e].tag = d[e].tag /\ r[e].classes = d[e].classes
             /\ DOMAIN r[e].attributes = DOMAIN d[e].attributes
             /\ \A n \in DOMAIN d[e].attributes :
                  d[e].attributes[n] # Dynamic => r[e].attributes[n] = d[e].attributes[n]
  <2> DEFINE a == d[e].attributes
             b == [n \in DOMAIN a |-> IF a[n] = Dynamic THEN v[<<e, n>>] ELSE a[n]]
  <2>1. r[e] = [d[e] EXCEPT !.attributes = b]
    BY <1>1, <1>2
  <2>2. d[e] = [parent |-> d[e].parent, tag |-> d[e].tag, classes |-> d[e].classes, attributes |-> a]
    BY DEF IsDocument, IsElement
  <2> HIDE DEF b
  <2>3. /\ r[e].parent = d[e].parent /\ r[e].tag = d[e].tag /\ r[e].classes = d[e].classes
        /\ r[e].attributes = b
    BY <2>1, <2>2
  <2> QED
    BY <2>3 DEF b
<1> QED
  BY <1>1, <1>3, <1>4, <1>5

(* An element's siblings are elements, and it is one of them.              *)
LEMMA SiblingsAreElements ==
  ASSUME NEW d, IsDocument(d), NEW e \in 1..Len(d)
  PROVE  /\ Siblings(d, e) \subseteq 1..Len(d) /\ e \in Siblings(d, e)
         /\ OfType(d, e) \subseteq 1..Len(d) /\ e \in OfType(d, e)
  BY DEF IsDocument, Siblings, OfType

(* An element's place among its siblings is one of them.                   *)
LEMMA IndexIsPlace ==
  ASSUME NEW d, IsDocument(d), NEW e \in 1..Len(d),
         NEW from \in {"first", "last", "firstOfType", "lastOfType"}
  PROVE  Index(d, e, from) \in 1..Len(d)
<1> DEFINE S == CASE from = "first" -> {x \in Siblings(d, e) : x <= e}
                  [] from = "last" -> {x \in Siblings(d, e) : x >= e}
                  [] from = "firstOfType" -> {x \in OfType(d, e) : x <= e}
                  [] from = "lastOfType" -> {x \in OfType(d, e) : x >= e}
<1>1. S \subseteq 1..Len(d) /\ e \in S
  <2>1. Siblings(d, e) \subseteq 1..Len(d) /\ e \in Siblings(d, e)
    BY SiblingsAreElements
  <2>2. OfType(d, e) \subseteq 1..Len(d) /\ e \in OfType(d, e)
    BY SiblingsAreElements
  <2>3. e >= e /\ e <= e
    BY DEF IsDocument
  <2>4. CASE from = "first"
    BY <2>1, <2>3, <2>4
  <2>5. CASE from = "last"
    BY <2>1, <2>3, <2>5
  <2>6. CASE from = "firstOfType"
    BY <2>2, <2>3, <2>6
  <2>7. CASE from = "lastOfType"
    BY <2>2, <2>3, <2>7
  <2> QED
    BY <2>4, <2>5, <2>6, <2>7
<1>2. Index(d, e, from) = Cardinality(S)
  BY DEF Index
<1> HIDE DEF S
<1> DEFINE m == Len(d)
<1>3. m \in Nat
  BY DEF IsDocument
<1> SUFFICES Cardinality(S) \in 1..m
  BY <1>2
<1> HIDE DEF m
<1>4. IsFiniteSet(1..m) /\ Cardinality(1..m) = m
  <2>1. 1 \in Int /\ m \in Int
    BY <1>3
  <2>2. IsFiniteSet(1..m) /\ Cardinality(1..m) = IF 1 > m THEN 0 ELSE m - 1 + 1
    BY <2>1, FS_Interval
  <2> QED
    BY <2>2, <1>3
<1>5. IsFiniteSet(S) /\ Cardinality(S) <= m
  BY <1>1, <1>4, FS_Subset DEF m
<1>6. Cardinality(S) \in Nat /\ Cardinality(S) # 0
  BY <1>1, <1>5, FS_CardinalityType, FS_EmptySet
<1> QED
  BY <1>3, <1>5, <1>6

(* Places among siblings are the same at run time.                         *)
LEMMA RunTimePlaces ==
  ASSUME NEW Vals, NEW d, IsDocument(d), NEW r \in AtRunTime(d, Vals), NEW e \in 1..Len(d)
  PROVE  /\ Siblings(r, e) = Siblings(d, e) /\ OfType(r, e) = OfType(d, e)
         /\ \A from : Index(r, e, from) = Index(d, e, from)
<1>1. /\ DOMAIN r = 1..Len(d) /\ DOMAIN d = 1..Len(d)
      /\ \A x \in 1..Len(d) : r[x].parent = d[x].parent /\ r[x].tag = d[x].tag
  BY RunTimeShape
<1>2. Siblings(r, e) = Siblings(d, e) /\ Siblings(d, e) \subseteq 1..Len(d)
  BY <1>1, SiblingsAreElements DEF Siblings
<1>3. OfType(r, e) = OfType(d, e)
  BY <1>1, <1>2 DEF OfType
<1> QED
  BY <1>2, <1>3 DEF Index
------------------------------------------------------------------------------
(* The recursion of Ancestors is defined, because parents stand first.     *)
LEMMA AncestorsAbove ==
  ASSUME NEW d, IsDocument(d), NEW e \in 1..Len(d)
  PROVE  Ancestors(d, e) =
           IF d[e].parent = NoParent THEN {} ELSE {d[e].parent} \cup Ancestors(d, d[e].parent)
<1> DEFINE m == Len(d)
           Up(f, x) == IF x = NoParent \/ d[x].parent = NoParent THEN {}
                       ELSE {d[x].parent} \cup f[d[x].parent]
           Defined(k) == \E f : f = [x \in 0..k |-> Up(f, x)]
<1>1. m \in Nat /\ \A x \in 1..m : d[x].parent \in 0..(x - 1)
  BY DEF IsDocument
<1>2. Defined(m)
  <2> DEFINE T == {k \in 0..m : ~Defined(k)}
  <2>1. ASSUME NEW k \in 0..m, \A j \in 0..(k - 1) : Defined(j)
        PROVE  Defined(k)
    <3>1. CASE k = 0
      <4> DEFINE f == [x \in 0..0 |-> {}]
      <4>1. f = [x \in 0..0 |-> Up(f, x)]
        BY DEF NoParent
      <4> QED
        BY <3>1, <4>1
    <3>2. CASE k # 0
      <4> HIDE DEF m
      <4>1. k - 1 \in 0..(k - 1) /\ k \in 1..m
        BY <3>2, <1>1
      <4>2. PICK f : f = [x \in 0..(k - 1) |-> Up(f, x)]
        BY <2>1, <4>1
      <4> DEFINE g == [x \in 0..k |-> Up(f, x)]
      <4>3. ASSUME NEW x \in 0..(k - 1)
            PROVE  g[x] = f[x]
        <5>1. x \in 0..k
          BY <1>1, <4>1
        <5>2. g[x] = Up(f, x)
          BY <5>1
        <5> HIDE DEF Up, g
        <5> QED
          BY <4>2, <5>2
      <4>4. \A x \in 0..k : x = NoParent \/ d[x].parent \in 0..(k - 1)
        BY <1>1, <4>1 DEF NoParent
      <4>5. \A x \in 0..k : Up(g, x) = Up(f, x)
        <5> HIDE DEF g
        <5> QED
          BY <4>3, <4>4
      <4>6. g = [x \in 0..k |-> Up(g, x)]
        BY <4>5
      <4> QED
        BY <4>6
    <3> QED
      BY <3>1, <3>2
  <2> HIDE DEF Defined
  <2>2. T \in SUBSET Nat
    BY <1>1
  <2>3. CASE T # {}
    <3>1. PICK k \in T : \A j \in T : k <= j
      BY <2>2, <2>3, Least
    <3>2. \A j \in 0..(k - 1) : Defined(j)
      BY <3>1, <1>1
    <3> QED
      BY <2>1, <3>1, <3>2
  <2> QED
    BY <2>3, <1>1
<1> DEFINE above == CHOOSE f : f = [x \in 0..m |-> Up(f, x)]
<1>3. above = [x \in 0..m |-> Up(above, x)]
  BY <1>2
<1>4. \A x : Ancestors(d, x) = above[x]
  BY DEF Ancestors
<1> HIDE DEF above, m
<1>5. e \in 0..m /\ e # NoParent
  BY <1>1 DEF NoParent, m
<1>6. above[e] = Up(above, e)
  BY <1>3, <1>5
<1> QED
  BY <1>4, <1>5, <1>6

(* Ancestors stand before their descendants.                               *)
LEMMA AncestorsStandBefore ==
  ASSUME NEW d, IsDocument(d), NEW e \in 1..Len(d)
  PROVE  Ancestors(d, e) \subseteq 1..(e - 1)
<1> DEFINE Sooner(x) == Ancestors(d, x) \subseteq 1..(x - 1)
           T == {x \in 1..Len(d) : ~Sooner(x)}
<1>1. Len(d) \in Nat /\ \A x \in 1..Len(d) : d[x].parent \in 0..(x - 1)
  BY DEF IsDocument
<1>2. ASSUME NEW x \in 1..Len(d), \A y \in 1..(x - 1) : Sooner(y)
      PROVE  Sooner(x)
  <2>1. CASE d[x].parent = NoParent
    BY <2>1, AncestorsAbove
  <2>2. CASE d[x].parent # NoParent
    <3>1. d[x].parent \in 1..(x - 1)
      BY <1>1, <2>2 DEF NoParent
    <3>2. Ancestors(d, d[x].parent) \subseteq 1..(x - 1)
      BY <1>1, <1>2, <3>1
    <3>3. Ancestors(d, x) = {d[x].parent} \cup Ancestors(d, d[x].parent)
      BY <2>2, AncestorsAbove
    <3> QED
      BY <3>1, <3>2, <3>3
  <2> QED
    BY <2>1, <2>2
<1> HIDE DEF Sooner
<1>3. CASE T # {}
  <2>0. T \in SUBSET Nat
    BY <1>1
  <2>1. PICK x \in T : \A y \in T : x <= y
    BY <1>3, <2>0, Least
  <2>2. \A y \in 1..(x - 1) : Sooner(y)
    BY <1>1, <2>1
  <2> QED
    BY <1>2, <2>1, <2>2
<1> QED
  BY <1>3 DEF Sooner

(* Ancestors are the same at run time.                                     *)
LEMMA RunTimeAncestors ==
  ASSUME NEW d, IsDocument(d), NEW r, IsDocument(r), Len(r) = Len(d),
         \A x \in 1..Len(d) : r[x].parent = d[x].parent,
         NEW e \in 1..Len(d)
  PROVE  Ancestors(r, e) = Ancestors(d, e)
<1> DEFINE Same(x) == Ancestors(r, x) = Ancestors(d, x)
           T == {x \in 1..Len(d) : ~Same(x)}
<1>1. Len(d) \in Nat /\ \A x \in 1..Len(d) : d[x].parent \in 0..(x - 1)
  BY DEF IsDocument
<1>2. ASSUME NEW x \in 1..Len(d), \A y \in 1..(x - 1) : Same(y)
      PROVE  Same(x)
  <2>1. CASE d[x].parent = NoParent
    BY <2>1, AncestorsAbove
  <2>2. CASE d[x].parent # NoParent
    <3>1. d[x].parent \in 1..(x - 1)
      BY <1>1, <2>2 DEF NoParent
    <3>2. Ancestors(r, d[x].parent) = Ancestors(d, d[x].parent)
      BY <1>2, <3>1
    <3>3. Ancestors(d, x) = {d[x].parent} \cup Ancestors(d, d[x].parent)
      BY <2>2, AncestorsAbove
    <3>4. r[x].parent = d[x].parent /\ x \in 1..Len(r)
      OBVIOUS
    <3>5. Ancestors(r, x) = {r[x].parent} \cup Ancestors(r, r[x].parent)
      BY <2>2, <3>4, AncestorsAbove
    <3> QED
      BY <3>2, <3>3, <3>4, <3>5
  <2> QED
    BY <2>1, <2>2
<1> HIDE DEF Same
<1>3. CASE T # {}
  <2>0. T \in SUBSET Nat
    BY <1>1
  <2>1. PICK x \in T : \A y \in T : x <= y
    BY <1>3, <2>0, Least
  <2>2. \A y \in 1..(x - 1) : Same(y)
    BY <1>1, <2>1
  <2> QED
    BY <1>2, <2>1, <2>2
<1> QED
  BY <1>3 DEF Same

(* A document is one at run time, too.                                     *)
LEMMA RunTimeIsDocument ==
  ASSUME NEW Vals, NEW d, IsDocument(d), NEW r \in AtRunTime(d, Vals)
  PROVE  IsDocument(r)
<1>1. /\ Len(r) = Len(d) /\ DOMAIN r = 1..Len(d) /\ DOMAIN d = 1..Len(d) /\ Len(d) \in Nat
      /\ \A e \in 1..Len(d) : r[e].parent = d[e].parent
  BY RunTimeShape
<1>2. PICK v \in [Unknown(d) -> Vals] :
        r = [e \in DOMAIN d |->
               [d[e] EXCEPT !.attributes =
                  [n \in DOMAIN @ |-> IF @[n] = Dynamic THEN v[<<e, n>>] ELSE @[n]]]]
  BY DEF AtRunTime
<1>3. ASSUME NEW e \in 1..Len(d)
      PROVE  IsElement(r[e]) /\ r[e].parent \in 0..(e - 1)
  <2> DEFINE a == d[e].attributes
             b == [n \in DOMAIN a |-> IF a[n] = Dynamic THEN v[<<e, n>>] ELSE a[n]]
  <2>1. r[e] = [d[e] EXCEPT !.attributes = b]
    BY <1>1, <1>2
  <2>2. d[e] = [parent |-> d[e].parent, tag |-> d[e].tag, classes |-> d[e].classes, attributes |-> a]
    BY DEF IsDocument, IsElement
  <2>3. b = [n \in DOMAIN b |-> b[n]]
    OBVIOUS
  <2> HIDE DEF b
  <2>4. r[e] = [parent |-> d[e].parent, tag |-> d[e].tag, classes |-> d[e].classes, attributes |-> b]
    BY <2>1, <2>2
  <2>5. d[e].parent \in 0..(e - 1)
    BY DEF IsDocument
  <2> QED
    BY <2>3, <2>4, <2>5 DEF IsElement
<1>4. r = [e \in 1..Len(r) |-> r[e]]
  BY <1>1, <1>2
<1> QED
  BY <1>1, <1>3, <1>4 DEF IsDocument

(* A combinator leads to elements.                                         *)
LEMMA RelatedAreElements ==
  ASSUME NEW d, IsDocument(d), NEW e \in 1..Len(d),
         NEW combinator \in {"child", "adjacent", "sibling", "descendant"}
  PROVE  Related(d, e, combinator) \subseteq 1..Len(d)
<1>1. Len(d) \in Nat
  BY DEF IsDocument
<1>2. Elder(d, e) \subseteq 1..Len(d)
  BY SiblingsAreElements DEF Elder
<1>3. Ancestors(d, e) \subseteq 1..Len(d)
  BY <1>1, AncestorsStandBefore
<1>4. {d[e].parent} \ {NoParent} \subseteq 1..Len(d)
  BY <1>1 DEF IsDocument, NoParent
<1>5. CASE combinator = "child"
  BY <1>4, <1>5 DEF Related
<1>6. CASE combinator = "adjacent"
  BY <1>2, <1>6 DEF Related
<1>7. CASE combinator = "sibling"
  BY <1>2, <1>7 DEF Related
<1>8. CASE combinator = "descendant"
  BY <1>3, <1>8 DEF Related
<1> QED
  BY <1>5, <1>6, <1>7, <1>8

(* A combinator leads to the same elements at run time.                    *)
LEMMA RunTimeRelated ==
  ASSUME NEW Vals, NEW d, IsDocument(d), NEW r \in AtRunTime(d, Vals), NEW e \in 1..Len(d),
         NEW combinator \in {"child", "adjacent", "sibling", "descendant"}
  PROVE  Related(r, e, combinator) = Related(d, e, combinator)
<1>1. /\ Len(r) = Len(d) /\ Len(d) \in Nat
      /\ \A x \in 1..Len(d) : r[x].parent = d[x].parent
  BY RunTimeShape
<1>2. Elder(r, e) = Elder(d, e)
  BY RunTimePlaces DEF Elder
<1>3. Ancestors(r, e) = Ancestors(d, e)
  BY <1>1, RunTimeIsDocument, RunTimeAncestors
<1>4. CASE combinator = "child"
  BY <1>1, <1>4 DEF Related
<1>5. CASE combinator = "adjacent"
  BY <1>2, <1>5 DEF Related
<1>6. CASE combinator = "sibling"
  BY <1>2, <1>6 DEF Related
<1>7. CASE combinator = "descendant"
  BY <1>3, <1>7 DEF Related
<1> QED
  BY <1>4, <1>5, <1>6, <1>7
------------------------------------------------------------------------------
(* What a compound without groups answers holds for all values of the      *)
(* attributes, if it has an id only where ids are static.                  *)
LEMMA SimpleMeans ==
  ASSUME NEW Vals, NEW d, IsDocument(d), NEW r \in AtRunTime(d, Vals), NEW e \in 1..Len(d),
         NEW c, IsCompound(c),
         c.id = Wild \/ "id" \notin DOMAIN d[e].attributes \/ d[e].attributes["id"] # Dynamic
  PROVE  /\ SimpleResult(d, e, c) \in {"none", "conditional", "match"}
         /\ SimpleResult(d, e, c) = "none" => ~SimpleHolds(r, e, c)
         /\ SimpleResult(d, e, c) = "match" => SimpleHolds(r, e, c)
<1> DEFINE a == d[e].attributes
           b == r[e].attributes
           Fits == /\ c.tag \in {Wild, d[e].tag}
                   /\ c.id # Wild => "id" \in DOMAIN a /\ a["id"] = c.id
                   /\ c.classes \subseteq d[e].classes
                   /\ \A p \in c.places : NthMatches(Index(d, e, p.from), p.step, p.offset)
           Meets == \A q \in c.attributes : q.name \in DOMAIN b /\ q.value \in {Wild, b[q.name]}
<1>1. /\ r[e].tag = d[e].tag /\ r[e].classes = d[e].classes /\ DOMAIN b = DOMAIN a
      /\ \A n \in DOMAIN a : a[n] # Dynamic => b[n] = a[n]
      /\ Len(r) = Len(d) /\ Len(d) \in Nat
  BY RunTimeShape
<1>2. SimpleHolds(r, e, c) <=> Fits /\ Meets
  <2>1. ASSUME NEW p \in c.places
        PROVE  NthMatches(Index(d, e, p.from), p.step, p.offset)
                 <=> \E n \in 0..(Len(r) + Max({p.offset, -p.offset})) :
                       Index(r, e, p.from) = p.step * n + p.offset
    <3>1. p.from \in {"first", "last", "firstOfType", "lastOfType"} /\ p.step \in Int /\ p.offset \in Int
      BY DEF IsCompound
    <3>2. Index(r, e, p.from) = Index(d, e, p.from)
      BY RunTimePlaces
    <3>3. Index(d, e, p.from) \in 1..Len(d)
      BY <3>1, IndexIsPlace
    <3>4. \A m \in Nat : \A i \in 1..m : \A step, offset \in Int :
            NthMatches(i, step, offset)
              <=> \E n \in 0..(m + Max({offset, -offset})) : i = step * n + offset
      BY NthMeans
    <3>5. NthMatches(Index(d, e, p.from), p.step, p.offset)
            <=> \E n \in 0..(Len(d) + Max({p.offset, -p.offset})) :
                  Index(d, e, p.from) = p.step * n + p.offset
      BY <1>1, <3>1, <3>3, <3>4
    <3> QED
      BY <1>1, <3>2, <3>5
  <2>2. (c.id # Wild => "id" \in DOMAIN a /\ a["id"] = c.id)
          <=> (c.id # Wild => "id" \in DOMAIN b /\ b["id"] = c.id)
    BY <1>1 DEF IsCompound
  <2> HIDE DEF a, b
  <2>3. SimpleHolds(r, e, c) <=>
          /\ c.tag \in {Wild, d[e].tag}
          /\ c.id # Wild => "id" \in DOMAIN b /\ b["id"] = c.id
          /\ c.classes \subseteq d[e].classes
          /\ Meets
          /\ \A p \in c.places : \E n \in 0..(Len(r) + Max({p.offset, -p.offset})) :
               Index(r, e, p.from) = p.step * n + p.offset
    BY <1>1 DEF SimpleHolds, b
  <2> HIDE DEF Meets
  <2> QED
    BY <2>1, <2>2, <2>3
<1>3. SimpleResult(d, e, c) = IF Fits THEN AttributesResult(a, c.attributes) ELSE "none"
  BY DEF SimpleResult
<1>4. /\ AttributesResult(a, c.attributes) \in {"none", "conditional", "match"}
      /\ AttributesResult(a, c.attributes) = "none" => ~Meets
      /\ AttributesResult(a, c.attributes) = "match" => Meets
  <2> HIDE DEF a, b
  <2>1. \A q \in c.attributes : q.value # Dynamic
    BY DEF IsCompound
  <2> QED
    BY <1>1, <2>1 DEF AttributesResult
<1> HIDE DEF Fits, Meets
<1> QED
  BY <1>2, <1>3, <1>4

(* Within :is and :not an answer is certain, if none of the attributes     *)
(* that the compound compares has a value known at run time only.          *)
LEMMA NestedMeans ==
  ASSUME NEW Vals, NEW d, IsDocument(d), NEW r \in AtRunTime(d, Vals), NEW e \in 1..Len(d),
         NEW q, IsCompound(q),
         \A n \in DOMAIN d[e].attributes : d[e].attributes[n] = Dynamic =>
           /\ n = "id" => q.id = Wild
           /\ \A a \in q.attributes : a.name = n => a.value = Wild
  PROVE  SimpleResult(d, e, q) # "none" <=> SimpleHolds(r, e, q)
<1>1. /\ SimpleResult(d, e, q) \in {"none", "conditional", "match"}
      /\ SimpleResult(d, e, q) = "none" => ~SimpleHolds(r, e, q)
      /\ SimpleResult(d, e, q) = "match" => SimpleHolds(r, e, q)
  <2>1. q.id = Wild \/ "id" \notin DOMAIN d[e].attributes \/ d[e].attributes["id"] # Dynamic
    OBVIOUS
  <2> QED
    BY <2>1, SimpleMeans
<1>2. SimpleResult(d, e, q) # "conditional"
  BY DEF SimpleResult, AttributesResult
<1> QED
  BY <1>1, <1>2

(* The same of a selector's compounds with their groups, if the matcher is *)
(* not blind to one of the values.                                         *)
LEMMA CompoundMeans ==
  ASSUME NEW Vals, NEW d, IsDocument(d), NEW r \in AtRunTime(d, Vals), NEW e \in 1..Len(d),
         NEW s, IsSelector(s), ~Blind(d, s), NEW i \in DOMAIN s.compounds
  PROVE  /\ CompoundResult(d, e, s.compounds[i]) \in {"none", "conditional", "match"}
         /\ CompoundResult(d, e, s.compounds[i]) = "none" => ~CompoundHolds(r, e, s.compounds[i])
         /\ CompoundResult(d, e, s.compounds[i]) = "match" => CompoundHolds(r, e, s.compounds[i])
<1> DEFINE c == s.compounds[i]
<1>1. IsCompound(c) /\ \A q \in Nested(c) : IsCompound(q)
  BY DEF IsSelector
<1>2. \A n \in DOMAIN d[e].attributes : d[e].attributes[n] = Dynamic => <<e, n>> \in Unknown(d)
  BY DEF Unknown, IsDocument
<1>3. \A u \in Unknown(d) :
        /\ u[2] = "id" => \A q \in {c} \cup Nested(c) : q.id = Wild
        /\ \A q \in Nested(c) : \A a \in q.attributes : a.name = u[2] => a.value = Wild
  BY DEF Blind
<1> HIDE DEF c
<1>4. \A n \in DOMAIN d[e].attributes : d[e].attributes[n] = Dynamic =>
        /\ n = "id" => \A q \in {c} \cup Nested(c) : q.id = Wild
        /\ \A q \in Nested(c) : \A a \in q.attributes : a.name = n => a.value = Wild
  <2> TAKE n \in DOMAIN d[e].attributes
  <2> HAVE d[e].attributes[n] = Dynamic
  <2>1. <<e, n>> \in Unknown(d)
    BY <1>2
  <2>2. <<e, n>>[2] = n
    OBVIOUS
  <2> QED
    BY <1>3, <2>1, <2>2
<1>5. \A q \in Nested(c) : SimpleResult(d, e, q) # "none" <=> SimpleHolds(r, e, q)
  BY <1>1, <1>4, NestedMeans
<1>6. /\ SimpleResult(d, e, c) \in {"none", "conditional", "match"}
      /\ SimpleResult(d, e, c) = "none" => ~SimpleHolds(r, e, c)
      /\ SimpleResult(d, e, c) = "match" => SimpleHolds(r, e, c)
  <2>1. c.id = Wild \/ "id" \notin DOMAIN d[e].attributes \/ d[e].attributes["id"] # Dynamic
    BY <1>4
  <2> QED
    BY <1>1, <2>1, SimpleMeans
<1>7. (\A group \in c.anyOf : \E q \in group : SimpleResult(d, e, q) # "none")
        <=> (\A group \in c.anyOf : \E q \in group : SimpleHolds(r, e, q))
  BY <1>5 DEF Nested
<1>8. (\A group \in c.noneOf : \A q \in group : SimpleResult(d, e, q) = "none")
        <=> (\A group \in c.noneOf : ~\E q \in group : SimpleHolds(r, e, q))
  BY <1>5 DEF Nested
<1> QED
  BY <1>6, <1>7, <1>8 DEF CompoundResult, CompoundHolds, c
------------------------------------------------------------------------------
(* The recursion of ChainResult, taken apart: the answer by way of a, the  *)
(* ways from an element, the answer there.                                 *)
Through(d, s, chain, i, a) ==
  LET here == CompoundResult(d, a, s.compounds[i + 1])
  IN  IF i = Len(s.combinators) THEN here ELSE Merge(here, chain[<<a, i + 1>>])
Ways(d, s, chain, x, i) ==
  {a \in Tried(d, Related(d, x, s.combinators[i]), s.compounds[i + 1]) :
     Through(d, s, chain, i, a) # "none"}
Answer(d, s, chain, x, i) ==
  IF Ways(d, s, chain, x, i) = {} THEN "none"
  ELSE IF /\ s.combinators[i] = "descendant" /\ i # Len(s.combinators)
          /\ \E a \in Ways(d, s, chain, x, i) : Through(d, s, chain, i, a) = "match"
  THEN "match" ELSE Through(d, s, chain, i, Max(Ways(d, s, chain, x, i)))
Chain(d, s) ==
  CHOOSE f : f = [x \in (DOMAIN d) \X (1..Len(s.combinators)) |-> Answer(d, s, f, x[1], x[2])]

LEMMA ChainIsResult ==
  ASSUME NEW d, NEW s, NEW e
  PROVE  ChainResult(d, s, e) = Chain(d, s)[<<e, 1>>]
  BY DEF ChainResult, Chain, Answer, Ways, Through

(* An answer rests on answers one step on only.                            *)
LEMMA AnswerRestsOn ==
  ASSUME NEW d, IsDocument(d), NEW s, IsSelector(s), NEW f, NEW g,
         NEW x \in 1..Len(d), NEW i \in 1..Len(s.combinators),
         i # Len(s.combinators) => \A a \in 1..Len(d) : f[<<a, i + 1>>] = g[<<a, i + 1>>]
  PROVE  Answer(d, s, f, x, i) = Answer(d, s, g, x, i)
<1> DEFINE near == Tried(d, Related(d, x, s.combinators[i]), s.compounds[i + 1])
<1>1. near \subseteq 1..Len(d)
  <2>1. s.combinators[i] \in {"child", "adjacent", "sibling", "descendant"}
    BY DEF IsSelector
  <2>2. Related(d, x, s.combinators[i]) \subseteq 1..Len(d)
    BY <2>1, RelatedAreElements
  <2> QED
    BY <2>2 DEF Tried
<1>2. \A a \in near : Through(d, s, f, i, a) = Through(d, s, g, i, a)
  BY <1>1 DEF Through
<1>3. Ways(d, s, f, x, i) = Ways(d, s, g, x, i) /\ Ways(d, s, f, x, i) \subseteq near
  BY <1>2 DEF Ways
<1>4. CASE Ways(d, s, f, x, i) = {}
  BY <1>3, <1>4 DEF Answer
<1>5. CASE Ways(d, s, f, x, i) # {}
  <2>1. Max(Ways(d, s, f, x, i)) \in near
    <3>1. Len(d) \in Nat /\ Ways(d, s, f, x, i) \subseteq 1..Len(d)
      BY <1>1, <1>3 DEF IsDocument
    <3>2. Max(Ways(d, s, f, x, i)) \in Ways(d, s, f, x, i)
      BY <1>5, <3>1, Greatest
    <3> QED
      BY <1>3, <3>2
  <2> HIDE DEF near
  <2> QED
    BY <1>2, <1>3, <1>5, <2>1 DEF Answer
<1> QED
  BY <1>4, <1>5

(* The recursion of ChainResult is defined, because every step goes on to  *)
(* the next combinator.                                                    *)
LEMMA ChainAnswers ==
  ASSUME NEW d, IsDocument(d), NEW s, IsSelector(s)
  PROVE  \A x \in 1..Len(d), i \in 1..Len(s.combinators) :
           Chain(d, s)[<<x, i>>] = Answer(d, s, Chain(d, s), x, i)
<1> DEFINE last == Len(s.combinators)
           From(k) == (1..Len(d)) \X ((last - k)..last)
           Defined(k) == \E f : f = [x \in From(k) |-> Answer(d, s, f, x[1], x[2])]
<1>1. DOMAIN d = 1..Len(d) /\ last \in Nat
  BY DEF IsDocument, IsSelector
<1>2. ASSUME last # 0
      PROVE  Defined(last - 1)
  <2> DEFINE T == {k \in 0..(last - 1) : ~Defined(k)}
  <2>1. ASSUME NEW k \in 0..(last - 1), \A j \in 0..(k - 1) : Defined(j)
        PROVE  Defined(k)
    <3>1. \E f : \A x \in From(k) :
            x[2] # last - k => f[x] = Answer(d, s, f, x[1], x[2])
      <4>1. CASE k = 0
        <5>1. \A x \in From(k) : x[2] = last - k
          BY <1>1, <4>1
        <5> HIDE DEF From
        <5> QED
          BY <5>1
      <4>2. CASE k # 0
        <5>1. k - 1 \in 0..(k - 1)
          BY <1>1, <4>2
        <5>2. PICK f : f = [x \in From(k - 1) |-> Answer(d, s, f, x[1], x[2])]
          BY <2>1, <5>1
        <5>3. \A x \in From(k) : x[2] # last - k => x \in From(k - 1)
          BY <1>1, <4>2
        <5> HIDE DEF From
        <5> QED
          BY <5>2, <5>3
      <4> QED
        BY <4>1, <4>2
    <3>2. PICK f : \A x \in From(k) :
            x[2] # last - k => f[x] = Answer(d, s, f, x[1], x[2])
      BY <3>1
    <3> DEFINE g == [x \in From(k) |-> IF x[2] = last - k THEN Answer(d, s, f, x[1], x[2]) ELSE f[x]]
    <3>3. ASSUME NEW x \in From(k)
          PROVE  Answer(d, s, g, x[1], x[2]) = Answer(d, s, f, x[1], x[2])
      <4>1. x[1] \in 1..Len(d) /\ x[2] \in 1..last /\ x[2] >= last - k
        BY <1>1
      <4>2. ASSUME x[2] # last, NEW a \in 1..Len(d)
            PROVE  g[<<a, x[2] + 1>>] = f[<<a, x[2] + 1>>]
        <5>1. <<a, x[2] + 1>> \in From(k) /\ x[2] + 1 # last - k
          BY <1>1, <4>1, <4>2
        <5>2. <<a, x[2] + 1>>[2] # last - k
          BY <5>1
        <5> HIDE DEF From
        <5> QED
          BY <5>1, <5>2
      <4> HIDE DEF g
      <4> QED
        BY <4>1, <4>2, AnswerRestsOn
    <3>4. g = [x \in From(k) |-> Answer(d, s, g, x[1], x[2])]
      <4>1. \A x \in From(k) : g[x] = Answer(d, s, f, x[1], x[2])
        BY <3>2
      <4>2. DOMAIN g = From(k) /\ g = [x \in From(k) |-> g[x]]
        OBVIOUS
      <4> HIDE DEF g, From
      <4> QED
        BY <3>3, <4>1, <4>2
    <3> HIDE DEF g
    <3> QED
      BY <3>4
  <2> HIDE DEF Defined
  <2>2. T \in SUBSET Nat
    BY <1>1
  <2>3. CASE T # {}
    <3>1. PICK k \in T : \A j \in T : k <= j
      BY <2>2, <2>3, Least
    <3>2. \A j \in 0..(k - 1) : Defined(j)
      BY <3>1, <1>1
    <3> QED
      BY <2>1, <3>1, <3>2
  <2> QED
    BY <2>3, <1>1, <1>2
<1>3. ASSUME NEW x \in 1..Len(d), NEW i \in 1..last
      PROVE  Chain(d, s)[<<x, i>>] = Answer(d, s, Chain(d, s), x, i)
  <2>1. From(last - 1) = (DOMAIN d) \X (1..last) /\ last # 0
    BY <1>1
  <2>2. \E f : f = [y \in (DOMAIN d) \X (1..last) |-> Answer(d, s, f, y[1], y[2])]
    <3>1. Defined(last - 1)
      BY <1>2, <2>1
    <3> HIDE DEF From
    <3> QED
      BY <2>1, <3>1
  <2>3. Chain(d, s) = [y \in (DOMAIN d) \X (1..last) |-> Answer(d, s, Chain(d, s), y[1], y[2])]
    BY <2>2 DEF Chain
  <2>4. <<x, i>> \in (DOMAIN d) \X (1..last) /\ <<x, i>>[1] = x /\ <<x, i>>[2] = i
    BY <1>1
  <2> DEFINE c == Chain(d, s)
  <2> HIDE DEF c
  <2>5. c = [y \in (DOMAIN d) \X (1..last) |-> Answer(d, s, c, y[1], y[2])]
    BY <2>3 DEF c
  <2> QED
    BY <2>4, <2>5 DEF c
<1> QED
  BY <1>3
------------------------------------------------------------------------------
(* The rest of a selector, from its i-th compound on, holds from x.        *)
Walk(r, s, i, walk) ==
  /\ walk \in [i..Len(s.compounds) -> DOMAIN r]
  /\ \A j \in (i + 1)..Len(s.compounds) : CompoundHolds(r, walk[j], s.compounds[j])
  /\ \A j \in i..Len(s.combinators) : walk[j + 1] \in Related(r, walk[j], s.combinators[j])
Reaches(r, s, i, x) == \E walk : Walk(r, s, i, walk) /\ walk[i] = x

LEMMA ReachesEnd ==
  ASSUME NEW r, NEW s, IsSelector(s), NEW x \in DOMAIN r
  PROVE  Reaches(r, s, Len(s.compounds), x)
<1> DEFINE n == Len(s.compounds)
           walk == [j \in n..n |-> x]
<1>1. Len(s.combinators) \in Nat /\ n \in Nat /\ n = Len(s.combinators) + 1
  BY DEF IsSelector
<1>2. n \in n..n /\ walk[n] = x
  BY <1>1
<1>3. Walk(r, s, n, walk)
  BY <1>1 DEF Walk
<1> QED
  BY <1>2, <1>3 DEF Reaches

(* One step of the selector and then the rest.                             *)
LEMMA ReachesStep ==
  ASSUME NEW r, NEW s, IsSelector(s),
         NEW i \in 1..Len(s.combinators), NEW x \in DOMAIN r
  PROVE  Reaches(r, s, i, x) <=>
           \E a \in DOMAIN r : /\ a \in Related(r, x, s.combinators[i])
                               /\ CompoundHolds(r, a, s.compounds[i + 1])
                               /\ Reaches(r, s, i + 1, a)
<1> DEFINE last == Len(s.combinators)
<1>1. last \in Nat /\ i \in Nat /\ i <= last /\ i >= 1 /\ Len(s.compounds) = last + 1
  BY DEF IsSelector
<1>2. ASSUME Reaches(r, s, i, x)
      PROVE  \E a \in DOMAIN r : /\ a \in Related(r, x, s.combinators[i])
                                 /\ CompoundHolds(r, a, s.compounds[i + 1])
                                 /\ Reaches(r, s, i + 1, a)
  <2>1. PICK walk : Walk(r, s, i, walk) /\ walk[i] = x
    BY <1>2 DEF Reaches
  <2> HIDE DEF last
  <2>2. /\ walk \in [i..(last + 1) -> DOMAIN r]
        /\ \A j \in (i + 1)..(last + 1) : CompoundHolds(r, walk[j], s.compounds[j])
        /\ \A j \in i..last : walk[j + 1] \in Related(r, walk[j], s.combinators[j])
    BY <1>1, <2>1 DEF Walk, last
  <2> DEFINE rest == [j \in (i + 1)..(last + 1) |-> walk[j]]
             a == walk[i + 1]
  <2>3. i + 1 \in (i + 1)..(last + 1) /\ i + 1 \in i..(last + 1) /\ i \in i..last
    BY <1>1
  <2>4. /\ a \in DOMAIN r
        /\ CompoundHolds(r, a, s.compounds[i + 1])
        /\ a \in Related(r, x, s.combinators[i])
        /\ rest[i + 1] = a
    BY <2>1, <2>2, <2>3
  <2>5. \A j \in (i + 1)..(last + 1) : j \in i..(last + 1) /\ rest[j] = walk[j]
    BY <1>1
  <2>6. \A j \in (i + 1)..last : j \in i..last /\ j \in (i + 1)..(last + 1) /\ j + 1 \in (i + 1)..(last + 1)
    BY <1>1
  <2>7. \A j \in (i + 1 + 1)..(last + 1) : j \in (i + 1)..(last + 1)
    BY <1>1
  <2>8. rest \in [(i + 1)..(last + 1) -> DOMAIN r]
    BY <2>2, <2>5
  <2> HIDE DEF rest
  <2>9. Walk(r, s, i + 1, rest)
    <3>1. \A j \in (i + 1 + 1)..(last + 1) : CompoundHolds(r, rest[j], s.compounds[j])
      BY <2>2, <2>5, <2>7
    <3>2. \A j \in (i + 1)..last : rest[j + 1] \in Related(r, rest[j], s.combinators[j])
      BY <2>2, <2>5, <2>6
    <3> QED
      BY <1>1, <2>8, <3>1, <3>2 DEF Walk, last
  <2>10. Reaches(r, s, i + 1, a)
    BY <2>4, <2>9 DEF Reaches
  <2> QED
    BY <2>4, <2>10
<1>3. ASSUME NEW a \in DOMAIN r, a \in Related(r, x, s.combinators[i]),
             CompoundHolds(r, a, s.compounds[i + 1]), Reaches(r, s, i + 1, a)
      PROVE  Reaches(r, s, i, x)
  <2>1. PICK rest : Walk(r, s, i + 1, rest) /\ rest[i + 1] = a
    BY <1>3 DEF Reaches
  <2> HIDE DEF last
  <2>2. /\ rest \in [(i + 1)..(last + 1) -> DOMAIN r]
        /\ \A j \in (i + 1 + 1)..(last + 1) : CompoundHolds(r, rest[j], s.compounds[j])
        /\ \A j \in (i + 1)..last : rest[j + 1] \in Related(r, rest[j], s.combinators[j])
    BY <1>1, <2>1 DEF Walk, last
  <2> DEFINE walk == [j \in i..(last + 1) |-> IF j = i THEN x ELSE rest[j]]
  <2>3. \A j \in i..(last + 1) : j = i \/ j \in (i + 1)..(last + 1)
    BY <1>1
  <2>4. walk \in [i..(last + 1) -> DOMAIN r]
    BY <2>2, <2>3
  <2>5. walk[i] = x /\ \A j \in (i + 1)..(last + 1) : walk[j] = rest[j]
    BY <1>1
  <2> HIDE DEF walk
  <2>6. ASSUME NEW j \in (i + 1)..(last + 1)
        PROVE  CompoundHolds(r, walk[j], s.compounds[j])
    <3>1. j = i + 1 \/ j \in (i + 1 + 1)..(last + 1)
      BY <1>1
    <3> QED
      BY <1>3, <2>1, <2>2, <2>5, <3>1
  <2>7. ASSUME NEW j \in i..last
        PROVE  walk[j + 1] \in Related(r, walk[j], s.combinators[j])
    <3>1. CASE j = i
      <4>1. i + 1 \in (i + 1)..(last + 1)
        BY <1>1
      <4> QED
        BY <1>3, <2>1, <2>5, <3>1, <4>1
    <3>2. CASE j # i
      <4>1. j \in (i + 1)..last /\ j \in (i + 1)..(last + 1) /\ j + 1 \in (i + 1)..(last + 1)
        BY <1>1, <3>2
      <4> QED
        BY <2>2, <2>5, <4>1
    <3> QED
      BY <3>1, <3>2
  <2>8. Walk(r, s, i, walk)
    BY <1>1, <2>4, <2>6, <2>7 DEF Walk, last
  <2> QED
    BY <2>5, <2>8 DEF Reaches
<1> QED
  BY <1>2, <1>3

(* A selector holds for an element that its first compound holds for and   *)
(* from which the rest holds.                                              *)
LEMMA HoldsReaches ==
  ASSUME NEW r, NEW s, IsSelector(s), NEW e \in DOMAIN r
  PROVE  Holds(r, s, e) <=> CompoundHolds(r, e, s.compounds[1]) /\ Reaches(r, s, 1, e)
<1> DEFINE n == Len(s.compounds)
<1>1. /\ n \in Nat /\ n >= 1 /\ DOMAIN s.compounds = 1..n
      /\ DOMAIN s.combinators = 1..Len(s.combinators)
  BY DEF IsSelector
<1>2. ASSUME Holds(r, s, e)
      PROVE  CompoundHolds(r, e, s.compounds[1]) /\ Reaches(r, s, 1, e)
  <2>1. PICK chosen \in [DOMAIN s.compounds -> DOMAIN r] :
          /\ chosen[1] = e
          /\ \A i \in DOMAIN chosen : CompoundHolds(r, chosen[i], s.compounds[i])
          /\ \A i \in DOMAIN s.combinators : chosen[i + 1] \in Related(r, chosen[i], s.combinators[i])
    BY <1>2 DEF Holds
  <2>2. 1 \in 1..n /\ \A i \in (1 + 1)..n : i \in 1..n
    BY <1>1
  <2> HIDE DEF n
  <2>3. Walk(r, s, 1, chosen)
    BY <1>1, <2>1, <2>2 DEF Walk, n
  <2> QED
    BY <1>1, <2>1, <2>2, <2>3 DEF Reaches
<1>3. ASSUME CompoundHolds(r, e, s.compounds[1]), Reaches(r, s, 1, e)
      PROVE  Holds(r, s, e)
  <2>1. PICK walk : Walk(r, s, 1, walk) /\ walk[1] = e
    BY <1>3 DEF Reaches
  <2>2. /\ walk \in [DOMAIN s.compounds -> DOMAIN r] /\ DOMAIN walk = 1..n
        /\ \A i \in DOMAIN s.combinators : walk[i + 1] \in Related(r, walk[i], s.combinators[i])
    BY <1>1, <2>1 DEF Walk
  <2>3. ASSUME NEW i \in 1..n
        PROVE  CompoundHolds(r, walk[i], s.compounds[i])
    <3>1. i = 1 \/ i \in (1 + 1)..n
      BY <1>1
    <3> QED
      BY <1>3, <2>1, <3>1 DEF Walk
  <2> QED
    BY <2>1, <2>2, <2>3 DEF Holds
<1> QED
  BY <1>2, <1>3
------------------------------------------------------------------------------
(* What an answer says of a fact.                                          *)
Answers(answer, fact) ==
  /\ answer \in {"none", "conditional", "match"}
  /\ answer = "none" => ~fact
  /\ answer = "match" => fact

LEMMA MergeAnswers ==
  ASSUME NEW a, NEW b, NEW p \in BOOLEAN, NEW q \in BOOLEAN, Answers(a, p), Answers(b, q)
  PROVE  Answers(Merge(a, b), p /\ q)
  BY DEF Answers, Merge

(* One step of the chain answers, if the next does.                        *)
LEMMA AnswerMeans ==
  ASSUME NEW Vals, NEW d, IsDocument(d), NEW r \in AtRunTime(d, Vals),
         NEW s, IsSelector(s), ~Blind(d, s),
         NEW chain, NEW i \in 1..Len(s.combinators), NEW x \in 1..Len(d),
         i # Len(s.combinators) =>
           \A a \in 1..Len(d) : Answers(chain[<<a, i + 1>>], Reaches(r, s, i + 1, a))
  PROVE  Answers(Answer(d, s, chain, x, i), Reaches(r, s, i, x))
<1> DEFINE last == Len(s.combinators)
           near == Related(d, x, s.combinators[i])
           ways == Ways(d, s, chain, x, i)
           through(a) == Through(d, s, chain, i, a)
           good(a) == CompoundHolds(r, a, s.compounds[i + 1]) /\ Reaches(r, s, i + 1, a)
<1>1. /\ last \in Nat /\ Len(s.compounds) = last + 1 /\ i + 1 \in DOMAIN s.compounds
      /\ s.combinators[i] \in {"child", "adjacent", "sibling", "descendant"}
  BY DEF IsSelector
<1>2. DOMAIN r = 1..Len(d) /\ Len(d) \in Nat
  BY RunTimeShape
<1>3. Related(r, x, s.combinators[i]) = near /\ near \subseteq 1..Len(d)
  BY <1>1, RunTimeRelated, RelatedAreElements
<1>4. Reaches(r, s, i, x) <=> \E a \in near : good(a)
  BY <1>2, <1>3, ReachesStep
<1>5. \A a \in near : Answers(CompoundResult(d, a, s.compounds[i + 1]),
                              CompoundHolds(r, a, s.compounds[i + 1]))
  BY <1>1, <1>3, CompoundMeans DEF Answers
<1>6. ASSUME NEW a \in near
      PROVE  Answers(through(a), good(a))
  <2>1. CASE i = last
    <3>1. Reaches(r, s, i + 1, a)
      BY <1>1, <1>2, <1>3, <2>1, ReachesEnd
    <3> QED
      BY <1>5, <2>1, <3>1 DEF Through, Answers
  <2>2. CASE i # last
    <3>1. through(a) = Merge(CompoundResult(d, a, s.compounds[i + 1]), chain[<<a, i + 1>>])
      BY <2>2 DEF Through
    <3>2. Answers(chain[<<a, i + 1>>], Reaches(r, s, i + 1, a))
      BY <1>3, <2>2
    <3>3. CompoundHolds(r, a, s.compounds[i + 1]) \in BOOLEAN /\ Reaches(r, s, i + 1, a) \in BOOLEAN
      BY DEF CompoundHolds, Reaches
    <3> QED
      BY <1>5, <3>1, <3>2, <3>3, MergeAnswers
  <2> QED
    BY <2>1, <2>2
<1>7. ways \subseteq near /\ \A a \in ways : through(a) # "none"
  BY DEF Ways, Tried
<1>8. \A a \in near : good(a) => a \in ways
  BY <1>5, <1>6 DEF Ways, Tried, Answers
<1>9. CASE ways = {}
  <2>1. Answer(d, s, chain, x, i) = "none"
    BY <1>9 DEF Answer
  <2>2. ~Reaches(r, s, i, x)
    BY <1>4, <1>8, <1>9
  <2> QED
    BY <2>1, <2>2 DEF Answers
<1>10. CASE ways # {}
  <2>1. Max(ways) \in ways
    <3> HIDE DEF ways
    <3> QED
      BY <1>2, <1>3, <1>7, <1>10, Greatest
  <2>2. PICK a \in ways : Answer(d, s, chain, x, i) = through(a)
    <3>1. CASE /\ s.combinators[i] = "descendant" /\ i # last
               /\ \E a \in ways : through(a) = "match"
      <4>1. Answer(d, s, chain, x, i) = "match"
        BY <1>10, <3>1 DEF Answer
      <4> HIDE DEF ways, through
      <4> QED
        BY <3>1, <4>1
    <3>2. CASE ~ /\ s.combinators[i] = "descendant" /\ i # last
                 /\ \E a \in ways : through(a) = "match"
      <4>1. Answer(d, s, chain, x, i) = through(Max(ways))
        BY <1>10, <3>2 DEF Answer
      <4> HIDE DEF ways, through
      <4> QED
        BY <2>1, <4>1
    <3> QED
      BY <3>1, <3>2
  <2> HIDE DEF ways, through, near, good
  <2>3. Answers(through(a), good(a)) /\ through(a) # "none" /\ a \in near
    BY <1>6, <1>7
  <2> QED
    BY <1>4, <2>2, <2>3 DEF Answers
<1> QED
  BY <1>9, <1>10

(* The chain answers, from its last combinator up to its first.            *)
LEMMA ChainMeans ==
  ASSUME NEW Vals, NEW d, IsDocument(d), NEW r \in AtRunTime(d, Vals),
         NEW s, IsSelector(s), ~Blind(d, s),
         NEW e \in 1..Len(d), Len(s.combinators) # 0
  PROVE  Answers(ChainResult(d, s, e), Reaches(r, s, 1, e))
<1> DEFINE last == Len(s.combinators)
           chain == Chain(d, s)
           Means(i) == \A x \in 1..Len(d) : Answers(chain[<<x, i>>], Reaches(r, s, i, x))
           T == {k \in 0..(last - 1) : ~Means(last - k)}
<1>1. last \in Nat
  BY DEF IsSelector
<1>2. \A x \in 1..Len(d), i \in 1..last : chain[<<x, i>>] = Answer(d, s, chain, x, i)
  BY ChainAnswers
<1>3. ASSUME NEW i \in 1..last, i # last => Means(i + 1)
      PROVE  Means(i)
  <2> SUFFICES ASSUME NEW x \in 1..Len(d)
               PROVE  Answers(chain[<<x, i>>], Reaches(r, s, i, x))
    OBVIOUS
  <2> HIDE DEF chain
  <2>1. Answers(Answer(d, s, chain, x, i), Reaches(r, s, i, x))
    BY <1>3, AnswerMeans
  <2> QED
    BY <1>2, <2>1
<1> HIDE DEF Means
<1>4. T \in SUBSET Nat
  BY <1>1
<1>5. ASSUME T # {}
      PROVE  FALSE
  <2>1. PICK k \in T : \A j \in T : k <= j
    BY <1>4, <1>5, Least
  <2>2. last - k \in 1..last
    BY <1>1, <2>1
  <2>3. last - k # last => Means(last - k + 1)
    <3> HAVE last - k # last
    <3>1. k - 1 \in 0..(last - 1) /\ ~(k <= k - 1) /\ last - (k - 1) = last - k + 1
      BY <1>1, <2>1
    <3>2. k - 1 \notin T
      BY <2>1, <3>1
    <3>3. Means(last - (k - 1))
      BY <3>1, <3>2
    <3> QED
      BY <3>1, <3>3
  <2>4. Means(last - k)
    BY <1>3, <2>2, <2>3
  <2> QED
    BY <2>1, <2>4
<1>6. Means(1)
  <2>1. last - 1 \in 0..(last - 1) /\ last - (last - 1) = 1
    BY <1>1
  <2>2. Means(last - (last - 1))
    BY <1>5, <2>1
  <2> QED
    BY <2>1, <2>2
<1> QED
  BY <1>6, ChainIsResult DEF Means

(* The matcher's answer to every selector and element of a document that   *)
(* it is not blind in: "none" only if the selector holds for no value of   *)
(* the attributes known at run time only, "match" only if it holds for all *)
(* (matchElement, matchesChain).                                           *)
THEOREM MatchMeans ==
  ASSUME NEW Vals, NEW d, IsDocument(d), NEW s, IsSelector(s), ~Blind(d, s),
         NEW e \in DOMAIN d, NEW r \in AtRunTime(d, Vals)
  PROVE  /\ MatchElement(d, s, e) \in {"none", "conditional", "match"}
         /\ MatchElement(d, s, e) = "none" => ~Holds(r, s, e)
         /\ MatchElement(d, s, e) = "match" => Holds(r, s, e)
<1> DEFINE subject == CompoundResult(d, e, s.compounds[1])
<1>1. /\ DOMAIN d = 1..Len(d) /\ DOMAIN r = 1..Len(d)
  BY RunTimeShape
<1>2. 1 \in DOMAIN s.compounds /\ Len(s.combinators) \in Nat /\ Len(s.compounds) = Len(s.combinators) + 1
  BY DEF IsSelector
<1>3. Answers(subject, CompoundHolds(r, e, s.compounds[1]))
  BY <1>1, <1>2, CompoundMeans DEF Answers
<1>4. Holds(r, s, e) <=> CompoundHolds(r, e, s.compounds[1]) /\ Reaches(r, s, 1, e)
  BY <1>1, HoldsReaches
<1>5. CASE s.combinators = <<>>
  <2>1. Len(s.combinators) = 0
    BY <1>5
  <2>2. Reaches(r, s, 1, e)
    <3>1. Len(s.compounds) = 1 /\ e \in DOMAIN r
      BY <1>1, <1>2, <2>1
    <3>2. Reaches(r, s, Len(s.compounds), e)
      BY <3>1, ReachesEnd
    <3> QED
      BY <3>1, <3>2
  <2> QED
    BY <1>3, <1>4, <1>5, <2>2 DEF MatchElement, Answers
<1>6. CASE s.combinators # <<>> /\ subject = "none"
  BY <1>3, <1>4, <1>6 DEF MatchElement, Answers
<1>7. CASE s.combinators # <<>> /\ subject # "none"
  <2>1. Len(s.combinators) # 0
    BY <1>2, <1>7 DEF IsSelector
  <2>2. Answers(ChainResult(d, s, e), Reaches(r, s, 1, e))
    BY <1>1, <2>1, ChainMeans
  <2>3. MatchElement(d, s, e) = Merge(subject, ChainResult(d, s, e))
    BY <1>7 DEF MatchElement
  <2>4. CompoundHolds(r, e, s.compounds[1]) \in BOOLEAN /\ Reaches(r, s, 1, e) \in BOOLEAN
    BY DEF CompoundHolds, Reaches
  <2>5. Answers(MatchElement(d, s, e), CompoundHolds(r, e, s.compounds[1]) /\ Reaches(r, s, 1, e))
    BY <1>3, <2>2, <2>3, <2>4, MergeAnswers
  <2> QED
    BY <1>4, <2>5 DEF Answers
<1> QED
  BY <1>5, <1>6, <1>7

(* A rule whose selector may match an element is filed under a key that    *)
(* the element asks for, unless its subject has none to be filed under     *)
(* (buildSelectorDispatchKeys, appendMatchingEdges).                       *)
THEOREM MatchIsFound ==
  ASSUME NEW d, NEW s, IsSelector(s), NEW e \in DOMAIN d, MatchElement(d, s, e) # "none"
  PROVE  FoundByKey(d, s, e) \/ FoundByTag(d, s, e) \/ Unkeyed(s)
<1> DEFINE c == s.compounds[1]
           a == d[e].attributes
<1>1. IsCompound(c)
  <2>1. 1 \in DOMAIN s.compounds
    BY DEF IsSelector
  <2> QED
    BY <2>1 DEF IsSelector
<1>2. SimpleResult(d, e, c) # "none"
  BY DEF MatchElement, CompoundResult, Merge
<1>3. /\ c.tag \in {Wild, d[e].tag}
      /\ c.id # Wild => "id" \in DOMAIN a /\ a["id"] = c.id
      /\ c.classes \subseteq d[e].classes
      /\ \A q \in c.attributes : q.name \in DOMAIN a
  BY <1>2 DEF SimpleResult, AttributesResult
<1>4. CASE c.id # Wild
  <2>1. Key("id", c.id) \in SelectorKeys(s)
    BY <1>4 DEF SelectorKeys
  <2>2. Key("id", c.id) \in ElementKeys(d, e)
    BY <1>1, <1>3, <1>4 DEF ElementKeys, IsCompound
  <2> QED
    BY <2>1, <2>2 DEF FoundByKey
<1>5. CASE \E n \in c.classes : TRUE
  <2>1. PICK n \in c.classes : TRUE
    BY <1>5
  <2>2. Key("class", n) \in SelectorKeys(s)
    BY <2>1 DEF SelectorKeys
  <2>3. Key("class", n) \in ElementKeys(d, e)
    BY <1>3, <2>1 DEF ElementKeys
  <2> QED
    BY <2>2, <2>3 DEF FoundByKey
<1>6. CASE \E q \in c.attributes : TRUE
  <2>1. PICK q \in c.attributes : TRUE
    BY <1>6
  <2>2. Key("attr", q.name) \in SelectorKeys(s)
    BY <2>1 DEF SelectorKeys
  <2>3. Key("attr", q.name) \in ElementKeys(d, e)
    BY <1>3, <2>1 DEF ElementKeys
  <2> QED
    BY <2>2, <2>3 DEF FoundByKey
<1>7. CASE c.id = Wild /\ c.classes = {} /\ c.attributes = {}
  <2>1. SelectorKeys(s) = {}
    BY <1>7 DEF SelectorKeys
  <2>2. c.tag = Wild \/ (d[e].tag # Wild /\ c.tag = d[e].tag)
    BY <1>3
  <2> QED
    BY <2>1, <2>2 DEF FoundByTag, Unkeyed
<1> QED
  BY <1>4, <1>5, <1>6, <1>7
--------------------------------------------------------------------------------
(* The document with these values at run time.                             *)
Run(d, v) ==
  [e \in DOMAIN d |->
     [d[e] EXCEPT !.attributes = [n \in DOMAIN @ |-> IF @[n] = Dynamic THEN v[<<e, n>>] ELSE @[n]]]]

(* The values give an element the attributes that a compound asks for.     *)
Fits(d, e, c, v) ==
  \A q \in c.attributes : <<e, q.name>> \in Unknown(d) /\ q.value # Wild => v[<<e, q.name>>] = q.value

(* The document takes the values where it is not static.                   *)
TakesValues(d, v) ==
  \A e \in 1..Len(d) : \A n \in DOMAIN d[e].attributes :
    d[e].attributes[n] = Dynamic =>
      <<e, n>> \in Unknown(d) /\ Run(d, v)[e].attributes[n] = v[<<e, n>>]

LEMMA RunShape ==
  ASSUME NEW Vals, NEW d, IsDocument(d), NEW v \in [Unknown(d) -> Vals]
  PROVE  Run(d, v) \in AtRunTime(d, Vals) /\ TakesValues(d, v)
<1>1. DOMAIN d = 1..Len(d)
  BY DEF IsDocument
<1>2. Run(d, v) \in AtRunTime(d, Vals)
  BY DEF AtRunTime, Run
<1>3. ASSUME NEW e \in 1..Len(d), NEW n \in DOMAIN d[e].attributes, d[e].attributes[n] = Dynamic
      PROVE  <<e, n>> \in Unknown(d) /\ Run(d, v)[e].attributes[n] = v[<<e, n>>]
  <2> DEFINE a == d[e].attributes
             b == [m \in DOMAIN a |-> IF a[m] = Dynamic THEN v[<<e, m>>] ELSE a[m]]
  <2>1. Run(d, v)[e] = [d[e] EXCEPT !.attributes = b]
    BY <1>1 DEF Run
  <2>2. d[e] = [parent |-> d[e].parent, tag |-> d[e].tag, classes |-> d[e].classes, attributes |-> a]
    BY DEF IsDocument, IsElement
  <2> HIDE DEF b
  <2>3. Run(d, v)[e].attributes = b
    BY <2>1, <2>2
  <2>4. b[n] = v[<<e, n>>]
    BY <1>3 DEF b
  <2>5. <<e, n>> \in Unknown(d)
    BY <1>1, <1>3 DEF Unknown
  <2> QED
    BY <2>3, <2>4, <2>5
<1> QED
  BY <1>2, <1>3 DEF TakesValues

(* What a compound does not refuse holds for values that give it what it   *)
(* asks for.                                                               *)
LEMMA FitHolds ==
  ASSUME NEW Vals, NEW d, IsDocument(d), NEW v \in [Unknown(d) -> Vals], NEW e \in 1..Len(d),
         NEW s, IsSelector(s), ~Blind(d, s), NEW i \in DOMAIN s.compounds,
         CompoundResult(d, e, s.compounds[i]) # "none", Fits(d, e, s.compounds[i], v)
  PROVE  CompoundHolds(Run(d, v), e, s.compounds[i])
<1> DEFINE c == s.compounds[i]
           r == Run(d, v)
           a == d[e].attributes
           b == r[e].attributes
           c0 == [tag |-> c.tag, id |-> c.id, classes |-> c.classes, attributes |-> {}, places |-> c.places]
<1>1. IsCompound(c) /\ \A q \in Nested(c) : IsCompound(q)
  BY DEF IsSelector
<1>2. r \in AtRunTime(d, Vals) /\ TakesValues(d, v)
  BY RunShape
<1> HIDE DEF c0, c
<1>3. ASSUME NEW n \in DOMAIN a, a[n] = Dynamic
      PROVE  <<e, n>> \in Unknown(d) /\ b[n] = v[<<e, n>>]
  BY <1>2, <1>3 DEF TakesValues
<1>4. \A u \in Unknown(d) :
        /\ u[2] = "id" => \A q \in {c} \cup Nested(c) : q.id = Wild
        /\ \A q \in Nested(c) : \A x \in q.attributes : x.name = u[2] => x.value = Wild
  BY DEF Blind, c
<1> HIDE DEF r
<1>5. DOMAIN b = DOMAIN a /\ \A n \in DOMAIN a : a[n] # Dynamic => b[n] = a[n]
  BY <1>2, RunTimeShape
<1>6. \A n \in DOMAIN a : a[n] = Dynamic =>
        /\ n = "id" => \A q \in {c} \cup Nested(c) : q.id = Wild
        /\ \A q \in Nested(c) : \A x \in q.attributes : x.name = n => x.value = Wild
  <2> TAKE n \in DOMAIN a
  <2> HAVE a[n] = Dynamic
  <2>1. <<e, n>> \in Unknown(d)
    BY <1>3
  <2>2. <<e, n>>[2] = n
    OBVIOUS
  <2> QED
    BY <1>4, <2>1, <2>2
<1>7. \A q \in Nested(c) : SimpleResult(d, e, q) # "none" <=> SimpleHolds(r, e, q)
  BY <1>1, <1>2, <1>6, NestedMeans
<1>8. /\ \A group \in c.anyOf : \E q \in group : SimpleResult(d, e, q) # "none"
      /\ \A group \in c.noneOf : \A q \in group : SimpleResult(d, e, q) = "none"
      /\ SimpleResult(d, e, c) # "none"
  BY DEF CompoundResult, c
<1>9. /\ \A group \in c.anyOf : \E q \in group : SimpleHolds(r, e, q)
      /\ \A group \in c.noneOf : ~\E q \in group : SimpleHolds(r, e, q)
  BY <1>7, <1>8 DEF Nested
<1>10. SimpleHolds(r, e, c0)
  <2>1. IsCompound(c0)
    BY <1>1 DEF IsCompound, c0
  <2>2. c0.id = Wild \/ "id" \notin DOMAIN a \/ a["id"] # Dynamic
    BY <1>6 DEF c0
  <2>3. SimpleResult(d, e, c0) = "match"
    <3>1. AttributesResult(a, {}) = "match"
      BY DEF AttributesResult
    <3>2. /\ c0.tag = c.tag /\ c0.id = c.id /\ c0.classes = c.classes /\ c0.places = c.places
          /\ c0.attributes = {}
      BY DEF c0
    <3>3. /\ c.tag \in {Wild, d[e].tag}
          /\ c.id # Wild => "id" \in DOMAIN a /\ a["id"] = c.id
          /\ c.classes \subseteq d[e].classes
          /\ \A p \in c.places : NthMatches(Index(d, e, p.from), p.step, p.offset)
      BY <1>8 DEF SimpleResult
    <3> QED
      BY <3>1, <3>2, <3>3 DEF SimpleResult
  <2> QED
    BY <1>2, <2>1, <2>2, <2>3, SimpleMeans
<1>11. \A q \in c.attributes : q.name \in DOMAIN b /\ q.value \in {Wild, b[q.name]}
  <2> SUFFICES ASSUME NEW q \in c.attributes
               PROVE  q.name \in DOMAIN b /\ q.value \in {Wild, b[q.name]}
    OBVIOUS
  <2>1. AttributesResult(a, c.attributes) # "none"
    BY <1>8 DEF SimpleResult
  <2>2. q.name \in DOMAIN a /\ (q.value = Wild \/ a[q.name] \in {Dynamic, q.value})
    BY <2>1 DEF AttributesResult
  <2>3. CASE q.value # Wild /\ a[q.name] = Dynamic
    <3>1. <<e, q.name>> \in Unknown(d) /\ b[q.name] = v[<<e, q.name>>]
      BY <1>3, <2>2, <2>3
    <3>2. v[<<e, q.name>>] = q.value
      BY <2>3, <3>1 DEF Fits, c
    <3> QED
      BY <1>5, <2>2, <3>1, <3>2
  <2>4. CASE q.value = Wild \/ a[q.name] # Dynamic
    BY <1>5, <2>2, <2>4
  <2> QED
    BY <2>3, <2>4
<1>12. SimpleHolds(r, e, c)
  <2>1. /\ c0.tag = c.tag /\ c0.id = c.id /\ c0.classes = c.classes /\ c0.places = c.places
    BY DEF c0
  <2> QED
    BY <1>10, <1>11, <2>1 DEF SimpleHolds
<1> QED
  BY <1>9, <1>12 DEF CompoundHolds, c, r

(* One element can be given what a compound asks for, and the others left  *)
(* as they are.                                                            *)
Fitted(d, s, Vals, i, e, old) ==
  \E v \in [Unknown(d) -> Vals] :
    Fits(d, e, s.compounds[i], v) /\ \A u \in Unknown(d) : u[1] # e => v[u] = old[u]

LEMMA CanFit ==
  ASSUME NEW Vals, NEW d, NEW s, ~Contradicts(s), Asked(s) \subseteq Vals,
         NEW i \in DOMAIN s.compounds, NEW e, NEW old \in [Unknown(d) -> Vals]
  PROVE  Fitted(d, s, Vals, i, e, old)
<1> DEFINE c == s.compounds[i]
           Asks(u, q) == u[1] = e /\ q.name = u[2] /\ q.value # Wild
           asked(u) == (CHOOSE q \in c.attributes : Asks(u, q)).value
           v == [u \in Unknown(d) |-> IF \E q \in c.attributes : Asks(u, q) THEN asked(u) ELSE old[u]]
<1>1. \A u : (\E q \in c.attributes : Asks(u, q)) =>
        /\ (CHOOSE q \in c.attributes : Asks(u, q)) \in c.attributes
        /\ Asks(u, CHOOSE q \in c.attributes : Asks(u, q))
  OBVIOUS
<1>2. \A u : (\E q \in c.attributes : Asks(u, q)) => asked(u) \in Vals
  <2> SUFFICES ASSUME NEW u, \E q \in c.attributes : Asks(u, q) PROVE asked(u) \in Vals
    OBVIOUS
  <2>1. asked(u) \in {q.value : q \in c.attributes} /\ asked(u) # Wild
    BY <1>1
  <2> HIDE DEF asked
  <2>2. asked(u) \in Asked(s)
    BY <2>1 DEF Asked
  <2> QED
    BY <2>2
<1>3. v \in [Unknown(d) -> Vals]
  <2> HIDE DEF asked, Asks
  <2> QED
    BY <1>2
<1>4. ASSUME NEW q \in c.attributes, <<e, q.name>> \in Unknown(d), q.value # Wild
      PROVE  v[<<e, q.name>>] = q.value
  <2> DEFINE u == <<e, q.name>>
             p == CHOOSE x \in c.attributes : Asks(u, x)
  <2>1. u[1] = e /\ u[2] = q.name
    OBVIOUS
  <2> HIDE DEF u
  <2>2. Asks(u, q)
    BY <1>4, <2>1
  <2>3. p \in c.attributes /\ Asks(u, p)
    BY <1>1, <2>2
  <2>4. v[u] = p.value
    BY <1>4, <2>2 DEF u
  <2>5. p.name = q.name /\ p.value # Wild
    BY <2>1, <2>3
  <2> HIDE DEF p, v
  <2>6. p.value = q.value
    BY <1>4, <2>3, <2>5 DEF Contradicts
  <2> QED
    BY <2>4, <2>6 DEF u
<1>5. \A u \in Unknown(d) : u[1] # e => v[u] = old[u]
  OBVIOUS
<1> HIDE DEF v
<1> QED
  BY <1>3, <1>4, <1>5 DEF Fits, Fitted

(* A combinator leads to elements that stand before.                       *)
LEMMA RelatedStandBefore ==
  ASSUME NEW d, IsDocument(d), NEW e \in 1..Len(d),
         NEW combinator \in {"child", "adjacent", "sibling", "descendant"}
  PROVE  Related(d, e, combinator) \subseteq 1..(e - 1)
<1>1. Len(d) \in Nat
  BY DEF IsDocument
<1>2. Elder(d, e) \subseteq 1..(e - 1)
  BY <1>1, SiblingsAreElements DEF Elder
<1>3. Ancestors(d, e) \subseteq 1..(e - 1)
  BY AncestorsStandBefore
<1>4. {d[e].parent} \ {NoParent} \subseteq 1..(e - 1)
  BY <1>1 DEF IsDocument, NoParent
<1>5. CASE combinator = "child"
  BY <1>4, <1>5 DEF Related
<1>6. CASE combinator = "adjacent"
  BY <1>2, <1>6 DEF Related
<1>7. CASE combinator = "sibling"
  BY <1>2, <1>7 DEF Related
<1>8. CASE combinator = "descendant"
  BY <1>3, <1>8 DEF Related
<1> QED
  BY <1>5, <1>6, <1>7, <1>8

(* The rest of a selector from x on holds for all values that are these    *)
(* before x.                                                               *)
Alike(d, v, w, x) == \A u \in Unknown(d) : u[1] < x => v[u] = w[u]
MayReach(d, s, Vals, i, x) ==
  \E v \in [Unknown(d) -> Vals] : \A w \in [Unknown(d) -> Vals] :
    Alike(d, v, w, x) => Reaches(Run(d, w), s, i, x)

LEMMA UnknownOfElements ==
  ASSUME NEW d, IsDocument(d) PROVE \A u \in Unknown(d) : u[1] \in 1..Len(d)
<1>1. DOMAIN d = 1..Len(d)
  BY DEF IsDocument
<1> QED
  BY <1>1 DEF Unknown

LEMMA StepMayReach ==
  ASSUME NEW Vals, Vals # {}, NEW d, IsDocument(d), NEW s, IsSelector(s), ~Blind(d, s),
         ~Contradicts(s), Asked(s) \subseteq Vals,
         NEW chain, NEW i \in 1..Len(s.combinators), NEW x \in 1..Len(d),
         i # Len(s.combinators) =>
           \A a \in 1..Len(d) : chain[<<a, i + 1>>] # "none" => MayReach(d, s, Vals, i + 1, a),
         Answer(d, s, chain, x, i) # "none"
  PROVE  MayReach(d, s, Vals, i, x)
<1> DEFINE near == Related(d, x, s.combinators[i])
           last == Len(s.combinators)
           All == [Unknown(d) -> Vals]
<1>1. /\ last \in Nat /\ Len(s.compounds) = last + 1 /\ i + 1 \in DOMAIN s.compounds
      /\ s.combinators[i] \in {"child", "adjacent", "sibling", "descendant"}
  BY DEF IsSelector
<1>2. near \subseteq 1..(x - 1) /\ Len(d) \in Nat
  BY <1>1, RelatedStandBefore DEF IsDocument
<1>3. PICK a \in near : /\ CompoundResult(d, a, s.compounds[i + 1]) # "none"
                        /\ Through(d, s, chain, i, a) # "none"
  BY DEF Answer, Ways, Tried
<1>4. a \in 1..Len(d) /\ a \in Nat /\ x \in Nat /\ a < x
  BY <1>2
<1>5. \E old \in All : \A w \in All : Alike(d, old, w, a) => Reaches(Run(d, w), s, i + 1, a)
  <2>1. CASE i = last
    <3>1. PICK z \in Vals : TRUE
      OBVIOUS
    <3>2. [u \in Unknown(d) |-> z] \in All
      OBVIOUS
    <3>3. \A w \in All : Reaches(Run(d, w), s, i + 1, a)
      <4> TAKE w \in All
      <4>1. DOMAIN Run(d, w) = 1..Len(d)
        BY DEF Run, IsDocument
      <4>2. a \in DOMAIN Run(d, w)
        BY <1>4, <4>1
      <4>3. Reaches(Run(d, w), s, Len(s.compounds), a)
        BY <4>2, ReachesEnd
      <4> QED
        BY <1>1, <2>1, <4>3
    <3> QED
      BY <3>2, <3>3
  <2>2. CASE i # last
    <3>1. chain[<<a, i + 1>>] # "none"
      BY <1>3, <2>2 DEF Through, Merge
    <3> QED
      BY <1>4, <2>2, <3>1 DEF MayReach
  <2> QED
    BY <2>1, <2>2
<1>6. PICK old \in All : \A w \in All : Alike(d, old, w, a) => Reaches(Run(d, w), s, i + 1, a)
  BY <1>5
<1>7. PICK v \in All : /\ Fits(d, a, s.compounds[i + 1], v)
                       /\ \A u \in Unknown(d) : u[1] # a => v[u] = old[u]
  <2>1. Fitted(d, s, Vals, i + 1, a, old)
    BY <1>1, CanFit
  <2> QED
    BY <2>1 DEF Fitted
<1>8. ASSUME NEW w \in All, Alike(d, v, w, x)
      PROVE  Reaches(Run(d, w), s, i, x)
  <2>1. \A u \in Unknown(d) : u[1] \in 1..Len(d)
    BY UnknownOfElements
  <2>2. Alike(d, old, w, a)
    <3>1. \A u \in Unknown(d) : u[1] < a => u[1] < x /\ u[1] # a
      BY <1>2, <1>4, <2>1
    <3> QED
      BY <1>7, <1>8, <3>1 DEF Alike
  <2>3. Fits(d, a, s.compounds[i + 1], w)
    <3> SUFFICES ASSUME NEW q \in s.compounds[i + 1].attributes,
                        <<a, q.name>> \in Unknown(d), q.value # Wild
                 PROVE  w[<<a, q.name>>] = q.value
      BY DEF Fits
    <3>1. v[<<a, q.name>>] = q.value
      BY <1>7 DEF Fits
    <3>2. <<a, q.name>>[1] < x
      BY <1>4
    <3> QED
      BY <1>8, <3>1, <3>2 DEF Alike
  <2>4. CompoundHolds(Run(d, w), a, s.compounds[i + 1])
    BY <1>1, <1>3, <1>4, <2>3, FitHolds
  <2>5. Reaches(Run(d, w), s, i + 1, a)
    BY <1>6, <2>2
  <2>6. Run(d, w) \in AtRunTime(d, Vals) /\ DOMAIN Run(d, w) = 1..Len(d)
    BY RunShape DEF Run, IsDocument
  <2>7. a \in Related(Run(d, w), x, s.combinators[i])
    BY <1>1, <2>6, RunTimeRelated
  <2> QED
    BY <1>4, <2>4, <2>5, <2>6, <2>7, ReachesStep
<1> QED
  BY <1>8 DEF MayReach

LEMMA ChainMayReach ==
  ASSUME NEW Vals, Vals # {}, NEW d, IsDocument(d), NEW s, IsSelector(s), ~Blind(d, s),
         ~Contradicts(s), Asked(s) \subseteq Vals,
         NEW e \in 1..Len(d), Len(s.combinators) # 0, ChainResult(d, s, e) # "none"
  PROVE  MayReach(d, s, Vals, 1, e)
<1> DEFINE last == Len(s.combinators)
           chain == Chain(d, s)
           Means(i) == \A x \in 1..Len(d) : chain[<<x, i>>] # "none" => MayReach(d, s, Vals, i, x)
           T == {k \in 0..(last - 1) : ~Means(last - k)}
<1>1. last \in Nat
  BY DEF IsSelector
<1>2. \A x \in 1..Len(d), i \in 1..last : chain[<<x, i>>] = Answer(d, s, chain, x, i)
  BY ChainAnswers
<1>3. ASSUME NEW i \in 1..last, i # last => Means(i + 1)
      PROVE  Means(i)
  <2> SUFFICES ASSUME NEW x \in 1..Len(d), chain[<<x, i>>] # "none"
               PROVE  MayReach(d, s, Vals, i, x)
    OBVIOUS
  <2> HIDE DEF chain
  <2>1. Answer(d, s, chain, x, i) # "none"
    BY <1>2
  <2> QED
    BY <1>3, <2>1, StepMayReach
<1> HIDE DEF Means
<1>4. T \in SUBSET Nat
  BY <1>1
<1>5. ASSUME T # {}
      PROVE  FALSE
  <2>1. PICK k \in T : \A j \in T : k <= j
    BY <1>4, <1>5, Least
  <2>2. last - k \in 1..last
    BY <1>1, <2>1
  <2>3. last - k # last => Means(last - k + 1)
    <3> HAVE last - k # last
    <3>1. k - 1 \in 0..(last - 1) /\ ~(k <= k - 1) /\ last - (k - 1) = last - k + 1
      BY <1>1, <2>1
    <3>2. k - 1 \notin T
      BY <2>1, <3>1
    <3>3. Means(last - (k - 1))
      BY <3>1, <3>2
    <3> QED
      BY <3>1, <3>3
  <2>4. Means(last - k)
    BY <1>3, <2>2, <2>3
  <2> QED
    BY <2>1, <2>4
<1>6. Means(1)
  <2>1. last - 1 \in 0..(last - 1) /\ last - (last - 1) = 1
    BY <1>1
  <2>2. Means(last - (last - 1))
    BY <1>5, <2>1
  <2> QED
    BY <2>1, <2>2
<1> QED
  BY <1>6, ChainIsResult DEF Means

(* What the matcher does not refuse holds for some values of the           *)
(* attributes known at run time only, unless it is blind to one or the     *)
(* selector asks for two (matchElement).                                   *)
THEOREM MatchMayHold ==
  ASSUME NEW Vals, Vals # {}, NEW d, IsDocument(d), NEW s, IsSelector(s), ~Blind(d, s),
         ~Contradicts(s), Asked(s) \subseteq Vals,
         NEW e \in DOMAIN d, MatchElement(d, s, e) # "none"
  PROVE  \E r \in AtRunTime(d, Vals) : Holds(r, s, e)
<1> DEFINE All == [Unknown(d) -> Vals]
<1>1. DOMAIN d = 1..Len(d) /\ Len(d) \in Nat /\ e \in 1..Len(d)
  BY DEF IsDocument
<1>2. 1 \in DOMAIN s.compounds /\ Len(s.combinators) \in Nat /\ Len(s.compounds) = Len(s.combinators) + 1
  BY DEF IsSelector
<1>3. CompoundResult(d, e, s.compounds[1]) # "none"
  BY DEF MatchElement, Merge
<1>4. MayReach(d, s, Vals, 1, e)
  <2>1. CASE s.combinators = <<>>
    <3>1. PICK z \in Vals : TRUE
      OBVIOUS
    <3>2. [u \in Unknown(d) |-> z] \in All
      OBVIOUS
    <3>3. \A w \in All : Reaches(Run(d, w), s, 1, e)
      <4> TAKE w \in All
      <4>1. e \in DOMAIN Run(d, w)
        BY DEF Run
      <4>2. Reaches(Run(d, w), s, Len(s.compounds), e)
        BY <4>1, ReachesEnd
      <4>3. Len(s.combinators) = 0
        BY <2>1
      <4> QED
        BY <1>2, <4>2, <4>3
    <3> QED
      BY <3>2, <3>3 DEF MayReach
  <2>2. CASE s.combinators # <<>>
    <3>1. Len(s.combinators) # 0
      BY <1>2, <2>2 DEF IsSelector
    <3>2. ChainResult(d, s, e) # "none"
      BY <2>2 DEF MatchElement, Merge
    <3> QED
      BY <1>1, <3>1, <3>2, ChainMayReach
  <2> QED
    BY <2>1, <2>2
<1>5. PICK old \in All : \A w \in All : Alike(d, old, w, e) => Reaches(Run(d, w), s, 1, e)
  BY <1>4 DEF MayReach
<1>6. PICK v \in All : /\ Fits(d, e, s.compounds[1], v)
                       /\ \A u \in Unknown(d) : u[1] # e => v[u] = old[u]
  <2>1. Fitted(d, s, Vals, 1, e, old)
    BY <1>2, CanFit
  <2> QED
    BY <2>1 DEF Fitted
<1>7. Alike(d, old, v, e)
  <2>1. \A u \in Unknown(d) : u[1] < e => u[1] # e
    BY <1>1, UnknownOfElements
  <2> QED
    BY <1>6, <2>1 DEF Alike
<1>8. Reaches(Run(d, v), s, 1, e)
  BY <1>5, <1>7
<1>9. CompoundHolds(Run(d, v), e, s.compounds[1])
  BY <1>1, <1>2, <1>3, <1>6, FitHolds
<1>10. Run(d, v) \in AtRunTime(d, Vals) /\ e \in DOMAIN Run(d, v)
  BY RunShape DEF Run
<1> QED
  BY <1>8, <1>9, <1>10, HoldsReaches
--------------------------------------------------------------------------------
(* The recursion of FlattenSeq is defined.                                 *)
LEMMA FlattenIs ==
  ASSUME NEW ss, Len(ss) \in Nat \ {0}
  PROVE  \E fl : /\ fl = [i \in 1..Len(ss) |-> IF i = 1 THEN ss[i] ELSE fl[i - 1] \o ss[i]]
                 /\ FlattenSeq(ss) = fl[Len(ss)]
<1> DEFINE n == Len(ss)
           Add(f, i) == IF i = 1 THEN ss[i] ELSE f[i - 1] \o ss[i]
           Defined(k) == \E f : f = [i \in 1..k |-> Add(f, i)]
           T == {k \in 1..n : ~Defined(k)}
<1>1. ASSUME NEW k \in 1..n, \A j \in 1..(k - 1) : Defined(j)
      PROVE  Defined(k)
  <2>1. CASE k = 1
    <3> DEFINE f == [i \in 1..k |-> ss[i]]
    <3>1. f = [i \in 1..k |-> Add(f, i)]
      BY <2>1
    <3> HIDE DEF f
    <3> QED
      BY <3>1
  <2>2. CASE k # 1
    <3> HIDE DEF n
    <3>1. n \in Nat
      BY DEF n
    <3>2. k - 1 \in 1..(k - 1)
      BY <2>2, <3>1
    <3>3. PICK f : f = [i \in 1..(k - 1) |-> Add(f, i)]
      BY <1>1, <3>2
    <3> DEFINE g == [i \in 1..k |-> Add(f, i)]
    <3>4. ASSUME NEW i \in 1..(k - 1)
          PROVE  g[i] = f[i]
      <4>1. i \in 1..k
        BY <3>1, <3>2
      <4>2. g[i] = Add(f, i)
        BY <4>1
      <4> HIDE DEF Add, g
      <4> QED
        BY <3>3, <4>2
    <3>5. \A i \in 1..k : i = 1 \/ i - 1 \in 1..(k - 1)
      BY <3>1
    <3>6. \A i \in 1..k : Add(g, i) = Add(f, i)
      <4> HIDE DEF g
      <4> QED
        BY <3>4, <3>5
    <3>7. g = [i \in 1..k |-> Add(g, i)]
      BY <3>6
    <3> HIDE DEF g
    <3> QED
      BY <3>7
  <2> QED
    BY <2>1, <2>2
<1> HIDE DEF Defined
<1>2. T = {}
  <2> SUFFICES ASSUME T # {} PROVE FALSE
    OBVIOUS
  <2>1. T \in SUBSET Nat
    OBVIOUS
  <2>2. PICK k \in T : \A j \in T : k <= j
    BY <2>1, Least
  <2>3. \A j \in 1..(k - 1) : Defined(j)
    BY <2>2
  <2> QED
    BY <1>1, <2>2, <2>3
<1>3. Defined(n)
  BY <1>2
<1> DEFINE fl == CHOOSE f : f = [i \in 1..n |-> Add(f, i)]
<1>4. fl = [i \in 1..n |-> Add(fl, i)]
  BY <1>3 DEF Defined
<1>5. FlattenSeq(ss) = fl[n]
  BY DEF FlattenSeq
<1> HIDE DEF fl
<1> QED
  BY <1>4, <1>5

(* Where FlattenSeq puts the elements of its sequences: those of the i-th  *)
(* after a place of its own, before the next's.                            *)
Placed(ss, flat, off) ==
  /\ off \in [1..(Len(ss) + 1) -> Nat] /\ off[1] = 0 /\ Len(flat) = off[Len(ss) + 1]
  /\ \A i \in 1..Len(ss) : off[i + 1] = off[i] + Len(ss[i])
  /\ \A i \in 1..Len(ss) : \A j \in 1..Len(ss[i]) :
       off[i] + j \in 1..Len(flat) /\ flat[off[i] + j] = ss[i][j]
  /\ \A p \in 1..Len(flat) : \E i \in 1..Len(ss) : \E j \in 1..Len(ss[i]) : p = off[i] + j

LEMMA FlattenPlaces ==
  ASSUME NEW X, NEW ss \in Seq(Seq(X))
  PROVE  FlattenSeq(ss) \in Seq(X) /\ \E off : Placed(ss, FlattenSeq(ss), off)
<1>1. CASE Len(ss) = 0
  <2>1. FlattenSeq(ss) = ss /\ ss = <<>>
    BY <1>1 DEF FlattenSeq
  <2>2. Placed(ss, ss, [i \in 1..1 |-> 0])
    BY <1>1, <2>1 DEF Placed
  <2> QED
    BY <2>1, <2>2
<1>2. CASE Len(ss) # 0
  <2> DEFINE n == Len(ss)
  <2>1. n \in Nat \ {0} /\ \A i \in 1..n : ss[i] \in Seq(X)
    <3>1. Len(ss) \in Nat
      OBVIOUS
    <3>2. \A i \in 1..Len(ss) : ss[i] \in Seq(X)
      OBVIOUS
    <3> QED
      BY <1>2, <3>1, <3>2
  <2>2. PICK fl : /\ fl = [i \in 1..n |-> IF i = 1 THEN ss[i] ELSE fl[i - 1] \o ss[i]]
                  /\ FlattenSeq(ss) = fl[n]
    BY <2>1, FlattenIs
  <2> DEFINE off == [i \in 1..(n + 1) |-> IF i = 1 THEN 0 ELSE Len(fl[i - 1])]
             Good(i) ==
               /\ fl[i] \in Seq(X)
               /\ off[i] \in Nat /\ off[i + 1] = off[i] + Len(ss[i])
               /\ \A m \in 1..i : \A j \in 1..Len(ss[m]) :
                    off[m] + j \in 1..Len(fl[i]) /\ fl[i][off[m] + j] = ss[m][j]
               /\ \A p \in 1..Len(fl[i]) : \E m \in 1..i : \E j \in 1..Len(ss[m]) : p = off[m] + j
             T == {i \in 1..n : ~Good(i)}
  <2> HIDE DEF n
  <2>3. off[1] = 0 /\ \A i \in 1..n : off[i + 1] = Len(fl[i])
    BY <2>1
  <2>4. fl[1] = ss[1] /\ \A i \in 1..n : i # 1 => fl[i] = fl[i - 1] \o ss[i]
    <3>1. \A i \in 1..n : fl[i] = IF i = 1 THEN ss[i] ELSE fl[i - 1] \o ss[i]
      BY <2>2
    <3>2. 1 \in 1..n
      BY <2>1
    <3> QED
      BY <3>1, <3>2
  <2> HIDE DEF off
  <2>5. ASSUME NEW i \in 1..n, \A k \in 1..(i - 1) : Good(k)
        PROVE  Good(i)
    <3>1. CASE i = 1
      <4>1. fl[1] = ss[1] /\ ss[1] \in Seq(X) /\ off[1] = 0 /\ off[1 + 1] = Len(ss[1])
        BY <2>1, <2>3, <2>4, <3>1
      <4> QED
        BY <3>1, <4>1
    <3>2. CASE i # 1
      <4>1. i - 1 \in 1..(i - 1) /\ i - 1 \in 1..n /\ (i - 1) + 1 = i
        BY <2>1, <3>2
      <4>2. Good(i - 1)
        BY <2>5, <4>1
      <4> DEFINE a == fl[i - 1]
                 b == ss[i]
      <4>3. a \in Seq(X) /\ b \in Seq(X) /\ fl[i] = a \o b /\ off[i] = Len(a) /\ off[i + 1] = Len(fl[i])
        BY <2>1, <2>3, <2>4, <3>2, <4>1, <4>2
      <4>4. /\ \A m \in 1..(i - 1) : \A j \in 1..Len(ss[m]) :
                 off[m] + j \in 1..Len(a) /\ a[off[m] + j] = ss[m][j]
            /\ \A p \in 1..Len(a) : \E m \in 1..(i - 1) : \E j \in 1..Len(ss[m]) : p = off[m] + j
        BY <4>2
      <4> HIDE DEF a, Good
      <4>5. /\ fl[i] \in Seq(X) /\ Len(fl[i]) = Len(a) + Len(b) /\ Len(a) \in Nat /\ Len(b) \in Nat
            /\ \A p \in 1..Len(a) : fl[i][p] = a[p]
            /\ \A j \in 1..Len(b) : fl[i][Len(a) + j] = b[j]
        <5> HIDE DEF b
        <5> QED
          BY <4>3
      <4>6. ASSUME NEW m \in 1..i, NEW j \in 1..Len(ss[m])
            PROVE  off[m] + j \in 1..Len(fl[i]) /\ fl[i][off[m] + j] = ss[m][j]
        <5>1. CASE m = i
          <6>1. off[m] = Len(a) /\ j \in 1..Len(b) /\ ss[m] = b
            BY <4>3, <5>1
          <6> HIDE DEF b
          <6> QED
            BY <4>5, <6>1
        <5>2. CASE m # i
          <6>1. m \in 1..(i - 1)
            BY <2>1, <5>2
          <6>2. off[m] + j \in 1..Len(a) /\ a[off[m] + j] = ss[m][j]
            BY <4>4, <6>1
          <6> QED
            BY <4>5, <6>2
        <5> QED
          BY <5>1, <5>2
      <4>7. ASSUME NEW p \in 1..Len(fl[i])
            PROVE  \E m \in 1..i : \E j \in 1..Len(ss[m]) : p = off[m] + j
        <5>1. CASE p \in 1..Len(a)
          <6>1. PICK m \in 1..(i - 1) : \E j \in 1..Len(ss[m]) : p = off[m] + j
            BY <4>4, <5>1
          <6>2. m \in 1..i
            BY <2>1
          <6> QED
            BY <6>1, <6>2
        <5>2. CASE p \notin 1..Len(a)
          <6>1. p - Len(a) \in 1..Len(ss[i]) /\ p = Len(a) + (p - Len(a))
            BY <4>5, <5>2
          <6>2. i \in 1..i
            BY <2>1
          <6> QED
            BY <4>3, <6>1, <6>2
        <5> QED
          BY <5>1, <5>2
      <4> QED
        BY <4>3, <4>5, <4>6, <4>7 DEF Good
    <3> QED
      BY <3>1, <3>2
  <2> HIDE DEF Good
  <2>6. T = {}
    <3> SUFFICES ASSUME T # {} PROVE FALSE
      OBVIOUS
    <3>1. T \in SUBSET Nat
      BY <2>1
    <3>2. PICK k \in T : \A j \in T : k <= j
      BY <3>1, Least
    <3>3. \A j \in 1..(k - 1) : Good(j)
      BY <2>1, <3>2
    <3> QED
      BY <2>5, <3>2, <3>3
  <2>7. \A i \in 1..n : Good(i)
    BY <2>6
  <2>8. Good(n)
    BY <2>1, <2>7
  <2>9. off \in [1..(n + 1) -> Nat]
    <3>1. \A i \in 1..n : fl[i] \in Seq(X)
      BY <2>7 DEF Good
    <3>2. \A i \in 1..(n + 1) : i = 1 \/ i - 1 \in 1..n
      BY <2>1
    <3> QED
      BY <3>1, <3>2 DEF off
  <2>10. Len(fl[n]) = off[n + 1]
    BY <2>1, <2>3
  <2>11. Placed(ss, fl[n], off)
    <3>1. \A i \in 1..n : off[i + 1] = off[i] + Len(ss[i])
      BY <2>7 DEF Good
    <3> QED
      BY <2>3, <2>8, <2>9, <2>10, <3>1 DEF Placed, Good, n
  <2> QED
    BY <2>2, <2>8, <2>11 DEF Good
<1> QED
  BY <1>1, <1>2

(* What is kept of a sequence is what it has of a set.                     *)
KeptIn(s, K) == FlattenSeq([i \in DOMAIN s |-> IF s[i] \in K THEN <<s[i]>> ELSE <<>>])

LEMMA KeptMeans ==
  ASSUME NEW X, NEW s \in Seq(X), NEW K
  PROVE  KeptIn(s, K) \in Seq(X) /\ ToSet(KeptIn(s, K)) = ToSet(s) \cap K
<1> DEFINE ss == [i \in DOMAIN s |-> IF s[i] \in K THEN <<s[i]>> ELSE <<>>]
           kept == FlattenSeq(ss)
<1>1. ss \in Seq(Seq(X)) /\ Len(ss) = Len(s) /\ Len(s) \in Nat /\ DOMAIN s = 1..Len(s)
  <2>1. Len(s) \in Nat /\ DOMAIN s = 1..Len(s) /\ \A i \in 1..Len(s) : s[i] \in X
    OBVIOUS
  <2>2. \A i \in 1..Len(s) : (IF s[i] \in K THEN <<s[i]>> ELSE <<>>) \in Seq(X)
    BY <2>1
  <2>3. ss \in [1..Len(s) -> Seq(X)]
    BY <2>1, <2>2
  <2> HIDE DEF ss
  <2>4. ss \in Seq(Seq(X)) /\ Len(ss) = Len(s)
    BY <2>1, <2>3
  <2> QED
    BY <2>1, <2>4
<1>2. kept \in Seq(X) /\ \E off : Placed(ss, kept, off)
  BY <1>1, FlattenPlaces
<1>3. PICK off : Placed(ss, kept, off)
  BY <1>2
<1>4. \A i \in 1..Len(s) : ss[i] = IF s[i] \in K THEN <<s[i]>> ELSE <<>>
  BY <1>1
<1>5. DOMAIN kept = 1..Len(kept)
  BY <1>2
<1> HIDE DEF ss, kept
<1>6. ASSUME NEW x \in ToSet(kept)
      PROVE  x \in ToSet(s) \cap K
  <2>1. PICK p \in 1..Len(kept) : x = kept[p]
    BY <1>5 DEF ToSet
  <2>2. PICK i \in 1..Len(s) : \E j \in 1..Len(ss[i]) : p = off[i] + j
    BY <1>1, <1>3 DEF Placed
  <2>3. PICK j \in 1..Len(ss[i]) : p = off[i] + j
    BY <2>2
  <2>4. x = ss[i][j]
    BY <1>1, <1>3, <2>1, <2>3 DEF Placed
  <2>5. s[i] \in K /\ x = s[i]
    <3>1. CASE s[i] \notin K
      <4>0. ss[i] = <<>>
        BY <1>4, <3>1
      <4>1. Len(ss[i]) = 0
        BY <4>0
      <4> QED
        BY <2>3, <4>1
    <3>2. CASE s[i] \in K
      <4>1. ss[i] = <<s[i]>>
        BY <1>4, <3>2
      <4>2. Len(ss[i]) = 1 /\ ss[i][1] = s[i]
        BY <4>1
      <4>3. j = 1
        BY <2>3, <4>2
      <4> QED
        BY <2>4, <3>2, <4>2, <4>3
    <3> QED
      BY <3>1, <3>2
  <2> QED
    BY <1>1, <2>5 DEF ToSet
<1>7. ASSUME NEW x \in ToSet(s) \cap K
      PROVE  x \in ToSet(kept)
  <2>1. PICK i \in 1..Len(s) : x = s[i]
    BY <1>1 DEF ToSet
  <2>2. ss[i] = <<x>>
    BY <1>4, <2>1
  <2>3. 1 \in 1..Len(ss[i]) /\ ss[i][1] = x
    BY <2>2
  <2>4. off[i] + 1 \in 1..Len(kept) /\ kept[off[i] + 1] = x
    BY <1>1, <1>3, <2>3 DEF Placed
  <2> QED
    BY <1>5, <2>4 DEF ToSet
<1>8. ToSet(kept) = ToSet(s) \cap K
  BY <1>6, <1>7
<1> QED
  BY <1>2, <1>8 DEF kept, ss, KeptIn

(* A fold over the places of a sequence, from the first to the last, whose *)
(* values stay within a set: its recursion is defined.                     *)
Folds(f, n, first, step) ==
  f = [s \in SUBSET (1..n) |-> IF s = {} THEN first ELSE step[<<f[s \ {Max(s)}], Max(s)>>]]

LEMMA LastPlace ==
  ASSUME NEW n \in Nat, NEW s \in SUBSET (1..n), s # {}
  PROVE  Max(s) \in s /\ s \ {Max(s)} \in SUBSET (1..(n - 1))
<1>1. Max(s) \in s /\ \A y \in s : y <= Max(s)
  BY Greatest
<1> DEFINE m == Max(s)
<1>2. m \in 1..n /\ \A y \in s : y \in 1..n /\ y <= m
  BY <1>1
<1> HIDE DEF m
<1>3. \A y \in s \ {m} : y \in 1..(n - 1)
  BY <1>2
<1> QED
  BY <1>1, <1>3 DEF m

LEMMA FoldRuns ==
  ASSUME NEW n \in Nat, NEW B, NEW first \in B, NEW step \in [B \X (1..n) -> B]
  PROVE  \E f \in [SUBSET (1..n) -> B] : Folds(f, n, first, step)
<1> DEFINE Fill(f, s) == IF s = {} THEN first ELSE step[<<f[s \ {Max(s)}], Max(s)>>]
           Defined(k) == \E f \in [SUBSET (1..k) -> B] : f = [s \in SUBSET (1..k) |-> Fill(f, s)]
           T == {k \in 0..n : ~Defined(k)}
<1>1. ASSUME NEW k \in 0..n, \A j \in 0..(k - 1) : Defined(j)
      PROVE  Defined(k)
  <2>1. CASE k = 0
    <3> DEFINE f == [s \in SUBSET (1..k) |-> first]
    <3>1. \A s \in SUBSET (1..k) : s = {}
      BY <2>1
    <3>2. f = [s \in SUBSET (1..k) |-> Fill(f, s)] /\ f \in [SUBSET (1..k) -> B]
      BY <3>1
    <3> HIDE DEF f
    <3> QED
      BY <3>2
  <2>2. CASE k # 0
    <3>1. k - 1 \in 0..(k - 1) /\ k \in Nat /\ k <= n
      BY <2>2
    <3>2. PICK f \in [SUBSET (1..(k - 1)) -> B] : f = [s \in SUBSET (1..(k - 1)) |-> Fill(f, s)]
      BY <1>1, <3>1
    <3> DEFINE g == [s \in SUBSET (1..k) |-> Fill(f, s)]
    <3>3. ASSUME NEW s \in SUBSET (1..(k - 1))
          PROVE  g[s] = f[s]
      <4>1. s \in SUBSET (1..k)
        OBVIOUS
      <4>2. g[s] = Fill(f, s)
        BY <4>1
      <4> HIDE DEF Fill, g
      <4> QED
        BY <3>2, <4>2
    <3>4. ASSUME NEW s \in SUBSET (1..k)
          PROVE  Fill(g, s) = Fill(f, s) /\ Fill(f, s) \in B
      <4> HIDE DEF g
      <4>1. CASE s = {}
        BY <4>1
      <4>2. CASE s # {}
        <5>1. Max(s) \in s /\ s \ {Max(s)} \in SUBSET (1..(k - 1))
          BY <3>1, <4>2, LastPlace
        <5>2. g[s \ {Max(s)}] = f[s \ {Max(s)}] /\ f[s \ {Max(s)}] \in B
          BY <3>2, <3>3, <5>1
        <5>3. Max(s) \in 1..n
          <6> DEFINE m == Max(s)
          <6>1. m \in 1..k
            BY <5>1
          <6> HIDE DEF m
          <6>2. m \in 1..n
            BY <3>1, <6>1
          <6> QED
            BY <6>2 DEF m
        <5>4. step[<<f[s \ {Max(s)}], Max(s)>>] \in B
          BY <5>2, <5>3
        <5> QED
          BY <4>2, <5>2, <5>4
      <4> QED
        BY <4>1, <4>2
    <3>5. g = [s \in SUBSET (1..k) |-> Fill(g, s)] /\ g \in [SUBSET (1..k) -> B]
      BY <3>4
    <3> HIDE DEF g
    <3> QED
      BY <3>5
  <2> QED
    BY <2>1, <2>2
<1> HIDE DEF Defined
<1>2. T = {}
  <2> SUFFICES ASSUME T # {} PROVE FALSE
    OBVIOUS
  <2>1. T \in SUBSET Nat
    OBVIOUS
  <2>2. PICK k \in T : \A j \in T : k <= j
    BY <2>1, Least
  <2>3. \A j \in 0..(k - 1) : Defined(j)
    BY <2>2
  <2> QED
    BY <1>1, <2>2, <2>3
<1>3. Defined(n)
  BY <1>2
<1> QED
  BY <1>3 DEF Defined, Folds

(* The values of such a fold after each place.                             *)
LEMMA FoldPlaces ==
  ASSUME NEW n \in Nat, NEW k \in 1..n
  PROVE  /\ 1..k \in SUBSET (1..n) /\ 1..k # {} /\ Max(1..k) = k /\ (1..k) \ {k} = 1..(k - 1)
<1>1. 1..k \in SUBSET (1..n) /\ 1..k # {} /\ k \in 1..k /\ k \in Nat
  OBVIOUS
<1>2. Max(1..k) \in 1..k /\ \A y \in 1..k : y <= Max(1..k)
  BY <1>1, Greatest
<1>3. Max(1..k) = k
  BY <1>1, <1>2
<1>4. (1..k) \ {k} = 1..(k - 1)
  OBVIOUS
<1> QED
  BY <1>1, <1>3, <1>4

(* The map from numbers to rules, as it is filled.                         *)
LEMMA TableFills ==
  ASSUME NEW X, NEW q \in Seq(X),
         \A table \in Seq(X), r \in X : Put(table, r) \in Seq(X)
  PROVE  \E t : /\ t[0] = <<>>
                /\ \A k \in 1..Len(q) : t[k] = Put(t[k - 1], q[k])
                /\ FoldLeft(Put, <<>>, q) = t[Len(q)]
<1> DEFINE n == Len(q)
           Fill(f, s) == IF s = {} THEN <<>> ELSE Put(f[s \ {Max(s)}], q[Max(s)])
           step == [x \in Seq(X) \X (1..n) |-> Put(x[1], q[x[2]])]
<1>1. n \in Nat /\ DOMAIN q = 1..n /\ \A k \in 1..n : q[k] \in X
  OBVIOUS
<1> HIDE DEF n
<1>2. step \in [Seq(X) \X (1..n) -> Seq(X)] /\ <<>> \in Seq(X)
  BY <1>1
<1>3. \A table \in Seq(X), k \in 1..n : step[<<table, k>>] = Put(table, q[k])
  OBVIOUS
<1> HIDE DEF step
<1>4. PICK f \in [SUBSET (1..n) -> Seq(X)] : Folds(f, n, <<>>, step)
  BY <1>1, <1>2, FoldRuns
<1>5. \A s \in SUBSET (1..n) : f[s] = Fill(f, s)
  <2> SUFFICES ASSUME NEW s \in SUBSET (1..n) PROVE f[s] = Fill(f, s)
    OBVIOUS
  <2>1. f[s] = IF s = {} THEN <<>> ELSE step[<<f[s \ {Max(s)}], Max(s)>>]
    BY <1>4 DEF Folds
  <2>2. CASE s = {}
    BY <2>1, <2>2
  <2>3. CASE s # {}
    <3>1. Max(s) \in s /\ s \ {Max(s)} \in SUBSET (1..(n - 1))
      BY <1>1, <2>3, LastPlace
    <3>2. Max(s) \in 1..n /\ f[s \ {Max(s)}] \in Seq(X)
      BY <3>1
    <3> QED
      BY <1>3, <2>1, <2>3, <3>2
  <2> QED
    BY <2>2, <2>3
<1>6. f = [s \in SUBSET (1..n) |-> Fill(f, s)]
  BY <1>5
<1> DEFINE iter == CHOOSE g : g = [s \in SUBSET (1..n) |-> Fill(g, s)]
<1>7. iter = [s \in SUBSET (1..n) |-> Fill(iter, s)]
  BY <1>6
<1>8. FoldLeft(Put, <<>>, q) = iter[1..n]
  BY <1>1 DEF FoldLeft, MapThenFoldSet
<1> HIDE DEF iter
<1> DEFINE t == [k \in 0..n |-> iter[1..k]]
<1>9. t[0] = <<>>
  <2>1. 1..0 = {} /\ {} \in SUBSET (1..n) /\ 0 \in 0..n
    BY <1>1
  <2>2. iter[{}] = <<>>
    BY <1>7, <2>1
  <2> QED
    BY <2>1, <2>2
<1>10. ASSUME NEW k \in 1..n
       PROVE  t[k] = Put(t[k - 1], q[k])
  <2>1. /\ 1..k \in SUBSET (1..n) /\ 1..k # {} /\ Max(1..k) = k /\ (1..k) \ {k} = 1..(k - 1)
    BY <1>1, FoldPlaces
  <2>2. iter[1..k] = Put(iter[(1..k) \ {Max(1..k)}], q[Max(1..k)])
    BY <1>7, <2>1
  <2>3. k \in 0..n /\ k - 1 \in 0..n
    BY <1>1
  <2> QED
    BY <2>1, <2>2, <2>3
<1>11. t[n] = iter[1..n]
  BY <1>1
<1> HIDE DEF t
<1> QED
  BY <1>8, <1>9, <1>10, <1>11 DEF n

LEMMA ToSetOfBoth ==
  ASSUME NEW X, NEW s \in Seq(X), NEW t \in Seq(X)
  PROVE  s \o t \in Seq(X) /\ ToSet(s \o t) = ToSet(s) \cup ToSet(t)
<1>1. /\ Len(s) \in Nat /\ Len(t) \in Nat /\ DOMAIN s = 1..Len(s) /\ DOMAIN t = 1..Len(t)
      /\ s \o t \in Seq(X) /\ DOMAIN (s \o t) = 1..(Len(s) + Len(t))
      /\ \A i \in 1..Len(s) : (s \o t)[i] = s[i]
      /\ \A i \in 1..Len(t) : (s \o t)[Len(s) + i] = t[i]
  OBVIOUS
<1>2. ASSUME NEW i \in 1..(Len(s) + Len(t))
      PROVE  i \in 1..Len(s) \/ \E j \in 1..Len(t) : i = Len(s) + j
  <2>1. i \notin 1..Len(s) => i - Len(s) \in 1..Len(t) /\ i = Len(s) + (i - Len(s))
    BY <1>1
  <2> QED
    BY <2>1
<1>3. ToSet(s \o t) \subseteq ToSet(s) \cup ToSet(t)
  BY <1>1, <1>2 DEF ToSet
<1>4. \A i \in 1..Len(s) : i \in 1..(Len(s) + Len(t))
  BY <1>1
<1>5. \A i \in 1..Len(t) : Len(s) + i \in 1..(Len(s) + Len(t))
  BY <1>1
<1>6. ToSet(s) \cup ToSet(t) \subseteq ToSet(s \o t)
  BY <1>1, <1>4, <1>5 DEF ToSet
<1> QED
  BY <1>1, <1>3, <1>6

(* The places of the sequences in a row do not fall.                       *)
LEMMA PlacesRise ==
  ASSUME NEW n \in Nat, NEW off \in [1..(n + 1) -> Nat],
         \A i \in 1..n : off[i] <= off[i + 1]
  PROVE  \A i, j \in 1..(n + 1) : i <= j => off[i] <= off[j]
<1> DEFINE Rises(j) == \A i \in 1..j : off[i] <= off[j]
           T == {j \in 1..(n + 1) : ~Rises(j)}
<1>1. ASSUME NEW j \in 1..(n + 1), \A k \in 1..(j - 1) : Rises(k)
      PROVE  Rises(j)
  <2> SUFFICES ASSUME NEW i \in 1..j, i # j PROVE off[i] <= off[j]
    OBVIOUS
  <2>1. j - 1 \in 1..(j - 1) /\ i \in 1..(j - 1) /\ j - 1 \in 1..n /\ (j - 1) + 1 = j
    OBVIOUS
  <2>2. off[i] <= off[j - 1]
    BY <1>1, <2>1
  <2>3. off[j - 1] <= off[j]
    BY <2>1
  <2>4. off[i] \in Nat /\ off[j - 1] \in Nat /\ off[j] \in Nat
    BY <2>1
  <2> QED
    BY <2>2, <2>3, <2>4
<1> HIDE DEF Rises
<1>2. T = {}
  <2> SUFFICES ASSUME T # {} PROVE FALSE
    OBVIOUS
  <2>1. T \in SUBSET Nat
    OBVIOUS
  <2>2. PICK j \in T : \A k \in T : j <= k
    BY <2>1, Least
  <2>3. \A k \in 1..(j - 1) : Rises(k)
    BY <2>2
  <2> QED
    BY <1>1, <2>2, <2>3
<1>3. \A j \in 1..(n + 1) : Rises(j)
  BY <1>2
<1> QED
  BY <1>3 DEF Rises

(* No two places of a sequence have the same.                              *)
Distinct(s) == \A i, j \in DOMAIN s : i # j => s[i] # s[j]

(* What is kept of a sequence stands in its order.                         *)
LEMMA KeptInOrder ==
  ASSUME NEW X, NEW s \in Seq(X), NEW K
  PROVE  \E at \in [DOMAIN KeptIn(s, K) -> DOMAIN s] :
           /\ \A p \in DOMAIN KeptIn(s, K) : KeptIn(s, K)[p] = s[at[p]]
           /\ \A p, q \in DOMAIN KeptIn(s, K) : p < q => at[p] < at[q]
<1> DEFINE ss == [i \in DOMAIN s |-> IF s[i] \in K THEN <<s[i]>> ELSE <<>>]
           kept == FlattenSeq(ss)
           n == Len(s)
<1>1. n \in Nat /\ DOMAIN s = 1..n
  OBVIOUS
<1>2. \A i \in 1..n : ss[i] \in Seq(X) /\ Len(ss[i]) \in {0, 1} /\ (Len(ss[i]) = 1 => ss[i][1] = s[i])
  <2> SUFFICES ASSUME NEW i \in 1..n
               PROVE  ss[i] \in Seq(X) /\ Len(ss[i]) \in {0, 1} /\ (Len(ss[i]) = 1 => ss[i][1] = s[i])
    OBVIOUS
  <2>1. s[i] \in X
    BY <1>1
  <2>2. CASE s[i] \in K
    <3>1. ss[i] = <<s[i]>>
      BY <1>1, <2>2
    <3> HIDE DEF ss
    <3> QED
      BY <2>1, <3>1
  <2>3. CASE s[i] \notin K
    <3>1. ss[i] = <<>>
      BY <1>1, <2>3
    <3> HIDE DEF ss
    <3> QED
      BY <2>1, <3>1
  <2> QED
    BY <2>2, <2>3
<1>3. ss = [i \in 1..n |-> ss[i]]
  BY <1>1
<1> HIDE DEF ss, n
<1>4. ss \in Seq(Seq(X)) /\ Len(ss) = n
  <2>1. ss \in [1..n -> Seq(X)]
    BY <1>2, <1>3
  <2> QED
    BY <1>1, <2>1
<1>5. kept \in Seq(X) /\ \E off : Placed(ss, kept, off)
  BY <1>4, FlattenPlaces
<1>6. PICK off : Placed(ss, kept, off)
  BY <1>5
<1> HIDE DEF kept
<1>7. /\ off \in [1..(n + 1) -> Nat]
      /\ \A i \in 1..n : off[i + 1] = off[i] + Len(ss[i])
      /\ \A i \in 1..n : \A j \in 1..Len(ss[i]) : off[i] + j \in 1..Len(kept) /\ kept[off[i] + j] = ss[i][j]
      /\ \A p \in 1..Len(kept) : \E i \in 1..n : \E j \in 1..Len(ss[i]) : p = off[i] + j
  BY <1>4, <1>6 DEF Placed
<1>8. Len(kept) \in Nat /\ DOMAIN kept = 1..Len(kept)
  BY <1>5
<1>9. \A i \in 1..n : i \in 1..(n + 1) /\ i + 1 \in 1..(n + 1) /\ off[i] \in Nat /\ off[i + 1] \in Nat
                      /\ off[i] <= off[i + 1]
  <2> SUFFICES ASSUME NEW i \in 1..n
               PROVE  i \in 1..(n + 1) /\ i + 1 \in 1..(n + 1) /\ off[i] \in Nat /\ off[i + 1] \in Nat
                      /\ off[i] <= off[i + 1]
    OBVIOUS
  <2>1. i \in 1..(n + 1) /\ i + 1 \in 1..(n + 1)
    BY <1>1
  <2>2. off[i] \in Nat /\ off[i + 1] \in Nat
    BY <1>7, <2>1
  <2>3. off[i + 1] = off[i] + Len(ss[i]) /\ Len(ss[i]) \in {0, 1}
    BY <1>2, <1>7
  <2> QED
    BY <2>1, <2>2, <2>3
<1>10. \A i, j \in 1..(n + 1) : i <= j => off[i] <= off[j]
  BY <1>1, <1>7, <1>9, PlacesRise
<1>11. \A p \in 1..Len(kept) : \E i \in 1..n : kept[p] = s[i] /\ p = off[i] + 1 /\ p = off[i + 1]
  <2> SUFFICES ASSUME NEW p \in 1..Len(kept)
               PROVE  \E i \in 1..n : kept[p] = s[i] /\ p = off[i] + 1 /\ p = off[i + 1]
    OBVIOUS
  <2>1. PICK i \in 1..n : \E j \in 1..Len(ss[i]) : p = off[i] + j
    BY <1>7
  <2>2. PICK j \in 1..Len(ss[i]) : p = off[i] + j
    BY <2>1
  <2>3. Len(ss[i]) = 1 /\ j = 1 /\ off[i] \in Nat
    <3> DEFINE m == Len(ss[i])
    <3>1. m \in {0, 1} /\ off[i] \in Nat /\ j \in 1..m
      BY <1>2, <1>9
    <3> HIDE DEF m
    <3>2. m = 1 /\ j = 1
      BY <3>1
    <3> QED
      BY <3>1, <3>2 DEF m
  <2>4. kept[p] = ss[i][1] /\ ss[i][1] = s[i]
    BY <1>2, <1>7, <2>2, <2>3
  <2>5. off[i + 1] = off[i] + 1
    BY <1>7, <2>3
  <2> QED
    BY <2>2, <2>3, <2>4, <2>5
<1> DEFINE at == [p \in 1..Len(kept) |-> CHOOSE i \in 1..n : kept[p] = s[i] /\ p = off[i] + 1 /\ p = off[i + 1]]
<1>12. \A p \in 1..Len(kept) : /\ at[p] \in 1..n /\ kept[p] = s[at[p]]
                               /\ p = off[at[p]] + 1 /\ p = off[at[p] + 1]
  BY <1>11
<1>13. at \in [DOMAIN kept -> DOMAIN s]
  BY <1>1, <1>8, <1>12
<1> HIDE DEF at
<1>14. ASSUME NEW p \in 1..Len(kept), NEW q \in 1..Len(kept), p < q
       PROVE  at[p] < at[q]
  <2> SUFFICES ASSUME ~(at[p] < at[q]) PROVE FALSE
    OBVIOUS
  <2>1. at[p] \in 1..n /\ at[q] \in 1..n /\ p = off[at[p] + 1] /\ q = off[at[q] + 1]
    BY <1>12
  <2>2. at[q] + 1 <= at[p] + 1 /\ at[q] + 1 \in 1..(n + 1) /\ at[p] + 1 \in 1..(n + 1)
    BY <1>1, <2>1
  <2>3. off[at[q] + 1] <= off[at[p] + 1]
    BY <1>10, <2>2
  <2> QED
    BY <1>8, <1>14, <2>1, <2>3
<1> QED
  <2>1. /\ \A p \in DOMAIN kept : kept[p] = s[at[p]]
        /\ \A p, q \in DOMAIN kept : p < q => at[p] < at[q]
    BY <1>8, <1>12, <1>14
  <2>2. kept = KeptIn(s, K)
    BY DEF kept, ss, KeptIn
  <2> QED
    BY <1>13, <2>1, <2>2

(* So it is distinct if the sequence is.                                   *)
LEMMA KeptIsDistinct ==
  ASSUME NEW X, NEW s \in Seq(X), NEW K, Distinct(s)
  PROVE  Distinct(KeptIn(s, K))
<1> DEFINE kept == KeptIn(s, K)
<1>1. PICK at \in [DOMAIN kept -> DOMAIN s] :
        /\ \A p \in DOMAIN kept : kept[p] = s[at[p]]
        /\ \A p, q \in DOMAIN kept : p < q => at[p] < at[q]
  BY KeptInOrder
<1>2. kept \in Seq(X)
  BY KeptMeans
<1> HIDE DEF kept
<1>3. /\ Len(kept) \in Nat /\ DOMAIN kept = 1..Len(kept)
      /\ Len(s) \in Nat /\ DOMAIN s = 1..Len(s)
  BY <1>2
<1>4. ASSUME NEW p \in DOMAIN kept, NEW q \in DOMAIN kept, p < q
      PROVE  kept[p] # kept[q]
  <2>1. at[p] < at[q] /\ at[p] \in DOMAIN s /\ at[q] \in DOMAIN s
    BY <1>1, <1>4
  <2>2. at[p] # at[q]
    BY <1>3, <2>1
  <2> QED
    BY <1>1, <2>1, <2>2 DEF Distinct
<1>5. \A p, q \in DOMAIN kept : p # q => p < q \/ q < p
  BY <1>3
<1> QED
  BY <1>4, <1>5 DEF Distinct, kept

LEMMA BothAreDistinct ==
  ASSUME NEW X, NEW s \in Seq(X), NEW t \in Seq(X), Distinct(s), Distinct(t),
         ToSet(s) \cap ToSet(t) = {}
  PROVE  Distinct(s \o t)
<1>1. /\ Len(s) \in Nat /\ Len(t) \in Nat /\ DOMAIN s = 1..Len(s) /\ DOMAIN t = 1..Len(t)
      /\ DOMAIN (s \o t) = 1..(Len(s) + Len(t))
      /\ \A i \in 1..Len(s) : (s \o t)[i] = s[i]
      /\ \A i \in 1..Len(t) : (s \o t)[Len(s) + i] = t[i]
  OBVIOUS
<1> DEFINE u == s \o t
<1> HIDE DEF u
<1>2. \A i \in DOMAIN u : \/ i \in DOMAIN s /\ u[i] = s[i]
                          \/ \E j \in DOMAIN t : i = Len(s) + j /\ u[i] = t[j]
  <2> SUFFICES ASSUME NEW i \in 1..(Len(s) + Len(t))
               PROVE  \/ i \in DOMAIN s /\ u[i] = s[i]
                      \/ \E j \in DOMAIN t : i = Len(s) + j /\ u[i] = t[j]
    BY <1>1 DEF u
  <2>1. CASE i \in 1..Len(s)
    BY <1>1, <2>1 DEF u
  <2>2. CASE i \notin 1..Len(s)
    <3>1. i - Len(s) \in 1..Len(t) /\ i = Len(s) + (i - Len(s))
      BY <1>1, <2>2
    <3> QED
      BY <1>1, <3>1 DEF u
  <2> QED
    BY <2>1, <2>2
<1>3. \A i \in DOMAIN s : s[i] \in ToSet(s)
  BY DEF ToSet
<1>4. \A i \in DOMAIN t : t[i] \in ToSet(t)
  BY DEF ToSet
<1>5. ASSUME NEW i \in DOMAIN u, NEW j \in DOMAIN u, i # j
      PROVE  u[i] # u[j]
  BY <1>2, <1>3, <1>4, <1>5 DEF Distinct
<1> QED
  BY <1>5 DEF Distinct, u
------------------------------------------------------------------------------
(* A stylesheet that was parsed on its own has its tree in the compilation *)
(* and stands once in the list; the others have the trees of a full build. *)
AloneOK ==
  /\ alone \in Seq(Css) /\ Distinct(alone) /\ ToSet(alone) \subseteq Sheets(tracker.compilation)
  /\ \A f \in Sheets(tracker.compilation) \ ToSet(alone) :
       f \in Sheets(base) /\ tracker.compilation.css[f] = base.css[f]

(* The inductive invariant of the table's specification.                   *)
TableInv == base \in Bases /\ IInv /\ AloneOK

(* There are as many stylesheets as there are in the order of a full build.*)
LEMMA CssIsFinite == IsFiniteSet(Css)
<1> DEFINE n == Len(FileOrder)
<1>1. n \in Nat /\ FileOrder \in [1..n -> Css] /\ \A f \in Css : \E i \in 1..n : FileOrder[i] = f
  BY OrderAssumption DEF ToSet
<1>2. FileOrder \in Surjection(1..n, Css)
  BY <1>1 DEF Surjection
<1> QED
  BY <1>1, <1>2, FS_NatSurjection DEF ExistsSurjection

(* What taking the files F off the list leaves of it.                      *)
LEMMA TakenOff ==
  ASSUME alone \in Seq(Css), Distinct(alone), NEW F
  PROVE  LET kept == FlattenSeq([i \in DOMAIN alone |-> IF alone[i] \notin F THEN <<alone[i]>> ELSE <<>>])
         IN  kept \in Seq(Css) /\ Distinct(kept) /\ ToSet(kept) = ToSet(alone) \ F
<1> DEFINE K == Css \ F
<1>1. \A i \in DOMAIN alone : alone[i] \notin F <=> alone[i] \in K
  OBVIOUS
<1>2. [i \in DOMAIN alone |-> IF alone[i] \notin F THEN <<alone[i]>> ELSE <<>>]
        = [i \in DOMAIN alone |-> IF alone[i] \in K THEN <<alone[i]>> ELSE <<>>]
  BY <1>1
<1>3. FlattenSeq([i \in DOMAIN alone |-> IF alone[i] \notin F THEN <<alone[i]>> ELSE <<>>]) = KeptIn(alone, K)
  BY <1>2 DEF KeptIn
<1>4. ToSet(alone) \subseteq Css
  BY DEF ToSet
<1> HIDE DEF K
<1>5. KeptIn(alone, K) \in Seq(Css) /\ ToSet(KeptIn(alone, K)) = ToSet(alone) \cap K
  BY KeptMeans
<1>6. Distinct(KeptIn(alone, K))
  BY KeptIsDistinct
<1>7. ToSet(alone) \cap K = ToSet(alone) \ F
  BY <1>4 DEF K
<1> QED
  BY <1>3, <1>5, <1>6, <1>7

(* What a parse for an edit of the files F does to the list.               *)
LEMMA ReparsesMeans ==
  ASSUME alone \in Seq(Css), Distinct(alone), NEW F, Reparses(F)
  PROVE  /\ alone' \in Seq(Css) /\ Distinct(alone')
         /\ ToSet(alone') = (ToSet(alone) \ F) \cup (F \cap (Css \ Scss))
<1> DEFINE S == F \cap (Css \ Scss)
           kept == Kept(alone, LAMBDA f : f \notin F)
<1>1. PICK parsed \in SetToSeqs(S) : alone' = kept \o parsed
  BY DEF Reparses
<1>2. parsed \in Seq(Css) /\ Distinct(parsed) /\ ToSet(parsed) = S
  <2>1. IsFiniteSet(S)
    BY CssIsFinite, FS_Subset
  <2>2. Cardinality(S) \in Nat
    BY <2>1, FS_CardinalityType
  <2>3. S \subseteq Css
    OBVIOUS
  <2> HIDE DEF S
  <2> DEFINE n == Cardinality(S)
  <2>4. parsed \in [1..n -> S] /\ \A i, j \in 1..n : i # j => parsed[i] # parsed[j]
    BY DEF SetToSeqs
  <2>5. IsFiniteSet(1..n) /\ Cardinality(1..n) = n
    <3>1. IsFiniteSet(1..n) /\ Cardinality(1..n) = IF 1 > n THEN 0 ELSE n - 1 + 1
      BY <2>2, FS_Interval, SMTT(30)
    <3> QED
      BY <2>2, <3>1
  <2>6. parsed \in Injection(1..n, S)
    BY <2>4 DEF Injection, IsInjective
  <2>7. parsed \in Surjection(1..n, S)
    <3>1. Cardinality(1..n) = Cardinality(S) <=> parsed \in Surjection(1..n, S)
      BY <2>1, <2>6, FS_Injection
    <3> QED
      BY <2>5, <3>1
  <2> HIDE DEF n
  <2>8. DOMAIN parsed = 1..n /\ n \in Nat
    BY <2>2, <2>4 DEF n
  <2>9. parsed \in [1..n -> Css]
    BY <2>3, <2>4
  <2>10. parsed \in Seq(Css)
    BY <2>8, <2>9
  <2>11. Distinct(parsed)
    BY <2>4, <2>8 DEF Distinct
  <2>12. ToSet(parsed) = S
    BY <2>4, <2>7, <2>8 DEF Surjection, ToSet
  <2> QED
    BY <2>10, <2>11, <2>12
<1>3. kept \in Seq(Css) /\ Distinct(kept) /\ ToSet(kept) = ToSet(alone) \ F
  BY TakenOff DEF Kept
<1> HIDE DEF kept
<1>4. alone' \in Seq(Css) /\ ToSet(alone') = ToSet(kept) \cup ToSet(parsed)
  BY <1>1, <1>2, <1>3, ToSetOfBoth
<1>5. ToSet(kept) \cap ToSet(parsed) = {}
  BY <1>2, <1>3
<1>6. Distinct(alone')
  BY <1>1, <1>2, <1>3, <1>5, BothAreDistinct
<1> QED
  BY <1>2, <1>3, <1>4, <1>6

(* An edit that puts the trees u keeps the invariant if those parsed for   *)
(* it are the stylesheets that get a tree.                                 *)
LEMMA EditKeepsAlone ==
  ASSUME AloneOK, NEW u, tracker' = Change(tracker, u), base' = base,
         alone' \in Seq(Css), Distinct(alone'),
         ToSet(alone') = (ToSet(alone) \ DOMAIN u) \cup {g \in DOMAIN u \cap Css : u[g] # None}
  PROVE  AloneOK'
<1> DEFINE k == tracker.compilation
           l == tracker'.compilation
           P == {g \in DOMAIN u \cap Css : u[g] # None}
<1>1. /\ DOMAIN l.css = (DOMAIN k.css \ DOMAIN u) \cup P
      /\ \A f \in DOMAIN k.css \ DOMAIN u : l.css[f] = k.css[f]
  BY DEF Change, Derived, Replace, Sheets
<1>2. ToSet(alone) \subseteq DOMAIN k.css
  BY DEF AloneOK, Sheets
<1>3. \A f \in DOMAIN k.css \ ToSet(alone) : f \in DOMAIN base.css /\ k.css[f] = base.css[f]
  BY DEF AloneOK, Sheets
<1> HIDE DEF k, l, P
<1>4. ToSet(alone') = (ToSet(alone) \ DOMAIN u) \cup P
  BY DEF P
<1>5. ToSet(alone') \subseteq DOMAIN l.css
  BY <1>1, <1>2, <1>4
<1>6. \A f \in DOMAIN l.css \ ToSet(alone') : f \in DOMAIN base.css /\ l.css[f] = base.css[f]
  BY <1>1, <1>3, <1>4
<1> QED
  BY <1>5, <1>6 DEF AloneOK, Sheets, l

(* The table's specification is the tracker's, with the list.              *)
LEMMA TableNextIsNext == TableNext => Next
  BY DEF TableNext, Next

LEMMA TableStep == TableInv /\ [TableNext]_tableVars => TableInv'
<1> SUFFICES ASSUME TableInv, [TableNext]_tableVars PROVE TableInv'
  OBVIOUS
<1>1. IInv /\ AloneOK /\ alone \in Seq(Css) /\ Distinct(alone)
  BY DEF TableInv, AloneOK
<1>2. [Next]_vars
  BY TableNextIsNext DEF tableVars
<1>3. IInv'
  BY <1>1, <1>2, StepIInv
<1>4. ASSUME alone' = alone, base' = base, tracker'.compilation = tracker.compilation
      PROVE  AloneOK'
  BY <1>1, <1>4 DEF AloneOK, Sheets, Distinct
<1>5. ASSUME NEW t \in Batches, ApplyBatch(t), Reparses(DOMAIN t)
      PROVE  AloneOK'
  <2> DEFINE u == [f \in DOMAIN t |-> Parsed(f, t[f])]
  <2>1. tracker' = Change(tracker, u) /\ base' = base
    BY <1>5 DEF ApplyBatch
  <2>2. DOMAIN t \cap (Css \ Scss) = {g \in DOMAIN u \cap Css : u[g] # None}
    BY BatchesAssumption DEF Parsed
  <2>3. DOMAIN u = DOMAIN t
    OBVIOUS
  <2> HIDE DEF u
  <2>4. /\ alone' \in Seq(Css) /\ Distinct(alone')
        /\ ToSet(alone') = (ToSet(alone) \ DOMAIN t) \cup (DOMAIN t \cap (Css \ Scss))
    BY <1>1, <1>5, ReparsesMeans
  <2> QED
    BY <1>1, <2>1, <2>2, <2>3, <2>4, EditKeepsAlone
<1>6. ASSUME NEW f \in Files, NEW t \in Trees[f], ApplyChange(f, t), Reparses({f})
      PROVE  AloneOK'
  <2> DEFINE u == [g \in {f} |-> IF f \in Solid THEN None ELSE Parsed(f, t)]
  <2>1. tracker' = Change(tracker, u) /\ base' = base
    BY <1>6 DEF ApplyChange
  <2>2. {f} \cap (Css \ Scss) = {g \in DOMAIN u \cap Css : u[g] # None}
    BY TreesAssumption, FilesAssumption DEF Parsed
  <2>3. DOMAIN u = {f}
    OBVIOUS
  <2> HIDE DEF u
  <2>4. /\ alone' \in Seq(Css) /\ Distinct(alone')
        /\ ToSet(alone') = (ToSet(alone) \ {f}) \cup ({f} \cap (Css \ Scss))
    BY <1>1, <1>6, ReparsesMeans
  <2> QED
    BY <1>1, <2>1, <2>2, <2>3, <2>4, EditKeepsAlone
<1>7. ASSUME NEW f \in Files, ApplyDeletion(f), alone' = Kept(alone, LAMBDA g : g # f)
      PROVE  AloneOK'
  <2> DEFINE u == [g \in {f} |-> None]
  <2>1. tracker' = Change(tracker, u) /\ base' = base /\ DOMAIN u = {f}
    BY <1>7 DEF ApplyDeletion
  <2>2. {g \in DOMAIN u \cap Css : u[g] # None} = {}
    OBVIOUS
  <2> HIDE DEF u
  <2>3. alone' = FlattenSeq([i \in DOMAIN alone |-> IF alone[i] \notin {f} THEN <<alone[i]>> ELSE <<>>])
    <3>1. alone' = FlattenSeq([i \in DOMAIN alone |-> IF alone[i] # f THEN <<alone[i]>> ELSE <<>>])
      BY <1>7 DEF Kept
    <3>2. [i \in DOMAIN alone |-> IF alone[i] # f THEN <<alone[i]>> ELSE <<>>]
            = [i \in DOMAIN alone |-> IF alone[i] \notin {f} THEN <<alone[i]>> ELSE <<>>]
      OBVIOUS
    <3> QED
      BY <3>1, <3>2
  <2>4. alone' \in Seq(Css) /\ Distinct(alone') /\ ToSet(alone') = ToSet(alone) \ {f}
    BY <1>1, <2>3, TakenOff
  <2> QED
    BY <1>1, <2>1, <2>2, <2>4, EditKeepsAlone
<1>8. ASSUME ApplyInputChange /\ UNCHANGED alone
      PROVE  AloneOK'
  BY <1>4, <1>8 DEF ApplyInputChange, Derived
<1>9. ASSUME (SetResults \/ InvalidateResults) /\ UNCHANGED alone
      PROVE  AloneOK'
  BY <1>4, <1>9 DEF SetResults, InvalidateResults, Mutate, WithResults, WithoutResults, WithCache
<1>10. ASSUME (Hold \/ SetHeldResults) /\ UNCHANGED alone
       PROVE  AloneOK'
  BY <1>4, <1>10 DEF Hold, SetHeldResults
<1>11. ASSUME UNCHANGED tableVars
       PROVE  AloneOK'
  BY <1>4, <1>11 DEF tableVars, vars
<1>12. AloneOK'
  BY <1>5, <1>6, <1>7, <1>8, <1>9, <1>10, <1>11 DEF TableNext
<1>13. base' = base
  BY <1>2 DEF Next, vars, ApplyBatch, ApplyChange, ApplyDeletion, ApplyInputChange,
              SetResults, InvalidateResults, Mutate, Hold, SetHeldResults
<1> QED
  BY <1>3, <1>12, <1>13 DEF TableInv

(* The invariant holds throughout.                                         *)
LEMMA TableInvHolds == TableSpec => []TableInv
<1>1. TableInit => TableInv
  <2> SUFFICES ASSUME TableInit PROVE TableInv
    OBVIOUS
  <2>1. IInv
    BY InitIInv DEF TableInit
  <2>2. alone \in Seq(Css) /\ ToSet(alone) = {} /\ Distinct(alone)
    BY DEF TableInit, ToSet, Distinct
  <2>3. base \in Bases /\ tracker.compilation = base
    BY DEF TableInit, Init, InitialTracker, Derived
  <2> QED
    BY <2>1, <2>2, <2>3 DEF TableInv, AloneOK
<1> QED
  BY <1>1, TableStep, PTL DEF TableSpec
------------------------------------------------------------------------------
(* What the map has after a rule is put in it.                             *)
LEMMA PutMeans ==
  ASSUME NEW X, NEW table \in Seq(X), NEW r \in X
  PROVE  /\ Put(table, r) \in Seq(X)
         /\ \A x : x \in ToSet(Put(table, r)) <=> x = r \/ (x \in ToSet(table) /\ x.id # r.id)
<1>1. Len(table) \in Nat /\ DOMAIN table = 1..Len(table) /\ \A i \in 1..Len(table) : table[i] \in X
  OBVIOUS
<1>2. CASE Has(table, r)
  <2> DEFINE new == [i \in DOMAIN table |-> IF table[i].id = r.id THEN r ELSE table[i]]
  <2>1. Put(table, r) = new
    BY <1>2 DEF Put
  <2>2. new \in [1..Len(table) -> X]
    BY <1>1
  <2>3. DOMAIN new = DOMAIN table
    OBVIOUS
  <2>4. \A i \in DOMAIN table : new[i] = IF table[i].id = r.id THEN r ELSE table[i]
    OBVIOUS
  <2> HIDE DEF new
  <2>5. new \in Seq(X)
    BY <1>1, <2>2
  <2>6. \A x : x \in ToSet(new) <=> x = r \/ (x \in ToSet(table) /\ x.id # r.id)
    <3>1. PICK i \in DOMAIN table : table[i].id = r.id
      BY <1>2 DEF Has
    <3>2. r \in ToSet(new)
      BY <2>3, <2>4, <3>1 DEF ToSet
    <3>3. ASSUME NEW x \in ToSet(new), x # r
          PROVE  x \in ToSet(table) /\ x.id # r.id
      BY <2>3, <2>4, <3>3 DEF ToSet
    <3>4. ASSUME NEW x \in ToSet(table), x.id # r.id
          PROVE  x \in ToSet(new)
      BY <2>3, <2>4, <3>4 DEF ToSet
    <3> QED
      BY <3>2, <3>3, <3>4
  <2> QED
    BY <2>1, <2>5, <2>6
<1>3. CASE ~Has(table, r)
  <2>1. Put(table, r) = Append(table, r)
    BY <1>3 DEF Put
  <2>2. Append(table, r) \in Seq(X) /\ DOMAIN Append(table, r) = 1..(Len(table) + 1)
    BY <1>1
  <2>3. /\ Append(table, r)[Len(table) + 1] = r
        /\ \A i \in 1..Len(table) : Append(table, r)[i] = table[i]
    BY <1>1
  <2>4. \A i \in 1..(Len(table) + 1) : i \in 1..Len(table) \/ i = Len(table) + 1
    BY <1>1
  <2>5. Len(table) + 1 \in 1..(Len(table) + 1) /\ \A i \in 1..Len(table) : i \in 1..(Len(table) + 1)
    BY <1>1
  <2> DEFINE new == Append(table, r)
  <2> HIDE DEF new
  <2>6. \A x \in ToSet(table) : x.id # r.id
    BY <1>3 DEF Has, ToSet
  <2>7. \A x : x \in ToSet(new) <=> x = r \/ x \in ToSet(table)
    BY <1>1, <2>2, <2>3, <2>4, <2>5 DEF ToSet, new
  <2> QED
    BY <2>1, <2>2, <2>6, <2>7 DEF new
<1> QED
  BY <1>2, <1>3

(* Of all rules of one number the table has the last.                      *)
LEMMA LastOfNumber ==
  ASSUME NEW X, NEW q \in Seq(X)
  PROVE  /\ FoldLeft(Put, <<>>, q) \in Seq(X)
         /\ \A x : x \in ToSet(FoldLeft(Put, <<>>, q)) <=>
              \E p \in 1..Len(q) :
                q[p] = x /\ \A o \in (p + 1)..Len(q) : q[o].id # x.id
<1> DEFINE n == Len(q)
<1>1. n \in Nat /\ DOMAIN q = 1..n /\ \A k \in 1..n : q[k] \in X
  OBVIOUS
<1> HIDE DEF n
<1>2. PICK t : /\ t[0] = <<>>
               /\ \A k \in 1..n : t[k] = Put(t[k - 1], q[k])
               /\ FoldLeft(Put, <<>>, q) = t[n]
  <2>1. \A table \in Seq(X), r \in X : Put(table, r) \in Seq(X)
    BY PutMeans
  <2> QED
    BY <2>1, TableFills DEF n
<1> DEFINE LastIn(k, x) == \E p \in 1..k : q[p] = x /\ \A o \in (p + 1)..k : q[o].id # x.id
           Good(k) == t[k] \in Seq(X) /\ \A x : x \in ToSet(t[k]) <=> LastIn(k, x)
           T == {k \in 0..n : ~Good(k)}
<1>3. Good(0)
  <2>1. <<>> \in Seq(X) /\ ToSet(<<>>) = {}
    BY DEF ToSet
  <2> QED
    BY <1>2, <2>1
<1>4. ASSUME NEW k \in 1..n, Good(k - 1)
      PROVE  Good(k)
  <2>1. q[k] \in X /\ t[k] = Put(t[k - 1], q[k]) /\ t[k - 1] \in Seq(X)
    BY <1>1, <1>2, <1>4
  <2>2. /\ t[k] \in Seq(X)
        /\ \A x : x \in ToSet(t[k]) <=> x = q[k] \/ (x \in ToSet(t[k - 1]) /\ x.id # q[k].id)
    <3> DEFINE table == t[k - 1]
               r == q[k]
    <3>1. table \in Seq(X) /\ r \in X /\ t[k] = Put(table, r)
      BY <2>1
    <3> HIDE DEF table, r
    <3>2. /\ Put(table, r) \in Seq(X)
          /\ \A x : x \in ToSet(Put(table, r)) <=> x = r \/ (x \in ToSet(table) /\ x.id # r.id)
      BY <3>1, PutMeans
    <3>3. /\ t[k] \in Seq(X)
          /\ \A x : x \in ToSet(t[k]) <=> x = r \/ (x \in ToSet(table) /\ x.id # r.id)
      BY <3>1, <3>2
    <3> QED
      BY <3>3 DEF table, r
  <2>3. \A x : LastIn(k, x) <=> x = q[k] \/ (LastIn(k - 1, x) /\ x.id # q[k].id)
    <3>1. k \in Nat /\ k \in 1..k
      BY <1>1
    <3>2. ASSUME NEW x, LastIn(k, x), x # q[k]
          PROVE  LastIn(k - 1, x) /\ x.id # q[k].id
      <4>1. PICK p \in 1..k : q[p] = x /\ \A o \in (p + 1)..k : q[o].id # x.id
        BY <3>2
      <4>2. p \in 1..(k - 1) /\ k \in (p + 1)..k /\ \A o \in (p + 1)..(k - 1) : o \in (p + 1)..k
        BY <3>1, <3>2, <4>1
      <4> QED
        BY <4>1, <4>2
    <3>3. ASSUME NEW x, LastIn(k - 1, x), x.id # q[k].id
          PROVE  LastIn(k, x)
      <4>1. PICK p \in 1..(k - 1) : q[p] = x /\ \A o \in (p + 1)..(k - 1) : q[o].id # x.id
        BY <3>3
      <4>2. p \in 1..k /\ \A o \in (p + 1)..k : o = k \/ o \in (p + 1)..(k - 1)
        BY <3>1
      <4> QED
        BY <3>3, <4>1, <4>2
    <3>4. LastIn(k, q[k])
      <4>1. (k + 1)..k = {}
        BY <3>1
      <4> QED
        BY <3>1, <4>1
    <3> HIDE DEF LastIn
    <3> QED
      BY <3>2, <3>3, <3>4
  <2> HIDE DEF LastIn
  <2> QED
    BY <1>4, <2>2, <2>3
<1> HIDE DEF Good
<1>5. T = {}
  <2> SUFFICES ASSUME T # {} PROVE FALSE
    OBVIOUS
  <2>1. T \in SUBSET Nat
    BY <1>1
  <2>2. PICK k \in T : \A j \in T : k <= j
    BY <2>1, Least
  <2>3. k # 0 /\ k \in 0..n
    BY <1>3, <2>2
  <2>4. k \in 1..n /\ k - 1 \in 0..n /\ ~(k <= k - 1)
    BY <1>1, <2>3
  <2>5. Good(k - 1)
    BY <2>2, <2>4
  <2> QED
    BY <1>4, <2>2, <2>4, <2>5
<1>6. Good(n)
  BY <1>1, <1>5
<1> QED
  BY <1>2, <1>6 DEF Good, n

------------------------------------------------------------------------------
(* The stylesheets that have the trees of the full build, in its order.    *)
Unedited == KeptIn(FileOrder, Sheets(tracker.compilation) \ ToSet(alone))

(* The order in which the trees are listed has each stylesheet of the      *)
(* compilation, those that were parsed on their own at the end.            *)
LEMMA TreesInOrder ==
  ASSUME TableInv
  PROVE  /\ TreeOrder \in Seq(Sheets(tracker.compilation))
         /\ ToSet(TreeOrder) = Sheets(tracker.compilation)
         /\ TreeOrder = Unedited \o alone
         /\ Unedited \in Seq(Css) /\ Distinct(Unedited)
         /\ ToSet(Unedited) = Sheets(tracker.compilation) \ ToSet(alone)
<1> DEFINE S == Sheets(tracker.compilation)
           K == S \ ToSet(alone)
<1>1. S \subseteq Css
  BY CompilationFiles DEF TableInv, IInv, HandleOK, Typed, Handles
<1>2. alone \in Seq(Css) /\ ToSet(alone) \subseteq S
  BY DEF TableInv, AloneOK
<1>3. FileOrder \in Seq(Css) /\ ToSet(FileOrder) = Css
  BY OrderAssumption
<1>4. TreeOrder = Unedited \o alone /\ Unedited = KeptIn(FileOrder, K)
  BY DEF TreeOrder, Kept, KeptIn, Unedited
<1> HIDE DEF S, K
<1>5. /\ Unedited \in Seq(Css) /\ ToSet(Unedited) = Css \cap K
      /\ Distinct(Unedited)
  <2>1. Distinct(FileOrder)
    BY OrderAssumption DEF Distinct
  <2> QED
    BY <1>3, <1>4, <2>1, KeptMeans, KeptIsDistinct
<1>6. TreeOrder \in Seq(Css) /\ ToSet(TreeOrder) = ToSet(Unedited) \cup ToSet(alone)
  BY <1>2, <1>4, <1>5, ToSetOfBoth
<1>7. ToSet(TreeOrder) = S
  BY <1>1, <1>2, <1>5, <1>6 DEF K
<1>8. TreeOrder \in Seq(S)
  <2>1. Len(TreeOrder) \in Nat /\ DOMAIN TreeOrder = 1..Len(TreeOrder)
    BY <1>6
  <2>2. TreeOrder \in [1..Len(TreeOrder) -> S]
    BY <1>6, <1>7, <2>1 DEF ToSet
  <2> QED
    BY <2>1, <2>2
<1>9. ToSet(Unedited) = S \ ToSet(alone)
  BY <1>1, <1>5 DEF K
<1> QED
  BY <1>4, <1>5, <1>7, <1>8, <1>9 DEF S

(* The tree of a stylesheet of the compilation, and its rules.             *)
LEMMA SheetRules ==
  ASSUME TableInv, NEW f \in Sheets(tracker.compilation)
  PROVE  /\ f \in Css /\ tracker.compilation.css[f] \in Trees[f]
         /\ RulesOf(f) \in Seq(ToSet(RulesOf(f)))
         /\ \A r \in ToSet(RulesOf(f)) :
              r.selector \in DOMAIN Selectors /\ r.important \in BOOLEAN /\ r.specificity \in Int
<1> DEFINE k == tracker.compilation
<1>1. k \in Compilations /\ WellTyped(k)
  BY DEF TableInv, IInv, HandleOK, Typed, Handles
<1> HIDE DEF k
<1>2. Solids(k) \subseteq Solid /\ Sheets(k) \subseteq Css
  BY <1>1, CompilationFiles
<1>3. f \in Css /\ f \notin Solids(k) /\ f \in Sheets(k)
  BY <1>2, FilesAssumption DEF k
<1>4. k.css[f] \in Trees[f]
  BY <1>1, <1>3 DEF WellTyped, HasTree, TreeOf
<1> QED
  BY <1>3, <1>4, RulesAssumption DEF RulesOf, k

Entries == UNION {ToSet(Numbered(f)) : f \in Sheets(tracker.compilation)}

(* A stylesheet's rules with their numbers.                                *)
LEMMA NumberedMeans ==
  ASSUME TableInv, NEW f \in Sheets(tracker.compilation)
  PROVE  /\ Len(RulesOf(f)) \in Nat
         /\ Len(Numbered(f)) = Len(RulesOf(f)) /\ DOMAIN Numbered(f) = 1..Len(RulesOf(f))
         /\ \A i \in 1..Len(RulesOf(f)) :
              Numbered(f)[i] = [file |-> f, id |-> FirstId(f) + i - 1, rule |-> RulesOf(f)[i]]
         /\ Numbered(f) \in Seq(Entries)
<1> DEFINE rules == RulesOf(f)
           n == Len(rules)
           Entry(i) == [file |-> f, id |-> FirstId(f) + i - 1, rule |-> rules[i]]
<1>1. n \in Nat /\ DOMAIN rules = 1..n
  <2>1. RulesOf(f) \in Seq(ToSet(RulesOf(f)))
    BY SheetRules
  <2> QED
    BY <2>1
<1>2. Numbered(f) = [i \in DOMAIN rules |-> Entry(i)]
  BY DEF Numbered
<1> HIDE DEF rules, Entry, n
<1>3. Numbered(f) = [i \in 1..n |-> Entry(i)]
  BY <1>1, <1>2
<1>4. Len(Numbered(f)) = n /\ DOMAIN Numbered(f) = 1..n /\ \A i \in 1..n : Numbered(f)[i] = Entry(i)
  BY <1>1, <1>3
<1>5. Numbered(f) \in Seq(Entries)
  <2>1. \A i \in 1..n : Numbered(f)[i] \in Entries
    BY <1>4 DEF Entries, ToSet
  <2>2. Numbered(f) \in [1..n -> Entries]
    BY <1>3, <1>4, <2>1
  <2> QED
    BY <1>1, <2>2
<1> QED
  BY <1>1, <1>4, <1>5 DEF Entry, n, rules

(* The rules of all trees in a row, from which the map is filled.          *)
Row == FlattenSeq([i \in DOMAIN TreeOrder |-> Numbered(TreeOrder[i])])

(* Where a stylesheet's rules stand in that row: after a place of its own. *)
Rows(off) ==
  /\ off \in [1..(Len(TreeOrder) + 1) -> Nat] /\ Len(Row) = off[Len(TreeOrder) + 1]
  /\ \A i \in 1..Len(TreeOrder) : off[i + 1] = off[i] + Len(RulesOf(TreeOrder[i]))
  /\ \A i \in 1..Len(TreeOrder) : \A j \in 1..Len(RulesOf(TreeOrder[i])) :
       off[i] + j \in 1..Len(Row) /\ Row[off[i] + j] = Numbered(TreeOrder[i])[j]
  /\ \A p \in 1..Len(Row) : \E i \in 1..Len(TreeOrder) :
       \E j \in 1..Len(RulesOf(TreeOrder[i])) : p = off[i] + j

(* The rules stand so, and the map has the last of each number.            *)
LEMMA TableMeans ==
  ASSUME TableInv
  PROVE  /\ Row \in Seq(Entries) /\ Table \in Seq(Entries)
         /\ \E off : Rows(off)
         /\ \A x : x \in ToSet(Table) <=>
              \E p \in 1..Len(Row) :
                Row[p] = x /\ \A o \in (p + 1)..Len(Row) : Row[o].id # x.id
<1> DEFINE n == Len(TreeOrder)
           ss == [i \in DOMAIN TreeOrder |-> Numbered(TreeOrder[i])]
<1>1. n \in Nat /\ DOMAIN TreeOrder = 1..n /\ \A i \in 1..n : TreeOrder[i] \in Sheets(tracker.compilation)
  <2>1. TreeOrder \in Seq(Sheets(tracker.compilation))
    BY TreesInOrder
  <2> QED
    BY <2>1
<1> HIDE DEF n
<1>2. \A i \in 1..n : /\ Numbered(TreeOrder[i]) \in Seq(Entries)
                      /\ Len(Numbered(TreeOrder[i])) = Len(RulesOf(TreeOrder[i]))
  <2> SUFFICES ASSUME NEW i \in 1..n
               PROVE  /\ Numbered(TreeOrder[i]) \in Seq(Entries)
                      /\ Len(Numbered(TreeOrder[i])) = Len(RulesOf(TreeOrder[i]))
    OBVIOUS
  <2> DEFINE f == TreeOrder[i]
  <2>1. f \in Sheets(tracker.compilation)
    BY <1>1
  <2> HIDE DEF f
  <2>2. Numbered(f) \in Seq(Entries) /\ Len(Numbered(f)) = Len(RulesOf(f))
    BY <2>1, NumberedMeans
  <2> QED
    BY <2>2 DEF f
<1>3. ss = [i \in 1..n |-> Numbered(TreeOrder[i])]
  BY <1>1
<1>4. \A i \in 1..n : ss[i] = Numbered(TreeOrder[i])
  BY <1>3
<1>5. Row = FlattenSeq(ss)
  BY DEF Row
<1> HIDE DEF ss
<1>6. ss \in Seq(Seq(Entries)) /\ Len(ss) = n
  <2>1. ss \in [1..n -> Seq(Entries)]
    BY <1>2, <1>3, <1>4
  <2> QED
    BY <1>1, <2>1
<1>7. Row \in Seq(Entries) /\ \E off : Placed(ss, Row, off)
  BY <1>5, <1>6, FlattenPlaces
<1>8. PICK off : Placed(ss, Row, off)
  BY <1>7
<1>9. /\ off \in [1..(n + 1) -> Nat] /\ Len(Row) = off[n + 1]
      /\ \A i \in 1..n : off[i + 1] = off[i] + Len(ss[i])
      /\ \A i \in 1..n : \A j \in 1..Len(ss[i]) : off[i] + j \in 1..Len(Row) /\ Row[off[i] + j] = ss[i][j]
      /\ \A p \in 1..Len(Row) : \E i \in 1..n : \E j \in 1..Len(ss[i]) : p = off[i] + j
  BY <1>6, <1>8 DEF Placed
<1>10. \A i \in 1..n : Len(ss[i]) = Len(RulesOf(TreeOrder[i]))
  BY <1>2, <1>4
<1>11. /\ \A i \in 1..n : off[i + 1] = off[i] + Len(RulesOf(TreeOrder[i]))
       /\ \A i \in 1..n : \A j \in 1..Len(RulesOf(TreeOrder[i])) :
            off[i] + j \in 1..Len(Row) /\ Row[off[i] + j] = Numbered(TreeOrder[i])[j]
       /\ \A p \in 1..Len(Row) : \E i \in 1..n : \E j \in 1..Len(RulesOf(TreeOrder[i])) : p = off[i] + j
  BY <1>4, <1>9, <1>10, SMTT(30)
<1>12. Table = FoldLeft(Put, <<>>, Row)
  BY DEF Table, Row
<1>13. /\ Table \in Seq(Entries)
       /\ \A x : x \in ToSet(Table) <=>
            \E p \in 1..Len(Row) : Row[p] = x /\ \A o \in (p + 1)..Len(Row) : Row[o].id # x.id
  BY <1>7, <1>12, LastOfNumber
<1>14. Rows(off)
  BY <1>9, <1>11 DEF Rows, n
<1> QED
  BY <1>7, <1>13, <1>14
------------------------------------------------------------------------------
(* The rules of the stylesheet that was edited last are all in the table:  *)
(* they are the last in the row, and no two of them have one number.       *)
LEMMA LatestIsLast == TableInv => LatestEditStands
<1> SUFFICES ASSUME TableInv, alone # <<>>
             PROVE  ToSet(Numbered(Last(alone))) \subseteq ToSet(Table)
  BY DEF LatestEditStands
<1> DEFINE n == Len(TreeOrder)
           f == Last(alone)
           len == Len(RulesOf(f))
<1>1. n \in Nat \ {0} /\ TreeOrder[n] = f /\ f \in ToSet(alone)
  <2> DEFINE list == Unedited
  <2>1. list \in Seq(Css) /\ TreeOrder = list \o alone
    BY TreesInOrder
  <2> HIDE DEF list
  <2>2. alone \in Seq(Css)
    BY DEF TableInv, AloneOK
  <2>3. Len(list) \in Nat /\ Len(alone) \in Nat \ {0} /\ DOMAIN alone = 1..Len(alone)
    BY <2>1, <2>2
  <2>4. Len(TreeOrder) = Len(list) + Len(alone) /\ TreeOrder[Len(list) + Len(alone)] = alone[Len(alone)]
    BY <2>1, <2>2, <2>3
  <2>5. f = alone[Len(alone)] /\ Len(alone) \in DOMAIN alone
    BY <2>3 DEF Last
  <2> QED
    BY <2>3, <2>4, <2>5 DEF ToSet
<1>2. f \in Sheets(tracker.compilation)
  BY <1>1 DEF TableInv, AloneOK
<1> HIDE DEF n, f
<1>3. /\ len \in Nat /\ Len(Numbered(f)) = len /\ DOMAIN Numbered(f) = 1..len
      /\ \A i \in 1..len : Numbered(f)[i] = [file |-> f, id |-> FirstId(f) + i - 1, rule |-> RulesOf(f)[i]]
  BY <1>2, NumberedMeans
<1>4. FirstId(f) = 0
  BY <1>1 DEF FirstId
<1>5. \A i \in 1..len : Numbered(f)[i].id = i - 1
  BY <1>3, <1>4
<1>6. PICK off : Rows(off)
  BY TableMeans
<1>7. /\ n \in 1..n /\ off[n] \in Nat /\ Len(Row) = off[n] + len
      /\ \A j \in 1..len : off[n] + j \in 1..Len(Row) /\ Row[off[n] + j] = Numbered(f)[j]
  <2>1. /\ off \in [1..(n + 1) -> Nat] /\ Len(Row) = off[n + 1]
        /\ \A i \in 1..n : off[i + 1] = off[i] + Len(RulesOf(TreeOrder[i]))
        /\ \A i \in 1..n : \A j \in 1..Len(RulesOf(TreeOrder[i])) :
             off[i] + j \in 1..Len(Row) /\ Row[off[i] + j] = Numbered(TreeOrder[i])[j]
    BY <1>6 DEF Rows, n
  <2>2. n \in 1..n /\ n \in 1..(n + 1)
    BY <1>1
  <2>3. off[n] \in Nat /\ off[n + 1] = off[n] + Len(RulesOf(TreeOrder[n]))
    BY <2>1, <2>2
  <2>4. \A j \in 1..Len(RulesOf(TreeOrder[n])) :
          off[n] + j \in 1..Len(Row) /\ Row[off[n] + j] = Numbered(TreeOrder[n])[j]
    BY <2>1, <2>2
  <2> QED
    BY <1>1, <2>1, <2>2, <2>3, <2>4
<1> HIDE DEF len
<1>8. ASSUME NEW j \in 1..len
      PROVE  Numbered(f)[j] \in ToSet(Table)
  <2>1. ASSUME NEW o \in (off[n] + j + 1)..Len(Row)
        PROVE  Row[o].id # Numbered(f)[j].id
    <3> DEFINE i == o - off[n]
    <3>1. i \in 1..len /\ o = off[n] + i /\ i # j
      <4>1. len \in Nat /\ off[n] \in Nat /\ Len(Row) = off[n] + len
        BY <1>3, <1>7
      <4> QED
        BY <4>1
    <3> HIDE DEF i
    <3>2. Row[o] = Numbered(f)[i]
      BY <1>7, <3>1
    <3>3. Row[o].id = i - 1 /\ Numbered(f)[j].id = j - 1
      BY <1>5, <3>1, <3>2
    <3> QED
      BY <1>3, <3>1, <3>3
  <2> DEFINE p == off[n] + j
  <2>2. p \in 1..Len(Row) /\ Row[p] = Numbered(f)[j]
    BY <1>7
  <2>3. \A o \in (p + 1)..Len(Row) : Row[o].id # Numbered(f)[j].id
    BY <2>1
  <2> HIDE DEF p
  <2>4. \A x : (\E b \in 1..Len(Row) : Row[b] = x /\ \A o \in (b + 1)..Len(Row) : Row[o].id # x.id)
                 => x \in ToSet(Table)
    BY TableMeans
  <2> QED
    BY <2>2, <2>3, <2>4
<1>9. \A x \in ToSet(Numbered(f)) : x \in ToSet(Table)
  BY <1>3, <1>8 DEF ToSet
<1> QED
  BY <1>9 DEF f

(* An edited stylesheet has all its rules in the map from numbers to rules *)
(* until another is edited (buildSymbolTable, withCSSTree).                *)
THEOREM TheLatestEditStands == TableSpec => []LatestEditStands
  BY TableInvHolds, LatestIsLast, PTL
------------------------------------------------------------------------------
(* A solid file's tree.                                                    *)
LEMMA SolidTree ==
  ASSUME TableInv, NEW s \in Solids(tracker.compilation)
  PROVE  s \in Solid /\ tracker.compilation.solid[s] \in Trees[s]
<1> DEFINE k == tracker.compilation
<1>1. k \in Compilations /\ WellTyped(k)
  BY DEF TableInv, IInv, HandleOK, Typed, Handles
<1> HIDE DEF k
<1>2. s \in Solid /\ s \in Solids(k)
  BY <1>1, CompilationFiles DEF k
<1>3. k.solid[s] \in Trees[s]
  BY <1>1, <1>2 DEF WellTyped, HasTree, TreeOf
<1> QED
  BY <1>2, <1>3 DEF k

(* The rules in scope of a solid file.                                     *)
LEMMA InScopeMeans ==
  ASSUME TableInv, NEW s
  PROVE  /\ InScope(s) \in Seq(ToSet(InScope(s)))
         /\ \A r \in ToSet(InScope(s)) :
              \E x \in Entries : /\ r = [file |-> x.file, id |-> x.id, rule |-> x.rule,
                                         layerOrder |-> LayerOrders[x.rule.layer]]
                                 /\ x \in ToSet(Table)
<1> DEFINE scope == CssScope(tracker.compilation, s)
           K == {r \in Entries : r.file \in scope}
           scoped == Kept(Table, LAMBDA r : r.file \in scope)
           kept == KeptIn(Table, K)
           orders == LayerOrders
           Ranked(x) == [file |-> x.file, id |-> x.id, rule |-> x.rule, layerOrder |-> orders[x.rule.layer]]
<1>1. Table \in Seq(Entries)
  BY TableMeans
<1> HIDE DEF scope, orders
<1>2. \A i \in DOMAIN Table : Table[i].file \in scope <=> Table[i] \in K
  BY <1>1
<1>3. [i \in DOMAIN Table |-> IF Table[i].file \in scope THEN <<Table[i]>> ELSE <<>>]
        = [i \in DOMAIN Table |-> IF Table[i] \in K THEN <<Table[i]>> ELSE <<>>]
  BY <1>2
<1>4. scoped = kept
  BY <1>3 DEF Kept, KeptIn
<1> HIDE DEF K
<1>5. kept \in Seq(Entries) /\ ToSet(kept) = ToSet(Table) \cap K
  BY <1>1, KeptMeans
<1>6. InScope(s) = [i \in DOMAIN scoped |-> Ranked(scoped[i])]
  BY DEF InScope, scope, orders
<1> HIDE DEF scoped, kept
<1> DEFINE n == Len(scoped)
<1>7. n \in Nat /\ DOMAIN scoped = 1..n /\ \A i \in 1..n : scoped[i] \in Entries /\ scoped[i] \in ToSet(Table)
  <2>1. scoped \in Seq(Entries) /\ ToSet(scoped) \subseteq ToSet(Table)
    BY <1>4, <1>5
  <2> QED
    BY <2>1 DEF ToSet
<1> HIDE DEF n, Ranked
<1>8. InScope(s) = [i \in 1..n |-> Ranked(scoped[i])]
  BY <1>6, <1>7
<1>9. DOMAIN InScope(s) = 1..n /\ \A i \in 1..n : InScope(s)[i] = Ranked(scoped[i])
  BY <1>8
<1>10. InScope(s) \in [1..n -> ToSet(InScope(s))]
  BY <1>8, <1>9 DEF ToSet
<1>11. InScope(s) \in Seq(ToSet(InScope(s)))
  BY <1>7, <1>10
<1>12. ASSUME NEW r \in ToSet(InScope(s))
       PROVE  \E x \in Entries : /\ r = [file |-> x.file, id |-> x.id, rule |-> x.rule,
                                         layerOrder |-> LayerOrders[x.rule.layer]]
                                 /\ x \in ToSet(Table)
  <2>1. PICK i \in 1..n : r = Ranked(scoped[i])
    BY <1>9 DEF ToSet
  <2>2. scoped[i] \in Entries /\ scoped[i] \in ToSet(Table)
    BY <1>7
  <2> QED
    BY <2>1, <2>2 DEF Ranked, orders
<1> QED
  BY <1>11, <1>12

(* A rule in the table is a rule of a stylesheet of the compilation.       *)
LEMMA EntryRule ==
  ASSUME TableInv, NEW x \in Entries
  PROVE  \E f \in Sheets(tracker.compilation) : \E j \in 1..Len(RulesOf(f)) :
           /\ x = [file |-> f, id |-> FirstId(f) + j - 1, rule |-> RulesOf(f)[j]]
           /\ x.file = f /\ x.rule \in ToSet(RulesOf(f))
           /\ x.rule.selector \in DOMAIN Selectors /\ x.rule.important \in BOOLEAN
           /\ x.rule.specificity \in Int
<1>1. PICK f \in Sheets(tracker.compilation) : x \in ToSet(Numbered(f))
  BY DEF Entries
<1> DEFINE rules == RulesOf(f)
<1>2. /\ Len(rules) \in Nat /\ DOMAIN Numbered(f) = 1..Len(rules)
      /\ \A i \in 1..Len(rules) :
              Numbered(f)[i] = [file |-> f, id |-> FirstId(f) + i - 1, rule |-> rules[i]]
  BY NumberedMeans
<1>3. /\ rules \in Seq(ToSet(rules))
      /\ \A r \in ToSet(rules) :
           r.selector \in DOMAIN Selectors /\ r.important \in BOOLEAN /\ r.specificity \in Int
  BY SheetRules
<1> HIDE DEF rules
<1>4. PICK j \in 1..Len(rules) : x = [file |-> f, id |-> FirstId(f) + j - 1, rule |-> rules[j]]
  BY <1>1, <1>2 DEF ToSet
<1>5. rules[j] \in ToSet(rules)
  BY <1>3
<1>6. x.file = f /\ x.rule = rules[j]
  BY <1>4
<1> QED
  BY <1>3, <1>4, <1>5, <1>6 DEF rules

(* The matches of an element: of the rules in scope those whose selector   *)
(* may match and is found by a key or the tag.                             *)
LEMMA MatchesMean ==
  ASSUME NEW s, NEW e, NEW X, NEW inScope \in Seq(X)
  PROVE  LET t == tracker.compilation.solid[s]
         IN  /\ Matches(s, e, inScope) \in Seq(X)
             /\ ToSet(Matches(s, e, inScope)) =
                  {r \in ToSet(inScope) :
                     /\ MatchResult[s][t][e][r.rule.selector] # "none"
                     /\ \/ FoundByKey(Document(s, t), Selectors[r.rule.selector], e)
                        \/ FoundByTag(Document(s, t), Selectors[r.rule.selector], e)}
<1> DEFINE t == tracker.compilation.solid[s]
           May(r) == MatchResult[s][t][e][r.rule.selector] # "none"
           ByKey(r) == FoundByKey(Document(s, t), Selectors[r.rule.selector], e)
           ByTag(r) == FoundByTag(Document(s, t), Selectors[r.rule.selector], e)
           M == {r \in X : May(r)}
           K == {r \in X : ByKey(r)}
           G == {r \in X : ByTag(r) /\ ~ByKey(r)}
           matching == FlattenSeq([i \in DOMAIN inScope |-> IF May(inScope[i]) THEN <<inScope[i]>> ELSE <<>>])
           keyed == FlattenSeq([i \in DOMAIN matching |-> IF ByKey(matching[i]) THEN <<matching[i]>> ELSE <<>>])
           tagged == FlattenSeq([i \in DOMAIN matching |->
                       IF ByTag(matching[i]) /\ ~ByKey(matching[i]) THEN <<matching[i]>> ELSE <<>>])
<1>1. Matches(s, e, inScope) = keyed \o tagged
  BY DEF Matches, Kept
<1> HIDE DEF t, May, ByKey, ByTag
<1>2. matching \in Seq(X) /\ ToSet(matching) = ToSet(inScope) \cap M
  <2>1. \A i \in DOMAIN inScope : May(inScope[i]) <=> inScope[i] \in M
    OBVIOUS
  <2> DEFINE k == KeptIn(inScope, M)
  <2>2. [i \in DOMAIN inScope |-> IF May(inScope[i]) THEN <<inScope[i]>> ELSE <<>>]
          = [i \in DOMAIN inScope |-> IF inScope[i] \in M THEN <<inScope[i]>> ELSE <<>>]
    BY <2>1
  <2>3. matching = k
    BY <2>2 DEF KeptIn
  <2> HIDE DEF M, matching
  <2>4. k \in Seq(X) /\ ToSet(k) = ToSet(inScope) \cap M
    BY KeptMeans
  <2> QED
    BY <2>3, <2>4
<1> HIDE DEF matching
<1>3. keyed \in Seq(X) /\ ToSet(keyed) = ToSet(matching) \cap K
  <2>1. \A i \in DOMAIN matching : ByKey(matching[i]) <=> matching[i] \in K
    BY <1>2
  <2> DEFINE k == KeptIn(matching, K)
  <2>2. [i \in DOMAIN matching |-> IF ByKey(matching[i]) THEN <<matching[i]>> ELSE <<>>]
          = [i \in DOMAIN matching |-> IF matching[i] \in K THEN <<matching[i]>> ELSE <<>>]
    BY <2>1
  <2>3. keyed = k
    BY <2>2 DEF KeptIn
  <2> HIDE DEF K, keyed
  <2>4. k \in Seq(X) /\ ToSet(k) = ToSet(matching) \cap K
    BY <1>2, KeptMeans
  <2> QED
    BY <2>3, <2>4
<1> HIDE DEF keyed
<1>4. tagged \in Seq(X) /\ ToSet(tagged) = ToSet(matching) \cap G
  <2>1. \A i \in DOMAIN matching : ByTag(matching[i]) /\ ~ByKey(matching[i]) <=> matching[i] \in G
    BY <1>2
  <2> DEFINE k == KeptIn(matching, G)
  <2>2. [i \in DOMAIN matching |-> IF ByTag(matching[i]) /\ ~ByKey(matching[i]) THEN <<matching[i]>> ELSE <<>>]
          = [i \in DOMAIN matching |-> IF matching[i] \in G THEN <<matching[i]>> ELSE <<>>]
    BY <2>1
  <2>3. tagged = k
    BY <2>2 DEF KeptIn
  <2> HIDE DEF G, tagged
  <2>4. k \in Seq(X) /\ ToSet(k) = ToSet(matching) \cap G
    BY <1>2, KeptMeans
  <2> QED
    BY <2>3, <2>4
<1> HIDE DEF tagged
<1>5. /\ keyed \o tagged \in Seq(X)
      /\ ToSet(keyed \o tagged) = ToSet(keyed) \cup ToSet(tagged)
  BY <1>3, <1>4, ToSetOfBoth
<1>6. ToSet(inScope) \subseteq X
  BY DEF ToSet
<1>7. ToSet(keyed) \cup ToSet(tagged) = {r \in ToSet(inScope) : May(r) /\ (ByKey(r) \/ ByTag(r))}
  BY <1>2, <1>3, <1>4, <1>6, SMTT(30)
<1> QED
  BY <1>1, <1>5, <1>7 DEF t, May, ByKey, ByTag

(* What the matcher is asked for an element and a rule in scope.           *)
LEMMA MatchAsked ==
  ASSUME TableInv, NEW s \in Solids(tracker.compilation), NEW e \in Elements(s),
         NEW r \in ToSet(InScope(s))
  PROVE  LET t == tracker.compilation.solid[s]
             n == r.rule.selector
         IN  /\ IsDocument(Document(s, t)) /\ e \in DOMAIN Document(s, t)
             /\ IsSelector(Selectors[n])
             /\ MatchResult[s][t][e][n] = MatchElement(Document(s, t), Selectors[n], e)
             /\ Says(s, e, r) = {Holds(d, Selectors[n], e) : d \in AtRunTime(Document(s, t), Values)}
<1> DEFINE t == tracker.compilation.solid[s]
           n == r.rule.selector
<1>1. s \in Solid /\ t \in Trees[s]
  BY SolidTree
<1>2. PICK x \in Entries : r.rule = x.rule
  <2>1. PICK x \in Entries : r = [file |-> x.file, id |-> x.id, rule |-> x.rule,
                                  layerOrder |-> LayerOrders[x.rule.layer]]
    BY InScopeMeans
  <2>2. r.rule = x.rule
    BY <2>1
  <2> QED
    BY <2>2
<1>3. n \in DOMAIN Selectors
  BY <1>2, EntryRule
<1>4. e \in DOMAIN Document(s, t)
  BY DEF Elements
<1> HIDE DEF t, n
<1>5. IsDocument(Document(s, t)) /\ IsSelector(Selectors[n])
  BY <1>1, <1>3, DocumentAssumption, SelectorAssumption
<1>6. MatchResult[s][t][e][n] = MatchElement(Document(s, t), Selectors[n], e)
  BY <1>1, <1>3, <1>4 DEF MatchResult
<1>7. MayHold[s][t][e][n] = {Holds(d, Selectors[n], e) : d \in AtRunTime(Document(s, t), Values)}
  BY <1>1, <1>3, <1>4 DEF MayHold
<1>8. Says(s, e, r) = MayHold[s][t][e][n]
  BY DEF Says, t, n
<1> QED
  BY <1>4, <1>5, <1>6, <1>7, <1>8 DEF t, n

LEMMA NoneIsMissed == TableInv => NoMatchIsMissed
<1> SUFFICES ASSUME TableInv,
                    NEW s \in Solids(tracker.compilation), NEW e \in Elements(s),
                    NEW r \in ToSet(InScope(s)) \ ToSet(Matches(s, e, InScope(s))),
                    ~Unclear(s, r), ~Unkeyed(Selectors[r.rule.selector])
             PROVE  TRUE \notin Says(s, e, r)
  BY DEF NoMatchIsMissed
<1> DEFINE t == tracker.compilation.solid[s]
           doc == Document(s, t)
           sel == Selectors[r.rule.selector]
           result == MatchResult[s][t][e][r.rule.selector]
<1>1. /\ IsDocument(doc) /\ e \in DOMAIN doc /\ IsSelector(sel)
      /\ result = MatchElement(doc, sel, e)
      /\ Says(s, e, r) = {Holds(d, sel, e) : d \in AtRunTime(doc, Values)}
  BY MatchAsked, SMTT(30)
<1>2. InScope(s) \in Seq(ToSet(InScope(s)))
  BY InScopeMeans
<1>3. result = "none" \/ ~(FoundByKey(doc, sel, e) \/ FoundByTag(doc, sel, e))
  <2>1. ToSet(Matches(s, e, InScope(s))) =
          {q \in ToSet(InScope(s)) :
             /\ MatchResult[s][t][e][q.rule.selector] # "none"
             /\ \/ FoundByKey(Document(s, t), Selectors[q.rule.selector], e)
                \/ FoundByTag(Document(s, t), Selectors[q.rule.selector], e)}
    BY <1>2, MatchesMean
  <2> QED
    BY <2>1
<1>4. ~Blind(doc, sel) /\ ~Unkeyed(sel)
  BY DEF Unclear
<1> HIDE DEF doc, sel, result
<1>5. MatchElement(doc, sel, e) = "none"
  BY <1>1, <1>3, <1>4, MatchIsFound
<1>6. \A d \in AtRunTime(doc, Values) : ~Holds(d, sel, e)
  BY <1>1, <1>4, <1>5, MatchMeans
<1> QED
  BY <1>1, <1>6

(* Whatever is edited, no rule that may apply to an element is left out of *)
(* its cascade, but where the matcher is blind to a dynamic value and      *)
(* where the index has no key for the selector (appendMatchingEdges).      *)
THEOREM NothingIsMissed == TableSpec => []NoMatchIsMissed
  BY TableInvHolds, NoneIsMissed, PTL

LEMMA MatchesMayHold == TableInv => MatchesHold
<1> SUFFICES ASSUME TableInv,
                    NEW s \in Solids(tracker.compilation), NEW e \in Elements(s),
                    NEW r \in ToSet(Matches(s, e, InScope(s))), ~Unclear(s, r)
             PROVE  /\ TRUE \in Says(s, e, r) \/ Contradicts(Selectors[r.rule.selector])
                    /\ FALSE \in Says(s, e, r) =>
                         MatchResult[s][tracker.compilation.solid[s]][e][r.rule.selector] = "conditional"
  BY DEF MatchesHold
<1> DEFINE t == tracker.compilation.solid[s]
           doc == Document(s, t)
           n == r.rule.selector
           sel == Selectors[n]
           result == MatchResult[s][t][e][n]
<1>1. r \in ToSet(InScope(s)) /\ result # "none"
  <2>1. InScope(s) \in Seq(ToSet(InScope(s)))
    BY InScopeMeans
  <2>2. ToSet(Matches(s, e, InScope(s))) =
          {q \in ToSet(InScope(s)) :
             /\ MatchResult[s][t][e][q.rule.selector] # "none"
             /\ \/ FoundByKey(Document(s, t), Selectors[q.rule.selector], e)
                \/ FoundByTag(Document(s, t), Selectors[q.rule.selector], e)}
    BY <2>1, MatchesMean
  <2> QED
    BY <2>2
<1>2. /\ IsDocument(doc) /\ e \in DOMAIN doc /\ IsSelector(sel)
      /\ result = MatchElement(doc, sel, e)
      /\ Says(s, e, r) = {Holds(d, sel, e) : d \in AtRunTime(doc, Values)}
  BY <1>1, MatchAsked
<1>3. Values # {} /\ Asked(sel) \subseteq Values
  <2>1. PICK x \in Entries : r = [file |-> x.file, id |-> x.id, rule |-> x.rule,
                                  layerOrder |-> LayerOrders[x.rule.layer]]
    BY <1>1, InScopeMeans
  <2>2. r.rule = x.rule
    BY <2>1
  <2>3. n \in DOMAIN Selectors
    BY <2>2, EntryRule
  <2> HIDE DEF n
  <2> QED
    BY <2>3, ValuesAssumption
<1>4. ~Blind(doc, sel)
  BY DEF Unclear
<1>5. /\ result = MatchResult[s][tracker.compilation.solid[s]][e][r.rule.selector]
      /\ sel = Selectors[r.rule.selector]
  OBVIOUS
<1> HIDE DEF doc, n, sel, result
<1>6. ~Contradicts(sel) => \E d \in AtRunTime(doc, Values) : Holds(d, sel, e)
  BY <1>1, <1>2, <1>3, <1>4, MatchMayHold
<1>7. \A d \in AtRunTime(doc, Values) :
        result \in {"none", "conditional", "match"} /\ (result = "match" => Holds(d, sel, e))
  BY <1>2, <1>4, MatchMeans
<1>8. \A d : Holds(d, sel, e) \in BOOLEAN
  BY DEF Holds
<1>9. ~Contradicts(sel) => TRUE \in Says(s, e, r)
  BY <1>2, <1>6, <1>8
<1>10. FALSE \in Says(s, e, r) => result = "conditional"
  BY <1>1, <1>2, <1>7, <1>8
<1> QED
  BY <1>5, <1>9, <1>10

(* Whatever is edited, a rule in an element's cascade may apply to it for  *)
(* some value of its attributes, and does for every value unless the match *)
(* is conditional, but where the matcher is blind to a dynamic value or a  *)
(* selector asks an attribute for two (matchElement).                      *)
THEOREM MatchesAlwaysHold == TableSpec => []MatchesHold
  BY TableInvHolds, MatchesMayHold, PTL
------------------------------------------------------------------------------
(* How many rules the first parse of a stylesheet counted, and of a set of *)
(* them, which it counts in an order of its own.                           *)
Weight(g) == Len(Rules(g, base.css[g]))
Counted(S) == MapThenSumSet(LAMBDA g : Len(Rules(g, base.css[g])), S)
Pick(s) == CHOOSE x \in s : TRUE
Added(f, s) == IF s = {} THEN 0 ELSE Weight(Pick(s)) + f[s \ {Pick(s)}]

LEMMA PickLeaves ==
  ASSUME NEW s, IsFiniteSet(s), s # {}
  PROVE  /\ Pick(s) \in s /\ IsFiniteSet(s \ {Pick(s)})
         /\ Cardinality(s) \in Nat \ {0} /\ Cardinality(s \ {Pick(s)}) = Cardinality(s) - 1
<1>1. Pick(s) \in s
  BY DEF Pick
<1>2. /\ IsFiniteSet(s \ {Pick(s)})
      /\ Cardinality(s \ {Pick(s)}) = IF Pick(s) \in s THEN Cardinality(s) - 1 ELSE Cardinality(s)
  BY FS_RemoveElement
<1>3. Cardinality(s) \in Nat /\ Cardinality(s) # 0
  BY FS_CardinalityType, FS_EmptySet
<1> QED
  BY <1>1, <1>2, <1>3

(* The recursion of the sum is defined.                                    *)
LEMMA SumIs ==
  ASSUME NEW S, IsFiniteSet(S)
  PROVE  \E f : f = [s \in SUBSET S |-> Added(f, s)] /\ Counted(S) = f[S]
<1> DEFINE Stage(k) == {s \in SUBSET S : Cardinality(s) <= k}
           Defined(k) == \E f : f = [s \in Stage(k) |-> Added(f, s)]
           n == Cardinality(S)
           T == {k \in 0..n : ~Defined(k)}
<1>1. n \in Nat
  BY FS_CardinalityType
<1>2. \A s \in SUBSET S : IsFiniteSet(s) /\ Cardinality(s) \in Nat /\ Cardinality(s) <= n
  BY FS_Subset, FS_CardinalityType
<1>3. ASSUME NEW k \in Nat, NEW s \in Stage(k), s # {}
      PROVE  s \ {Pick(s)} \in Stage(k - 1)
  <2>1. s \in SUBSET S /\ Cardinality(s) <= k
    OBVIOUS
  <2>2. Cardinality(s) \in Nat /\ Cardinality(s \ {Pick(s)}) = Cardinality(s) - 1
    BY <1>2, <1>3, <2>1, PickLeaves
  <2>3. Cardinality(s \ {Pick(s)}) <= k - 1
    BY <2>1, <2>2
  <2> QED
    BY <2>1, <2>3
<1>4. Stage(n) = SUBSET S
  BY <1>2
<1>5. \A k \in Nat : Stage(k - 1) \subseteq Stage(k)
  BY <1>2
<1>6. \A s \in Stage(0) : s = {}
  BY <1>2, FS_EmptySet
<1> HIDE DEF n, Stage
<1>7. ASSUME NEW k \in 0..n, \A j \in 0..(k - 1) : Defined(j)
      PROVE  Defined(k)
  <2>1. CASE k = 0
    <3> DEFINE f == [s \in Stage(k) |-> 0]
    <3>1. \A s \in Stage(k) : Added(f, s) = 0
      BY <1>6, <2>1 DEF Added
    <3>2. f = [s \in Stage(k) |-> Added(f, s)]
      BY <3>1
    <3> HIDE DEF f
    <3> QED
      BY <3>2
  <2>2. CASE k # 0
    <3>1. k - 1 \in 0..(k - 1) /\ k \in Nat
      BY <1>1, <2>2
    <3>2. PICK f : f = [s \in Stage(k - 1) |-> Added(f, s)]
      BY <1>7, <3>1
    <3> DEFINE g == [s \in Stage(k) |-> Added(f, s)]
    <3>3. ASSUME NEW s \in Stage(k - 1)
          PROVE  g[s] = f[s]
      <4>1. s \in Stage(k)
        BY <1>5, <3>1
      <4>2. g[s] = Added(f, s)
        BY <4>1
      <4> HIDE DEF g
      <4> QED
        BY <3>2, <4>2
    <3>4. ASSUME NEW s \in Stage(k)
          PROVE  Added(g, s) = Added(f, s)
      <4> HIDE DEF g
      <4>1. CASE s = {}
        BY <4>1 DEF Added
      <4>2. CASE s # {}
        <5>1. g[s \ {Pick(s)}] = f[s \ {Pick(s)}]
          BY <1>3, <3>1, <3>3, <4>2
        <5> QED
          BY <4>2, <5>1 DEF Added
      <4> QED
        BY <4>1, <4>2
    <3>5. g = [s \in Stage(k) |-> Added(g, s)]
      BY <3>4
    <3> HIDE DEF g
    <3> QED
      BY <3>5
  <2> QED
    BY <2>1, <2>2
<1> HIDE DEF Defined
<1>8. T = {}
  <2> SUFFICES ASSUME T # {} PROVE FALSE
    OBVIOUS
  <2>1. T \in SUBSET Nat
    BY <1>1
  <2>2. PICK k \in T : \A j \in T : k <= j
    BY <2>1, Least
  <2>3. \A j \in 0..(k - 1) : Defined(j)
    BY <1>1, <2>2
  <2> QED
    BY <1>7, <2>2, <2>3
<1>9. Defined(n)
  BY <1>1, <1>8
<1>10. \E f : f = [s \in SUBSET S |-> Added(f, s)]
  BY <1>4, <1>9 DEF Defined
<1> DEFINE iter == CHOOSE f : f = [s \in SUBSET S |->
                     IF s = {} THEN 0 ELSE Weight(Pick(s)) + f[s \ {Pick(s)}]]
<1>11. iter = [s \in SUBSET S |-> Added(iter, s)]
  BY <1>10 DEF Added
<1>12. Counted(S) = iter[S]
  BY DEF Counted, MapThenSumSet, MapThenFoldSet, Weight, Pick
<1> HIDE DEF iter
<1> QED
  BY <1>11, <1>12

(* It has the same value within the sum of a larger set.                   *)
LEMMA SumSteps ==
  ASSUME NEW S, IsFiniteSet(S)
  PROVE  IF S = {} THEN Counted(S) = 0 ELSE Counted(S) = Weight(Pick(S)) + Counted(S \ {Pick(S)})
<1> DEFINE Agrees(k) == \A U, s, f : IsFiniteSet(U) /\ s \in SUBSET U /\ Cardinality(s) = k
                                     /\ f = [x \in SUBSET U |-> Added(f, x)] => f[s] = Counted(s)
           T == {k \in Nat : ~Agrees(k)}
<1>1. ASSUME NEW k \in Nat, \A j \in 0..(k - 1) : Agrees(j)
      PROVE  Agrees(k)
  <2> SUFFICES ASSUME NEW U, IsFiniteSet(U), NEW s \in SUBSET U, Cardinality(s) = k,
                      NEW f, f = [x \in SUBSET U |-> Added(f, x)]
               PROVE  f[s] = Counted(s)
    OBVIOUS
  <2>1. IsFiniteSet(s)
    BY FS_Subset
  <2>2. PICK g : g = [x \in SUBSET s |-> Added(g, x)] /\ Counted(s) = g[s]
    BY <2>1, SumIs
  <2>3. f[s] = Added(f, s) /\ g[s] = Added(g, s)
    BY <2>2
  <2>4. CASE s = {}
    BY <2>2, <2>3, <2>4 DEF Added
  <2>5. CASE s # {}
    <3> DEFINE r == s \ {Pick(s)}
    <3>1. /\ r \in SUBSET U /\ r \in SUBSET s /\ k \in Nat \ {0} /\ Cardinality(r) = k - 1
      BY <2>1, <2>5, PickLeaves
    <3>2. f[s] = Weight(Pick(s)) + f[r] /\ g[s] = Weight(Pick(s)) + g[r]
      BY <2>3, <2>5 DEF Added
    <3> HIDE DEF r, Agrees
    <3>3. k - 1 \in 0..(k - 1) /\ k - 1 \in Nat
      BY <3>1
    <3>4. Agrees(k - 1)
      BY <1>1, <3>3
    <3>5. f[r] = Counted(r)
      BY <3>1, <3>4 DEF Agrees
    <3>6. g[r] = Counted(r)
      BY <2>1, <2>2, <3>1, <3>4 DEF Agrees
    <3> QED
      BY <2>2, <3>2, <3>5, <3>6
  <2> QED
    BY <2>4, <2>5
<1> HIDE DEF Agrees
<1>2. T = {}
  <2> SUFFICES ASSUME T # {} PROVE FALSE
    OBVIOUS
  <2>1. T \in SUBSET Nat
    OBVIOUS
  <2>2. PICK k \in T : \A j \in T : k <= j
    BY <2>1, Least
  <2>3. \A j \in 0..(k - 1) : Agrees(j)
    BY <2>2
  <2> QED
    BY <1>1, <2>2, <2>3
<1>3. \A k \in Nat : Agrees(k)
  BY <1>2
<1>4. PICK f : f = [s \in SUBSET S |-> Added(f, s)] /\ Counted(S) = f[S]
  BY SumIs
<1>5. f[S] = Added(f, S)
  BY <1>4
<1>6. CASE S = {}
  BY <1>4, <1>5, <1>6 DEF Added
<1>7. CASE S # {}
  <2> DEFINE r == S \ {Pick(S)}
  <2>1. f[S] = Weight(Pick(S)) + f[r] /\ r \in SUBSET S
    BY <1>5, <1>7 DEF Added
  <2>2. Cardinality(r) \in Nat
    BY <1>7, PickLeaves, FS_CardinalityType
  <2> HIDE DEF r
  <2>3. f[r] = Counted(r)
    BY <1>3, <1>4, <2>1, <2>2 DEF Agrees
  <2> QED
    BY <1>4, <1>7, <2>1, <2>3 DEF r
<1> QED
  BY <1>6, <1>7

(* The sum does not depend on the order.                                   *)
LEMMA SumWithout ==
  ASSUME NEW S, IsFiniteSet(S), \A x \in S : Weight(x) \in Nat
  PROVE  Counted(S) \in Nat /\ \A x \in S : Counted(S) = Weight(x) + Counted(S \ {x})
<1> DEFINE Good(k) == \A U : IsFiniteSet(U) /\ Cardinality(U) = k /\ (\A x \in U : Weight(x) \in Nat)
                         => Counted(U) \in Nat /\ \A x \in U : Counted(U) = Weight(x) + Counted(U \ {x})
           T == {k \in Nat : ~Good(k)}
<1>1. ASSUME NEW k \in Nat, \A j \in 0..(k - 1) : Good(j)
      PROVE  Good(k)
  <2> SUFFICES ASSUME NEW U, IsFiniteSet(U), Cardinality(U) = k, \A x \in U : Weight(x) \in Nat
               PROVE  Counted(U) \in Nat /\ \A x \in U : Counted(U) = Weight(x) + Counted(U \ {x})
    OBVIOUS
  <2>1. CASE U = {}
    <3>1. Counted(U) = 0
      BY <2>1, SumSteps
    <3> QED
      BY <2>1, <3>1
  <2>2. CASE U # {}
    <3> DEFINE c == Pick(U)
    <3>1. c \in U /\ k \in Nat \ {0} /\ k - 1 \in 0..(k - 1) /\ Counted(U) = Weight(c) + Counted(U \ {c})
      BY <2>2, PickLeaves, SumSteps
    <3> HIDE DEF c
    <3>2. \A x \in U : IsFiniteSet(U \ {x}) /\ Cardinality(U \ {x}) = k - 1
      BY FS_RemoveElement
    <3>3. Good(k - 1)
      BY <1>1, <3>1
    <3>4. ASSUME NEW x \in U
          PROVE  /\ Counted(U \ {x}) \in Nat
                 /\ \A y \in U \ {x} : Counted(U \ {x}) = Weight(y) + Counted((U \ {x}) \ {y})
      <4>1. \A y \in U \ {x} : Weight(y) \in Nat
        OBVIOUS
      <4> QED
        BY <3>2, <3>3, <4>1
    <3>5. Counted(U) \in Nat
      BY <3>1, <3>4
    <3>6. ASSUME NEW x \in U, x # c
          PROVE  Counted(U) = Weight(x) + Counted(U \ {x})
      <4> DEFINE r == (U \ {c}) \ {x}
      <4>1. (U \ {x}) \ {c} = r
        OBVIOUS
      <4>2. x \in U \ {c} /\ c \in U \ {x}
        BY <3>1, <3>6
      <4>3. Counted(U \ {c}) = Weight(x) + Counted(r)
        BY <3>1, <3>4, <4>2
      <4> HIDE DEF r
      <4>4. Counted(U \ {x}) = Weight(c) + Counted(r)
        BY <3>1, <3>4, <4>1, <4>2
      <4>5. Weight(x) \in Nat /\ Weight(c) \in Nat
        BY <3>1
      <4>6. Counted(r) \in Nat
        <5>1. IsFiniteSet(U \ {c}) /\ IsFiniteSet(r) /\ Cardinality(r) \in Nat /\ Cardinality(r) = k - 2
          <6>1. IsFiniteSet(U \ {c}) /\ Cardinality(U \ {c}) = k - 1
            BY <3>1, <3>2
          <6>2. IsFiniteSet(r) /\ Cardinality(r) = (k - 1) - 1
            BY <4>2, <6>1, FS_RemoveElement DEF r
          <6>3. Cardinality(r) \in Nat
            BY <6>2, FS_CardinalityType
          <6> QED
            BY <6>1, <6>2, <6>3
        <5>2. k - 2 \in 0..(k - 1)
          BY <5>1
        <5>3. \A y \in r : Weight(y) \in Nat
          BY DEF r
        <5>4. Good(k - 2)
          BY <1>1, <5>2
        <5> QED
          BY <5>1, <5>3, <5>4
      <4> QED
        BY <3>1, <4>3, <4>4, <4>5, <4>6
    <3> QED
      BY <3>1, <3>5, <3>6
  <2> QED
    BY <2>1, <2>2
<1> HIDE DEF Good
<1>2. T = {}
  <2> SUFFICES ASSUME T # {} PROVE FALSE
    OBVIOUS
  <2>1. T \in SUBSET Nat
    OBVIOUS
  <2>2. PICK k \in T : \A j \in T : k <= j
    BY <2>1, Least
  <2>3. \A j \in 0..(k - 1) : Good(j)
    BY <2>2
  <2> QED
    BY <1>1, <2>2, <2>3
<1>3. \A k \in Nat : Good(k)
  BY <1>2
<1>4. Cardinality(S) \in Nat
  BY FS_CardinalityType
<1>5. Good(Cardinality(S))
  BY <1>3, <1>4
<1> QED
  BY <1>5 DEF Good

(* A larger set has no smaller sum.                                        *)
LEMMA SumGrows ==
  ASSUME NEW S, IsFiniteSet(S), \A x \in S : Weight(x) \in Nat, NEW R \in SUBSET S
  PROVE  Counted(R) \in Nat /\ Counted(R) <= Counted(S)
<1> DEFINE Good(k) == \A U : IsFiniteSet(U) /\ Cardinality(U) = k /\ (\A x \in U : Weight(x) \in Nat)
                             /\ R \subseteq U => Counted(R) <= Counted(U)
           T == {k \in Nat : ~Good(k)}
<1>1. ASSUME NEW U, IsFiniteSet(U), \A x \in U : Weight(x) \in Nat
      PROVE  Counted(U) \in Nat
  BY <1>1, SumWithout
<1>2. ASSUME NEW k \in Nat, \A j \in 0..(k - 1) : Good(j)
      PROVE  Good(k)
  <2> SUFFICES ASSUME NEW U, IsFiniteSet(U), Cardinality(U) = k, \A x \in U : Weight(x) \in Nat,
                      R \subseteq U
               PROVE  Counted(R) <= Counted(U)
    OBVIOUS
  <2>1. Counted(U) \in Nat
    BY <1>1
  <2>2. CASE R = U
    BY <2>1, <2>2
  <2>3. CASE R # U
    <3>1. PICK x \in U : x \notin R
      BY <2>3
    <3>2. /\ IsFiniteSet(U \ {x}) /\ Cardinality(U \ {x}) = k - 1 /\ Cardinality(U \ {x}) \in Nat
      <4>1. IsFiniteSet(U \ {x}) /\ Cardinality(U \ {x}) = k - 1
        BY FS_RemoveElement
      <4> QED
        BY <4>1, FS_CardinalityType
    <3>3. k - 1 \in 0..(k - 1)
      BY <3>2
    <3>4. Good(k - 1)
      BY <1>2, <3>3
    <3>5. Counted(R) <= Counted(U \ {x})
      BY <3>1, <3>2, <3>4
    <3>6. Counted(U) = Weight(x) + Counted(U \ {x})
      BY SumWithout
    <3>7. Counted(U \ {x}) \in Nat /\ Weight(x) \in Nat
      BY <1>1, <3>2
    <3>8. Counted(R) \in Nat
      <4>1. IsFiniteSet(R) /\ \A y \in R : Weight(y) \in Nat
        BY FS_Subset
      <4> QED
        BY <1>1, <4>1
    <3> QED
      BY <3>5, <3>6, <3>7, <3>8
  <2> QED
    BY <2>2, <2>3
<1> HIDE DEF Good
<1>3. T = {}
  <2> SUFFICES ASSUME T # {} PROVE FALSE
    OBVIOUS
  <2>1. T \in SUBSET Nat
    OBVIOUS
  <2>2. PICK k \in T : \A j \in T : k <= j
    BY <2>1, Least
  <2>3. \A j \in 0..(k - 1) : Good(j)
    BY <2>2
  <2> QED
    BY <1>2, <2>2, <2>3
<1>4. Cardinality(S) \in Nat
  BY FS_CardinalityType
<1>5. Good(Cardinality(S))
  BY <1>3, <1>4
<1>6. Counted(R) \in Nat
  <2>1. IsFiniteSet(R) /\ \A y \in R : Weight(y) \in Nat
    BY FS_Subset
  <2> QED
    BY <1>1, <2>1
<1> QED
  BY <1>5, <1>6 DEF Good
------------------------------------------------------------------------------
(* A stylesheet stands once among the trees: those of the full build first,*)
(* in its order, then those that were edited.                              *)
LEMMA TreesStandOnce ==
  ASSUME TableInv
  PROVE  /\ Distinct(TreeOrder)
         /\ Len(Unedited) \in Nat /\ Len(alone) \in Nat /\ Len(TreeOrder) = Len(Unedited) + Len(alone)
         /\ DOMAIN TreeOrder = 1..Len(TreeOrder)
         /\ \A i \in 1..Len(Unedited) : TreeOrder[i] = Unedited[i] /\ TreeOrder[i] \notin ToSet(alone)
         /\ \A i \in DOMAIN alone : i \in 1..Len(alone) /\ TreeOrder[Len(Unedited) + i] = alone[i]
<1> DEFINE u == Unedited
<1>1. /\ TreeOrder = u \o alone /\ u \in Seq(Css) /\ Distinct(u)
      /\ ToSet(u) = Sheets(tracker.compilation) \ ToSet(alone)
  BY TreesInOrder
<1>2. alone \in Seq(Css) /\ Distinct(alone)
  BY DEF TableInv, AloneOK
<1> HIDE DEF u
<1>3. Distinct(u \o alone)
  <2>1. ToSet(u) \cap ToSet(alone) = {}
    BY <1>1
  <2> QED
    BY <1>1, <1>2, <2>1, BothAreDistinct
<1>4. /\ Len(u) \in Nat /\ Len(alone) \in Nat /\ Len(u \o alone) = Len(u) + Len(alone)
      /\ DOMAIN (u \o alone) = 1..(Len(u) + Len(alone)) /\ DOMAIN u = 1..Len(u)
      /\ \A i \in 1..Len(u) : (u \o alone)[i] = u[i]
      /\ DOMAIN alone = 1..Len(alone)
      /\ \A i \in 1..Len(alone) : (u \o alone)[Len(u) + i] = alone[i]
  BY <1>1, <1>2
<1>5. \A i \in 1..Len(u) : u[i] \notin ToSet(alone)
  <2>1. \A i \in 1..Len(u) : u[i] \in ToSet(u)
    BY <1>4 DEF ToSet
  <2> QED
    BY <1>1, <2>1
<1> QED
  BY <1>1, <1>3, <1>4, <1>5 DEF u

(* The rules that the full build counted.                                  *)
LEMMA WeightOK ==
  ASSUME TableInv, NEW f \in Sheets(base)
  PROVE  f \in Css /\ Weight(f) \in Nat
<1>1. base \in Bases /\ base \in Compilations
  BY BasesAssumption DEF TableInv
<1>2. Solids(base) \subseteq Solid /\ Sheets(base) \subseteq Css
  BY <1>1, CompilationFiles
<1>3. f \in Css /\ f \notin Solids(base)
  BY <1>2, FilesAssumption
<1>4. base.css[f] \in Trees[f]
  BY <1>1, <1>3, BasesAssumption DEF HasTree, TreeOf
<1>5. Rules(f, base.css[f]) \in Seq(ToSet(Rules(f, base.css[f])))
  BY <1>3, <1>4, RulesAssumption
<1> QED
  BY <1>3, <1>5 DEF Weight

LEMMA EarlierOK ==
  ASSUME TableInv, NEW f
  PROVE  /\ IsFiniteSet(Earlier(f)) /\ \A g \in Earlier(f) : g \in Sheets(base) /\ Weight(g) \in Nat
         /\ Counted(Earlier(f)) \in Nat
<1>1. Earlier(f) \subseteq Sheets(base)
  BY DEF Earlier
<1>2. \A g \in Earlier(f) : g \in Sheets(base) /\ g \in Css /\ Weight(g) \in Nat
  BY <1>1, WeightOK
<1>3. IsFiniteSet(Earlier(f))
  <2>1. Earlier(f) \in SUBSET Css
    BY <1>2
  <2> QED
    BY <2>1, CssIsFinite, FS_Subset
<1> QED
  BY <1>2, <1>3, SumWithout

LEMMA FirstIdOK ==
  ASSUME TableInv, NEW f
  PROVE  FirstId(f) \in Nat /\ (f \notin ToSet(alone) => FirstId(f) = Counted(Earlier(f)))
<1>1. Counted(Earlier(f)) \in Nat
  BY EarlierOK
<1>2. FirstId(f) = IF f \in ToSet(alone) THEN 0 ELSE Counted(Earlier(f))
  BY DEF FirstId, Counted
<1> QED
  BY <1>1, <1>2

(* The numbers of stylesheets that were not edited lie apart.              *)
LEMMA NumbersLieApart ==
  ASSUME TableInv, NEW m \in 1..Len(Unedited), NEW i \in 1..Len(Unedited), m < i
  PROVE  FirstId(Unedited[m]) + Len(RulesOf(Unedited[m])) <= FirstId(Unedited[i])
<1> DEFINE f == Unedited[m]
           g == Unedited[i]
           K == Sheets(tracker.compilation) \ ToSet(alone)
<1>1. /\ Unedited \in Seq(Css) /\ ToSet(Unedited) = K
      /\ Len(Unedited) \in Nat /\ DOMAIN Unedited = 1..Len(Unedited)
  <2>1. Unedited \in Seq(Css) /\ ToSet(Unedited) = K
    BY TreesInOrder
  <2> QED
    BY <2>1
<1>2. f \in K /\ g \in K
  BY <1>1 DEF ToSet
<1>3. /\ FileOrder \in Seq(Css) /\ DOMAIN FileOrder = 1..Len(FileOrder) /\ Len(FileOrder) \in Nat
      /\ Distinct(FileOrder)
  <2>1. FileOrder \in Seq(Css)
    BY OrderAssumption
  <2> QED
    BY <2>1, OrderAssumption DEF Distinct
<1> HIDE DEF K
<1>4. PICK at \in [DOMAIN KeptIn(FileOrder, K) -> DOMAIN FileOrder] :
        /\ \A p \in DOMAIN KeptIn(FileOrder, K) : KeptIn(FileOrder, K)[p] = FileOrder[at[p]]
        /\ \A p, q \in DOMAIN KeptIn(FileOrder, K) : p < q => at[p] < at[q]
  BY <1>3, KeptInOrder
<1>5. KeptIn(FileOrder, K) = Unedited
  BY DEF Unedited, K
<1>6. /\ at[m] \in 1..Len(FileOrder) /\ at[i] \in 1..Len(FileOrder) /\ at[m] < at[i]
      /\ FileOrder[at[m]] = f /\ FileOrder[at[i]] = g
  BY <1>1, <1>3, <1>4, <1>5
<1>7. /\ f \in Sheets(base) /\ Len(RulesOf(f)) = Weight(f) /\ f \notin ToSet(alone)
      /\ g \notin ToSet(alone)
  BY <1>2 DEF TableInv, AloneOK, RulesOf, Weight, K
<1> HIDE DEF f, g
<1>8. f \notin Earlier(f)
  <2> SUFFICES ASSUME Before(FileOrder, f, f) PROVE FALSE
    BY DEF Earlier
  <2>1. PICK x, y \in DOMAIN FileOrder : x < y /\ FileOrder[x] = f /\ FileOrder[y] = f
    BY DEF Before
  <2>2. x # y
    BY <1>3, <2>1
  <2> QED
    BY <1>3, <2>1, <2>2 DEF Distinct
<1>9. f \in Earlier(g)
  BY <1>3, <1>6, <1>7 DEF Earlier, Before
<1>10. Earlier(f) \subseteq Earlier(g)
  <2> SUFFICES ASSUME NEW h \in Sheets(base), Before(FileOrder, h, f) PROVE Before(FileOrder, h, g)
    BY DEF Earlier
  <2>1. PICK x, y \in DOMAIN FileOrder : x < y /\ FileOrder[x] = h /\ FileOrder[y] = f
    BY DEF Before
  <2>2. y = at[m]
    BY <1>3, <1>6, <2>1 DEF Distinct
  <2>3. x < at[i]
    BY <1>3, <1>6, <2>1, <2>2
  <2> QED
    BY <1>3, <1>6, <2>1, <2>3 DEF Before
<1> DEFINE R == Earlier(f) \cup {f}
<1>11. /\ IsFiniteSet(Earlier(g)) /\ (\A x \in Earlier(g) : Weight(x) \in Nat) /\ R \in SUBSET Earlier(g)
  BY <1>9, <1>10, EarlierOK
<1>12. IsFiniteSet(R) /\ (\A x \in R : Weight(x) \in Nat) /\ f \in R /\ R \ {f} = Earlier(f)
  <2>1. IsFiniteSet(R)
    BY <1>11, FS_Subset
  <2> QED
    BY <1>8, <1>11, <2>1
<1> HIDE DEF R
<1>13. Counted(R) \in Nat /\ Counted(R) <= Counted(Earlier(g))
  BY <1>11, SumGrows
<1>14. Counted(R) = Weight(f) + Counted(Earlier(f))
  BY <1>12, SumWithout
<1>15. FirstId(f) = Counted(Earlier(f)) /\ FirstId(g) = Counted(Earlier(g))
  BY <1>7, FirstIdOK
<1>16. Counted(Earlier(f)) \in Nat /\ Counted(Earlier(g)) \in Nat /\ Weight(f) \in Nat
  BY <1>7, EarlierOK, WeightOK
<1> QED
  BY <1>7, <1>13, <1>14, <1>15, <1>16 DEF f, g

LEMMA LostToNamesakes == TableInv => OnlyNamesakesAreLost
<1> SUFFICES ASSUME TableInv, NEW f \in Sheets(tracker.compilation),
                    NEW r \in ToSet(Numbered(f)) \ ToSet(Table)
             PROVE  \E g \in ToSet(alone) \ {f} :
                      r.id < Len(RulesOf(g)) /\ (f \in ToSet(alone) => Before(alone, f, g))
  BY DEF OnlyNamesakesAreLost
<1> DEFINE n == Len(TreeOrder)
           a == Len(Unedited)
<1>1. /\ TreeOrder \in Seq(Sheets(tracker.compilation)) /\ ToSet(TreeOrder) = Sheets(tracker.compilation)
      /\ n \in Nat /\ DOMAIN TreeOrder = 1..n
  <2>1. /\ TreeOrder \in Seq(Sheets(tracker.compilation))
        /\ ToSet(TreeOrder) = Sheets(tracker.compilation)
    BY TreesInOrder
  <2> QED
    BY <2>1
<1>2. /\ Distinct(TreeOrder) /\ a \in Nat /\ Len(alone) \in Nat /\ n = a + Len(alone)
      /\ \A i \in 1..a : TreeOrder[i] = Unedited[i] /\ TreeOrder[i] \notin ToSet(alone)
      /\ \A i \in DOMAIN alone : i \in 1..Len(alone) /\ TreeOrder[a + i] = alone[i]
      /\ DOMAIN alone = 1..Len(alone)
  <2>1. DOMAIN alone = 1..Len(alone)
    BY DEF TableInv, AloneOK
  <2> QED
    BY <2>1, TreesStandOnce
<1>3. PICK off : Rows(off)
  BY TableMeans
<1>4. /\ off \in [1..(n + 1) -> Nat] /\ Len(Row) = off[n + 1]
      /\ \A i \in 1..n : off[i + 1] = off[i] + Len(RulesOf(TreeOrder[i]))
      /\ \A i \in 1..n : \A j \in 1..Len(RulesOf(TreeOrder[i])) :
           off[i] + j \in 1..Len(Row) /\ Row[off[i] + j] = Numbered(TreeOrder[i])[j]
      /\ \A p \in 1..Len(Row) : \E i \in 1..n :
           \E j \in 1..Len(RulesOf(TreeOrder[i])) : p = off[i] + j
  BY <1>3 DEF Rows
<1> HIDE DEF n, a
<1>5. PICK m \in 1..n : TreeOrder[m] = f
  BY <1>1 DEF ToSet
<1>6. /\ Len(RulesOf(f)) \in Nat /\ DOMAIN Numbered(f) = 1..Len(RulesOf(f))
      /\ \A j \in 1..Len(RulesOf(f)) :
           Numbered(f)[j] = [file |-> f, id |-> FirstId(f) + j - 1, rule |-> RulesOf(f)[j]]
  BY NumberedMeans
<1>7. PICK j \in 1..Len(RulesOf(f)) : r = Numbered(f)[j]
  BY <1>6 DEF ToSet
<1>8. r.id = FirstId(f) + j - 1
  BY <1>6, <1>7
<1> DEFINE p == off[m] + j
<1>9. p \in 1..Len(Row) /\ Row[p] = r
  BY <1>4, <1>5, <1>7
<1>10. off[m] \in Nat /\ p = off[m] + j
  BY <1>1, <1>4
<1> HIDE DEF p
<1>11. PICK o \in (p + 1)..Len(Row) : Row[o].id = r.id
  <2>1. \A x : x \in ToSet(Table) <=>
          \E b \in 1..Len(Row) : Row[b] = x /\ \A c \in (b + 1)..Len(Row) : Row[c].id # x.id
    BY TableMeans
  <2> QED
    BY <1>9, <2>1
<1>12. Len(Row) \in Nat /\ o \in 1..Len(Row) /\ p < o /\ o \in Nat /\ p \in Nat
  <2>1. n + 1 \in 1..(n + 1)
    BY <1>1
  <2>2. Len(Row) \in Nat
    BY <1>4, <2>1
  <2> QED
    BY <1>9, <2>2
<1>13. PICK i \in 1..n : \E l \in 1..Len(RulesOf(TreeOrder[i])) : o = off[i] + l
  BY <1>4, <1>12
<1>14. PICK l \in 1..Len(RulesOf(TreeOrder[i])) : o = off[i] + l
  BY <1>13
<1> DEFINE g == TreeOrder[i]
<1>15. g \in Sheets(tracker.compilation)
  BY <1>1
<1>16. /\ Len(RulesOf(g)) \in Nat /\ l \in 1..Len(RulesOf(g))
       /\ Numbered(g)[l] = [file |-> g, id |-> FirstId(g) + l - 1, rule |-> RulesOf(g)[l]]
  <2> HIDE DEF g
  <2>1. l \in 1..Len(RulesOf(g))
    BY <1>14 DEF g
  <2> QED
    BY <1>15, <2>1, NumberedMeans
<1>17. r.id = FirstId(g) + l - 1
  <2>1. Row[o] = Numbered(g)[l]
    BY <1>4, <1>14
  <2> QED
    BY <1>11, <1>16, <2>1
<1>18. FirstId(f) \in Nat /\ FirstId(g) \in Nat
  BY FirstIdOK
<1>19. /\ i \in Nat /\ m \in Nat /\ off[i] \in Nat /\ off[i + 1] = off[i] + Len(RulesOf(g))
       /\ off[i + 1] \in Nat
  <2>1. i \in 1..(n + 1) /\ i + 1 \in 1..(n + 1) /\ i \in Nat /\ m \in Nat
    BY <1>1
  <2>2. off[i] \in Nat /\ off[i + 1] \in Nat
    BY <1>4, <2>1
  <2>3. off[i + 1] = off[i] + Len(RulesOf(g))
    BY <1>4
  <2> QED
    BY <2>1, <2>2, <2>3
<1> HIDE DEF g
<1>20. ~(i < m)
  <2> SUFFICES ASSUME i < m PROVE FALSE
    OBVIOUS
  <2>1. \A x \in 1..n : off[x] <= off[x + 1]
    <3> SUFFICES ASSUME NEW x \in 1..n PROVE off[x] <= off[x + 1]
      OBVIOUS
    <3>1. x \in 1..(n + 1) /\ TreeOrder[x] \in Sheets(tracker.compilation)
      BY <1>1
    <3>2. off[x] \in Nat /\ Len(RulesOf(TreeOrder[x])) \in Nat
      BY <1>4, <3>1, NumberedMeans
    <3>3. off[x + 1] = off[x] + Len(RulesOf(TreeOrder[x]))
      BY <1>4
    <3> DEFINE len == Len(RulesOf(TreeOrder[x]))
    <3> HIDE DEF len
    <3> QED
      BY <3>2, <3>3 DEF len
  <2>2. \A x, y \in 1..(n + 1) : x <= y => off[x] <= off[y]
    BY <1>1, <1>4, <2>1, PlacesRise
  <2>3. i + 1 \in 1..(n + 1) /\ m \in 1..(n + 1) /\ i + 1 <= m
    BY <1>1, <1>19
  <2>4. off[i + 1] <= off[m]
    BY <2>2, <2>3
  <2>5. o <= off[i + 1]
    BY <1>14, <1>16, <1>19
  <2>6. j \in Nat /\ j > 0
    BY <1>6
  <2>7. off[m] < o
    BY <1>10, <1>12, <2>6
  <2> QED
    BY <1>10, <1>12, <1>19, <2>4, <2>5, <2>7, SMTT(30)
<1>21. i # m
  <2> SUFFICES ASSUME i = m PROVE FALSE
    OBVIOUS
  <2>1. g = f
    BY <1>5 DEF g
  <2>2. l = j
    BY <1>6, <1>8, <1>16, <1>17, <1>18, <2>1
  <2> QED
    BY <1>10, <1>12, <1>14, <2>2
<1>22. m < i /\ g # f
  <2>1. m < i
    BY <1>19, <1>20, <1>21
  <2> QED
    BY <1>1, <1>2, <1>5, <2>1 DEF Distinct, g
<1>23. ~(i <= a)
  <2> SUFFICES ASSUME i <= a PROVE FALSE
    OBVIOUS
  <2>1. i \in 1..a /\ m \in 1..a
    BY <1>2, <1>19, <1>22
  <2>2. Unedited[m] = f /\ Unedited[i] = g
    BY <1>2, <1>5, <2>1 DEF g
  <2>3. FirstId(f) + Len(RulesOf(f)) <= FirstId(g)
    <3>1. FirstId(Unedited[m]) + Len(RulesOf(Unedited[m])) <= FirstId(Unedited[i])
      BY <1>22, <2>1, NumbersLieApart DEF a
    <3> QED
      BY <2>2, <3>1
  <2> QED
    BY <1>6, <1>7, <1>8, <1>16, <1>17, <1>18, <2>3
<1>24. i - a \in DOMAIN alone /\ a + (i - a) = i
  BY <1>1, <1>2, <1>19, <1>23
<1>25. alone[i - a] = g
  BY <1>2, <1>24 DEF g
<1>26. g \in ToSet(alone) \ {f}
  BY <1>22, <1>24, <1>25 DEF ToSet
<1>27. r.id < Len(RulesOf(g))
  <2>1. FirstId(g) = 0
    BY <1>26 DEF FirstId
  <2> QED
    BY <1>16, <1>17, <2>1
<1>28. ASSUME f \in ToSet(alone)
       PROVE  Before(alone, f, g)
  <2>1. ~(m <= a)
    <3>1. m <= a => m \in 1..a
      BY <1>19
    <3> QED
      BY <1>2, <1>5, <1>28, <3>1
  <2>2. m - a \in DOMAIN alone /\ a + (m - a) = m /\ m - a < i - a
    BY <1>1, <1>2, <1>19, <1>22, <2>1
  <2>3. alone[m - a] = f
    BY <1>2, <1>5, <2>2
  <2> QED
    BY <1>24, <1>25, <2>2, <2>3 DEF Before
<1> QED
  BY <1>26, <1>27, <1>28

(* A rule is lost from the map only to a stylesheet that was edited after  *)
(* its own and has one of its number: the numbers of a full build lie      *)
(* apart, those of an edited stylesheet begin with none (nextSelectorId,   *)
(* buildSymbolTable).                                                      *)
THEOREM LostOnlyToNamesakes == TableSpec => []OnlyNamesakesAreLost
  BY TableInvHolds, LostToNamesakes, PTL
------------------------------------------------------------------------------
(* x stands in s before all y.                                             *)
Precedes(s, x, y) == \E i \in DOMAIN s : s[i] = x /\ \A j \in DOMAIN s : s[j] = y => i < j

First(s, x) == SelectInSeq(s, LAMBDA y : y = x)

LEMMA PrecedesOnce ==
  ASSUME NEW s, DOMAIN s \subseteq Nat, NEW x, NEW y, Precedes(s, x, y)
  PROVE  ~Precedes(s, y, x)
<1>1. PICK i \in DOMAIN s : s[i] = x /\ \A j \in DOMAIN s : s[j] = y => i < j
  BY DEF Precedes
<1> SUFFICES ASSUME NEW j \in DOMAIN s, s[j] = y, \A k \in DOMAIN s : s[k] = x => j < k PROVE FALSE
  BY DEF Precedes
<1>2. i < j /\ j < i /\ i \in Nat /\ j \in Nat
  BY <1>1
<1> QED
  BY <1>2

LEMMA FirstPlace ==
  ASSUME NEW s, Len(s) \in Nat, DOMAIN s = 1..Len(s), NEW x \in ToSet(s)
  PROVE  /\ First(s, x) \in DOMAIN s /\ s[First(s, x)] = x
         /\ \A j \in DOMAIN s : s[j] = x => First(s, x) <= j
<1> DEFINE I == {i \in 1..Len(s) : s[i] = x}
<1>1. I # {} /\ I \in SUBSET Nat
  BY DEF ToSet
<1>2. First(s, x) = IF I # {} THEN Min(I) ELSE 0
  BY DEF First, SelectInSeq
<1> HIDE DEF I
<1>3. \E i \in I : \A j \in I : i <= j
  BY <1>1, Least
<1>4. Min(I) \in I /\ \A j \in I : Min(I) <= j
  BY <1>3 DEF Min
<1> QED
  BY <1>1, <1>2, <1>4 DEF I

LEMMA FirstPrecedes ==
  ASSUME NEW s, Len(s) \in Nat, DOMAIN s = 1..Len(s), NEW x \in ToSet(s), NEW y \in ToSet(s)
  PROVE  First(s, x) < First(s, y) <=> Precedes(s, x, y)
<1> DEFINE p == First(s, x)
           q == First(s, y)
<1>1. /\ p \in DOMAIN s /\ s[p] = x /\ \A j \in DOMAIN s : s[j] = x => p <= j
      /\ q \in DOMAIN s /\ s[q] = y /\ \A j \in DOMAIN s : s[j] = y => q <= j
  BY FirstPlace
<1> HIDE DEF p, q
<1>2. \A j \in DOMAIN s : j \in Nat
  OBVIOUS
<1>3. ASSUME p < q PROVE Precedes(s, x, y)
  <2>1. \A j \in DOMAIN s : s[j] = y => p < j
    BY <1>1, <1>2, <1>3
  <2> QED
    BY <1>1, <2>1 DEF Precedes
<1>4. ASSUME Precedes(s, x, y) PROVE p < q
  <2>1. PICK i \in DOMAIN s : s[i] = x /\ \A j \in DOMAIN s : s[j] = y => i < j
    BY <1>4 DEF Precedes
  <2>2. p <= i /\ i < q
    BY <1>1, <2>1
  <2> QED
    BY <1>1, <1>2, <2>1, <2>2
<1> QED
  BY <1>3, <1>4 DEF p, q

(* Of two places, one comes first in all sequences in a row.               *)
LEMMA PlacesCompare ==
  ASSUME NEW ss, Len(ss) \in Nat, \A i \in 1..Len(ss) : Len(ss[i]) \in Nat,
         NEW flat, NEW off, Placed(ss, flat, off),
         NEW i \in 1..Len(ss), NEW j \in 1..Len(ss), NEW a \in 1..Len(ss[i]), NEW b \in 1..Len(ss[j])
  PROVE  off[i] + a < off[j] + b <=> (i < j \/ (i = j /\ a < b))
<1> DEFINE n == Len(ss)
           long(k) == Len(ss[k])
<1>1. /\ n \in Nat /\ off \in [1..(n + 1) -> Nat]
      /\ \A k \in 1..n : off[k + 1] = off[k] + long(k)
      /\ \A k \in 1..n : long(k) \in Nat
  BY DEF Placed
<1>2. i \in 1..n /\ j \in 1..n /\ a \in 1..long(i) /\ b \in 1..long(j)
  OBVIOUS
<1> HIDE DEF n, long
<1>3. \A k \in 1..n : k \in 1..(n + 1) /\ k + 1 \in 1..(n + 1)
  BY <1>1
<1>4. \A k \in 1..n : off[k] \in Nat /\ off[k + 1] \in Nat
  BY <1>1, <1>3
<1>5. \A k, l \in 1..(n + 1) : k <= l => off[k] <= off[l]
  <2>1. \A k \in 1..n : off[k] <= off[k + 1]
    BY <1>1, <1>4
  <2> QED
    BY <1>1, <2>1, PlacesRise
<1>6. ASSUME NEW k \in 1..n, NEW l \in 1..n, k < l, NEW c \in 1..long(k), NEW d \in 1..long(l)
      PROVE  off[k] + c < off[l] + d
  <2>1. k + 1 <= l
    BY <1>1, <1>6
  <2>2. off[k + 1] <= off[l]
    BY <1>3, <1>5, <2>1
  <2> DEFINE x == off[k]
             y == off[l]
             z == long(k)
  <2>3. x \in Nat /\ y \in Nat /\ z \in Nat /\ x + z <= y
    BY <1>1, <1>4, <2>2
  <2>4. c \in 1..z /\ d \in Nat /\ 0 < d
    BY <1>1
  <2> HIDE DEF x, y, z
  <2>5. x + c < y + d
    BY <2>3, <2>4
  <2> QED
    BY <2>5 DEF x, y
<1> DEFINE x == off[i]
           y == off[j]
<1>7. x \in Nat /\ y \in Nat /\ a \in Nat /\ b \in Nat /\ i \in Nat /\ j \in Nat
  BY <1>1, <1>2, <1>4
<1>8. (i < j => x + a < y + b) /\ (j < i => y + b < x + a) /\ (i = j => x = y)
  BY <1>2, <1>6
<1> HIDE DEF x, y
<1>9. x + a < y + b <=> (i < j \/ (i = j /\ a < b))
  BY <1>7, <1>8
<1> QED
  BY <1>9 DEF x, y

(* x stands in the sequences in a row before all y.                        *)
Ahead(ss, x, y) ==
  \E i \in 1..Len(ss) : \E a \in 1..Len(ss[i]) :
    /\ ss[i][a] = x
    /\ \A j \in 1..Len(ss) : \A b \in 1..Len(ss[j]) :
         ss[j][b] = y => (i < j \/ (i = j /\ a < b))

LEMMA FlattenPrecedes ==
  ASSUME NEW X, NEW ss \in Seq(Seq(X)), NEW x, NEW y
  PROVE  Precedes(FlattenSeq(ss), x, y) <=> Ahead(ss, x, y)
<1> DEFINE flat == FlattenSeq(ss)
<1>1. flat \in Seq(X) /\ \E off : Placed(ss, flat, off)
  BY FlattenPlaces
<1>2. PICK off : Placed(ss, flat, off)
  BY <1>1
<1>3. DOMAIN flat = 1..Len(flat) /\ Len(flat) \in Nat
  BY <1>1
<1> HIDE DEF flat
<1>4. Len(ss) \in Nat /\ \A i \in 1..Len(ss) : Len(ss[i]) \in Nat
  <2>1. \A i \in 1..Len(ss) : ss[i] \in Seq(X)
    OBVIOUS
  <2> QED
    BY <2>1
<1>5. \A i \in 1..Len(ss) : \A a \in 1..Len(ss[i]) :
        off[i] + a \in DOMAIN flat /\ flat[off[i] + a] = ss[i][a]
  BY <1>2, <1>3 DEF Placed
<1>6. \A p \in DOMAIN flat : \E i \in 1..Len(ss) : \E a \in 1..Len(ss[i]) : p = off[i] + a
  BY <1>2, <1>3 DEF Placed
<1>7. \A i, j \in 1..Len(ss) : \A a \in 1..Len(ss[i]) : \A b \in 1..Len(ss[j]) :
        off[i] + a < off[j] + b <=> (i < j \/ (i = j /\ a < b))
  BY <1>2, <1>4, PlacesCompare
<1>8. ASSUME Precedes(flat, x, y) PROVE Ahead(ss, x, y)
  <2>1. PICK p \in DOMAIN flat : flat[p] = x /\ \A q \in DOMAIN flat : flat[q] = y => p < q
    BY <1>8 DEF Precedes
  <2>2. PICK i \in 1..Len(ss) : \E a \in 1..Len(ss[i]) : p = off[i] + a
    BY <1>6
  <2>3. PICK a \in 1..Len(ss[i]) : p = off[i] + a
    BY <2>2
  <2>4. ss[i][a] = x
    BY <1>5, <2>1, <2>3
  <2>5. ASSUME NEW j \in 1..Len(ss), NEW b \in 1..Len(ss[j]), ss[j][b] = y
        PROVE  i < j \/ (i = j /\ a < b)
    <3>1. off[i] + a < off[j] + b
      BY <1>5, <2>1, <2>3, <2>5
    <3> QED
      BY <1>7, <3>1
  <2> QED
    BY <2>4, <2>5 DEF Ahead
<1>9. ASSUME Ahead(ss, x, y) PROVE Precedes(flat, x, y)
  <2>1. PICK i \in 1..Len(ss) : \E a \in 1..Len(ss[i]) :
          /\ ss[i][a] = x
          /\ \A j \in 1..Len(ss) : \A b \in 1..Len(ss[j]) :
               ss[j][b] = y => (i < j \/ (i = j /\ a < b))
    BY <1>9 DEF Ahead
  <2>2. PICK a \in 1..Len(ss[i]) :
          /\ ss[i][a] = x
          /\ \A j \in 1..Len(ss) : \A b \in 1..Len(ss[j]) :
               ss[j][b] = y => (i < j \/ (i = j /\ a < b))
    BY <2>1
  <2>3. off[i] + a \in DOMAIN flat /\ flat[off[i] + a] = x
    BY <1>5, <2>2
  <2>4. ASSUME NEW q \in DOMAIN flat, flat[q] = y PROVE off[i] + a < q
    <3>1. PICK j \in 1..Len(ss) : \E b \in 1..Len(ss[j]) : q = off[j] + b
      BY <1>6
    <3>2. PICK b \in 1..Len(ss[j]) : q = off[j] + b
      BY <3>1
    <3>3. ss[j][b] = y
      BY <1>5, <2>4, <3>2
    <3> QED
      BY <1>7, <2>2, <3>2, <3>3
  <2> QED
    BY <2>3, <2>4 DEF Precedes
<1> QED
  BY <1>8, <1>9 DEF flat

(* In a sequence without repetition, Before is the order of the places.    *)
LEMMA BeforeIsPlace ==
  ASSUME NEW s, Distinct(s), NEW i \in DOMAIN s, NEW j \in DOMAIN s
  PROVE  Before(s, s[i], s[j]) <=> i < j
<1>1. ASSUME Before(s, s[i], s[j]) PROVE i < j
  <2>1. PICK k, l \in DOMAIN s : k < l /\ s[k] = s[i] /\ s[l] = s[j]
    BY <1>1 DEF Before
  <2>2. k = i /\ l = j
    BY <2>1 DEF Distinct
  <2> QED
    BY <2>1, <2>2
<1>2. ASSUME i < j PROVE Before(s, s[i], s[j])
  BY <1>2 DEF Before
<1> QED
  BY <1>1, <1>2

(* What is kept comes in the order in which it came.                       *)
LEMMA KeptBefore ==
  ASSUME NEW X, NEW s \in Seq(X), Distinct(s), NEW K,
         NEW f \in ToSet(s) \cap K, NEW g \in ToSet(s) \cap K
  PROVE  Before(KeptIn(s, K), f, g) <=> Before(s, f, g)
<1> DEFINE kept == KeptIn(s, K)
<1>1. PICK at \in [DOMAIN kept -> DOMAIN s] :
        /\ \A p \in DOMAIN kept : kept[p] = s[at[p]]
        /\ \A p, q \in DOMAIN kept : p < q => at[p] < at[q]
  BY KeptInOrder
<1>2. kept \in Seq(X) /\ ToSet(kept) = ToSet(s) \cap K /\ Distinct(kept)
  BY KeptMeans, KeptIsDistinct
<1> HIDE DEF kept
<1>3. Len(kept) \in Nat /\ DOMAIN kept = 1..Len(kept) /\ Len(s) \in Nat /\ DOMAIN s = 1..Len(s)
  BY <1>2
<1>4. PICK p \in DOMAIN kept : kept[p] = f
  BY <1>2, <1>3 DEF ToSet
<1>5. PICK q \in DOMAIN kept : kept[q] = g
  BY <1>2, <1>3 DEF ToSet
<1>6. Before(kept, f, g) <=> p < q
  BY <1>2, <1>4, <1>5, BeforeIsPlace
<1>7. at[p] \in DOMAIN s /\ at[q] \in DOMAIN s /\ s[at[p]] = f /\ s[at[q]] = g
  BY <1>1, <1>4, <1>5
<1>8. Before(s, f, g) <=> at[p] < at[q]
  BY <1>7, BeforeIsPlace
<1>9. at[p] < at[q] => p < q
  <2>1. p \in Nat /\ q \in Nat /\ at[p] \in Nat /\ at[q] \in Nat
    BY <1>3, <1>7
  <2>2. q < p => at[q] < at[p]
    BY <1>1
  <2>3. q = p => at[q] = at[p]
    OBVIOUS
  <2> QED
    BY <2>1, <2>2, <2>3
<1> QED
  BY <1>1, <1>6, <1>8, <1>9 DEF kept

(* In the layers that the stylesheets of an order name, L comes before all *)
(* M, in terms of the stylesheets.                                         *)
LayersOf(f) == Layers(f, tracker.compilation.css[f])
NamedAhead(order, L, M) ==
  \E f \in ToSet(order) : \E a \in 1..Len(LayersOf(f)) :
    /\ LayersOf(f)[a] = L
    /\ \A g \in ToSet(order) : \A b \in 1..Len(LayersOf(g)) :
         LayersOf(g)[b] = M => (Before(order, f, g) \/ (f = g /\ a < b))

LEMMA LayersPrecede ==
  ASSUME NEW Y, NEW X, NEW order \in Seq(X), Distinct(order),
         \A f \in ToSet(order) : LayersOf(f) \in Seq(Y), NEW L, NEW M
  PROVE  /\ LayersIn(order) \in Seq(Y)
         /\ Precedes(LayersIn(order), L, M) <=> NamedAhead(order, L, M)
<1> DEFINE ss == [i \in DOMAIN order |-> LayersOf(order[i])]
           n == Len(order)
<1>1. n \in Nat /\ DOMAIN order = 1..n /\ \A f : f \in ToSet(order) <=> \E i \in 1..n : f = order[i]
  BY DEF ToSet
<1> HIDE DEF n
<1>2. ss \in [1..n -> Seq(Y)] /\ \A i \in 1..n : ss[i] = LayersOf(order[i])
  BY <1>1
<1>3. LayersIn(order) = FlattenSeq(ss)
  BY DEF LayersIn, LayersOf
<1> HIDE DEF ss
<1>4. ss \in Seq(Seq(Y)) /\ Len(ss) = n
  BY <1>1, <1>2
<1>5. LayersIn(order) \in Seq(Y) /\ (Precedes(LayersIn(order), L, M) <=> Ahead(ss, L, M))
  BY <1>3, <1>4, FlattenPlaces, FlattenPrecedes
<1>6. ASSUME Ahead(ss, L, M) PROVE NamedAhead(order, L, M)
  <2>1. PICK i \in 1..n : \E a \in 1..Len(ss[i]) :
          /\ ss[i][a] = L
          /\ \A j \in 1..n : \A b \in 1..Len(ss[j]) :
               ss[j][b] = M => (i < j \/ (i = j /\ a < b))
    BY <1>4, <1>6 DEF Ahead
  <2>2. PICK a \in 1..Len(ss[i]) :
          /\ ss[i][a] = L
          /\ \A j \in 1..n : \A b \in 1..Len(ss[j]) :
               ss[j][b] = M => (i < j \/ (i = j /\ a < b))
    BY <2>1
  <2>3. ASSUME NEW g \in ToSet(order), NEW b \in 1..Len(LayersOf(g)), LayersOf(g)[b] = M
        PROVE  Before(order, order[i], g) \/ (order[i] = g /\ a < b)
    <3>1. PICK j \in 1..n : g = order[j]
      BY <1>1
    <3>2. i < j \/ (i = j /\ a < b)
      BY <1>2, <2>2, <2>3, <3>1
    <3> QED
      BY <1>1, <3>1, <3>2, BeforeIsPlace
  <2>4. order[i] \in ToSet(order) /\ a \in 1..Len(LayersOf(order[i])) /\ LayersOf(order[i])[a] = L
    BY <1>1, <1>2, <2>2
  <2> QED
    BY <2>3, <2>4 DEF NamedAhead
<1>7. ASSUME NamedAhead(order, L, M) PROVE Ahead(ss, L, M)
  <2>1. PICK f \in ToSet(order) : \E a \in 1..Len(LayersOf(f)) :
          /\ LayersOf(f)[a] = L
          /\ \A g \in ToSet(order) : \A b \in 1..Len(LayersOf(g)) :
               LayersOf(g)[b] = M => (Before(order, f, g) \/ (f = g /\ a < b))
    BY <1>7 DEF NamedAhead
  <2>2. PICK a \in 1..Len(LayersOf(f)) :
          /\ LayersOf(f)[a] = L
          /\ \A g \in ToSet(order) : \A b \in 1..Len(LayersOf(g)) :
               LayersOf(g)[b] = M => (Before(order, f, g) \/ (f = g /\ a < b))
    BY <2>1
  <2>3. PICK i \in 1..n : f = order[i]
    BY <1>1
  <2>4. ASSUME NEW j \in 1..n, NEW b \in 1..Len(ss[j]), ss[j][b] = M
        PROVE  i < j \/ (i = j /\ a < b)
    <3>1. order[j] \in ToSet(order) /\ b \in 1..Len(LayersOf(order[j])) /\ LayersOf(order[j])[b] = M
      BY <1>1, <1>2, <2>4
    <3>2. Before(order, f, order[j]) \/ (f = order[j] /\ a < b)
      BY <2>2, <3>1
    <3>3. f = order[j] => i = j
      BY <1>1, <2>3 DEF Distinct
    <3>4. Before(order, f, order[j]) <=> i < j
      BY <1>1, <2>3, BeforeIsPlace
    <3> QED
      BY <3>2, <3>3, <3>4
  <2>5. a \in 1..Len(ss[i]) /\ ss[i][a] = L
    BY <1>2, <2>2, <2>3
  <2> QED
    BY <1>4, <2>4, <2>5 DEF Ahead
<1> QED
  BY <1>5, <1>6, <1>7

(* The layers that an order's stylesheets name.                            *)
LEMMA LayersAreNamed ==
  ASSUME NEW Y, NEW X, NEW order \in Seq(X),
         \A f \in ToSet(order) : LayersOf(f) \in Seq(Y)
  PROVE  ToSet(LayersIn(order)) = UNION {ToSet(LayersOf(f)) : f \in ToSet(order)}
<1> DEFINE ss == [i \in DOMAIN order |-> LayersOf(order[i])]
           n == Len(order)
           flat == LayersIn(order)
<1>1. n \in Nat /\ DOMAIN order = 1..n /\ \A f : f \in ToSet(order) <=> \E i \in 1..n : f = order[i]
  BY DEF ToSet
<1> HIDE DEF n
<1>2. ss \in [1..n -> Seq(Y)] /\ \A i \in 1..n : ss[i] = LayersOf(order[i])
  BY <1>1
<1>3. flat = FlattenSeq(ss)
  BY DEF LayersIn, LayersOf
<1> HIDE DEF ss, flat
<1>4. ss \in Seq(Seq(Y)) /\ Len(ss) = n
  BY <1>1, <1>2
<1>5. flat \in Seq(Y) /\ \E off : Placed(ss, flat, off)
  BY <1>3, <1>4, FlattenPlaces
<1>6. PICK off : Placed(ss, flat, off)
  BY <1>5
<1>7. DOMAIN flat = 1..Len(flat)
  BY <1>5
<1>8. \A i \in 1..n : DOMAIN ss[i] = 1..Len(ss[i])
  <2>1. \A i \in 1..n : ss[i] \in Seq(Y)
    BY <1>2
  <2> QED
    BY <2>1
<1>9. ASSUME NEW x \in ToSet(flat) PROVE \E f \in ToSet(order) : x \in ToSet(LayersOf(f))
  <2>1. PICK p \in 1..Len(flat) : x = flat[p]
    BY <1>7 DEF ToSet
  <2>2. PICK i \in 1..n : \E j \in 1..Len(ss[i]) : p = off[i] + j
    BY <1>4, <1>6 DEF Placed
  <2>3. PICK j \in 1..Len(ss[i]) : p = off[i] + j
    BY <2>2
  <2>4. x = ss[i][j]
    BY <1>4, <1>6, <2>1, <2>3 DEF Placed
  <2>5. x \in ToSet(ss[i])
    BY <1>8, <2>4 DEF ToSet
  <2> QED
    BY <1>1, <1>2, <2>5
<1>10. ASSUME NEW f \in ToSet(order), NEW x \in ToSet(LayersOf(f)) PROVE x \in ToSet(flat)
  <2>1. PICK i \in 1..n : f = order[i]
    BY <1>1
  <2>2. PICK j \in 1..Len(ss[i]) : x = ss[i][j]
    BY <1>2, <1>8, <2>1 DEF ToSet
  <2>3. off[i] + j \in 1..Len(flat) /\ flat[off[i] + j] = x
    BY <1>4, <1>6, <2>2 DEF Placed
  <2> QED
    BY <1>7, <2>3 DEF ToSet
<1> QED
  BY <1>9, <1>10 DEF flat

(* The map from layers to their order, as it is filled.                    *)
LEMMA MapFills ==
  ASSUME NEW Y, NEW q \in Seq(Y)
  PROVE  \E t : /\ t[0] = <<>> /\ \A k \in 0..Len(q) : t[k] \in Seq(Y)
                /\ \A k \in 1..Len(q) : t[k] = Registered(t[k - 1], q[k])
                /\ FoldLeft(Registered, <<>>, q) = t[Len(q)]
<1> DEFINE n == Len(q)
           Fill(f, s) == IF s = {} THEN <<>> ELSE Registered(f[s \ {Max(s)}], q[Max(s)])
           step == [x \in Seq(Y) \X (1..n) |-> Registered(x[1], q[x[2]])]
<1>1. n \in Nat /\ DOMAIN q = 1..n /\ \A k \in 1..n : q[k] \in Y
  OBVIOUS
<1> HIDE DEF n
<1>2. \A map \in Seq(Y), y \in Y : Registered(map, y) \in Seq(Y)
  BY DEF Registered
<1>3. step \in [Seq(Y) \X (1..n) -> Seq(Y)] /\ <<>> \in Seq(Y)
  BY <1>1, <1>2
<1>4. \A map \in Seq(Y), k \in 1..n : step[<<map, k>>] = Registered(map, q[k])
  OBVIOUS
<1> HIDE DEF step
<1>5. PICK f \in [SUBSET (1..n) -> Seq(Y)] : Folds(f, n, <<>>, step)
  BY <1>1, <1>3, FoldRuns
<1>6. \A s \in SUBSET (1..n) : f[s] = Fill(f, s)
  <2> SUFFICES ASSUME NEW s \in SUBSET (1..n) PROVE f[s] = Fill(f, s)
    OBVIOUS
  <2>1. f[s] = IF s = {} THEN <<>> ELSE step[<<f[s \ {Max(s)}], Max(s)>>]
    BY <1>5 DEF Folds
  <2>2. CASE s = {}
    BY <2>1, <2>2
  <2>3. CASE s # {}
    <3>1. Max(s) \in s /\ s \ {Max(s)} \in SUBSET (1..(n - 1))
      BY <1>1, <2>3, LastPlace
    <3>2. Max(s) \in 1..n /\ f[s \ {Max(s)}] \in Seq(Y)
      BY <3>1
    <3> QED
      BY <1>4, <2>1, <2>3, <3>2
  <2> QED
    BY <2>2, <2>3
<1>7. f = [s \in SUBSET (1..n) |-> Fill(f, s)]
  BY <1>6
<1> DEFINE iter == CHOOSE g : g = [s \in SUBSET (1..n) |-> Fill(g, s)]
<1>8. iter = [s \in SUBSET (1..n) |-> Fill(iter, s)]
  BY <1>7
<1>9. FoldLeft(Registered, <<>>, q) = iter[1..n]
  BY <1>1 DEF FoldLeft, MapThenFoldSet
<1> HIDE DEF iter
<1> DEFINE T == {k \in 0..n : iter[1..k] \notin Seq(Y)}
<1>10. T = {}
  <2> SUFFICES ASSUME T # {} PROVE FALSE
    OBVIOUS
  <2>1. T \in SUBSET Nat
    BY <1>1
  <2>2. PICK k \in T : \A j \in T : k <= j
    BY <2>1, Least
  <2>3. k # 0
    <3> SUFFICES ASSUME k = 0 PROVE FALSE
      OBVIOUS
    <3>1. 1..k = {} /\ {} \in SUBSET (1..n)
      OBVIOUS
    <3>2. iter[{}] = <<>>
      BY <1>8, <3>1
    <3> QED
      BY <1>3, <3>1, <3>2
  <2>4. k \in 1..n /\ k - 1 \in 0..n /\ ~(k <= k - 1)
    BY <1>1, <2>3
  <2>5. iter[1..(k - 1)] \in Seq(Y)
    BY <2>2, <2>4
  <2>6. /\ 1..k \in SUBSET (1..n) /\ 1..k # {} /\ Max(1..k) = k /\ (1..k) \ {k} = 1..(k - 1)
    BY <1>1, <2>4, FoldPlaces
  <2>7. iter[1..k] = Registered(iter[(1..k) \ {Max(1..k)}], q[Max(1..k)])
    BY <1>8, <2>6
  <2>8. iter[1..k] = Registered(iter[1..(k - 1)], q[k])
    BY <2>6, <2>7
  <2>9. iter[1..k] \in Seq(Y)
    <3> DEFINE a == iter[1..(k - 1)]
               b == q[k]
    <3>1. a \in Seq(Y) /\ b \in Y /\ iter[1..k] = Registered(a, b)
      BY <1>1, <2>4, <2>5, <2>8
    <3> HIDE DEF a, b
    <3>2. Registered(a, b) \in Seq(Y)
      BY <1>2, <3>1
    <3> QED
      BY <3>1, <3>2
  <2> QED
    BY <2>2, <2>9
<1> DEFINE t == [k \in 0..n |-> iter[1..k]]
<1>11. \A k \in 0..n : t[k] \in Seq(Y)
  BY <1>10
<1>12. t[0] = <<>>
  <2>1. 1..0 = {} /\ {} \in SUBSET (1..n)
    OBVIOUS
  <2>2. iter[{}] = <<>>
    BY <1>8, <2>1
  <2> QED
    BY <1>1, <2>1, <2>2
<1>13. \A k \in 1..n : t[k] = Registered(t[k - 1], q[k])
  <2> SUFFICES ASSUME NEW k \in 1..n PROVE t[k] = Registered(t[k - 1], q[k])
    OBVIOUS
  <2>1. /\ 1..k \in SUBSET (1..n) /\ 1..k # {} /\ Max(1..k) = k /\ (1..k) \ {k} = 1..(k - 1)
    BY <1>1, FoldPlaces
  <2>2. iter[1..k] = Registered(iter[(1..k) \ {Max(1..k)}], q[Max(1..k)])
    BY <1>8, <2>1
  <2>3. iter[1..k] = Registered(iter[1..(k - 1)], q[k])
    BY <2>1, <2>2
  <2>4. k \in 0..n /\ k - 1 \in 0..n
    BY <1>1
  <2> QED
    BY <2>3, <2>4
<1>14. FoldLeft(Registered, <<>>, q) = t[n]
  BY <1>1, <1>9
<1> HIDE DEF t
<1> QED
  BY <1>11, <1>12, <1>13, <1>14 DEF n

(* What the map has after k names: these, each at its first place.         *)
Listed(map, q, k) ==
  /\ ToSet(map) = {q[i] : i \in 1..k}
  /\ \A i, j \in DOMAIN map : i < j =>
       \E a \in 1..k : q[a] = map[i] /\ \A b \in 1..k : q[b] = map[j] => a < b

LEMMA RegisteredLists ==
  ASSUME NEW Y, NEW q, NEW k \in Nat \ {0}, NEW map \in Seq(Y), q[k] \in Y, Listed(map, q, k - 1)
  PROVE  Listed(Registered(map, q[k]), q, k)
<1>1. Len(map) \in Nat /\ DOMAIN map = 1..Len(map)
  OBVIOUS
<1>2. 1..k = (1..(k - 1)) \cup {k} /\ \A a \in 1..(k - 1) : a \in 1..k /\ a < k
  OBVIOUS
<1>3. ToSet(map) = {q[i] : i \in 1..(k - 1)}
  BY DEF Listed
<1>4. ASSUME NEW i \in DOMAIN map, NEW j \in DOMAIN map, i < j
      PROVE  \E a \in 1..k : q[a] = map[i] /\ \A b \in 1..k : q[b] = map[j] => a < b
  <2>1. PICK a \in 1..(k - 1) : q[a] = map[i] /\ \A b \in 1..(k - 1) : q[b] = map[j] => a < b
    BY <1>4 DEF Listed
  <2>2. \A b \in 1..k : q[b] = map[j] => a < b
    BY <1>2, <2>1
  <2> QED
    BY <1>2, <2>1, <2>2
<1>5. CASE q[k] \in ToSet(map)
  <2>1. Registered(map, q[k]) = map
    BY <1>5 DEF Registered
  <2>2. ToSet(map) = {q[i] : i \in 1..k}
    BY <1>2, <1>3, <1>5
  <2> QED
    BY <1>4, <2>1, <2>2 DEF Listed
<1>6. CASE q[k] \notin ToSet(map)
  <2> DEFINE y == q[k]
             new == Append(map, y)
             n == Len(map)
  <2>1. Registered(map, y) = new
    BY <1>6 DEF Registered
  <2>2. /\ n \in Nat /\ DOMAIN map = 1..n /\ DOMAIN new = 1..(n + 1) /\ new[n + 1] = y
        /\ \A i \in 1..n : new[i] = map[i]
    BY <1>1
  <2> HIDE DEF new, n
  <2>3. ToSet(new) = ToSet(map) \cup {y}
    <3>1. 1..(n + 1) = (1..n) \cup {n + 1}
      BY <2>2
    <3> QED
      BY <2>2, <3>1 DEF ToSet
  <2>4. ToSet(new) = {q[i] : i \in 1..k}
    BY <1>2, <1>3, <2>3
  <2>5. ASSUME NEW i \in DOMAIN new, NEW j \in DOMAIN new, i < j
        PROVE  \E a \in 1..k : q[a] = new[i] /\ \A b \in 1..k : q[b] = new[j] => a < b
    <3>1. CASE j = n + 1
      <4>1. i \in 1..n /\ new[i] = map[i] /\ new[j] = y
        BY <2>2, <2>5, <3>1
      <4>2. map[i] \in ToSet(map)
        BY <2>2, <4>1 DEF ToSet
      <4>3. PICK a \in 1..(k - 1) : q[a] = map[i]
        BY <1>3, <4>2
      <4>4. \A b \in 1..(k - 1) : q[b] # y
        BY <1>3, <1>6
      <4>5. \A b \in 1..k : q[b] = y => a < b
        BY <1>2, <4>3, <4>4
      <4> QED
        BY <1>2, <4>1, <4>3, <4>5
    <3>2. CASE j # n + 1
      <4>1. i \in DOMAIN map /\ j \in DOMAIN map /\ new[i] = map[i] /\ new[j] = map[j]
        BY <2>2, <2>5, <3>2
      <4> QED
        BY <1>4, <2>5, <4>1
    <3> QED
      BY <3>1, <3>2
  <2> QED
    BY <2>1, <2>4, <2>5 DEF Listed
<1> QED
  BY <1>5, <1>6

(* The map lists every layer at the first place where it is named.         *)
LEMMA MapIsInOrder ==
  ASSUME NEW Y, NEW q \in Seq(Y)
  PROVE  LET map == FoldLeft(Registered, <<>>, q)
         IN  /\ map \in Seq(Y) /\ ToSet(map) = ToSet(q)
             /\ \A x, y \in ToSet(q) : First(map, x) < First(map, y) <=> Precedes(q, x, y)
<1> DEFINE n == Len(q)
           map == FoldLeft(Registered, <<>>, q)
<1>1. n \in Nat /\ DOMAIN q = 1..n /\ \A k \in 1..n : q[k] \in Y
  OBVIOUS
<1>2. PICK t : /\ t[0] = <<>> /\ \A k \in 0..n : t[k] \in Seq(Y)
               /\ \A k \in 1..n : t[k] = Registered(t[k - 1], q[k])
               /\ map = t[n]
  BY MapFills
<1> HIDE DEF n, map
<1> DEFINE T == {k \in 0..n : ~Listed(t[k], q, k)}
<1>3. T = {}
  <2> SUFFICES ASSUME T # {} PROVE FALSE
    OBVIOUS
  <2>1. T \in SUBSET Nat
    BY <1>1
  <2>2. PICK k \in T : \A j \in T : k <= j
    BY <2>1, Least
  <2>3. CASE k = 0
    <3>1. 1..0 = {} /\ DOMAIN <<>> = {}
      OBVIOUS
    <3>2. Listed(<<>>, q, 0)
      BY <3>1 DEF Listed, ToSet
    <3> QED
      BY <1>2, <2>2, <2>3, <3>2
  <2>4. CASE k # 0
    <3>1. k \in 1..n /\ k - 1 \in 0..n /\ k \in Nat \ {0} /\ ~(k <= k - 1)
      BY <1>1, <2>4
    <3> DEFINE before == t[k - 1]
    <3>2. Listed(before, q, k - 1) /\ before \in Seq(Y) /\ t[k] = Registered(before, q[k])
      BY <1>2, <2>2, <3>1
    <3> HIDE DEF before
    <3>3. Listed(Registered(before, q[k]), q, k)
      BY <1>1, <3>1, <3>2, RegisteredLists
    <3> QED
      BY <2>2, <3>2, <3>3
  <2> QED
    BY <2>3, <2>4
<1>4. map \in Seq(Y) /\ Listed(map, q, n)
  BY <1>1, <1>2, <1>3, SMTT(30)
<1>5. Len(map) \in Nat /\ DOMAIN map = 1..Len(map)
  BY <1>4
<1>6. ToSet(map) = ToSet(q)
  BY <1>1, <1>4 DEF Listed, ToSet
<1>7. ASSUME NEW x \in ToSet(q), NEW y \in ToSet(q), First(map, x) < First(map, y)
      PROVE  Precedes(q, x, y)
  <2>1. /\ First(map, x) \in DOMAIN map /\ map[First(map, x)] = x
        /\ First(map, y) \in DOMAIN map /\ map[First(map, y)] = y
    BY <1>5, <1>6, FirstPlace
  <2>2. \E a \in 1..n : q[a] = x /\ \A b \in 1..n : q[b] = y => a < b
    BY <1>4, <1>7, <2>1 DEF Listed
  <2> QED
    BY <1>1, <2>2 DEF Precedes
<1>8. ASSUME NEW x \in ToSet(q), NEW y \in ToSet(q), Precedes(q, x, y)
      PROVE  First(map, x) < First(map, y)
  <2>1. DOMAIN q \subseteq Nat
    BY <1>1
  <2>2. ~Precedes(q, y, x)
    BY <1>8, <2>1, PrecedesOnce
  <2>3. x # y
    BY <1>8, <2>2
  <2>4. /\ First(map, x) \in DOMAIN map /\ map[First(map, x)] = x
        /\ First(map, y) \in DOMAIN map /\ map[First(map, y)] = y
    BY <1>5, <1>6, FirstPlace
  <2>5. First(map, x) # First(map, y) /\ ~(First(map, y) < First(map, x))
    BY <1>7, <2>2, <2>3, <2>4
  <2>6. First(map, x) \in Nat /\ First(map, y) \in Nat
    BY <1>5, <2>4
  <2> QED
    BY <2>5, <2>6
<1> QED
  BY <1>4, <1>6, <1>7, <1>8 DEF map

(* The stylesheets of the compilation in the order of the full build, and  *)
(* what they name.                                                         *)
SheetsInOrder == Kept(FileOrder, LAMBDA f : f \in Sheets(tracker.compilation))

(* The layers of a stylesheet are sequences of names.                      *)
LEMMA SheetLayers ==
  ASSUME TableInv
  PROVE  \E N : \A f \in Sheets(tracker.compilation) : LayersOf(f) \in Seq(Seq(N))
<1> DEFINE S == Sheets(tracker.compilation)
           N == UNION {UNION {ToSet(l) : l \in ToSet(LayersOf(f))} : f \in S}
<1>1. ASSUME NEW f \in S PROVE LayersOf(f) \in Seq(Seq(N))
  <2> DEFINE ls == LayersOf(f)
  <2>1. f \in Css /\ tracker.compilation.css[f] \in Trees[f]
    BY SheetRules
  <2>2. ls \in Seq(ToSet(ls)) /\ \A l \in ToSet(ls) : l \in Seq(ToSet(l))
    BY <2>1, RulesAssumption DEF LayersOf
  <2>3. \A l \in ToSet(ls) : ToSet(l) \subseteq N
    OBVIOUS
  <2> HIDE DEF ls, N
  <2>4. \A l \in ToSet(ls) : l \in Seq(N)
    BY <2>2, <2>3
  <2>5. ToSet(ls) \subseteq Seq(N)
    BY <2>4
  <2>6. ls \in Seq(Seq(N))
    BY <2>2, <2>5
  <2> QED
    BY <2>6 DEF ls
<1> QED
  BY <1>1

LEMMA SheetsStandInOrder ==
  ASSUME TableInv
  PROVE  /\ SheetsInOrder \in Seq(Css) /\ Distinct(SheetsInOrder)
         /\ ToSet(SheetsInOrder) = Sheets(tracker.compilation)
         /\ \A f, g \in Sheets(tracker.compilation) :
              Before(SheetsInOrder, f, g) <=> Before(FileOrder, f, g)
<1> DEFINE S == Sheets(tracker.compilation)
<1>1. S \subseteq Css
  BY CompilationFiles DEF TableInv, IInv, HandleOK, Typed, Handles
<1>2. FileOrder \in Seq(Css) /\ ToSet(FileOrder) = Css /\ Distinct(FileOrder)
  BY OrderAssumption DEF Distinct
<1>3. SheetsInOrder = KeptIn(FileOrder, S)
  BY DEF SheetsInOrder, Kept, KeptIn
<1> HIDE DEF S
<1>4. KeptIn(FileOrder, S) \in Seq(Css) /\ ToSet(KeptIn(FileOrder, S)) = Css \cap S /\ Distinct(KeptIn(FileOrder, S))
  BY <1>2, KeptMeans, KeptIsDistinct
<1>5. \A f, g \in Css \cap S : Before(KeptIn(FileOrder, S), f, g) <=> Before(FileOrder, f, g)
  BY <1>2, KeptBefore
<1>6. Css \cap S = S
  BY <1>1
<1> QED
  BY <1>3, <1>4, <1>5, <1>6 DEF S

(* In the compilation's own order the unedited stylesheets stand alike.    *)
LEMMA UneditedStandAlike ==
  ASSUME TableInv,
         NEW f \in Sheets(tracker.compilation) \ ToSet(alone),
         NEW g \in Sheets(tracker.compilation) \ ToSet(alone)
  PROVE  Before(TreeOrder, f, g) <=> Before(FileOrder, f, g)
<1> DEFINE S == Sheets(tracker.compilation)
           u == Unedited
<1>1. S \subseteq Css
  BY CompilationFiles DEF TableInv, IInv, HandleOK, Typed, Handles
<1>2. FileOrder \in Seq(Css) /\ ToSet(FileOrder) = Css /\ Distinct(FileOrder)
  BY OrderAssumption DEF Distinct
<1>3. Before(u, f, g) <=> Before(FileOrder, f, g)
  BY <1>1, <1>2, KeptBefore DEF Unedited
<1>4. TreeOrder = u \o alone /\ u \in Seq(Css) /\ Distinct(u) /\ ToSet(u) = S \ ToSet(alone)
  BY TreesInOrder
<1>5. Distinct(TreeOrder)
  BY TreesStandOnce
<1>6. alone \in Seq(Css)
  BY DEF TableInv, AloneOK
<1> HIDE DEF u
<1>7. /\ Len(u) \in Nat /\ DOMAIN u = 1..Len(u)
      /\ \A i \in DOMAIN u : i \in DOMAIN TreeOrder /\ TreeOrder[i] = u[i]
  BY <1>4, <1>6
<1>8. PICK i \in DOMAIN u : u[i] = f
  BY <1>4 DEF ToSet
<1>9. PICK j \in DOMAIN u : u[j] = g
  BY <1>4 DEF ToSet
<1>10. Before(u, f, g) <=> i < j
  BY <1>4, <1>8, <1>9, BeforeIsPlace
<1>11. Before(TreeOrder, f, g) <=> i < j
  BY <1>5, <1>7, <1>8, <1>9, BeforeIsPlace
<1> QED
  BY <1>3, <1>10, <1>11

(* A layer that only unedited stylesheets name is ahead of another such    *)
(* alike in both orders.                                                   *)
LEMMA AheadAlike ==
  ASSUME TableInv, NEW L, NEW M,
         \A f \in ToSet(alone) : L \notin ToSet(LayersOf(f)) /\ M \notin ToSet(LayersOf(f)),
         \A f \in Sheets(tracker.compilation) : DOMAIN LayersOf(f) = 1..Len(LayersOf(f))
  PROVE  NamedAhead(SheetsInOrder, L, M) <=> NamedAhead(TreeOrder, L, M)
<1> DEFINE S == Sheets(tracker.compilation)
<1>1. ToSet(SheetsInOrder) = S /\ ToSet(TreeOrder) = S
  BY SheetsStandInOrder, TreesInOrder
<1>2. \A f, g \in S \ ToSet(alone) : Before(SheetsInOrder, f, g) <=> Before(TreeOrder, f, g)
  BY SheetsStandInOrder, UneditedStandAlike
<1>3. ASSUME NEW f \in S, NEW a \in 1..Len(LayersOf(f)), LayersOf(f)[a] = L \/ LayersOf(f)[a] = M
      PROVE  f \in S \ ToSet(alone)
  BY <1>3 DEF ToSet
<1> HIDE DEF S
<1>4. ASSUME NEW p, NEW q, ToSet(p) = S, ToSet(q) = S,
             \A f, g \in S \ ToSet(alone) : Before(p, f, g) <=> Before(q, f, g),
             NamedAhead(p, L, M)
      PROVE  NamedAhead(q, L, M)
  <2>1. PICK f \in S : \E a \in 1..Len(LayersOf(f)) :
          /\ LayersOf(f)[a] = L
          /\ \A g \in S : \A b \in 1..Len(LayersOf(g)) :
               LayersOf(g)[b] = M => (Before(p, f, g) \/ (f = g /\ a < b))
    BY <1>4 DEF NamedAhead
  <2>2. PICK a \in 1..Len(LayersOf(f)) :
          /\ LayersOf(f)[a] = L
          /\ \A g \in S : \A b \in 1..Len(LayersOf(g)) :
               LayersOf(g)[b] = M => (Before(p, f, g) \/ (f = g /\ a < b))
    BY <2>1
  <2>3. f \in S \ ToSet(alone)
    BY <1>3, <2>2
  <2>4. ASSUME NEW g \in S, NEW b \in 1..Len(LayersOf(g)), LayersOf(g)[b] = M
        PROVE  Before(q, f, g) \/ (f = g /\ a < b)
    <3>1. g \in S \ ToSet(alone)
      BY <1>3, <2>4
    <3>2. Before(p, f, g) \/ (f = g /\ a < b)
      BY <2>2, <2>4
    <3> QED
      BY <1>4, <2>3, <3>1, <3>2
  <2> QED
    BY <1>4, <2>2, <2>4 DEF NamedAhead
<1> QED
  BY <1>1, <1>2, <1>4

(* Of lists that have a name alone or not at all, the order is that of the *)
(* names.                                                                  *)
LEMMA NamesPrecede ==
  ASSUME NEW N, NEW lists \in Seq(Seq(N)), NEW l, NEW m,
         \A list \in ToSet(lists) : Len(list) > 1 => l \notin ToSet(list) /\ m \notin ToSet(list)
  PROVE  Precedes(FlattenSeq(lists), l, m) <=> Precedes(lists, <<l>>, <<m>>)
<1> DEFINE n == Len(lists)
<1>1. n \in Nat /\ DOMAIN lists = 1..n /\ \A i \in 1..n : lists[i] \in Seq(N)
  OBVIOUS
<1> HIDE DEF n
<1>2. ASSUME NEW i \in 1..n, NEW a \in 1..Len(lists[i]), lists[i][a] = l \/ lists[i][a] = m
      PROVE  a = 1 /\ lists[i] = <<lists[i][a]>>
  <2> DEFINE list == lists[i]
  <2>1. list \in Seq(N) /\ Len(list) \in Nat /\ DOMAIN list = 1..Len(list) /\ list \in ToSet(lists)
    BY <1>1 DEF ToSet
  <2> HIDE DEF list
  <2>2. list[a] \in ToSet(list)
    BY <2>1 DEF ToSet, list
  <2>3. ~(Len(list) > 1)
    BY <1>2, <2>1, <2>2 DEF list
  <2>4. Len(list) = 1 /\ a = 1
    <3>1. a \in 1..Len(list)
      BY DEF list
    <3> QED
      BY <2>1, <2>3, <3>1
  <2>5. list = <<list[1]>>
    BY <2>1, <2>4
  <2> QED
    BY <2>4, <2>5 DEF list
<1>3. ASSUME NEW i \in 1..n, NEW x, lists[i] = <<x>>
      PROVE  1 \in 1..Len(lists[i]) /\ lists[i][1] = x /\ Len(lists[i]) = 1
  BY <1>3
<1>4. Precedes(FlattenSeq(lists), l, m) <=> Ahead(lists, l, m)
  BY FlattenPrecedes
<1>5. ASSUME Ahead(lists, l, m) PROVE Precedes(lists, <<l>>, <<m>>)
  <2>1. PICK i \in 1..n : \E a \in 1..Len(lists[i]) :
          /\ lists[i][a] = l
          /\ \A j \in 1..n : \A b \in 1..Len(lists[j]) :
               lists[j][b] = m => (i < j \/ (i = j /\ a < b))
    BY <1>5 DEF Ahead, n
  <2>2. PICK a \in 1..Len(lists[i]) :
          /\ lists[i][a] = l
          /\ \A j \in 1..n : \A b \in 1..Len(lists[j]) :
               lists[j][b] = m => (i < j \/ (i = j /\ a < b))
    BY <2>1
  <2>3. a = 1 /\ lists[i] = <<l>>
    BY <1>2, <2>2
  <2>4. ASSUME NEW j \in 1..n, lists[j] = <<m>> PROVE i < j
    <3>1. 1 \in 1..Len(lists[j]) /\ lists[j][1] = m
      BY <1>3, <2>4
    <3>2. i < j \/ 1 < 1
      BY <2>2, <2>3, <3>1
    <3> QED
      BY <3>2
  <2> QED
    BY <1>1, <2>3, <2>4 DEF Precedes
<1>6. ASSUME Precedes(lists, <<l>>, <<m>>) PROVE Ahead(lists, l, m)
  <2>1. PICK i \in 1..n : lists[i] = <<l>> /\ \A j \in 1..n : lists[j] = <<m>> => i < j
    BY <1>1, <1>6 DEF Precedes
  <2>2. 1 \in 1..Len(lists[i]) /\ lists[i][1] = l
    BY <1>3, <2>1
  <2>3. ASSUME NEW j \in 1..n, NEW b \in 1..Len(lists[j]), lists[j][b] = m PROVE i < j
    <3>1. lists[j] = <<m>>
      BY <1>2, <2>3
    <3> QED
      BY <2>1, <3>1
  <2> QED
    BY <2>2, <2>3 DEF Ahead, n
<1> QED
  BY <1>4, <1>5, <1>6

(* The order of a layer that the map has is its place less one.            *)
LEMMA OrderIsPlace ==
  ASSUME NEW X, NEW map \in Seq(X), map = FoldLeft(Registered, <<>>, LayersIn(TreeOrder)),
         NEW l, <<l>> \in ToSet(map)
  PROVE  LayerOrders[l] = First(map, <<l>>) - 1 /\ First(map, <<l>>) \in Int
<1> DEFINE p == First(map, <<l>>)
<1>1. Len(map) \in Nat /\ DOMAIN map = 1..Len(map)
  OBVIOUS
<1>2. p \in 1..Len(map)
  BY <1>1, FirstPlace
<1>3. l \in UNION {ToSet(map[i]) : i \in DOMAIN map}
  <2>1. PICK i \in DOMAIN map : map[i] = <<l>>
    BY <1>1 DEF ToSet
  <2>2. l \in ToSet(map[i])
    BY <2>1 DEF ToSet
  <2> QED
    BY <2>2
<1>4. LayerOrders[l] = Max({0, p - 1})
  BY <1>3 DEF LayerOrders, First
<1> HIDE DEF p
<1>5. p \in Nat /\ p - 1 >= 0
  BY <1>1, <1>2
<1>6. p - 1 \in {0, p - 1} /\ \A y \in {0, p - 1} : p - 1 >= y
  BY <1>5
<1>7. Max({0, p - 1}) \in {0, p - 1} /\ \A y \in {0, p - 1} : Max({0, p - 1}) >= y
  BY <1>6 DEF Max
<1>8. Max({0, p - 1}) = p - 1
  BY <1>5, <1>7
<1> QED
  BY <1>4, <1>5, <1>8 DEF p

(* A name in sequences in a row is in one of them.                         *)
LEMMA NamesAreListed ==
  ASSUME NEW N, NEW lists \in Seq(Seq(N)), NEW l \in ToSet(FlattenSeq(lists))
  PROVE  \E list \in ToSet(lists) : l \in ToSet(list)
<1> DEFINE flat == FlattenSeq(lists)
<1>1. flat \in Seq(N) /\ \E off : Placed(lists, flat, off)
  BY FlattenPlaces
<1>2. PICK off : Placed(lists, flat, off)
  BY <1>1
<1>3. DOMAIN flat = 1..Len(flat) /\ DOMAIN lists = 1..Len(lists)
  BY <1>1
<1> HIDE DEF flat
<1>4. PICK p \in 1..Len(flat) : l = flat[p]
  BY <1>3 DEF ToSet, flat
<1>5. PICK i \in 1..Len(lists) : \E j \in 1..Len(lists[i]) : p = off[i] + j
  BY <1>2 DEF Placed
<1>6. PICK j \in 1..Len(lists[i]) : p = off[i] + j
  BY <1>5
<1>7. l = lists[i][j]
  BY <1>2, <1>4, <1>6 DEF Placed
<1>8. DOMAIN lists[i] = 1..Len(lists[i])
  <2>1. lists[i] \in Seq(N)
    OBVIOUS
  <2> QED
    BY <2>1
<1>9. l \in ToSet(lists[i])
  BY <1>7, <1>8 DEF ToSet
<1>10. lists[i] \in ToSet(lists)
  BY <1>3 DEF ToSet
<1> QED
  BY <1>9, <1>10

(* What a stylesheet names alone, it names.                                *)
LEMMA NamedByOne ==
  ASSUME NEW N, NEW f, LayersOf(f) \in Seq(Seq(N)), NEW l, <<l>> \in ToSet(LayersOf(f))
  PROVE  l \in ToSet(FlattenSeq(LayersIn(<<f>>)))
<1> DEFINE lists == LayersIn(<<f>>)
           flat == FlattenSeq(lists)
<1>1. <<f>> \in Seq({f}) /\ ToSet(<<f>>) = {f}
  BY DEF ToSet
<1>2. ToSet(lists) = UNION {ToSet(LayersOf(g)) : g \in {f}}
  BY <1>1, LayersAreNamed
<1>3. Distinct(<<f>>)
  BY DEF Distinct
<1>4. lists \in Seq(Seq(N))
  BY <1>1, <1>3, LayersPrecede
<1>5. <<l>> \in ToSet(lists)
  BY <1>2
<1> HIDE DEF lists
<1>6. flat \in Seq(N) /\ \E off : Placed(lists, flat, off)
  BY <1>4, FlattenPlaces
<1>7. PICK off : Placed(lists, flat, off)
  BY <1>6
<1>8. DOMAIN flat = 1..Len(flat) /\ DOMAIN lists = 1..Len(lists)
  BY <1>4, <1>6
<1> HIDE DEF flat
<1>9. PICK i \in 1..Len(lists) : lists[i] = <<l>>
  BY <1>5, <1>8 DEF ToSet
<1>10. 1 \in 1..Len(lists[i]) /\ lists[i][1] = l
  BY <1>9
<1>11. off[i] + 1 \in 1..Len(flat) /\ flat[off[i] + 1] = l
  BY <1>7, <1>10 DEF Placed
<1>12. l \in ToSet(flat)
  BY <1>8, <1>11 DEF ToSet
<1> QED
  BY <1>12 DEF flat, lists

LEMMA LayersInOrder == TableInv => LayersStandInOrder
<1> SUFFICES ASSUME TableInv PROVE LayersStandInOrder
  OBVIOUS
<1> DEFINE S == Sheets(tracker.compilation)
           lists == LayersIn(SheetsInOrder)
           named == FlattenSeq(lists)
           current == LayersIn(TreeOrder)
           map == FoldLeft(Registered, <<>>, current)
           moved == {f \in ToSet(alone) : f \in S}
           doubtful(l) == \/ \E f \in moved : l \in ToSet(FlattenSeq(LayersIn(<<f>>)))
                          \/ \E list \in ToSet(lists) : Len(list) > 1 /\ l \in ToSet(list)
<1>1. PICK N : \A f \in S : LayersOf(f) \in Seq(Seq(N))
  BY SheetLayers
<1>2. /\ SheetsInOrder \in Seq(Css) /\ Distinct(SheetsInOrder) /\ ToSet(SheetsInOrder) = S
      /\ TreeOrder \in Seq(S) /\ Distinct(TreeOrder) /\ ToSet(TreeOrder) = S
  BY SheetsStandInOrder, TreesInOrder, TreesStandOnce
<1>3. \A f \in S : DOMAIN LayersOf(f) = 1..Len(LayersOf(f))
  BY <1>1
<1>4. moved = ToSet(alone)
  BY DEF TableInv, AloneOK
<1>5. LayersStandInOrder <=>
        (HasCurrent => \A l, m \in ToSet(named) :
           doubtful(l) \/ doubtful(m) \/ (First(named, l) < First(named, m) <=> LayerOrders[l] < LayerOrders[m]))
  BY DEF LayersStandInOrder, First, SheetsInOrder
<1> HIDE DEF S, moved
<1>6. /\ lists \in Seq(Seq(N)) /\ current \in Seq(Seq(N))
      /\ \A L, M : /\ Precedes(lists, L, M) <=> NamedAhead(SheetsInOrder, L, M)
                   /\ Precedes(current, L, M) <=> NamedAhead(TreeOrder, L, M)
  BY <1>1, <1>2, LayersPrecede
<1>7. ToSet(lists) = UNION {ToSet(LayersOf(f)) : f \in S} /\ ToSet(current) = ToSet(lists)
  BY <1>1, <1>2, LayersAreNamed
<1> HIDE DEF lists, current
<1>8. /\ map \in Seq(Seq(N)) /\ ToSet(map) = ToSet(current)
      /\ \A x, y \in ToSet(current) : First(map, x) < First(map, y) <=> Precedes(current, x, y)
  BY <1>6, MapIsInOrder
<1>9. map = FoldLeft(Registered, <<>>, LayersIn(TreeOrder))
  BY DEF current
<1>10. named \in Seq(N)
  BY <1>6, FlattenPlaces
<1>11. Len(named) \in Nat /\ DOMAIN named = 1..Len(named)
  BY <1>10
<1>12. \A l \in ToSet(named) : \E list \in ToSet(lists) : l \in ToSet(list)
  BY <1>6, NamesAreListed
<1> HIDE DEF named, map
<1>13. ASSUME NEW l \in ToSet(named), ~doubtful(l)
       PROVE  /\ <<l>> \in ToSet(current)
              /\ \A f \in ToSet(alone) : <<l>> \notin ToSet(LayersOf(f))
              /\ \A list \in ToSet(lists) : Len(list) > 1 => l \notin ToSet(list)
  <2>1. \A list \in ToSet(lists) : Len(list) > 1 => l \notin ToSet(list)
    BY <1>13
  <2>2. PICK list \in ToSet(lists) : l \in ToSet(list)
    BY <1>12
  <2>3. list \in Seq(N) /\ ~(Len(list) > 1)
    <3>1. list \in Seq(N)
      BY <1>6 DEF ToSet
    <3> QED
      BY <2>1, <2>2, <3>1
  <2>4. list = <<l>>
    <3>1. Len(list) \in Nat /\ DOMAIN list = 1..Len(list)
      BY <2>3
    <3>2. PICK a \in 1..Len(list) : list[a] = l
      BY <2>2, <3>1 DEF ToSet
    <3>3. Len(list) = 1 /\ list[1] = l
      BY <2>3, <3>1, <3>2
    <3> QED
      BY <2>3, <3>3
  <2>5. ASSUME NEW f \in ToSet(alone), <<l>> \in ToSet(LayersOf(f)) PROVE FALSE
    <3>1. l \notin ToSet(FlattenSeq(LayersIn(<<f>>)))
      BY <1>4, <1>13
    <3>2. f \in S
      BY <1>4 DEF moved
    <3>3. l \in ToSet(FlattenSeq(LayersIn(<<f>>)))
      BY <1>1, <2>5, <3>2, NamedByOne
    <3> QED
      BY <3>1, <3>3
  <2> QED
    BY <1>7, <2>1, <2>2, <2>4, <2>5
<1>14. ASSUME NEW l \in ToSet(named), NEW m \in ToSet(named), ~doubtful(l), ~doubtful(m)
       PROVE  First(named, l) < First(named, m) <=> LayerOrders[l] < LayerOrders[m]
  <2>1. /\ <<l>> \in ToSet(current) /\ <<m>> \in ToSet(current)
        /\ \A f \in ToSet(alone) : <<l>> \notin ToSet(LayersOf(f)) /\ <<m>> \notin ToSet(LayersOf(f))
        /\ \A list \in ToSet(lists) : Len(list) > 1 => l \notin ToSet(list) /\ m \notin ToSet(list)
    BY <1>13, <1>14
  <2>2. First(named, l) < First(named, m) <=> Precedes(named, l, m)
    BY <1>11, FirstPrecedes
  <2>3. Precedes(named, l, m) <=> Precedes(lists, <<l>>, <<m>>)
    BY <1>6, <2>1, NamesPrecede DEF named
  <2>4. NamedAhead(SheetsInOrder, <<l>>, <<m>>) <=> NamedAhead(TreeOrder, <<l>>, <<m>>)
    BY <1>3, <2>1, AheadAlike DEF S
  <2>5. First(map, <<l>>) < First(map, <<m>>) <=> Precedes(current, <<l>>, <<m>>)
    BY <1>8, <2>1
  <2>6. /\ LayerOrders[l] = First(map, <<l>>) - 1 /\ First(map, <<l>>) \in Int
        /\ LayerOrders[m] = First(map, <<m>>) - 1 /\ First(map, <<m>>) \in Int
    BY <1>8, <1>9, <2>1, OrderIsPlace
  <2>7. First(map, <<l>>) < First(map, <<m>>) <=> LayerOrders[l] < LayerOrders[m]
    BY <2>6
  <2> QED
    BY <1>6, <2>2, <2>3, <2>4, <2>5, <2>7
<1> HIDE DEF doubtful
<1> QED
  BY <1>5, <1>14

(* The layers stand in the order in which the stylesheets of a full build  *)
(* first name them, after any sequence of edits, but for those in edited   *)
(* stylesheets or in lists (buildSymbolTable).                             *)
THEOREM LayersKeepOrder == TableSpec => []LayersStandInOrder
  BY TableInvHolds, LayersInOrder, PTL
------------------------------------------------------------------------------
(* The order of a layer of a rule in the table.                            *)
LEMMA LayerOrderOK ==
  ASSUME TableInv, NEW x \in ToSet(Table)
  PROVE  LayerOrders[x.rule.layer] \in Nat
<1> DEFINE L == UNION {ToSet(Layers(f, tracker.compilation.css[f])) : f \in Sheets(tracker.compilation)}
           lists == [i \in DOMAIN TreeOrder |-> Layers(TreeOrder[i], tracker.compilation.css[TreeOrder[i]])]
           map == FoldLeft(Registered, <<>>, LayersIn(TreeOrder))
           l == x.rule.layer
           I == {i \in 1..Len(map) : map[i] = <<l>>}
<1>1. Len(TreeOrder) \in Nat /\ DOMAIN TreeOrder = 1..Len(TreeOrder)
      /\ \A i \in DOMAIN TreeOrder : TreeOrder[i] \in Sheets(tracker.compilation)
  <2>1. TreeOrder \in Seq(Sheets(tracker.compilation))
    BY TreesInOrder
  <2> QED
    BY <2>1
<1>2. \A f \in Sheets(tracker.compilation) : Layers(f, tracker.compilation.css[f]) \in Seq(L)
  <2> SUFFICES ASSUME NEW f \in Sheets(tracker.compilation)
               PROVE  Layers(f, tracker.compilation.css[f]) \in Seq(L)
    OBVIOUS
  <2> DEFINE ls == Layers(f, tracker.compilation.css[f])
  <2>1. f \in Css /\ tracker.compilation.css[f] \in Trees[f]
    BY SheetRules
  <2>2. ls \in Seq(ToSet(ls))
    BY <2>1, RulesAssumption
  <2>3. ToSet(ls) \subseteq L
    OBVIOUS
  <2> HIDE DEF ls, L
  <2>4. ls \in Seq(L)
    BY <2>2, <2>3
  <2> QED
    BY <2>4 DEF ls
<1> HIDE DEF L
<1>3. lists \in Seq(Seq(L))
  <2>1. lists \in [1..Len(TreeOrder) -> Seq(L)]
    BY <1>1, <1>2
  <2> HIDE DEF lists
  <2> QED
    BY <1>1, <2>1
<1>4. LayersIn(TreeOrder) \in Seq(L)
  <2>1. LayersIn(TreeOrder) = FlattenSeq(lists)
    BY DEF LayersIn
  <2> HIDE DEF lists
  <2> QED
    BY <1>3, <2>1, FlattenPlaces
<1>5. map \in Seq(L)
  BY <1>4, MapIsInOrder
<1>6. LayerOrders[l] = Max({0, SelectInSeq(map, LAMBDA m : m = <<l>>) - 1})
  BY DEF LayerOrders
<1>7. SelectInSeq(map, LAMBDA m : m = <<l>>) = IF I # {} THEN Min(I) ELSE 0
  BY DEF SelectInSeq
<1> HIDE DEF map, l
<1>8. I \in SUBSET Nat
  <2>1. Len(map) \in Nat
    BY <1>5
  <2> QED
    BY <2>1
<1> HIDE DEF I
<1>9. I # {} => Min(I) \in Nat
  <2> SUFFICES ASSUME I # {} PROVE Min(I) \in Nat
    OBVIOUS
  <2>1. \E i \in I : \A j \in I : i <= j
    BY <1>8, Least
  <2>2. Min(I) \in I
    BY <2>1 DEF Min
  <2> QED
    BY <1>8, <2>2
<1>10. PICK n \in Nat : LayerOrders[l] = Max({0, n - 1})
  BY <1>6, <1>7, <1>9
<1>11. Max({0, n - 1}) \in Nat
  <2>1. CASE n = 0
    <3>1. Max({0, n - 1}) \in {0, n - 1} /\ \A y \in {0, n - 1} : Max({0, n - 1}) >= y
      <4>1. 0 \in {0, n - 1} /\ \A y \in {0, n - 1} : 0 >= y
        BY <2>1
      <4> QED
        BY <4>1 DEF Max
    <3> QED
      BY <2>1, <3>1
  <2>2. CASE n # 0
    <3>1. n - 1 \in {0, n - 1} /\ \A y \in {0, n - 1} : n - 1 >= y
      BY <2>2
    <3>2. Max({0, n - 1}) \in {0, n - 1}
      BY <3>1 DEF Max
    <3> QED
      BY <2>2, <3>2
  <2> QED
    BY <2>1, <2>2
<1> QED
  BY <1>10, <1>11 DEF l
------------------------------------------------------------------------------
(* The matches of an element, as the cascade compares them.                *)
Ranks ==
  {r \in [file: Css, id: Nat, layerOrder: Nat,
          rule: UNION {UNION {ToSet(Rules(f, t)) : t \in Trees[f]} : f \in Css}] :
     r.rule.important \in BOOLEAN /\ r.rule.specificity \in Int}

LEMMA InScopeRanks ==
  ASSUME TableInv, NEW s
  PROVE  ToSet(InScope(s)) \subseteq Ranks
<1> SUFFICES ASSUME NEW r \in ToSet(InScope(s)) PROVE r \in Ranks
  OBVIOUS
<1>1. PICK x \in Entries : /\ r = [file |-> x.file, id |-> x.id, rule |-> x.rule,
                                   layerOrder |-> LayerOrders[x.rule.layer]]
                           /\ x \in ToSet(Table)
  BY InScopeMeans
<1>2. LayerOrders[x.rule.layer] \in Nat
  BY <1>1, LayerOrderOK
<1>3. PICK f \in Sheets(tracker.compilation) :
        \E j \in 1..Len(RulesOf(f)) :
           /\ x = [file |-> f, id |-> FirstId(f) + j - 1, rule |-> RulesOf(f)[j]]
           /\ x.file = f /\ x.rule \in ToSet(RulesOf(f))
           /\ x.rule.selector \in DOMAIN Selectors /\ x.rule.important \in BOOLEAN
           /\ x.rule.specificity \in Int
  BY EntryRule
<1>4. PICK j \in 1..Len(RulesOf(f)) :
           /\ x = [file |-> f, id |-> FirstId(f) + j - 1, rule |-> RulesOf(f)[j]]
           /\ x.file = f /\ x.rule \in ToSet(RulesOf(f))
           /\ x.rule.important \in BOOLEAN /\ x.rule.specificity \in Int
  BY <1>3
<1>5. f \in Css /\ tracker.compilation.css[f] \in Trees[f]
  BY SheetRules
<1>6. x.id \in Nat
  <2>1. FirstId(f) \in Nat /\ Len(RulesOf(f)) \in Nat
    BY FirstIdOK, NumberedMeans
  <2>2. x.id = FirstId(f) + j - 1
    BY <1>4
  <2> QED
    BY <2>1, <2>2
<1>7. x.rule \in UNION {UNION {ToSet(Rules(g, t)) : t \in Trees[g]} : g \in Css}
  BY <1>4, <1>5 DEF RulesOf
<1> QED
  BY <1>1, <1>2, <1>4, <1>5, <1>6, <1>7 DEF Ranks

(* The comparison orders them strictly.                                    *)
LEMMA AboveOrders ==
  ASSUME NEW a \in Ranks, NEW b \in Ranks, NEW c \in Ranks
  PROVE  /\ ~Above(a, a)
         /\ Above(a, b) /\ ~Above(c, b) => ~Above(c, a)
<1>1. \A r \in Ranks : /\ r.id \in Int /\ r.layerOrder \in Int
                       /\ r.rule.important \in BOOLEAN /\ r.rule.specificity \in Int
  BY DEF Ranks
<1> QED
  BY <1>1 DEF Above, LayerAbove

(* Of rules that are both in layers or both in none, and both important or *)
(* neither, the one above is the one that beats the other.                 *)
LEMMA AboveBeats ==
  ASSUME NEW a \in Ranks, NEW b \in Ranks, a.rule.important = b.rule.important,
         a.rule.layer = None <=> b.rule.layer = None
  PROVE  Beats(a, b) <=> Above(a, b)
<1>1. \A r \in Ranks : /\ r.id \in Int /\ r.layerOrder \in Int
                       /\ r.rule.important \in BOOLEAN /\ r.rule.specificity \in Int
  BY DEF Ranks
<1> DEFINE turned(r, n) == IF r.rule.important THEN -n ELSE n
           flag(r) == IF r.rule.layer = None THEN 1 ELSE 0
<1>2. \A r \in Ranks : /\ Strength(r)[1] = turned(r, flag(r)) /\ Strength(r)[2] = turned(r, r.layerOrder)
                       /\ Strength(r)[3] = r.rule.specificity /\ Strength(r)[4] = r.id
  BY DEF Strength
<1>3. Beats(a, b) <=>
        \/ Strength(a)[1] > Strength(b)[1]
        \/ Strength(a)[2] > Strength(b)[2] /\ Strength(a)[1] = Strength(b)[1]
        \/ Strength(a)[3] > Strength(b)[3] /\ Strength(a)[1] = Strength(b)[1]
           /\ Strength(a)[2] = Strength(b)[2]
        \/ Strength(a)[4] > Strength(b)[4] /\ Strength(a)[1] = Strength(b)[1]
           /\ Strength(a)[2] = Strength(b)[2] /\ Strength(a)[3] = Strength(b)[3]
  <2> DEFINE A(n) == Strength(a)[n]
             B(n) == Strength(b)[n]
  <2>1. Beats(a, b) <=> \E n \in 1..4 : A(n) > B(n) /\ \A m \in 1..(n - 1) : A(m) = B(m)
    BY DEF Beats
  <2> HIDE DEF A, B
  <2>2. (\E n \in 1..4 : A(n) > B(n) /\ \A m \in 1..(n - 1) : A(m) = B(m)) <=>
          \/ A(1) > B(1)
          \/ A(2) > B(2) /\ A(1) = B(1)
          \/ A(3) > B(3) /\ A(1) = B(1) /\ A(2) = B(2)
          \/ A(4) > B(4) /\ A(1) = B(1) /\ A(2) = B(2) /\ A(3) = B(3)
    OBVIOUS
  <2> QED
    BY <2>1, <2>2 DEF A, B
<1>4. Strength(a)[1] = Strength(b)[1] /\ Strength(a)[1] \in Int
  BY <1>2
<1>5. Strength(a)[2] > Strength(b)[2] <=> LayerAbove(a, b)
  BY <1>1, <1>2 DEF LayerAbove
<1>6. Strength(a)[2] = Strength(b)[2] <=> a.layerOrder = b.layerOrder
  BY <1>1, <1>2
<1>7. Above(a, b) <=>
        IF a.layerOrder # b.layerOrder THEN LayerAbove(a, b)
        ELSE IF a.rule.specificity # b.rule.specificity THEN a.rule.specificity > b.rule.specificity
        ELSE a.id > b.id
  BY DEF Above
<1>8. a.layerOrder = b.layerOrder => ~LayerAbove(a, b)
  BY <1>1 DEF LayerAbove
<1> QED
  BY <1>1, <1>2, <1>3, <1>4, <1>5, <1>6, <1>7, <1>8

(* What the cascade has after each match: none of the matches so far is    *)
(* above it.                                                               *)
Better(b, r) == IF b = None \/ Above(r, b) THEN r ELSE b

LEMMA BestIsAbove ==
  ASSUME NEW q \in Seq(Ranks)
  PROVE  LET best == FoldLeft(LAMBDA b, r : IF b = None \/ Above(r, b) THEN r ELSE b, None, q)
         IN  IF q = <<>> THEN best = None
             ELSE best \in ToSet(q) /\ \A r \in ToSet(q) : ~Above(r, best)
<1> DEFINE n == Len(q)
           B == Ranks \cup {None}
           Fill(f, s) == IF s = {} THEN None ELSE Better(f[s \ {Max(s)}], q[Max(s)])
           step == [x \in B \X (1..n) |-> Better(x[1], q[x[2]])]
           best == FoldLeft(LAMBDA b, r : IF b = None \/ Above(r, b) THEN r ELSE b, None, q)
<1>1. n \in Nat /\ DOMAIN q = 1..n /\ \A k \in 1..n : q[k] \in Ranks
  OBVIOUS
<1>2. None \notin Ranks
  BY NoneAssumption DEF Ranks
<1> HIDE DEF n
<1>3. \A b \in B, k \in 1..n : Better(b, q[k]) \in B
  BY <1>1 DEF Better
<1> HIDE DEF B
<1>4. step \in [B \X (1..n) -> B] /\ None \in B
  BY <1>3 DEF B
<1>5. \A b \in B, k \in 1..n : step[<<b, k>>] = Better(b, q[k])
  OBVIOUS
<1> HIDE DEF step
<1>6. PICK f \in [SUBSET (1..n) -> B] : Folds(f, n, None, step)
  BY <1>1, <1>4, FoldRuns
<1>7. \A s \in SUBSET (1..n) : f[s] = Fill(f, s)
  <2> SUFFICES ASSUME NEW s \in SUBSET (1..n) PROVE f[s] = Fill(f, s)
    OBVIOUS
  <2>1. f[s] = IF s = {} THEN None ELSE step[<<f[s \ {Max(s)}], Max(s)>>]
    BY <1>6 DEF Folds
  <2>2. CASE s = {}
    BY <2>1, <2>2
  <2>3. CASE s # {}
    <3>1. Max(s) \in s /\ s \ {Max(s)} \in SUBSET (1..(n - 1))
      BY <1>1, <2>3, LastPlace
    <3>2. Max(s) \in 1..n /\ f[s \ {Max(s)}] \in B
      BY <3>1
    <3> QED
      BY <1>5, <2>1, <2>3, <3>2
  <2> QED
    BY <2>2, <2>3
<1>8. f = [s \in SUBSET (1..n) |-> Fill(f, s)]
  BY <1>7
<1> DEFINE iter == CHOOSE g : g = [s \in SUBSET (1..n) |-> Fill(g, s)]
<1>9. iter = [s \in SUBSET (1..n) |-> Fill(iter, s)]
  BY <1>8
<1>10. best = iter[1..n]
  BY <1>1 DEF FoldLeft, MapThenFoldSet, Better
<1> HIDE DEF iter, best
<1> DEFINE t == [k \in 0..n |-> iter[1..k]]
<1>11. t[0] = None
  <2>1. 1..0 = {} /\ {} \in SUBSET (1..n) /\ 0 \in 0..n
    BY <1>1
  <2>2. iter[{}] = None
    BY <1>9, <2>1
  <2> QED
    BY <2>1, <2>2
<1>12. ASSUME NEW k \in 1..n
       PROVE  t[k] = Better(t[k - 1], q[k])
  <2>1. /\ 1..k \in SUBSET (1..n) /\ 1..k # {} /\ Max(1..k) = k /\ (1..k) \ {k} = 1..(k - 1)
    BY <1>1, FoldPlaces
  <2>2. iter[1..k] = Better(iter[(1..k) \ {Max(1..k)}], q[Max(1..k)])
    BY <1>9, <2>1
  <2>3. k \in 0..n /\ k - 1 \in 0..n
    BY <1>1
  <2> QED
    BY <2>1, <2>2, <2>3
<1>13. t[n] = best
  BY <1>1, <1>10
<1> HIDE DEF t
<1> DEFINE Good(k) == /\ \E i \in 1..k : t[k] = q[i]
                      /\ \A i \in 1..k : ~Above(q[i], t[k])
           T == {k \in 1..n : ~Good(k)}
<1>14. ASSUME NEW k \in 1..n, k # 1 => Good(k - 1)
       PROVE  Good(k)
  <2>1. t[k] = Better(t[k - 1], q[k]) /\ q[k] \in Ranks /\ k \in 1..k
    BY <1>1, <1>12
  <2>2. CASE k = 1
    <3>1. t[1] = q[1]
      BY <1>11, <2>1, <2>2 DEF Better
    <3>2. ~Above(q[1], q[1])
      BY <2>1, <2>2, AboveOrders
    <3> QED
      BY <2>2, <3>1, <3>2
  <2>3. CASE k # 1
    <3> DEFINE b == t[k - 1]
               r == q[k]
    <3>1. (\E i \in 1..(k - 1) : b = q[i]) /\ \A i \in 1..(k - 1) : ~Above(q[i], b)
      BY <1>14, <2>3
    <3>2. /\ \A i \in 1..(k - 1) : i \in 1..k /\ i \in 1..n
          /\ \A i \in 1..k : i = k \/ i \in 1..(k - 1)
          /\ \A i \in 1..k : i \in 1..n
      BY <1>1
    <3>3. b \in Ranks /\ r \in Ranks /\ b # None
      BY <1>1, <1>2, <2>1, <3>1, <3>2
    <3>4. t[k] = IF Above(r, b) THEN r ELSE b
      BY <2>1, <3>3 DEF Better
    <3> HIDE DEF b
    <3>5. CASE Above(r, b)
      <4>1. t[k] = r /\ r = q[k] /\ k \in 1..k
        BY <2>1, <3>4, <3>5
      <4> HIDE DEF r
      <4>2. ~Above(r, r)
        BY <3>3, AboveOrders
      <4>3. \A i \in 1..(k - 1) : ~Above(q[i], r)
        BY <1>1, <3>1, <3>2, <3>3, <3>5, AboveOrders
      <4>4. \A i \in 1..k : ~Above(q[i], r)
        BY <3>2, <4>1, <4>2, <4>3
      <4> QED
        BY <4>1, <4>4
    <3>6. CASE ~Above(r, b)
      <4>1. t[k] = b
        BY <3>4, <3>6
      <4>2. \A i \in 1..k : ~Above(q[i], b)
        BY <3>1, <3>2, <3>6
      <4> QED
        BY <3>1, <3>2, <4>1, <4>2
    <3> QED
      BY <3>5, <3>6
  <2> QED
    BY <2>2, <2>3
<1> HIDE DEF Good
<1>15. T = {}
  <2> SUFFICES ASSUME T # {} PROVE FALSE
    OBVIOUS
  <2>1. T \in SUBSET Nat
    BY <1>1
  <2>2. PICK k \in T : \A j \in T : k <= j
    BY <2>1, Least
  <2>3. k # 1 => k - 1 \in 1..n /\ ~(k <= k - 1)
    BY <1>1, <2>2
  <2>4. k # 1 => Good(k - 1)
    BY <2>2, <2>3
  <2> QED
    BY <1>14, <2>2, <2>4
<1>16. CASE q = <<>>
  <2>1. n = 0
    BY <1>16 DEF n
  <2> QED
    BY <1>11, <1>13, <1>16, <2>1 DEF best
<1>17. CASE q # <<>>
  <2>1. n \in 1..n
    BY <1>1, <1>17 DEF n
  <2>2. Good(n)
    BY <1>15, <2>1
  <2>3. best \in ToSet(q) /\ \A r \in ToSet(q) : ~Above(r, best)
    BY <1>1, <1>13, <2>2 DEF Good, ToSet
  <2> QED
    BY <1>17, <2>3 DEF best
<1> QED
  BY <1>16, <1>17

LEMMA StrongestWins == TableInv => WinnerIsStrongest
<1> SUFFICES ASSUME TableInv, NEW s \in Solids(tracker.compilation), NEW e \in Elements(s),
                    NEW inline \in BOOLEAN, ~Mixed(Matches(s, e, InScope(s)))
             PROVE  LET matches == Matches(s, e, InScope(s))
                        important == {r \in ToSet(matches) : r.rule.important}
                        strongest(S) == {r \in S : \A q \in S : ~Beats(q, r)}
                        normal == IF matches = <<>> THEN {None} ELSE strongest(ToSet(matches))
                    IN  Winner(matches, inline) \in
                          IF important # {} THEN strongest(important)
                          ELSE IF inline THEN {Inline} ELSE normal
  BY DEF WinnerIsStrongest
<1> DEFINE matches == Matches(s, e, InScope(s))
           important == {r \in ToSet(matches) : r.rule.important}
           strongest(S) == {r \in S : \A q \in S : ~Beats(q, r)}
           normal == IF matches = <<>> THEN {None} ELSE strongest(ToSet(matches))
           best == FoldLeft(LAMBDA b, r : IF b = None \/ Above(r, b) THEN r ELSE b, None, matches)
<1>1. matches \in Seq(Ranks)
  <2>1. InScope(s) \in Seq(ToSet(InScope(s)))
    BY InScopeMeans
  <2>2. matches \in Seq(ToSet(InScope(s)))
    BY <2>1, MatchesMean
  <2>3. ToSet(InScope(s)) \subseteq Ranks
    BY InScopeRanks
  <2> HIDE DEF matches
  <2> QED
    BY <2>2, <2>3
<1>2. Winner(matches, inline) = IF inline /\ (best = None \/ ~best.rule.important) THEN Inline ELSE best
  BY DEF Winner
<1>3. \A r, q \in ToSet(matches) : (r.rule.layer = None <=> q.rule.layer = None)
  BY DEF Mixed
<1> HIDE DEF matches
<1>4. IF matches = <<>> THEN best = None
      ELSE best \in ToSet(matches) /\ \A r \in ToSet(matches) : ~Above(r, best)
  BY <1>1, BestIsAbove
<1> HIDE DEF best
<1>5. None \notin Ranks /\ ToSet(matches) \subseteq Ranks
  BY <1>1, NoneAssumption DEF Ranks, ToSet
<1>6. \A r \in Ranks : r.rule.important \in BOOLEAN
  BY DEF Ranks
<1>7. CASE matches = <<>>
  <2>1. ToSet(matches) = {} /\ best = None
    BY <1>4, <1>7 DEF ToSet
  <2> QED
    BY <1>2, <1>7, <2>1 DEF matches
<1>8. CASE matches # <<>>
  <2>1. best \in ToSet(matches) /\ best # None /\ \A r \in ToSet(matches) : ~Above(r, best)
    BY <1>4, <1>5, <1>8
  <2>2. ASSUME NEW r \in ToSet(matches), r.rule.important = best.rule.important
        PROVE  ~Beats(r, best)
    BY <1>3, <1>5, <2>1, <2>2, AboveBeats
  <2>3. CASE important # {}
    <3>1. PICK r \in ToSet(matches) : r.rule.important
      BY <2>3
    <3>2. best.rule.important
      <4> SUFFICES ASSUME ~best.rule.important PROVE FALSE
        OBVIOUS
      <4>1. Above(r, best)
        BY <1>5, <1>6, <2>1, <3>1 DEF Above
      <4> QED
        BY <2>1, <4>1
    <3>3. Winner(matches, inline) = best
      BY <1>2, <2>1, <3>2
    <3>4. best \in strongest(important)
      BY <1>5, <1>6, <2>1, <2>2, <3>2
    <3> QED
      BY <2>3, <3>3, <3>4 DEF matches
  <2>4. CASE important = {}
    <3>1. \A r \in ToSet(matches) : ~r.rule.important
      BY <2>4
    <3>2. inline => Winner(matches, inline) = Inline
      BY <1>2, <2>1, <3>1
    <3>3. ~inline => Winner(matches, inline) = best
      BY <1>2
    <3>4. best \in strongest(ToSet(matches))
      BY <1>5, <1>6, <2>1, <2>2, <3>1
    <3> QED
      BY <1>8, <2>4, <3>2, <3>3, <3>4 DEF matches
  <2> QED
    BY <2>3, <2>4
<1> QED
  BY <1>7, <1>8

(* The declaration that wins on an element is the strongest of those that  *)
(* match, whatever has been edited, unless rules in layers meet rules in   *)
(* none: the comparison orders all rules strictly, so that going through   *)
(* the matches once finds one that none of them is above (bind).           *)
THEOREM TheStrongestWins == TableSpec => []WinnerIsStrongest
  BY TableInvHolds, StrongestWins, PTL
================================================================================
