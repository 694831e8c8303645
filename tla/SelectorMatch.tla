---------------------------- MODULE SelectorMatch ----------------------------
(***************************************************************************)
(* Which elements of a solid file a selector matches: the compiled matcher *)
(* and its index (packages/ganko/src/compilation/binding/cascade-binder.ts,*)
(* symbols/selector.ts, binding/element-builder.ts), with three answers,   *)
(* because an attribute's value may be known at run time only.             *)
(*                                                                         *)
(* A document is the sequence of a file's elements, each with a parent     *)
(* before it, a tag, classes and attributes.  An attribute is compared for *)
(* equality; the other comparisons are text processing.  Stateful pseudo-  *)
(* classes and pseudo-elements have no matcher and are left out, and so    *)
(* are groups within groups.                                               *)
(***************************************************************************)
EXTENDS Integers, Sequences, FiniteSets, FiniteSetsExt

CONSTANTS
  Dynamic,   \* the value of an attribute that is not static
  Wild       \* any tag, any value, no id

NoParent == 0

(* buildElementNodes: an element's place among its parent's children.  A   *)
(* root is alone.                                                          *)
Siblings(d, e) ==
  IF d[e].parent = NoParent THEN {e} ELSE {x \in DOMAIN d : d[x].parent = d[e].parent}
OfType(d, e) == IF d[e].tag = Wild THEN Siblings(d, e) ELSE {x \in Siblings(d, e) : d[x].tag = d[e].tag}
Index(d, e, from) ==
  Cardinality(CASE from = "first" -> {x \in Siblings(d, e) : x <= e}
                [] from = "last" -> {x \in Siblings(d, e) : x >= e}
                [] from = "firstOfType" -> {x \in OfType(d, e) : x <= e}
                [] from = "lastOfType" -> {x \in OfType(d, e) : x >= e})

Ancestors(d, e) ==
  LET above[x \in 0..Len(d)] ==
        IF x = NoParent \/ d[x].parent = NoParent THEN {} ELSE {d[x].parent} \cup above[d[x].parent]
  IN  above[e]
Elder(d, e) == {x \in Siblings(d, e) : x < e}

(* The elements a combinator leads to.                                     *)
Related(d, e, combinator) ==
  CASE combinator = "child" -> {d[e].parent} \ {NoParent}
    [] combinator = "adjacent" -> {x \in Elder(d, e) : \A y \in Elder(d, e) : y <= x}
    [] combinator = "sibling" -> Elder(d, e)
    [] combinator = "descendant" -> Ancestors(d, e)
------------------------------------------------------------------------------
(* What documents and selectors are: parents stand before their children,  *)
(* and no text of a stylesheet is an unknown value.                        *)
IsElement(r) ==
  /\ r = [parent |-> r.parent, tag |-> r.tag, classes |-> r.classes, attributes |-> r.attributes]
  /\ r.attributes = [n \in DOMAIN r.attributes |-> r.attributes[n]]
IsDocument(d) ==
  /\ Len(d) \in Nat
  /\ d = [e \in 1..Len(d) |-> d[e]]
  /\ \A e \in 1..Len(d) : IsElement(d[e]) /\ d[e].parent \in 0..(e - 1)

Nested(c) == (UNION c.anyOf) \cup (UNION c.noneOf)
IsCompound(c) ==
  /\ c.id # Dynamic
  /\ \A q \in c.attributes : q.value # Dynamic
  /\ \A p \in c.places : /\ p.from \in {"first", "last", "firstOfType", "lastOfType"}
                         /\ p.step \in Int /\ p.offset \in Int
IsSelector(s) ==
  /\ Len(s.combinators) \in Nat
  /\ DOMAIN s.combinators = 1..Len(s.combinators)
  /\ Len(s.compounds) = Len(s.combinators) + 1
  /\ DOMAIN s.compounds = 1..Len(s.compounds)
  /\ \A i \in DOMAIN s.compounds : \A c \in {s.compounds[i]} \cup Nested(s.compounds[i]) : IsCompound(c)
  /\ \A i \in DOMAIN s.combinators : s.combinators[i] \in {"child", "adjacent", "sibling", "descendant"}
------------------------------------------------------------------------------
(* matchesNthPattern                                                       *)
NthMatches(index, step, offset) ==
  \/ step = 0 /\ offset >= 1 /\ index = offset
  \/ step > 0 /\ index >= offset /\ (index - offset) % step = 0
  \/ step < 0 /\ offset >= index /\ (offset - index) % (-step) = 0

(* matchesRequiredAttributes                                               *)
AttributesResult(attributes, required) ==
  IF \E q \in required : \/ q.name \notin DOMAIN attributes
                         \/ q.value # Wild /\ attributes[q.name] \notin {Dynamic, q.value}
  THEN "none"
  ELSE IF \E q \in required : q.value # Wild /\ attributes[q.name] = Dynamic
  THEN "conditional" ELSE "match"

(* matchesCompound, without and with the groups of :is and :not.           *)
SimpleResult(d, e, c) ==
  IF /\ c.tag \in {Wild, d[e].tag}
     /\ c.id # Wild => "id" \in DOMAIN d[e].attributes /\ d[e].attributes["id"] = c.id
     /\ c.classes \subseteq d[e].classes
     /\ \A p \in c.places : NthMatches(Index(d, e, p.from), p.step, p.offset)
  THEN AttributesResult(d[e].attributes, c.attributes) ELSE "none"
CompoundResult(d, e, c) ==
  IF /\ \A group \in c.anyOf : \E q \in group : SimpleResult(d, e, q) # "none"
     /\ \A group \in c.noneOf : \A q \in group : SimpleResult(d, e, q) = "none"
  THEN SimpleResult(d, e, c) ELSE "none"

(* mergeMatchResults                                                       *)
Merge_Last(a, b) == IF a = "none" THEN a ELSE b
Merge(a, b) ==
  IF "none" \in {a, b} THEN "none" ELSE IF "conditional" \in {a, b} THEN "conditional" ELSE "match"

(* matchesChain tries every element the combinator leads to, nearest first.*)
Tried_Nearest(d, near, c) ==
  LET found == {a \in near : CompoundResult(d, a, c) # "none"}
  IN  {a \in found : \A b \in found : b <= a}
Tried(d, near, c) == {a \in near : CompoundResult(d, a, c) # "none"}

(* A selector's compounds and combinators run from right to left.  The     *)
(* first way that may match decides; only an inner descendant step looks   *)
(* farther for one that does.                                              *)
ChainResult(d, s, subject) ==
  LET last == Len(s.combinators)
      chain[x \in (DOMAIN d) \X (1..last)] ==
        LET i == x[2]
            through(a) == LET here == CompoundResult(d, a, s.compounds[i + 1])
                          IN  IF i = last THEN here ELSE Merge(here, chain[<<a, i + 1>>])
            ways == {a \in Tried(d, Related(d, x[1], s.combinators[i]), s.compounds[i + 1]) :
                       through(a) # "none"}
        IN  IF ways = {} THEN "none"
            ELSE IF /\ s.combinators[i] = "descendant" /\ i # last
                    /\ \E a \in ways : through(a) = "match"
            THEN "match" ELSE through(Max(ways))
  IN  chain[<<subject, 1>>]

(* matchElement                                                            *)
MatchElement(d, s, e) ==
  LET subject == CompoundResult(d, e, s.compounds[1])
  IN  IF s.combinators = <<>> \/ subject = "none" THEN subject
      ELSE Merge(subject, ChainResult(d, s, e))
------------------------------------------------------------------------------
(* createSelectorSymbol, buildSelectorDispatchKeys: the keys a selector is *)
(* filed under and those an element asks for, beside its tag.              *)
Key(kind, of) == <<kind, of>>
SelectorKeys(s) ==
  LET c == s.compounds[1]
  IN  {Key("id", i) : i \in {c.id} \ {Wild}} \cup {Key("class", n) : n \in c.classes}
        \cup {Key("attr", q.name) : q \in c.attributes}
ElementKeys(d, e) ==
  LET attributes == d[e].attributes
  IN  {Key("id", attributes[n]) : n \in {m \in DOMAIN attributes : m = "id" /\ attributes[m] # Dynamic}}
        \cup {Key("class", n) : n \in d[e].classes}
        \cup {Key("attr", n) : n \in DOMAIN attributes}

(* appendMatchingEdges looks up the keys first, then the tag.              *)
FoundByKey(d, s, e) == SelectorKeys(s) \cap ElementKeys(d, e) # {}
FoundByTag(d, s, e) == d[e].tag # Wild /\ s.compounds[1].tag = d[e].tag
Unkeyed(s) == SelectorKeys(s) = {} /\ s.compounds[1].tag = Wild
------------------------------------------------------------------------------
(* Reference: what a selector means (CSS Selectors) in a document whose    *)
(* attributes all have values.                                             *)
SimpleHolds(d, e, c) ==
  /\ c.tag \in {Wild, d[e].tag}
  /\ c.id # Wild => "id" \in DOMAIN d[e].attributes /\ d[e].attributes["id"] = c.id
  /\ c.classes \subseteq d[e].classes
  /\ \A q \in c.attributes : q.name \in DOMAIN d[e].attributes /\ q.value \in {Wild, d[e].attributes[q.name]}
  /\ \A p \in c.places : \E n \in 0..(Len(d) + Max({p.offset, -p.offset})) :
       Index(d, e, p.from) = p.step * n + p.offset
CompoundHolds(d, e, c) ==
  /\ SimpleHolds(d, e, c)
  /\ \A group \in c.anyOf : \E q \in group : SimpleHolds(d, e, q)
  /\ \A group \in c.noneOf : ~\E q \in group : SimpleHolds(d, e, q)

Holds(d, s, e) ==
  \E chosen \in [DOMAIN s.compounds -> DOMAIN d] :
    /\ chosen[1] = e
    /\ \A i \in DOMAIN chosen : CompoundHolds(d, chosen[i], s.compounds[i])
    /\ \A i \in DOMAIN s.combinators : chosen[i + 1] \in Related(d, chosen[i], s.combinators[i])

(* The documents that d may be at run time.                                *)
Unknown(d) ==
  UNION {{<<e, n>> : n \in {m \in DOMAIN d[e].attributes : d[e].attributes[m] = Dynamic}} : e \in DOMAIN d}
AtRunTime(d, Values) ==
  {[e \in DOMAIN d |->
      [d[e] EXCEPT !.attributes = [n \in DOMAIN @ |-> IF @[n] = Dynamic THEN v[<<e, n>>] ELSE @[n]]]] :
   v \in [Unknown(d) -> Values]}

(* Where the matcher does not tell a dynamic value from another: an id,    *)
(* and an attribute within :is or :not.                                    *)
Blind(d, s) ==
  \E c \in {s.compounds[i] : i \in DOMAIN s.compounds}, u \in Unknown(d) :
    \/ u[2] = "id" /\ \E q \in {c} \cup Nested(c) : q.id # Wild
    \/ \E q \in Nested(c) : \E a \in q.attributes : a.name = u[2] /\ a.value # Wild

(* The values that attributes are compared with outside of groups, and     *)
(* whether a compound asks an attribute for two, which the matcher does    *)
(* not notice where the value is dynamic.                                  *)
Asked(s) ==
  (UNION {{q.value : q \in s.compounds[i].attributes} : i \in DOMAIN s.compounds}) \ {Wild}
Contradicts(s) ==
  \E i \in DOMAIN s.compounds : \E q, r \in s.compounds[i].attributes :
    q.name = r.name /\ q.value # r.value /\ Wild \notin {q.value, r.value}
==============================================================================
