----------------------------- MODULE ElementTree -----------------------------
(***************************************************************************)
(* The tree that a solid file's elements are put into once the hosts of    *)
(* its components are known (buildElementNodes in packages/ganko/src/      *)
(* compilation/binding/element-builder.ts, buildCompoundComponentParents   *)
(* in solid/impl.ts), whatever resolver finds them.                        *)
(*                                                                         *)
(* Elements of components stand for the DOM elements of their hosts.  A    *)
(* build takes a host for each element in the order of the file (page,     *)
(* hosts); then the elements are put into a tree, in which the parts of a  *)
(* compound component, one made with Object.assign, are children of the    *)
(* element it puts its children in.  A build is synchronous: no edit comes *)
(* in between.                                                             *)
(***************************************************************************)
EXTENDS CompilationTracker, SequencesExt

ASSUME JsxAssumption ==
  \A f \in Solid : \A t \in Trees[f] : Len(t.jsx) \in Nat /\ DOMAIN t.jsx = 1..Len(t.jsx)

VARIABLES
  page,    \* the file whose elements are being built, or NoFile
  hosts    \* the hosts found so far, one for each element

treeVars == <<page, hosts>>

(* Elements that take part: all but Solid's own components, <Show>, <For>, *)
(* unless such a name has a host.                                          *)
Participates(t, hs, i) ==
  t.jsx[i].dom \/ hs[i] # None \/ t.jsx[i].tag[1] \notin t.primitives

(* resolveEffectiveTag, mergeClassTokens, mergeCallSiteAttributes          *)
TagOf(e, host) == IF host # None THEN host.tag ELSE IF e.dom THEN e.tag[1] ELSE None
ClassesOf(e, host) == e.classes \cup (IF host = None THEN {} ELSE host.classes)
AttributesOf(e, host) == IF host = None THEN e.attributes ELSE e.attributes @@ host.attributes

(* buildCompoundComponentParents: the element that a component is a child  *)
(* of as a part of a compound, 0 if there is none.  A part that returns an *)
(* element like the compound's own is taken for a variant of it.           *)
IsName(x, n) == x = [form |-> "name", name |-> n]
RootTag(t, c) == LET root == Head(t.components[c].roots) IN IF root = 0 THEN None ELSE t.jsx[root].tag
Compounds(t, part) ==
  {c \in DOMAIN t.components :
     /\ RootTag(t, c) \notin {None, RootTag(t, part)}
     /\ \E v \in DOMAIN t.inits :
          LET term == t.inits[v]  object == Last(term)
          IN  /\ object.form = "object" /\ IsName(term[object.base], c)
              /\ \E p \in ToSet(object.parts) : p.name # None /\ IsName(term[p.value], part)}
SlotFor(t, part) ==
  LET slots == {t.components[c].slot : c \in Compounds(t, part)} \ {0}
  IN  IF slots = {} THEN 0 ELSE CHOOSE s \in slots : TRUE

(* resolveComposedParentElementId                                          *)
ParentOf(t, hs, i) ==
  LET near[j \in 0..Len(t.jsx)] ==
        IF j = 0 THEN 0 ELSE IF Participates(t, hs, j) THEN j ELSE near[t.jsx[j].parent]
      parent == near[t.jsx[i].parent]
  IN  IF parent = 0 /\ t.jsx[i].of # None THEN SlotFor(t, t.jsx[i].of) ELSE parent

(* The elements that are put into the tree.                                *)
Taking(t, hs) == {i \in DOMAIN t.jsx : Participates(t, hs, i)}

(* An element and those above it: its parent, its parent's, and so on.     *)
Line(t, hs, i) ==
  LET up[n \in 0..Len(t.jsx)] ==
        IF n = 0 THEN i ELSE IF up[n - 1] = 0 THEN 0 ELSE ParentOf(t, hs, up[n - 1])
  IN  up

(* visitRecord: an element, after those above it, up to one that has been  *)
(* visited, or that takes no part.                                         *)
Visit(t, hs, visited, i) ==
  LET up == Line(t, hs, i)
      ends(n) == up[n] \notin Taking(t, hs) \ visited \/ \E m \in 0..(n - 1) : up[m] = up[n]
      end == CHOOSE n \in 0..Len(t.jsx) : ends(n) /\ \A m \in 0..(n - 1) : ~ends(m)
  IN  [m \in 1..end |-> up[end - m]]
Sorted_Source(t, hs) == SelectSeq([i \in DOMAIN t.jsx |-> i], LAMBDA i : Participates(t, hs, i))
Sorted(t, hs) ==
  LET sorted[i \in 0..Len(t.jsx)] ==
        IF i = 0 THEN <<>> ELSE sorted[i - 1] \o Visit(t, hs, ToSet(sorted[i - 1]), i)
  IN  sorted[Len(t.jsx)]

(* Element nodes, in the order they are made: a parent that is not made    *)
(* yet is not found; a place among the elements that have the same parent. *)
Node(t, hs, sorted, n) ==
  LET i == sorted[n]
      e == t.jsx[i]
      parent == ParentOf(t, hs, i)
      made(k) == {sorted[m] : m \in 1..k}
  IN  [element |-> i, tag |-> TagOf(e, hs[i]), classes |-> ClassesOf(e, hs[i]),
       attributes |-> AttributesOf(e, hs[i]),
       parent |-> IF parent \in made(n - 1) THEN parent ELSE 0,
       index |-> IF parent = 0 THEN 1
                 ELSE Cardinality({j \in made(n) : ParentOf(t, hs, j) = parent})]
Nodes(t, hs) ==
  LET sorted == Sorted(t, hs)
  IN  [n \in DOMAIN sorted |-> Node(t, hs, sorted, n)]
------------------------------------------------------------------------------
TreeInit == Init /\ page = NoFile /\ hosts = <<>>

Jsx(f) == tracker.compilation.solid[f].jsx

Start(f) ==
  /\ page = NoFile /\ f \in Solids(tracker.compilation)
  /\ page' = f /\ hosts' = <<>>
  /\ UNCHANGED vars

Take(host) ==
  /\ page # NoFile /\ Len(hosts) < Len(Jsx(page))
  /\ hosts' = Append(hosts, host)
  /\ UNCHANGED <<vars, page>>

Stop ==
  /\ page # NoFile /\ Len(hosts) = Len(Jsx(page))
  /\ page' = NoFile /\ hosts' = <<>>
  /\ UNCHANGED vars

Alter ==
  /\ page = NoFile
  /\ (\E t \in Batches : ApplyBatch(t)) \/ (\E f \in Files : ApplyDeletion(f))
  /\ UNCHANGED treeVars

TreeNext == (\E f \in Solid : Start(f)) \/ (\E host : Take(host)) \/ Stop \/ Alter
TreeSpec == TreeInit /\ [][TreeNext]_<<vars, treeVars>>
------------------------------------------------------------------------------
Above(t, hs, i) == {Line(t, hs, i)[n] : n \in DOMAIN t.jsx}

(* Every element that takes part stands in the tree, once, and below its   *)
(* parent, wherever the file has that, unless it is above it too or its    *)
(* parent takes no part: a compound may put its children in a <Show>.      *)
(* Children stand in the order of the file, unless the later one had to be *)
(* made early, for an element before the other to be below it              *)
(* (visitRecord; siblingIndex, childElementNodes).                         *)
StandInOrder(t, hs) ==
  LET nodes == Nodes(t, hs)
  IN  /\ {a.element : a \in ToSet(nodes)} = Taking(t, hs)
      /\ \A n, m \in DOMAIN nodes : nodes[n].element = nodes[m].element => n = m
      /\ \A a \in ToSet(nodes) :
           \/ a.parent = ParentOf(t, hs, a.element)
           \/ a.element \in Above(t, hs, a.element)
           \/ ParentOf(t, hs, a.element) \notin Taking(t, hs)
      /\ \A a, b \in ToSet(nodes) :
           (a.parent = b.parent /\ a.parent # 0 /\ a.element < b.element) =>
             \/ a.index < b.index
             \/ \E i \in 1..(a.element - 1) : b.element \in Above(t, hs, i)
ElementsStandInOrder ==
  (page # NoFile /\ Len(hosts) = Len(Jsx(page))) => StandInOrder(tracker.compilation.solid[page], hosts)
==============================================================================
