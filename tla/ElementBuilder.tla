---------------------------- MODULE ElementBuilder ----------------------------
(***************************************************************************)
(* The elements of a solid file as the analysis sees them                  *)
(* (buildElementNodes, collectCompositionMetaByElementId in                *)
(* packages/ganko/src/compilation/binding/element-builder.ts), between the *)
(* edits of a tracker: ElementTree with the resolver of ComponentHost.  A  *)
(* build makes one resolver and asks it for the host of each element in    *)
(* the order of the file.                                                  *)
(***************************************************************************)
EXTENDS ElementTree, ComponentHost

(* A file imports the modules that its imported names are from; a module   *)
(* outside of the compilation imports none of the workspace.               *)
ASSUME ImportsAssumption ==
  /\ \A f \in Solid : \A t \in Trees[f] : \A n \in DOMAIN t.names :
       t.names[n].file \in Solid => t.names[n].file \in t.imports
  /\ \A f \in External : \A n \in DOMAIN ExternalTree[f].names : ExternalTree[f].names[n].file \notin Solid

VARIABLE memo   \* the memory of the page's resolver

builderVars == <<page, hosts, memo>>

(* composePolymorphicHost: <Outer as={Inner}>                              *)
Polymorphic(outer, inner) ==
  IF outer = None THEN inner
  ELSE [tag |-> IF inner.tag # None THEN inner.tag ELSE outer.tag,
        classes |-> outer.classes \cup inner.classes,
        attributes |-> inner.attributes @@ outer.attributes]

(* resolveHostForElement.  hostByTagCache adds nothing to what the names   *)
(* of a tag are known to be.                                               *)
Composed(outer, inner) ==
  Found(IF inner.binding = None THEN outer ELSE Polymorphic(outer, inner.binding), inner.memo)
HostAs(k, f, e, outer) ==
  IF e.as = None THEN outer ELSE Composed(outer.binding, Host(k, outer.memo, f, e.as))
HostFor(k, m, f, e) == IF e.dom THEN Found(None, m) ELSE HostAs(k, f, e, Host(k, m, f, e.tag))

(* The hosts of a whole file, found by one resolver.                       *)
AlsoFound(hs, r) == Found(Append(hs, r.binding), r.memo)
NextHost(k, f, r, e) == AlsoFound(r.binding, HostFor(k, r.memo, f, e))
HostsOf(k, f) ==
  LET jsx == Tree(k, f).jsx
      found[n \in 0..Len(jsx)] ==
        IF n = 0 THEN Found(<<>>, NewMemo) ELSE NextHost(k, f, found[n - 1], jsx[n])
  IN  found[Len(jsx)].binding
------------------------------------------------------------------------------
BuilderInit == TreeInit /\ memo = NewMemo

Begin(f) == Start(f) /\ memo' = NewMemo
Resolve ==
  LET r == HostFor(tracker.compilation, memo, page, Jsx(page)[Len(hosts) + 1])
  IN  Take(r.binding) /\ memo' = r.memo
Finish == Stop /\ memo' = NewMemo
Edit == Alter /\ UNCHANGED memo

BuilderNext == (\E f \in Solid : Begin(f)) \/ Resolve \/ Finish \/ Edit
BuilderSpec == BuilderInit /\ [][BuilderNext]_<<vars, builderVars>>
------------------------------------------------------------------------------
(* Between two questions a resolver is not resolving anything, and it has  *)
(* not parsed more modules than it may (resolvingLocal, resolvingExport).  *)
BuilderTypeOK ==
  /\ page \in Solid \cup {NoFile}
  /\ page # NoFile => page \in Solids(tracker.compilation) /\ Len(hosts) <= Len(Jsx(page))
  /\ memo.busy = {}
  /\ memo.parsed \subseteq External /\ Cardinality(memo.parsed) <= MaxExternal

(* What an element stands for does not depend on the elements before it:   *)
(* the resolver finds the host that one without a memory finds.  Two       *)
(* things it remembers do matter: a component that returns itself, through *)
(* others, has the host that the first of them to be asked for leaves it,  *)
(* and after the last module it may parse none outside is found.           *)
HostsAreTheirOwn ==
  \A i \in DOMAIN hosts :
    LET k == tracker.compilation  e == Jsx(page)[i]
        grounds == UNION {Grounds(k, page, tag) : tag \in {e.tag, e.as} \ {None}}
    IN  \/ hosts[i] = HostFor(k, NewMemo, page, e).binding
        \/ Circular(k, grounds)
        \/ Cardinality(memo.parsed) = MaxExternal /\ \E key \in grounds : key[2] \in External

(* The elements of a file that is not stale are those it had: a component  *)
(* cannot change under them without an import that leads from them to it.  *)
(* It can through a re-export, which is no import and has no edge, and by  *)
(* the loss of a module, whose edges are lost with it (buildDependencyGraph,*)
(* getTransitivelyAffected).                                               *)
Keys(k, f) ==
  RestsOn(k, UNION {{LocalKey(f, tag[1]) : tag \in {e.tag, e.as} \ {None}} :
                    e \in {x \in ToSet(Tree(k, f).jsx) : ~x.dom}})
ThroughReexport(k, keys) ==
  \E key \in keys : key[1] = "export" /\ \E e \in ToSet(Tree(k, key[2]).exports) : e.name = key[3] /\ e.source # None
UnstaleElementsStay ==
  page = NoFile => \A f \in Solids(tracker.compilation) \ tracker.stale :
    LET k == tracker.compilation
    IN  \/ Nodes(Tree(k, f), HostsOf(k, f)) = Nodes(Tree(base, f), HostsOf(base, f))
        \/ ThroughReexport(k, Keys(k, f))
        \/ \E key \in Keys(base, f) : Indexed(base, key[2]) /\ ~Indexed(k, key[2])
==============================================================================
