---------------------------- MODULE ComponentHost ----------------------------
(***************************************************************************)
(* Which DOM element a component stands for: the component host resolver   *)
(* (packages/ganko/src/compilation/binding/element-builder.ts), which      *)
(* follows names through variables, imports, exports and other components, *)
(* remembers what it found and stops where it comes back to a name it is   *)
(* resolving.                                                              *)
(*                                                                         *)
(* To the fields of DependencyGraph a solid tree adds: components, which   *)
(* JSX elements each component function returns (0 for anything else) and  *)
(* where it puts its children; inits, the initializer of each variable;    *)
(* names, what each imported name stands for; exports, in their order;     *)
(* primitives, the names that Solid's own components have in the file; jsx,*)
(* the elements.  A host has a tag, classes and attributes; props that an  *)
(* attribute is bound to, and components that return a fragment or a       *)
(* context provider, are left out.                                         *)
(***************************************************************************)
EXTENDS CompilationTracker, SequencesExt

CONSTANTS
  External,      \* modules outside of the compilation that can be parsed
  ExternalTree,  \* ExternalTree[f]: the tree of the module f
  MaxExternal,   \* MAX_EXTERNAL_FILES_PARSED
  HtmlTags,      \* HTML_TAG_NAMES
  Identifiers,   \* the names in the trees
  MaxNodes       \* bound on the nodes of an initializer and the exports of a file

ASSUME ExternalAssumption ==
  External \cap Files = {} /\ MaxExternal \in Nat /\ None \notin Files \cup External

Indexed(k, f) == f \in Solids(k) \cup External
Tree(k, f) == IF f \in Solids(k) THEN k.solid[f] ELSE ExternalTree[f]

(* Names and terms are finite, and the names of an element's tag, of a     *)
(* variable and of an export are among the identifiers.                    *)
IsTerm(term) ==
  /\ Len(term) \in 1..MaxNodes /\ term = [i \in 1..Len(term) |-> term[i]]
  /\ \A i \in DOMAIN term : /\ term[i].form \in {"nothing", "name", "member", "object"}
                            /\ term[i].form = "name" => term[i].name \in Identifiers
IsTree(t) ==
  /\ \A n \in DOMAIN t.inits : IsTerm(t.inits[n])
  /\ \A n \in DOMAIN t.names : t.names[n].name \in Identifiers \cup {"*"}
  /\ Len(t.exports) \in 0..(MaxNodes - 2) /\ DOMAIN t.exports = 1..Len(t.exports)
  /\ \A i \in DOMAIN t.exports : {t.exports[i].name, t.exports[i].of} \subseteq Identifiers
  /\ \A i \in DOMAIN t.jsx : /\ t.jsx[i].tag # None
                             /\ \A tag \in {t.jsx[i].tag, t.jsx[i].as} \ {None} : tag[1] \in Identifiers
  /\ \A n \in DOMAIN t.components : ToSet(t.components[n].roots) \subseteq {0} \cup DOMAIN t.jsx
ASSUME IdentifiersAssumption ==
  /\ IsFiniteSet(Solid \cup External \cup Identifiers) /\ MaxNodes \in Nat \ {0, 1}
  /\ \A f \in Solid : \A t \in Trees[f] : IsTree(t)
  /\ \A f \in External : IsTree(ExternalTree[f])
------------------------------------------------------------------------------
(* resolveHostEntryFromJSXElement: a DOM element is a host; anything else  *)
(* waits for the host of its tag, which is looked up as one name.          *)
Entry(t, i) ==
  IF i = 0 THEN None
  ELSE LET e == t.jsx[i]
       IN  [inner |-> IF e.dom THEN None ELSE e.tag,
            tag |-> IF e.dom THEN e.tag[1] ELSE None,
            classes |-> e.classes, attributes |-> e.attributes]

(* resolveComponentHostEntryForFunction: all returns must agree.           *)
HostEntry(t, n) ==
  IF n \notin DOMAIN t.components THEN None
  ELSE LET returned == {Entry(t, i) : i \in ToSet(t.components[n].roots)}
       IN  IF \E e \in returned : returned = {e} THEN CHOOSE e \in returned : TRUE ELSE None

(* resolveTagNameFromPolymorphicProp                                       *)
AsTag(attributes) ==
  IF "as" \in DOMAIN attributes /\ attributes["as"] \in HtmlTags THEN attributes["as"] ELSE None

(* resolveComponentHostEntry, given the host of the inner tag: the outer   *)
(* attributes win.                                                         *)
Wrapped(entry, inner) ==
  LET tag == IF inner = None THEN None ELSE inner.tag
  IN  [tag |-> IF tag # None THEN tag ELSE AsTag(entry.attributes),
       classes |-> entry.classes \cup (IF inner = None THEN {} ELSE inner.classes),
       attributes |-> IF inner = None THEN entry.attributes ELSE entry.attributes @@ inner.attributes]

(* LayoutBinding                                                           *)
Component(host) == [kind |-> "component", host |-> host]
Namespace(host, members) ==
  IF host = None /\ DOMAIN members = {} THEN None
  ELSE [kind |-> "namespace", host |-> host, members |-> members]
IsNamespace(b) == b # None /\ b.kind = "namespace"
HostOf(b) == IF b = None THEN None ELSE b.host
MemberOf(b, n) == IF IsNamespace(b) /\ n \in DOMAIN b.members THEN b.members[n] ELSE None
------------------------------------------------------------------------------
(* What a name, an export and a module stand for: a term, the sequence of  *)
(* its nodes in the order in which they are evaluated.  The first ones are *)
(* looked up, the others are made of nodes before them, which they give by *)
(* their places.                                                           *)
Nothing == [form |-> "nothing"]
Name(n) == [form |-> "name", name |-> n]
Exported(f, n) == [form |-> "export", file |-> f, name |-> n]
Imported(from) == [form |-> "import", of |-> from]
Member(i, n) == [form |-> "member", of |-> i, name |-> n]
Object(i, parts) == [form |-> "object", base |-> i, parts |-> parts]
Part(n, i) == [name |-> n, value |-> i]
Spread(i) == [name |-> None, value |-> i]

(* The host of an entry is made of that of its inner tag.  An inner tag    *)
(* that is a path is looked up as one name, which nothing has.             *)
OfEntry(entry) ==
  <<IF entry.inner = None \/ Len(entry.inner) > 1 THEN Nothing ELSE Name(entry.inner[1]),
    [form |-> "entry", of |-> 1, entry |-> entry]>>

(* resolveLocalIdentifierBinding                                           *)
LocalTerm(k, f, n) ==
  LET t == Tree(k, f)
  IN  IF HostEntry(t, n) # None THEN OfEntry(HostEntry(t, n))
      ELSE IF n \in DOMAIN t.inits THEN t.inits[n]
      ELSE IF n \in DOMAIN t.names THEN <<Imported(t.names[n])>>
      ELSE <<Nothing>>

(* resolveBindingFromExportEntity: a re-export leads to another module of  *)
(* the compilation, an exported component to its entry, the rest to a name.*)
ExportTerm(k, f, e) ==
  LET t == Tree(k, f)
  IN  IF e.typeOnly THEN <<Nothing>>
      ELSE IF e.source # None
      THEN <<IF e.source \in Solids(k) THEN Exported(e.source, e.of) ELSE Nothing>>
      ELSE IF e.of \in DOMAIN t.components /\ HostEntry(t, e.of) # None THEN OfEntry(HostEntry(t, e.of))
      ELSE IF e.name = "default" /\ e.of \notin DOMAIN t.inits THEN <<Nothing>>
      ELSE <<Name(e.of)>>

(* Keys of localBindingCache, exportBindingCache, namespaceBindingCache.   *)
LocalKey(f, n) == <<"local", f, n>>
ExportKey(f, n) == <<"export", f, n>>
SpaceKey(f) == <<"space", f, "*">>

(* The terms of a key, one after the other: of the exports of a file those *)
(* with its name.                                                          *)
Terms(k, key) ==
  LET f == key[2]  n == key[3]  exports == Tree(k, f).exports
  IN  CASE key[1] = "local" -> <<LocalTerm(k, f, n)>>
        [] key[1] = "export" ->
             [i \in DOMAIN exports |->
                IF exports[i].name = n THEN ExportTerm(k, f, exports[i]) ELSE <<Nothing>>]
        [] key[1] = "space" ->
             <<<<Nothing>> \o [i \in DOMAIN exports |-> Exported(f, exports[i].name)]
               \o <<Object(1, [i \in DOMAIN exports |-> Part(exports[i].name, i + 1)])>>>>
------------------------------------------------------------------------------
(* A resolver's memory: known bindings, the names it is resolving (busy),  *)
(* external modules parsed, and what became of each import of one.         *)
NewMemo == [known |-> <<>>, busy |-> {}, parsed |-> {}, outside |-> <<>>]

Put(f, x, v) == [y \in DOMAIN f \cup {x} |-> IF y = x THEN v ELSE f[y]]

(* An answer, and the memory after it.                                     *)
Found(b, m) == [binding |-> b, memo |-> m]

(* Where an import leads: resolveAndIndexExternalModule if not into the    *)
(* compilation.  The limit comes first, even for a module parsed before.   *)
Located(k, m, f, target) ==
  IF target \in Solids(k) THEN Found(target, m)
  ELSE IF <<f, target>> \in DOMAIN m.outside THEN Found(m.outside[<<f, target>>], m)
  ELSE LET refused == Cardinality(m.parsed) >= MaxExternal \/ target \notin External
           leads == IF refused THEN None ELSE target
       IN  Found(leads, [known |-> m.known, busy |-> m.busy,
                         parsed |-> m.parsed \cup (IF refused THEN {} ELSE {target}),
                         outside |-> Put(m.outside, <<f, target>>, leads)])

ImportKey(to, n) == IF to = None THEN None ELSE IF n = "*" THEN SpaceKey(to) ELSE ExportKey(to, n)

(* The key that a node of the file f looks up, or None.                    *)
Key(k, m, f, x) ==
  CASE x.form = "nothing" -> Found(None, m)
    [] x.form = "name" -> Found(LocalKey(f, x.name), m)
    [] x.form = "export" -> Found(ExportKey(x.file, x.name), m)
    [] x.form = "import" -> LET at == Located(k, m, f, x.of.file)
                            IN  Found(ImportKey(at.binding, x.of.name), at.memo)

(* Where a key's binding is remembered, if it is.                          *)
Remembered_Name(m, key) == {x \in DOMAIN m.known : x[1] = key[1] /\ x[3] = key[3]}
Remembered(m, key) == {key} \cap DOMAIN m.known

(* What is known without resolving: a name that is being resolved has no   *)
(* binding, and that is not remembered.                                    *)
Known(m, key) ==
  IF key = None \/ Remembered(m, key) = {} THEN None ELSE m.known[CHOOSE x \in Remembered(m, key) : TRUE]
Unresolved(m, key) == key # None /\ Remembered(m, key) = {} /\ key \notin m.busy

Entered(m, key) == IF key[1] = "space" THEN m ELSE [m EXCEPT !.busy = @ \cup {key}]
Left_Busy(m, key, b) == [m EXCEPT !.known = Put(@, key, b)]
Left(m, key, b) ==
  [known |-> Put(m.known, key, b), busy |-> m.busy \ {key}, parsed |-> m.parsed, outside |-> m.outside]

(* appendObjectExpressionMembers: a later member takes the place of an     *)
(* earlier one, and a spread adds what a namespace has.                    *)
MembersOf(b) == IF IsNamespace(b) THEN b.members ELSE <<>>
WithPart(part, members, b) ==
  (IF part.name = None THEN MembersOf(b) ELSE IF b = None THEN <<>> ELSE part.name :> b) @@ members

(* Object.assign, or an object: what the base has, and the parts.          *)
Assigned(first, parts, values) ==
  LET with(members, part) == WithPart(part, members, values[part.value])
  IN  Namespace(HostOf(first), FoldLeft(with, MembersOf(first), parts))

(* The binding of a node that is made of others, given their bindings.     *)
IsMade(x) == x.form \in {"member", "object", "entry"}
Made(x, values) ==
  CASE x.form = "member" -> MemberOf(values[x.of], x.name)
    [] x.form = "object" -> Assigned(values[x.base], x.parts, values)
    [] x.form = "entry" ->
         Component(IF x.entry.inner = None
                   THEN [tag |-> x.entry.tag, classes |-> x.entry.classes, attributes |-> x.entry.attributes]
                   ELSE Wrapped(x.entry, HostOf(values[x.of])))
------------------------------------------------------------------------------
(* The calls of the resolver: a stack of frames.  A frame is a key that is *)
(* being resolved, the one of its terms that is being evaluated, and the   *)
(* bindings of the term's nodes so far.                                    *)
Frame(key) == [key |-> key, term |-> 1, values |-> <<>>]
Given(frame, b) == [frame EXCEPT !.values = Append(@, b)]
OnTop(c, m, frame) == [memo |-> m, stack |-> Append(Front(c.stack), frame)]
Call(m, stack, key) == [memo |-> Entered(m, key), stack |-> Append(stack, Frame(key))]

(* A key's binding is remembered, and the caller goes on with it.          *)
Return(c, b) ==
  LET callers == Front(c.stack)
  IN  [memo |-> Left(c.memo, Last(c.stack).key, b),
       stack |-> IF callers = <<>> THEN <<>> ELSE Append(Front(callers), Given(Last(callers), b))]

(* resolveBindingFromExpression: the next node of a term.                  *)
Ask(c, at) ==
  IF Unresolved(at.memo, at.binding) THEN Call(at.memo, c.stack, at.binding)
  ELSE OnTop(c, at.memo, Given(Last(c.stack), Known(at.memo, at.binding)))
Evaluate(k, c, frame, x) ==
  IF IsMade(x) THEN OnTop(c, c.memo, Given(frame, Made(x, frame.values)))
  ELSE Ask(c, Key(k, c.memo, frame.key[2], x))

(* Every term of a key is tried until one has a binding, that of its last  *)
(* node.                                                                   *)
Try(k, c, frame, term) ==
  LET n == Len(frame.values)
  IN  IF n < Len(term) THEN Evaluate(k, c, frame, term[n + 1])
      ELSE IF frame.values[n] # None THEN Return(c, frame.values[n])
      ELSE OnTop(c, c.memo, [key |-> frame.key, term |-> frame.term + 1, values |-> <<>>])
Proceed(k, c, frame, terms) ==
  IF frame.term > Len(terms) THEN Return(c, None) ELSE Try(k, c, frame, terms[frame.term])
Step(k, c) == IF c.stack = <<>> THEN c ELSE Proceed(k, c, Last(c.stack), Terms(k, Last(c.stack).key))

(* More steps, by a burst each, than a resolver can take: it enters each   *)
(* name and export once, and each node asks for one module.                *)
NameKeys == {"local", "export"} \X (Solid \cup External) \X Identifiers
Places == (MaxNodes + 1) * (MaxNodes + 1)
MaxBursts == (Cardinality(NameKeys) + 1) * Places * (Places + 1)

Burst(k, c) == Step(k, Step(k, Step(k, Step(k, c))))
Calls(k, c) ==
  LET run[n \in 0..MaxBursts] == IF n = 0 THEN c ELSE Burst(k, run[n - 1])
  IN  run
EndOf(run) == run[CHOOSE n \in 0..MaxBursts : run[n].stack = <<>>]
Ended(k, c) == EndOf(Calls(k, c))

(* resolveLocalIdentifierBinding, resolveExportBinding, from outside.      *)
Answered(key, c) == Found(c.memo.known[key], c.memo)
Resolved(k, m, key) ==
  IF Unresolved(m, key) THEN Answered(key, Ended(k, Call(m, <<>>, key))) ELSE Found(Known(m, key), m)

(* resolveTagBinding, resolveHost: a tag is a path through namespaces.     *)
AtPath(b, tag) == HostOf(FoldLeft(MemberOf, b, Tail(tag)))
HostAt(tag, r) == Found(AtPath(r.binding, tag), r.memo)
Host(k, m, f, tag) == HostAt(tag, Resolved(k, m, LocalKey(f, tag[1])))
------------------------------------------------------------------------------
(* Reference: the keys a key's meaning rests on.                           *)
RefersTo(k, f, x) ==
  CASE x.form = "name" -> {LocalKey(f, x.name)}
    [] x.form = "export" -> {ExportKey(x.file, x.name)}
    [] x.form = "import" -> IF Indexed(k, x.of.file) THEN {ImportKey(x.of.file, x.of.name)} ELSE {}
    [] OTHER -> {}
Rests(k, key) ==
  UNION {UNION {RefersTo(k, key[2], x) : x \in ToSet(term)} : term \in ToSet(Terms(k, key))}

AllKeys == NameKeys \cup {SpaceKey(f) : f \in Solid \cup External}
ASSUME NoKeyAssumption == None \notin AllKeys
More(k, keys) == keys \cup UNION {Rests(k, key) : key \in keys}
Reached(k, keys) ==
  LET on[n \in 0..Cardinality(AllKeys)] == IF n = 0 THEN keys ELSE More(k, on[n - 1])
  IN  on
Closed(k, on) == on[CHOOSE n \in 0..Cardinality(AllKeys) : More(k, on[n]) = on[n]]
RestsOn(k, keys) == Closed(k, Reached(k, keys))

(* What a tag's host rests on, and whether that goes round in a circle.    *)
Grounds(k, f, tag) == RestsOn(k, {LocalKey(f, tag[1])})
Circular(k, keys) == \E key \in keys : key \in RestsOn(k, Rests(k, key))
==============================================================================
