------------------------------ MODULE SymbolTable ------------------------------
(***************************************************************************)
(* The rules of a compilation's stylesheets, numbered by the parser        *)
(* (packages/ganko/src/css/build-context.ts), indexed by number in the     *)
(* symbol table (compilation/symbols/symbol-table.ts), and the declaration *)
(* that wins on an element (compilation/binding/cascade-binder.ts), as the *)
(* tracker's edits change them.                                            *)
(*                                                                         *)
(* A rule stands for one selector with one declaration of one property;    *)
(* its number is the selector's id and orders it in the source, both from  *)
(* counters of the parse.  A rule has its selector, the layer it is in, if *)
(* any, its specificity and whether it is important.                       *)
(***************************************************************************)
EXTENDS CompilationTracker, SelectorMatch, SequencesExt

CONSTANTS
  Inline,          \* the inline style's declaration
  FileOrder,       \* the stylesheets in the order a full build lists them
  Rules(_, _),     \* Rules(f, t): the rules of the tree t of the stylesheet f
  Layers(_, _),    \* Layers(f, t): the layers of each @layer of f, in order
  Selectors,       \* the selectors of the rules, which name them by index
  Document(_, _),  \* Document(s, t): the elements of the tree t of the solid file s
  Values           \* what an attribute's value may be at run time

ASSUME OrderAssumption ==
  /\ FileOrder \in Seq(Css) /\ ToSet(FileOrder) = Css
  /\ \A i, j \in DOMAIN FileOrder : i # j => FileOrder[i] # FileOrder[j]
ASSUME DocumentAssumption == \A s \in Solid : \A t \in Trees[s] : IsDocument(Document(s, t))
ASSUME SelectorAssumption == \A n \in DOMAIN Selectors : IsSelector(Selectors[n])
ASSUME ValuesAssumption == Values # {} /\ \A n \in DOMAIN Selectors : Asked(Selectors[n]) \subseteq Values
ASSUME RulesAssumption ==
  \A f \in Css : \A t \in Trees[f] :
    /\ Rules(f, t) \in Seq(ToSet(Rules(f, t)))
    /\ \A r \in ToSet(Rules(f, t)) : /\ r.selector \in DOMAIN Selectors
                                    /\ r.important \in BOOLEAN /\ r.specificity \in Int
    /\ Layers(f, t) \in Seq(ToSet(Layers(f, t)))
    /\ \A list \in ToSet(Layers(f, t)) : list \in Seq(ToSet(list))
ASSUME NoneAssumption ==
  None \notin [file: Css, id: Nat, layerOrder: Nat,
               rule: UNION {UNION {ToSet(Rules(f, t)) : t \in Trees[f]} : f \in Css}]

(* The stylesheets that were parsed on their own, for an edit, in the      *)
(* order in which their trees entered the compilation: withoutFile and     *)
(* withCSSTree move a tree to the end.                                     *)
VARIABLE alone

tableVars == <<vars, alone>>
------------------------------------------------------------------------------
(* What of a sequence passes a test: SelectSeq, in terms of FlattenSeq.    *)
Kept(s, T(_)) == FlattenSeq([i \in DOMAIN s |-> IF T(s[i]) THEN <<s[i]>> ELSE <<>>])

Before(order, f, g) ==
  \E i, j \in DOMAIN order : i < j /\ order[i] = f /\ order[j] = g

(* A full build numbers the rules of all stylesheets with one counter; a   *)
(* parse for an edit is a build of one file.                               *)
Earlier(f) == {g \in Sheets(base) : Before(FileOrder, g, f)}
FirstId_EachFile(f) == 0
FirstId(f) ==
  IF f \in ToSet(alone) THEN 0
  ELSE MapThenSumSet(LAMBDA g : Len(Rules(g, base.css[g])), Earlier(f))

RulesOf(f) == Rules(f, tracker.compilation.css[f])
Numbered(f) ==
  LET rules == RulesOf(f)
      first == FirstId(f)
  IN  [i \in DOMAIN rules |-> [file |-> f, id |-> first + i - 1, rule |-> rules[i]]]

(* buildSymbolTable: the map from numbers to rules, filled tree by tree; a *)
(* rule takes the place of one of its number.                              *)
TreeOrder ==
  Kept(FileOrder, LAMBDA f : f \in Sheets(tracker.compilation) \ ToSet(alone)) \o alone
Has(table, r) == \E i \in DOMAIN table : table[i].id = r.id
Put_First(table, r) == IF Has(table, r) THEN table ELSE Append(table, r)
Put(table, r) ==
  IF Has(table, r) THEN [i \in DOMAIN table |-> IF table[i].id = r.id THEN r ELSE table[i]]
  ELSE Append(table, r)
Table == FoldLeft(Put, <<>>, FlattenSeq([i \in DOMAIN TreeOrder |-> Numbered(TreeOrder[i])]))

(* buildSymbolTable: the map from layers to their order, under the whole   *)
(* list that an @layer names; resolveLayerOrder: a layer that is not in it *)
(* counts as the first, and so does none.                                  *)
Registered_Last(map, layers) == Append(SelectSeq(map, LAMBDA l : l # layers), layers)
Registered(map, layers) == IF layers \in ToSet(map) THEN map ELSE Append(map, layers)
LayersIn(order) ==
  FlattenSeq([i \in DOMAIN order |-> Layers(order[i], tracker.compilation.css[order[i]])])
LayerOrders ==
  LET map == FoldLeft(Registered, <<>>, LayersIn(TreeOrder))
  IN  [layer \in (UNION {ToSet(map[i]) : i \in DOMAIN map}) \cup {r.rule.layer : r \in ToSet(Table)} |->
         Max({0, SelectInSeq(map, LAMBDA l : l = <<layer>>) - 1})]

(* What the matcher answers for each element and selector.                 *)
MatchResult ==
  [f \in Solid |-> [t \in Trees[f] |-> [e \in DOMAIN Document(f, t) |->
     [n \in DOMAIN Selectors |-> MatchElement(Document(f, t), Selectors[n], e)]]]]

(* buildScopedSelectorIndex, appendMatchingEdges: the rules in scope that  *)
(* may match, in the order of the map, those found by a tag after others.  *)
InScope(s) ==
  LET scope == CssScope(tracker.compilation, s)
      scoped == Kept(Table, LAMBDA r : r.file \in scope)
      orders == LayerOrders
  IN  [i \in DOMAIN scoped |->
         [file |-> scoped[i].file, id |-> scoped[i].id, rule |-> scoped[i].rule,
          layerOrder |-> orders[scoped[i].rule.layer]]]
Matches(s, e, inScope) ==
  LET t == tracker.compilation.solid[s]
      matching == Kept(inScope, LAMBDA r : MatchResult[s][t][e][r.rule.selector] # "none")
      byKey(r) == FoundByKey(Document(s, t), Selectors[r.rule.selector], e)
      byTag(r) == FoundByTag(Document(s, t), Selectors[r.rule.selector], e)
  IN  Kept(matching, byKey) \o Kept(matching, LAMBDA r : byTag(r) /\ ~byKey(r))
------------------------------------------------------------------------------
(* compareCascadePositions: a is above b.                                  *)
LayerAbove_Straight(a, b) == a.layerOrder > b.layerOrder
LayerAbove(a, b) ==
  IF a.rule.important THEN a.layerOrder < b.layerOrder ELSE a.layerOrder > b.layerOrder
Above(a, b) ==
  IF a.rule.important # b.rule.important THEN a.rule.important
  ELSE IF a.layerOrder # b.layerOrder THEN LayerAbove(a, b)
  ELSE IF a.rule.specificity # b.rule.specificity THEN a.rule.specificity > b.rule.specificity
  ELSE a.id > b.id

(* buildCascadeMap: the first rule, then whichever is above the one so far,*)
(* then the inline style unless that one is important.                     *)
Winner(matches, inline) ==
  LET best == FoldLeft(LAMBDA b, r : IF b = None \/ Above(r, b) THEN r ELSE b, None, matches)
  IN  IF inline /\ (best = None \/ ~best.rule.important) THEN Inline ELSE best
------------------------------------------------------------------------------
(* The tracker's operations, and what they parse.                          *)
Reparses(F) ==
  \E parsed \in SetToSeqs(F \cap (Css \ Scss)) :
    alone' = Kept(alone, LAMBDA f : f \notin F) \o parsed

TableInit == Init /\ alone = <<>>
TableNext ==
  \/ \E t \in Batches : ApplyBatch(t) /\ Reparses(DOMAIN t)
  \/ \E f \in Files :
       \/ ApplyDeletion(f) /\ alone' = Kept(alone, LAMBDA g : g # f)
       \/ \E t \in Trees[f] : ApplyChange(f, t) /\ Reparses({f})
  \/ /\ ApplyInputChange \/ SetResults \/ InvalidateResults \/ Hold \/ SetHeldResults
     /\ UNCHANGED alone
TableSpec == TableInit /\ [][TableNext]_tableVars
------------------------------------------------------------------------------
(* Semantic models are built by a handler that has the current handle.     *)
HasCurrent == held = tracker
Elements(s) == DOMAIN Document(s, tracker.compilation.solid[s])

(* A rule is missing from the table only because a stylesheet parsed on    *)
(* its own after it has one of its number: without an edit the table is    *)
(* complete, and an edit costs other stylesheets no more rules than the    *)
(* edited one has (buildSymbolTable, nextSelectorId).                      *)
OnlyNamesakesAreLost ==
  HasCurrent => LET table == ToSet(Table) IN
    \A f \in Sheets(tracker.compilation) : \A r \in ToSet(Numbered(f)) \ table :
      \E g \in ToSet(alone) \ {f} :
        r.id < Len(RulesOf(g)) /\ (f \in ToSet(alone) => Before(alone, f, g))

(* The rules of the stylesheet that was edited last are all in the table.  *)
LatestEditStands ==
  (HasCurrent /\ alone # <<>>) => ToSet(Numbered(Last(alone))) \subseteq ToSet(Table)

(* The layers stand in the order in which the stylesheets of a full build  *)
(* first name them, except one that a stylesheet parsed on its own names,  *)
(* because its tree has moved to the end, and one in a list of layers,     *)
(* which is not taken apart (buildSymbolTable, withoutFile, withCSSTree).  *)
LayersStandInOrder ==
  HasCurrent =>
    LET sheets == Kept(FileOrder, LAMBDA f : f \in Sheets(tracker.compilation))
        named == FlattenSeq(LayersIn(sheets))
        first(l) == SelectInSeq(named, LAMBDA m : m = l)
        moved == {f \in ToSet(alone) : f \in Sheets(tracker.compilation)}
        doubtful(l) == \/ \E f \in moved : l \in ToSet(FlattenSeq(LayersIn(<<f>>)))
                       \/ \E list \in ToSet(LayersIn(sheets)) : Len(list) > 1 /\ l \in ToSet(list)
        orders == LayerOrders
    IN  \A l, m \in ToSet(named) :
          doubtful(l) \/ doubtful(m) \/ (first(l) < first(m) <=> orders[l] < orders[m])

(* The winning declaration is one that every important rule that matches   *)
(* gives way to, then the inline style, then the normal rules: by layer,   *)
(* the other way round for important ones, by specificity, by source order *)
(* (bind, compareCascadePositions).  Not so where rules in layers meet     *)
(* rules in none, which rank above all layers but count as in the first.   *)
Strength(r) ==
  LET turned(n) == IF r.rule.important THEN -n ELSE n
  IN  <<turned(IF r.rule.layer = None THEN 1 ELSE 0), turned(r.layerOrder), r.rule.specificity, r.id>>
Beats(a, b) ==
  \E n \in 1..4 : /\ Strength(a)[n] > Strength(b)[n]
                  /\ \A m \in 1..(n - 1) : Strength(a)[m] = Strength(b)[m]
Mixed(matches) ==
  \E r, q \in ToSet(matches) : r.rule.layer = None /\ q.rule.layer # None
WinnerIsStrongest ==
  HasCurrent => \A s \in Solids(tracker.compilation) :
    LET inScope == InScope(s)
    IN \A e \in Elements(s) :
         LET matches == Matches(s, e, inScope)
             important == {r \in ToSet(matches) : r.rule.important}
             strongest(S) == {r \in S : \A q \in S : ~Beats(q, r)}
             normal == IF matches = <<>> THEN {None} ELSE strongest(ToSet(matches))
         IN  \A inline \in BOOLEAN :
               \/ Mixed(matches)
               \/ Winner(matches, inline) \in
                    IF important # {} THEN strongest(important)
                    ELSE IF inline THEN {Inline} ELSE normal

(* What a selector says of an element of a file's tree, at run time.       *)
MayHold ==
  [f \in Solid |-> [t \in Trees[f] |-> [e \in DOMAIN Document(f, t) |->
     [n \in DOMAIN Selectors |->
        {Holds(d, Selectors[n], e) : d \in AtRunTime(Document(f, t), Values)}]]]]
Says(s, e, r) == MayHold[s][tracker.compilation.solid[s]][e][r.rule.selector]
Unclear(s, r) == Blind(Document(s, tracker.compilation.solid[s]), Selectors[r.rule.selector])

(* A rule that matches an element in a cascade may apply to it, unless its *)
(* selector asks an attribute for two values, and does for every value of  *)
(* the attributes unless the match is conditional, if its selector has no  *)
(* dynamic id and no dynamic value within :is or :not (matchElement).      *)
MatchesHold ==
  HasCurrent => \A s \in Solids(tracker.compilation) :
    LET inScope == InScope(s)
    IN \A e \in Elements(s) : \A r \in ToSet(Matches(s, e, inScope)) :
         \/ Unclear(s, r)
         \/ /\ TRUE \in Says(s, e, r) \/ Contradicts(Selectors[r.rule.selector])
            /\ FALSE \in Says(s, e, r) =>
                 MatchResult[s][tracker.compilation.solid[s]][e][r.rule.selector] = "conditional"

(* No rule in scope that may apply to an element is missing from its       *)
(* cascade, with the same exceptions and that of selectors whose subject   *)
(* has neither a tag nor an id, a class or an attribute to file them under *)
(* (buildSelectorDispatchKeys, createSelectorSymbol, appendMatchingEdges). *)
NoMatchIsMissed ==
  HasCurrent => \A s \in Solids(tracker.compilation) :
    LET inScope == InScope(s)
    IN \A e \in Elements(s) : \A r \in ToSet(inScope) \ ToSet(Matches(s, e, inScope)) :
         Unclear(s, r) \/ Unkeyed(Selectors[r.rule.selector]) \/ TRUE \notin Says(s, e, r)
==============================================================================
