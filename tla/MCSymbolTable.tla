---------------------------- MODULE MCSymbolTable ----------------------------
(* The files of MCCompilationTracker, with elements and rules.  The page   *)
(* nests the elements of its first tree and lists those of its second; the *)
(* item's second tree is alike.  The theme's second text has other rules   *)
(* and a list of layers.                                                   *)
EXTENDS MCCompilationTracker, SymbolTable
CONSTANTS inlineStyle, x, y

MCFileOrder == <<itemCss, theme, mixins>>
MCValues == {x, y}

Element(parent, tag, classes, attributes) ==
  [parent |-> parent, tag |-> tag, classes |-> classes, attributes |-> attributes]
Nest ==
  <<Element(0, "main", {}, <<>>), Element(1, "div", {"a"}, [type |-> Dynamic]),
    Element(2, "div", {"a"}, [type |-> x]), Element(3, "span", {}, [type |-> Dynamic]),
    Element(1, "span", {"a"}, [id |-> Dynamic])>>
List ==
  <<Element(0, "ul", {}, [id |-> x]), Element(1, "li", {"a"}, [type |-> Dynamic]),
    Element(1, "li", {}, [type |-> x]), Element(1, Wild, {"a"}, <<>>), Element(1, "li", {}, [id |-> Dynamic])>>
Single == <<Element(0, "li", {"a"}, [type |-> Dynamic])>>
MCDocument(s, t) ==
  IF (s = page /\ t.imports = {item}) \/ t.imports = {theme} THEN Nest
  ELSE IF s = page THEN List ELSE Single

Plain ==
  [tag |-> Wild, id |-> Wild, classes |-> {}, attributes |-> {}, places |-> {}, anyOf |-> {}, noneOf |-> {}]
Tag(t) == [Plain EXCEPT !.tag = t]
Class(c) == [Plain EXCEPT !.classes = {c}]
Typed(t, v) == [Plain EXCEPT !.tag = t, !.attributes = {[name |-> "type", value |-> v]}]
Place(t, from, step, offset) ==
  [Plain EXCEPT !.tag = t, !.places = {[from |-> from, step |-> step, offset |-> offset]}]
Path(compounds, combinators) == [compounds |-> compounds, combinators |-> combinators]

MCSelectors ==
  <<Path(<<Tag("span"), Class("a"), Tag("main")>>, <<"descendant", "child">>),
    Path(<<Tag("li"), Typed("li", x)>>, <<"sibling">>),
    Path(<<Typed(Wild, x)>>, <<>>),
    Path(<<Tag("span"), Typed("div", x), Tag("main")>>, <<"descendant", "descendant">>),
    Path(<<Place("li", "first", 2, 1)>>, <<>>),
    Path(<<Place(Wild, "lastOfType", 0, 1)>>, <<>>),
    Path(<<[Class("a") EXCEPT !.noneOf = {{Typed(Wild, x)}}]>>, <<>>),
    Path(<<[Tag("span") EXCEPT !.anyOf = {{Class("a"), Typed(Wild, x)}}]>>, <<>>),
    Path(<<[Plain EXCEPT !.id = x]>>, <<>>),
    Path(<<Class("a"), Tag("li")>>, <<"adjacent">>),
    Path(<<Place("li", "last", -1, 2), Typed(Wild, Wild)>>, <<"sibling">>),
    Path(<<Tag("div"), Typed("div", x), Tag("main")>>, <<"descendant", "descendant">>),
    Path(<<[Plain EXCEPT !.attributes = Typed(Wild, x).attributes \cup Typed(Wild, y).attributes]>>, <<>>)>>

Rule(selector, important, layer, specificity) ==
  [selector |-> selector, important |-> important, layer |-> layer, specificity |-> specificity]
MCRules(f, t) ==
  CASE f = itemCss -> <<Rule(1, TRUE, "ui", 3), Rule(2, FALSE, "base", 2), Rule(3, TRUE, "base", 2)>>
    [] f = theme -> IF t.text = 1 THEN <<Rule(4, FALSE, "ui", 3), Rule(5, FALSE, "late", 2), Rule(12, FALSE, "ui", 4)>>
                    ELSE <<Rule(6, FALSE, "base", 2), Rule(7, TRUE, "base", 2), Rule(8, TRUE, None, 2)>>
    [] f = mixins -> <<Rule(9, FALSE, None, 4), Rule(10, FALSE, "ui", 1), Rule(11, TRUE, "base", 1),
                      Rule(13, FALSE, "late", 1)>>
MCLayers(f, t) ==
  CASE f = itemCss -> <<<<"base">>, <<"ui">>, <<"base">>>>
    [] f = theme -> IF t.text = 1 THEN <<<<"ui">>, <<"late">>>> ELSE <<<<"late", "ui">>, <<"base">>>>
    [] f = mixins -> <<<<"ui">>, <<"base">>>>
==============================================================================
