--------------------------- MODULE MCElementBuilder ---------------------------
(* A page of elements; a compound menu; two panels, each of which may be a *)
(* wrapper of the other; a barrel module that hands the panels on; and two *)
(* modules outside of the compilation, one of which may be parsed.         *)
EXTENDS ElementBuilder
CONSTANTS app, menu, panels, barrel, lib, kit

MCSolid == {app, menu, panels, barrel}
MCExternal == {lib, kit}
MCColocated == [f \in MCSolid |-> NoFile]
MCHtmlTags == {"div", "ul", "li", "nav", "header", "button", "section"}
MCIdentifiers ==
  {"Menu", "Item", "Base", "Other", "Gone", "List", "Left", "Right", "Button", "default", "P", "L", "R", "Kit",
   "For", "Show"} \cup MCHtmlTags

Empty == <<>>
Dom(tag, classes, parent, of) ==
  [dom |-> TRUE, tag |-> <<tag>>, as |-> None, classes |-> classes, attributes |-> Empty, parent |-> parent, of |-> of]
Use(tag, as, parent, of) ==
  [dom |-> FALSE, tag |-> tag, as |-> as, classes |-> {}, attributes |-> Empty, parent |-> parent, of |-> of]
With(e, classes, attributes) == [e EXCEPT !.classes = classes, !.attributes = attributes]
Returns(i, slot) == [roots |-> <<i>>, slot |-> slot]
From(f, n) == [file |-> f, name |-> n]
Exports(n, of, source) == [name |-> n, of |-> of, source |-> source, typeOnly |-> FALSE]
Plain ==
  [imports |-> {}, bare |-> {}, components |-> Empty, inits |-> Empty, names |-> Empty,
   exports |-> Empty, primitives |-> {}, jsx |-> Empty]

(* The item's element before the base's, and after it.                     *)
MenuOf(item, root, header, list) ==
  [Plain EXCEPT
    !.components = [Item |-> Returns(item, 0), Base |-> Returns(root, list)],
    !.inits = [Menu |-> <<Name("Base"), Name("Item"), Name("Gone"),
                          Object(1, <<Part("Item", 2), Part("Other", 3)>>)>>],
    !.exports = <<Exports("Menu", "Menu", None)>>,
    !.jsx = [i \in 1..4 |->
               CASE i = item -> Dom("li", {"item"}, 0, "Item")
                 [] i = root -> Dom("nav", {"menu"}, 0, "Base")
                 [] i = header -> Dom("header", {}, root, "Base")
                 [] i = list -> Dom("ul", {}, root, "Base")]]
Menus == {MenuOf(1, 2, 3, 4), MenuOf(4, 1, 2, 3)}

(* The base puts its children in a <Show>.                                 *)
Showing ==
  [MenuOf(1, 2, 3, 4) EXCEPT !.primitives = {"Show"}, !.jsx[4] = Use(<<"Show">>, None, 2, "Base")]

(* Two compounds that are parts of each other.                             *)
Knot ==
  [Plain EXCEPT
    !.components = [Item |-> Returns(1, 1), Base |-> Returns(2, 3)],
    !.inits = [Menu |-> <<Name("Base"), Name("Item"), Object(1, <<Part("Item", 2)>>)>>,
               List |-> <<Name("Item"), Name("Base"), Name("Menu"),
                          Object(1, <<Part("Base", 2), Spread(3)>>)>>],
    !.exports = <<Exports("Menu", "List", None)>>,
    !.jsx = <<Dom("li", {"item"}, 0, "Item"), Dom("nav", {}, 0, "Base"), Dom("ul", {}, 2, "Base")>>]

(* Each panel returns the other, or the right one a button from outside.   *)
PanelsOf(left, right, names) ==
  [Plain EXCEPT
    !.components = [Left |-> Returns(1, 0), Right |-> Returns(2, 0)],
    !.names = names,
    !.exports = <<Exports("Left", "Left", None), Exports("Right", "Right", None), Exports("default", "Right", None)>>,
    !.jsx = <<With(left, {"left"}, [as |-> "section"]), With(right, {"right"}, [role |-> "tab"])>>]
MCPanels ==
  {PanelsOf(Use(<<"Right">>, None, 0, "Left"), Use(<<"Left">>, None, 0, "Right"), Empty),
   PanelsOf(Use(<<"Right">>, None, 0, "Left"), Dom("section", {}, 0, "Right"), Empty),
   PanelsOf(Use(<<"Right">>, None, 0, "Left"), Use(<<"Button">>, None, 0, "Right"), [Button |-> From(lib, "Button")])}

(* The barrel re-exports the panels, or imports them and exports them.     *)
MCBarrels ==
  {[Plain EXCEPT !.exports = <<Exports("Left", "Left", panels), Exports("Right", "default", panels)>>],
   [Plain EXCEPT !.imports = {panels}, !.names = [P |-> From(panels, "*")],
                 !.inits = [L |-> <<Name("P"), Member(1, "Left")>>, R |-> <<Name("P"), Member(1, "default")>>],
                 !.exports = <<Exports("Left", "L", None), Exports("Right", "R", None)>>]}

AppOf(jsx, left, right) ==
  [Plain EXCEPT
    !.imports = {menu, left.file}, !.primitives = {"For", "Show"},
    !.names = [Menu |-> From(menu, "Menu"), Left |-> left, Right |-> right, Kit |-> From(kit, "Button")],
    !.jsx = jsx]
MCApps ==
  {AppOf(<<Use(<<"Menu">>, None, 0, None), Use(<<"For">>, None, 1, None),
           With(Use(<<"Menu", "Item">>, <<"Right">>, 2, None), {"big"}, [role |-> "menu"]),
           Use(<<"Left">>, None, 2, None), Use(<<"Kit">>, None, 0, None)>>,
         From(barrel, "Left"), From(barrel, "Right")),
   AppOf(<<Use(<<"Left">>, <<"Menu">>, 0, None), Use(<<"Right">>, None, 1, None),
           Use(<<"Kit">>, None, 1, None)>>,
         From(panels, "Left"), From(menu, "Menu"))}

MCTrees == (app :> MCApps) @@ (menu :> Menus \cup {Knot, Showing}) @@ (panels :> MCPanels) @@ (barrel :> MCBarrels)
ButtonOf(tag) ==
  [Plain EXCEPT !.components = [Button |-> Returns(1, 0)],
                !.exports = <<Exports("Button", "Button", None)>>,
                !.jsx = <<Dom(tag, {"button"}, 0, "Button")>>]
MCExternalTree == (lib :> ButtonOf("button")) @@ (kit :> ButtonOf("div"))

MCBases ==
  {[solid |-> (app :> a) @@ (menu :> MenuOf(1, 2, 3, 4)) @@ (panels :> p) @@ (barrel :> b), css |-> Empty] :
     a \in MCApps, p \in MCPanels, b \in MCBarrels}
MCBatches == UNION {{f :> t : t \in MCTrees[f] \cup {None}} : f \in MCSolid}
==============================================================================
