---------------------------- MODULE MCLspDocuments ----------------------------
(* A component and a style sheet, two texts each.                          *)
EXTENDS LspDocuments
CONSTANTS a, c, v1, v2
MCSolid == {a}
MCCss == {c}
MCContents == {v1, v2}
==============================================================================
