--------------------------- MODULE MCLspDiagnostics ---------------------------
(* Three files, two of which import the first: an edit of a changes the    *)
(* TypeScript diagnostics of b and c, one callback apart.                  *)
EXTENDS LspDiagnostics, TLC
CONSTANTS a, b, c
MCFiles == {a, b, c}
MCImports == (a :> {}) @@ (b :> {a}) @@ (c :> {a})
==============================================================================
