---------------------------- MODULE MCLintCommand ----------------------------
(* Two lint commands, which may spawn a daemon each, and a daemon started  *)
(* by hand.                                                                *)
EXTENDS LintCommand
CONSTANTS c1, c2, d1, d2, d3
MCCommands == {c1, c2}
MCDaemons == {d1, d2, d3}
==============================================================================
