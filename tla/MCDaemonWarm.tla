----------------------------- MODULE MCDaemonWarm -----------------------------
(* Two solid files and a CSS file, two contents, two configurations: two   *)
(* or three requests with edits before, between and inside them.           *)
EXTENDS DaemonWarm, TLC
CONSTANTS a, b, c, v1, v2, o1
MCSolid == {a, b}
MCCss == {c}
MCContents == {v1, v2}
MCOverrides == {NoOverrides, o1}
MCSymmetry == Permutations(MCSolid) \cup Permutations(MCContents)
==============================================================================
