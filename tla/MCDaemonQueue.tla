---------------------------- MODULE MCDaemonQueue ----------------------------
(* Three lint requests: one running, one queued behind it and one that     *)
(* arrives later, possibly after the shutdown began.                       *)
EXTENDS DaemonQueue
CONSTANTS r1, r2, r3
MCRequests == {r1, r2, r3}
==============================================================================
