---------------------------- MODULE MCInputPath ----------------------------
(***************************************************************************)
(* InputPath for TLC: two key presses and room for both, so that one key   *)
(* may come before the loop has looked at the queue and one after.         *)
(***************************************************************************)
EXTENDS InputPath
=============================================================================
