----------------------------- MODULE MCConsole -----------------------------
(***************************************************************************)
(* Console for TLC: four frames, so that a report is itself cut by a       *)
(* device interrupt, by another fault and by another panic.                *)
(***************************************************************************)
EXTENDS Console
=============================================================================
