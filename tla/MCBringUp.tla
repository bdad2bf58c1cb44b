------------------------------ MODULE MCBringUp -----------------------------
(***************************************************************************)
(* BringUp for TLC: a queue of two keys and four key presses, so that the  *)
(* queue fills, drops and drains again; drain_output gives up after a byte.*)
(***************************************************************************)
EXTENDS BringUp
=============================================================================
