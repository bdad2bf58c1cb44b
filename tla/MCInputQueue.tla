--------------------------- MODULE MCInputQueue ----------------------------
(***************************************************************************)
(* InputQueue for TLC: a ring of four slots, so that it fills, wraps and   *)
(* drops, and two kinds of event, so that order matters.                   *)
(***************************************************************************)
EXTENDS InputQueue
=============================================================================
