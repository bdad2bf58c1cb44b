---------------------------- MODULE MCLineEditor ---------------------------
(***************************************************************************)
(* LineEditor for TLC: short lines and a history of two entries, so that   *)
(* lines fill, shrink over longer ones and the ring wraps.                 *)
(***************************************************************************)
EXTENDS LineEditor
=============================================================================
