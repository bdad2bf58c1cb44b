--------------------------- MODULE MCFramebuffer ---------------------------
(***************************************************************************)
(* Framebuffer for TLC: glyphs of two by three pixels on a screen of two   *)
(* rows of two, with pixels to spare at the right and at the bottom.  As   *)
(* in the code the border is wider than the spacing of lines.  The cursor  *)
(* is cut off at the right edge.                                           *)
(***************************************************************************)
EXTENDS Framebuffer
=============================================================================
