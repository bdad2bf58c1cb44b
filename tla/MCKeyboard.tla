----------------------------- MODULE MCKeyboard ----------------------------
(***************************************************************************)
(* Keyboard for TLC: both Shifts, Caps Lock, a letter, a digit and a key   *)
(* without event (keypad 8); Up, whose code keypad 8 shares, and an        *)
(* extended key without event (right Ctrl).                                *)
(***************************************************************************)
EXTENDS Keyboard

MCPlain == {LeftShift, RightShift, CapsLock, \h1e, \h02, \h48}
MCExtended == {\h48, \h1d}
=============================================================================
