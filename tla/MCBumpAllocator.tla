-------------------------- MODULE MCBumpAllocator --------------------------
(***************************************************************************)
(* BumpAllocator for TLC: two contexts and a heap of nine bytes at an odd  *)
(* address close to the end of the address space, so that alignment makes  *)
(* gaps, the heap runs out and both additions overflow.                    *)
(***************************************************************************)
EXTENDS BumpAllocator

MCLayouts == {[size |-> 1, align |-> 1], [size |-> 3, align |-> 2], [size |-> 2, align |-> 4]}
=============================================================================
