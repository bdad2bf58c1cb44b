-------------------------- MODULE MCKernelMemory ---------------------------
(***************************************************************************)
(* KernelMemory for TLC: frames of two bytes, tables of two entries and a  *)
(* heap of three pages that ends inside a page and needs up to five        *)
(* tables.  The memory maps have three regions that meet at every offset   *)
(* of a frame, with every choice of the usable ones, in both orders; they  *)
(* hold from no frame to one more than the heap can need.                  *)
(***************************************************************************)
EXTENDS KernelMemory, SequencesExt

Top == 18

Region(from, to, kind) == [start |-> from, end |-> to, usable |-> kind]

Maps == {<<Region(s, a, k[1]), Region(a, b, k[2]), Region(b, Top, k[3])>> :
             s \in 0 .. 1, a \in 2 .. Top, b \in 2 .. Top, k \in [1 .. 3 -> BOOLEAN]}

MCMemoryMaps ==
    LET sorted == {map \in Maps : map[2].start <= map[2].end}
    IN sorted \cup {Reverse(map) : map \in sorted}

Above(pages) == {Table(l, p) : l \in Levels, p \in pages}

\* Nothing around the heap; the upper tables and one lower one, for a page
\* beside the heap; and a page of the heap itself.
MCPageTables ==
    {[tables |-> Above(pages), pages |-> pages] : pages \in {{}, {2}, {5}}}
=============================================================================
