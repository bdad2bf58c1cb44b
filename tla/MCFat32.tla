------------------------------ MODULE MCFat32 ------------------------------
(***************************************************************************)
(* Fat32 for TLC, on three families of small volumes with a sector of one  *)
(* FAT entry and a 32-bit limit of 15.                                     *)
(*                                                                         *)
(*   Geometries   boot sectors of every kind: each field takes the values  *)
(*                on both sides of the tests mount makes, in all           *)
(*                combinations of those that depend on one another, and    *)
(*                the FAT links every cluster to the next one, so that     *)
(*                listing the root walks the volume to its last cluster;   *)
(*   Files        one file in the root: every length of interest, every    *)
(*                first cluster and every FAT, sound or not;               *)
(*   Directories  any of six pieces of directory in each cluster, linked   *)
(*                by sound and by damaged FATs: directories of several     *)
(*                clusters, ones that contain themselves, entries behind   *)
(*                the end mark, the same name twice.                       *)
(***************************************************************************)
EXTENDS Fat32Reference

Ask(op, path) == [op |-> op, path |-> path]
MCNames == {"a", "b", ".."}
MCRequests ==
    {Ask("list", <<>>), Ask("list", <<"a">>), Ask("read", <<"a">>), Ask("list", <<"a", "b">>),
     Ask("read", <<"a", "b">>), Ask("read", <<>>), Ask("list", <<"a", "..">>)}

Raw(kind, name, first, size) ==
    [kind |-> kind, name |-> name, first_cluster |-> first, size |-> size]

\* A sound boot sector for n sectors, a FAT of spf sectors and its contents.
Disk(n, spc, spf, fat, entries) ==
    [length |-> n * SECTOR_SIZE, signature |-> TRUE,
     bytes_per_sector |-> SECTOR_SIZE, sectors_per_cluster |-> spc,
     reserved_sectors |-> 1, fat_count |-> 1, sectors_per_fat |-> spf,
     root_entry_count |-> 0, fat_size_16 |-> 0,
     total_sectors_16 |-> 0, total_sectors_32 |-> n, root_cluster |-> 2,
     fat |-> fat, entries |-> entries]

\* The FAT of three clusters, which may have no entry for the last.
Fat(spf, root, third, fourth) ==
    [c \in 0 .. spf - 1 |->
        CASE c = 2 -> root [] c = 3 -> third [] c = 4 -> fourth [] OTHER -> 0]

Blank(n, spf) ==
    Disk(n, 1, spf, [c \in 0 .. spf - 1 |-> c + 1],
         [s \in 0 .. n - 1 |-> <<Raw("skip", "a", 0, 0)>>])

Geometries ==
    {[Blank(n, spf) EXCEPT !.sectors_per_cluster = spc, !.reserved_sectors = reserved,
                           !.fat_count = fats, !.root_cluster = root,
                           !.total_sectors_16 = total[1], !.total_sectors_32 = total[2]] :
        n \in {5, 9, 10}, spc \in 0 .. 3, reserved \in 0 .. 2, fats \in 0 .. 2,
        spf \in {0, 3, 5, 7, 8}, root \in 1 .. 6,
        total \in {<<0, 9>>, <<9, 0>>, <<10, 9>>, <<0, 12>>}}

Spoilt ==
    {[Blank(10, 5) EXCEPT !.signature = FALSE],
     [Blank(10, 5) EXCEPT !.bytes_per_sector = 2 * SECTOR_SIZE],
     [Blank(10, 5) EXCEPT !.root_entry_count = 1],
     [Blank(10, 5) EXCEPT !.fat_size_16 = 1],
     [Blank(10, 5) EXCEPT !.length = @ + 1],
     Blank(0, 5)}

\* The links lead on, back and out of the volume; 7 marks a bad cluster, 8 and
\* 15 are the ends of the end-of-chain range, and 18 and 20 have reserved bits.
Files ==
    {Disk(7 + spf, 2, spf, Fat(spf, 8, third, fourth),
          [s \in 0 .. 6 + spf |->
             IF s = 1 + spf THEN <<Raw("skip", "a", 3, 1), Raw("file", "a", first, size)>> ELSE <<>>]) :
        third \in {4, 5, 7, 8, 20}, fourth \in {3, 5, 8, 15, 18}, spf \in {4, 5},
        first \in {0, 2, 3, 4, 5}, size \in {0, 1, 4, 5, 9, 24, 25}}

Pieces ==
    {<<>>,
     <<Raw("end", "a", 0, 0), Raw("file", "a", 3, 1)>>,
     <<Raw("directory", "b", 3, 0), Raw("skip", "a", 4, 0)>>,
     <<Raw("directory", "a", 2, 0), Raw("file", "b", 4, 9)>>,
     <<Raw("file", "a", 4, 0), Raw("directory", "b", 0, 0)>>,
     <<Raw("skip", "b", 3, 0), Raw("directory", "a", 4, 0)>>}

Directories ==
    {Disk(9, 1, 5, Fat(5, root, third, fourth),
          [s \in 0 .. 8 |-> IF s < 6 THEN <<>> ELSE pieces[s]]) :
        root \in {2, 3, 8}, third \in {4, 7}, fourth \in {3, 15},
        pieces \in [6 .. 8 -> Pieces]}

MCVolumes == Geometries \cup Spoilt \cup Files \cup Directories
=============================================================================
