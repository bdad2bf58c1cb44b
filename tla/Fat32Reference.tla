--------------------------- MODULE Fat32Reference ---------------------------
(***************************************************************************)
(* What list_dir and read_file promise of a mounted volume v, said of the  *)
(* volume as a whole instead of step by step: the FAT is a graph on the    *)
(* clusters, a chain a path in it, a directory the entries of its chain    *)
(* up to the end mark, a file the first bytes of its chain.                *)
(***************************************************************************)
EXTENDS Fat32

Clusters(v) == 2 .. cluster_count(v) + 1

\* The FAT has an entry for the cluster, and its value is the lower 28 bits.
Covered(v, c) == c < fat_entries(v)
Link(v, c) == v.fat[c] % FAT_MODULUS

\* The cluster behind c in a chain, or 0 where the chain ends or breaks off.
Follower(v, c) ==
    IF /\ c \in Clusters(v) /\ Covered(v, c)
       /\ Link(v, c) \in Clusters(v) /\ Link(v, c) < FAT32_BAD_CLUSTER
    THEN Link(v, c) ELSE 0

\* The chain of start: the cluster at each place, and 0 behind its end.  With
\* one place more than the volume has clusters, every circle shows.
Chain(v, start) ==
    LET at[n \in 0 .. cluster_count(v) + 1] ==
            IF n = 0 THEN start ELSE Follower(v, at[n - 1])
    IN  at

Circular(chain) == \E i, j \in DOMAIN chain : i # j /\ chain[i] = chain[j] /\ chain[i] # 0

\* How the chain ends.  One that comes by a cluster twice never does.
Ending(v, chain) ==
    IF Circular(chain) THEN "DirectoryLoop"
    ELSE IF \E n \in DOMAIN chain :
                chain[n] # 0 /\ Covered(v, chain[n]) /\ Link(v, chain[n]) >= FAT32_EOC
    THEN "Ok" ELSE "CorruptFat"

\* The sectors of a chain, in order and counted from 0.
Extent(v) == (cluster_count(v) + 1) * v.sectors_per_cluster
Places(v, chain) == {p \in 0 .. Extent(v) - 1 : chain[p \div v.sectors_per_cluster] # 0}
SectorAt(v, chain, p) ==
    first_data_sector(v) + (chain[p \div v.sectors_per_cluster] - 2) * v.sectors_per_cluster
        + (p % v.sectors_per_cluster)

-----------------------------------------------------------------------------
\* A directory: its sectors up to the one with the end mark, and in each the
\* entries in front of the mark.
First(places) == CHOOSE i \in places : \A j \in places : i <= j
Raws(v, chain, p) == v.entries[SectorAt(v, chain, p)]
Marks(raws) == {i \in DOMAIN raws : raws[i].kind = "end"}
Front(raws) == IF Marks(raws) = {} THEN raws ELSE SubSeq(raws, 1, First(Marks(raws)) - 1)
Marked(v, chain) == {p \in Places(v, chain) : Marks(Raws(v, chain, p)) # {}}
Scanned(v, chain) == {p \in Places(v, chain) : \A q \in Marked(v, chain) : p <= q}

\* What the first n sectors of a directory show.
Listings(v, chain) ==
    LET listed[n \in 0 .. Extent(v)] ==
            IF n = 0 THEN <<>>
            ELSE IF n - 1 \in Scanned(v, chain)
            THEN listed[n - 1] \o Shown(Front(Raws(v, chain, n - 1)))
            ELSE listed[n - 1]
    IN  listed

\* What there is to say of a directory that was searched in vain.
Exhausted(v, chain) == IF Marked(v, chain) # {} THEN "Ok" ELSE Ending(v, chain)

-----------------------------------------------------------------------------
\* A component of a path leads on from a directory or an earlier error to an
\* entry, the first of its name, or to an error.
Lead(kind, start, size) == [kind |-> kind, first_cluster |-> start, size |-> size]

Named(raws, name) == {i \in DOMAIN raws : Listed(raws[i]) /\ raws[i].name = name}
Holding(v, chain, name) ==
    {p \in Scanned(v, chain) : Named(Front(Raws(v, chain, p)), name) # {}}
FirstNamed(raws, name) == raws[First(Named(raws, name))]
LeadOf(entry) == Lead(entry.kind, entry.first_cluster, entry.size)

FindAlong(v, chain, name) ==
    IF Holding(v, chain, name) # {}
    THEN LeadOf(FirstNamed(Raws(v, chain, First(Holding(v, chain, name))), name))
    ELSE Lead(IF Exhausted(v, chain) = "Ok" THEN "NotFound" ELSE Exhausted(v, chain), 0, 0)

FindIn(v, start, name) ==
    IF start \in Clusters(v) THEN FindAlong(v, Chain(v, start), name)
    ELSE Lead("InvalidCluster", 0, 0)

Descend(v, from, name) ==
    IF from.kind \in Errors THEN from
    ELSE IF from.kind = "file" THEN Lead("NotDirectory", 0, 0)
    ELSE IF name \in Dots THEN Lead("NotFound", 0, 0)
    ELSE FindIn(v, from.first_cluster, name)

\* Where each beginning of the path leads.
Resolution(v, path) ==
    LET resolved[n \in 0 .. Len(path)] ==
            IF n = 0 THEN Lead("directory", v.root_cluster, 0)
            ELSE Descend(v, resolved[n - 1], path[n])
    IN  resolved

-----------------------------------------------------------------------------
\* The outcome of a call: what it returns and what its visitor was given.  A
\* call that fails before its walk has given nothing.
Outcome(r, entries, chunks) == [result |-> r, visited |-> entries, delivered |-> chunks]
Failure(r) == Outcome(r, <<>>, <<>>)

\* A directory without an end mark is shown up to where its chain breaks off.
ListAlong(v, chain) == Outcome(Exhausted(v, chain), Listings(v, chain)[Extent(v)], <<>>)

\* size bytes of the chain's sectors: full ones, and the rest in the last.
Needed(size) == (size + SECTOR_SIZE - 1) \div SECTOR_SIZE
Chunks(v, chain, size) ==
    [i \in 1 .. Needed(size) |->
        <<SectorAt(v, chain, i - 1),
          IF i < Needed(size) THEN SECTOR_SIZE ELSE size - (Needed(size) - 1) * SECTOR_SIZE>>]

\* Every sector of the chain, in full.
Sectors(v, chain) ==
    [i \in {p + 1 : p \in Places(v, chain)} |-> <<SectorAt(v, chain, i - 1), SECTOR_SIZE>>]

\* A chain too short for the file is delivered to its end.
ReadAlong(v, chain, size) ==
    IF Needed(size) - 1 \in Places(v, chain) THEN Outcome("Ok", <<>>, Chunks(v, chain, size))
    ELSE Outcome(IF Ending(v, chain) = "Ok" THEN "TruncatedFile" ELSE Ending(v, chain),
                 <<>>, Sectors(v, chain))

PromisedList(v, at) ==
    IF at.kind \in Errors THEN Failure(at.kind)
    ELSE IF at.kind = "file" THEN Failure("NotDirectory")
    ELSE IF at.first_cluster \in Clusters(v) THEN ListAlong(v, Chain(v, at.first_cluster))
    ELSE Failure("InvalidCluster")

PromisedRead(v, at) ==
    IF at.kind \in Errors THEN Failure(at.kind)
    ELSE IF at.kind = "directory" THEN Failure("IsDirectory")
    ELSE IF at.size = 0 THEN Outcome("Ok", <<>>, <<>>)
    ELSE IF at.first_cluster \in Clusters(v) THEN ReadAlong(v, Chain(v, at.first_cluster), at.size)
    ELSE Failure("InvalidCluster")

\* read_file has no entry for the root itself.
Promised(v, r) ==
    IF r.op = "list" THEN PromisedList(v, Resolution(v, r.path)[Len(r.path)])
    ELSE IF r.path = <<>> THEN Failure("NotFound")
    ELSE PromisedRead(v, Resolution(v, r.path)[Len(r.path)])

Agrees(promised) ==
    /\ result = promised.result
    /\ visited = promised.visited /\ delivered = promised.delivered

-----------------------------------------------------------------------------
\* list_dir and read_file answer what the volume holds.  A listing that
\* succeeds has shown every entry in front of the end mark, once, in order; a
\* file that was read has been delivered sector by sector to its last byte
\* and no further; and a call that fails gives the reason the volume has (a
\* chain that ends early, leaves the volume or the FAT, or is a circle) and
\* has by then given its visitor exactly the entries or the sectors in front
\* of the place where the chain fails, or nothing when it fails on the way.
AnswersMatchVolume == pc = "idle" /\ request \in Requests => Agrees(Promised(volume, request))
=============================================================================
