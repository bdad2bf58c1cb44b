------------------------------- MODULE Fat32 -------------------------------
(***************************************************************************)
(* The read-only FAT32 file system (fat32.rs) on the ramdisk the boot      *)
(* loader hands over (storage.rs): mounting it, listing a directory and    *)
(* reading a file.                                                         *)
(*                                                                         *)
(* The volume is whatever is on the disk: its boot sector, its FAT and its *)
(* directories are arbitrary, damaged ones included.  Every sector that is *)
(* read is a step.  A directory's raw entry is a record whose kind says    *)
(* what the code's tests on its bytes make of it; names are compared       *)
(* without case by the code and are equal or different here.               *)
(***************************************************************************)
EXTENDS Integers, Sequences

CONSTANTS
    Volumes,       \* the disks considered
    Names,         \* path components, and the names of entries
    Dots,          \* the components "." and ".."
    Requests,      \* what the shell asks for: op, and a path of components
    SECTOR_SIZE,
    MIN_CLUSTERS,  \* 65,525: what makes a volume FAT32
    U32_MAX,       \* 2^32 - 1
    FAT_MODULUS    \* 2^28: the upper four bits of a FAT entry are reserved

FAT32_EOC == FAT_MODULUS - 8
FAT32_BAD_CLUSTER == FAT_MODULUS - 9

ASSUME SizeAssumption ==
    /\ SECTOR_SIZE \in Nat \ {0} /\ SECTOR_SIZE % 4 = 0
    /\ MIN_CLUSTERS \in Nat \ {0}
    /\ U32_MAX \in Nat
    /\ FAT_MODULUS \in Nat /\ FAT_MODULUS >= 10

ASSUME RequestAssumption == Requests \subseteq [op : {"list", "read"}, path : Seq(Names)]

\* What visit_directory makes of the 32 bytes of an entry: "end" is a first
\* byte of 0; "skip" is a deleted, dotted, long-name or volume entry, or one
\* DirEntry::from_raw rejects.
RawEntry == [kind : {"end", "skip", "file", "directory"}, name : Names,
             first_cluster : Nat, size : Nat]

\* Every field of a boot sector, every FAT entry and every sector has some
\* value; nothing says that they fit together.
ASSUME VolumeAssumption ==
    \A v \in Volumes :
        /\ v.length \in Nat /\ v.signature \in BOOLEAN
        /\ v.bytes_per_sector \in Nat /\ v.sectors_per_cluster \in Nat
        /\ v.reserved_sectors \in Nat /\ v.fat_count \in Nat
        /\ v.root_entry_count \in Nat /\ v.fat_size_16 \in Nat
        /\ v.total_sectors_16 \in 0 .. U32_MAX /\ v.total_sectors_32 \in 0 .. U32_MAX
        /\ v.sectors_per_fat \in Nat /\ v.root_cluster \in Nat
        /\ v.fat \in [0 .. ((v.sectors_per_fat * SECTOR_SIZE) \div 4) - 1 -> Nat]
        /\ v.entries \in [0 .. (v.length \div SECTOR_SIZE) - 1 -> Seq(RawEntry)]

VARIABLES
    volume,                   \* the disk
    pc,                       \* "boot", "failed", "idle", "sector" or "next"
    mode,                     \* "find", "list" or "read": what the walk is for
    request, component,       \* the request, and which component is looked up
    cluster, sector_index,    \* where the walk is
    hops,                     \* the loop's counter: clusters left behind
    remaining,                \* bytes of the file still to read
    result,                   \* how mounting, or the latest request, ended
    lba, area,                \* history: the latest sector read, and for what
    visited, delivered        \* history: what the visitors were given

walk == <<mode, component, cluster, sector_index, hops, remaining>>
given == <<visited, delivered>>
vars == <<volume, pc, request, walk, result, lba, area, given>>

-----------------------------------------------------------------------------
(***************************************************************************)
(* Geometry.                                                               *)
(***************************************************************************)
sector_count(v) == v.length \div SECTOR_SIZE
TotalSectors(v) == IF v.total_sectors_16 # 0 THEN v.total_sectors_16 ELSE v.total_sectors_32
first_data_sector(v) == v.reserved_sectors + v.fat_count * v.sectors_per_fat
cluster_count(v) == (TotalSectors(v) - first_data_sector(v)) \div v.sectors_per_cluster
fat_entries(v) == (v.sectors_per_fat * SECTOR_SIZE) \div 4

\* RamDiskBlockDevice::from_boot_info
InvalidRamdisk(v) == v.length = 0 \/ v.length % SECTOR_SIZE # 0

UnsupportedFields(v) ==
    \/ v.bytes_per_sector # SECTOR_SIZE
    \/ v.sectors_per_cluster \notin {1, 2, 4, 8, 16, 32, 64, 128}
    \/ v.reserved_sectors = 0
    \/ v.fat_count = 0
    \/ v.fat_size_16 # 0
    \/ v.sectors_per_fat = 0
    \/ v.root_entry_count # 0
    \/ v.root_cluster < 2

\* Mutant: the size in the boot sector is taken at its word.
OversizedTrusted(v) ==
    \/ v.fat_count * v.sectors_per_fat > U32_MAX
    \/ first_data_sector(v) > U32_MAX
    \/ TotalSectors(v) <= first_data_sector(v)

\* The checked arithmetic, and the volume against the device.
OversizedVolume(v) ==
    \/ v.fat_count * v.sectors_per_fat > U32_MAX
    \/ first_data_sector(v) > U32_MAX
    \/ TotalSectors(v) <= first_data_sector(v)
    \/ TotalSectors(v) > sector_count(v)

TooFewClusters(v) ==
    \/ cluster_count(v) < MIN_CLUSTERS
    \/ v.root_cluster >= cluster_count(v) + 2

\* Fat32::mount on from_boot_info's device.
MountResult(v) ==
    IF InvalidRamdisk(v) THEN "InvalidRamdisk"
    ELSE IF ~ v.signature THEN "InvalidBootSector"
    ELSE IF UnsupportedFields(v) THEN "UnsupportedVolume"
    ELSE IF OversizedVolume(v) THEN "InvalidBootSector"
    ELSE IF TooFewClusters(v) THEN "UnsupportedVolume"
    ELSE IF v.root_cluster >= fat_entries(v) THEN "InvalidBootSector"
    ELSE "Ok"

is_valid_cluster(c) == c >= 2 /\ c < cluster_count(volume) + 2

cluster_to_sector(c, i) ==
    first_data_sector(volume) + (c - 2) * volume.sectors_per_cluster + i

FatSector(c) == volume.reserved_sectors + ((c * 4) \div SECTOR_SIZE)

\* BlockDevice::read_sector finds the sector.
InDevice(sector) == sector < sector_count(volume)

\* cluster_to_sector and the read of that sector.
DataError(c, i) ==
    IF \/ ~ is_valid_cluster(c) \/ i >= volume.sectors_per_cluster
       \/ cluster_to_sector(c, i) > U32_MAX
    THEN "InvalidCluster"
    ELSE IF InDevice(cluster_to_sector(c, i)) THEN "None" ELSE "SectorOutOfRange"

\* next_cluster up to the read of the FAT's sector.
FatError(c) ==
    IF ~ is_valid_cluster(c) THEN "InvalidCluster"
    ELSE IF \/ (c * 4) \div SECTOR_SIZE >= volume.sectors_per_fat
            \/ FatSector(c) > U32_MAX
    THEN "CorruptFat"
    ELSE IF InDevice(FatSector(c)) THEN "None" ELSE "SectorOutOfRange"

-----------------------------------------------------------------------------
(***************************************************************************)
(* Mounting, calling and returning.                                        *)
(***************************************************************************)
Init ==
    /\ volume \in Volumes
    /\ pc = "boot"
    /\ request = [op |-> "mount", path |-> <<>>]
    /\ mode = "none" /\ component = 0 /\ cluster = 0
    /\ sector_index = 0 /\ hops = 0 /\ remaining = 0
    /\ result = "None"
    /\ lba = 0 /\ area = "boot"
    /\ visited = <<>> /\ delivered = <<>>

\* kernel_main mounts the volume, or panics.
Mount ==
    /\ pc = "boot"
    /\ result' = MountResult(volume)
    /\ pc' = IF MountResult(volume) = "Ok" THEN "idle" ELSE "failed"
    /\ UNCHANGED <<volume, request, walk, lba, area, given>>

\* A call returns, and its locals are gone.
Finish(r) ==
    /\ result' = r
    /\ pc' = "idle"
    /\ mode' = "none" /\ component' = 0 /\ cluster' = 0
    /\ sector_index' = 0 /\ hops' = 0 /\ remaining' = 0

\* What visit_directory and read_file do before their loop.
Walk(start, purpose, n, size) ==
    IF is_valid_cluster(start)
    THEN /\ pc' = "sector"
         /\ mode' = purpose /\ component' = n /\ cluster' = start
         /\ sector_index' = 0 /\ hops' = 0 /\ remaining' = size
         /\ UNCHANGED result
    ELSE Finish("InvalidCluster")

\* resolve_path looks component n of the path up in the directory at start.
LookUp(start, n, path) ==
    IF path[n] \in Dots THEN Finish("NotFound") ELSE Walk(start, "find", n, 0)

\* The shell calls list_dir or read_file.
Call(r) ==
    /\ pc = "idle"
    /\ request' = r
    /\ visited' = <<>> /\ delivered' = <<>>
    /\ IF r.path # <<>> THEN LookUp(volume.root_cluster, 1, r.path)
       ELSE IF r.op = "list" THEN Walk(volume.root_cluster, "list", 0, 0)
       ELSE Finish("NotFound")
    /\ UNCHANGED <<volume, lba, area>>

\* read_file has its entry.
ReadFile(entry) ==
    IF entry.kind = "directory" THEN Finish("IsDirectory")
    ELSE IF entry.size = 0 THEN Finish("Ok")
    ELSE Walk(entry.first_cluster, "read", 0, entry.size)

\* find_in_directory has found the component: resolve_path goes on to the
\* next one, or list_dir or read_file has its entry.
Found(entry) ==
    IF component = Len(request.path) /\ request.op = "read" THEN ReadFile(entry)
    ELSE IF entry.kind = "file" THEN Finish("NotDirectory")
    ELSE IF component < Len(request.path)
    THEN LookUp(entry.first_cluster, component + 1, request.path)
    ELSE Walk(entry.first_cluster, "list", 0, 0)

-----------------------------------------------------------------------------
(***************************************************************************)
(* The loops: a sector, or an entry of the FAT, at each step.              *)
(***************************************************************************)
\* What a walk that comes to its end returns.
AtEnd == CASE mode = "list" -> "Ok" [] mode = "find" -> "NotFound" [] mode = "read" -> "TruncatedFile"

NextSector ==
    /\ IF sector_index + 1 < volume.sectors_per_cluster
       THEN sector_index' = sector_index + 1 /\ pc' = "sector"
       ELSE sector_index' = 0 /\ pc' = "next"
    /\ UNCHANGED <<mode, component, cluster, hops, result>>

\* The visitor is called for the entry, and find_in_directory's wants it.
Listed(raw) == raw.kind \in {"file", "directory"}
Wanted(raw) == mode = "find" /\ Listed(raw) /\ raw.name = request.path[component]

\* Mutant: the end mark is passed over like a deleted entry.
StopsAtMatchOnly(raws) == {i \in DOMAIN raws : Wanted(raws[i])}

\* The scan of the sector may stop here: the end mark, or the entry wanted.
Stops(raws) == {i \in DOMAIN raws : raws[i].kind = "end" \/ Wanted(raws[i])}

\* list_dir's visitor is given the entries.
Shown(raws) == SelectSeq(raws, Listed)
Show(raws) == visited' = IF mode = "list" THEN visited \o Shown(raws) ELSE visited

\* A sector of a directory: visit_directory's inner loops.
VisitSector ==
    /\ pc = "sector" /\ mode \in {"find", "list"}
    /\ IF DataError(cluster, sector_index) # "None"
       THEN Finish(DataError(cluster, sector_index)) /\ UNCHANGED <<lba, area, visited>>
       ELSE LET sector == cluster_to_sector(cluster, sector_index)
                raws == volume.entries[sector]
            IN  /\ lba' = sector /\ area' = "data"
                /\ \/ Stops(raws) = {} /\ Show(raws) /\ NextSector /\ UNCHANGED remaining
                   \/ \E i \in Stops(raws) :
                        /\ \A j \in Stops(raws) : i <= j
                        /\ Show(SubSeq(raws, 1, i - 1))
                        /\ IF raws[i].kind = "end" THEN Finish(AtEnd) ELSE Found(raws[i])
    /\ UNCHANGED <<volume, request, delivered>>

Chunk == IF remaining < SECTOR_SIZE THEN remaining ELSE SECTOR_SIZE

\* A sector of a file: read_file's inner loop.
ReadSector ==
    /\ pc = "sector" /\ mode = "read"
    /\ IF DataError(cluster, sector_index) # "None"
       THEN Finish(DataError(cluster, sector_index)) /\ UNCHANGED <<lba, area, delivered>>
       ELSE LET sector == cluster_to_sector(cluster, sector_index)
            IN  /\ lba' = sector /\ area' = "data"
                /\ delivered' = Append(delivered, <<sector, Chunk>>)
                /\ IF remaining = Chunk THEN Finish("Ok")
                   ELSE remaining' = remaining - Chunk /\ NextSector
    /\ UNCHANGED <<volume, request, visited>>

FatEntry(c) == volume.fat[c] % FAT_MODULUS

\* Mutant: a loop without its counter.
UncountedHop == hops

CountedHop == hops + 1

\* Both outer loops: next_cluster, checked_next_cluster and the loop's bound.
NextCluster ==
    /\ pc = "next"
    /\ IF FatError(cluster) # "None"
       THEN Finish(FatError(cluster)) /\ UNCHANGED <<lba, area>>
       ELSE LET next == FatEntry(cluster)
            IN  /\ lba' = FatSector(cluster) /\ area' = "fat"
                /\ IF next >= FAT32_EOC THEN Finish(AtEnd)
                   ELSE IF next = FAT32_BAD_CLUSTER \/ ~ is_valid_cluster(next)
                   THEN Finish("CorruptFat")
                   ELSE IF hops = cluster_count(volume) THEN Finish("DirectoryLoop")
                   ELSE /\ cluster' = next /\ hops' = CountedHop
                        /\ pc' = "sector"
                        /\ UNCHANGED <<mode, component, sector_index, remaining, result>>
    /\ UNCHANGED <<volume, request, given>>

Step == VisitSector \/ ReadSector \/ NextCluster

Next == Mount \/ (\E r \in Requests : Call(r)) \/ Step

Spec == Init /\ [][Next]_vars

\* A call is a plain loop on a processor that runs on.
FairSpec == Spec /\ WF_vars(Step)

-----------------------------------------------------------------------------
Errors == {"InvalidCluster", "SectorOutOfRange", "CorruptFat", "DirectoryLoop", "NotFound",
           "NotDirectory", "IsDirectory", "TruncatedFile"}
Answers == Errors \cup {"None", "Ok", "InvalidRamdisk", "InvalidBootSector", "UnsupportedVolume"}

\* The program's own variables: in a walk the cluster is one the volume has,
\* the sector one of the cluster, and the loop within the bound of fat32.rs.
TypeOK ==
    /\ pc \in {"boot", "failed", "idle", "sector", "next"}
    /\ mode \in {"none", "find", "list", "read"}
    /\ request.path \in Seq(Names)
    /\ component \in 0 .. Len(request.path)
    /\ cluster \in Nat /\ sector_index \in Nat /\ hops \in Nat /\ remaining \in Nat
    /\ result \in Answers
    /\ pc \in {"sector", "next"} =>
        /\ MountResult(volume) = "Ok" /\ mode # "none"
        /\ is_valid_cluster(cluster)
        /\ sector_index < volume.sectors_per_cluster
        /\ hops <= cluster_count(volume)
        /\ (mode = "read") = (remaining > 0)
        /\ (mode = "find") = (component > 0)

\* What mount checks once covers every later read: no sector a walk asks the
\* ramdisk for is missing, however damaged the volume, and a sector read for
\* its FAT entry is one of the first FAT, one read for its data lies behind
\* the FATs and within the volume.
ReadsInsideVolume ==
    /\ result # "SectorOutOfRange"
    /\ area = "fat" =>
        lba \in volume.reserved_sectors .. volume.reserved_sectors + (volume.sectors_per_fat - 1)
    /\ area = "data" => lba \in first_data_sector(volume) .. TotalSectors(volume) - 1

\* Every call of list_dir and read_file returns, also on a FAT whose chains
\* run in circles and in directories that contain themselves.
CallsReturn == (pc \in {"sector", "next"}) ~> (pc = "idle")
=============================================================================
