---------------------------- MODULE Fat32_proofs ----------------------------
(***************************************************************************)
(* Proofs about the FAT32 reader, for every volume, every sector size and  *)
(* every request: what Fat32::mount checks is enough, and no walk ever     *)
(* reads outside the area it means.  Behind them, what the answers of      *)
(* Fat32Reference are made of, for every volume that is mounted: what a    *)
(* chain is and how it ends, the sectors along it, what is listed and      *)
(* found in them, and where a path leads.                                  *)
(***************************************************************************)
EXTENDS Fat32Reference, WellFoundedInduction, TLAPS

(***************************************************************************)
(* Products and quotients.                                                 *)
(***************************************************************************)
\* More sectors are not fewer bytes.
LEMMA ProductGrows ==
    ASSUME NEW a \in Nat, NEW b \in Nat, NEW s \in Nat, a <= b
    PROVE  a * s <= b * s
<1>1. b * s = (a * s) + ((b - a) * s)
    OBVIOUS
<1>2. (b - a) * s \in Nat /\ a * s \in Nat
    OBVIOUS
<1> QED
    BY <1>1, <1>2

\* One sector more is s bytes more.
LEMMA OneMore ==
    ASSUME NEW a \in Nat, NEW s \in Nat
    PROVE  (a + 1) * s = (a * s) + s
    OBVIOUS

\* The whole sectors of a byte count do not exceed it.
LEMMA QuotientFits ==
    ASSUME NEW n \in Nat, NEW s \in Nat \ {0}
    PROVE  n \div s \in Nat /\ (n \div s) * s <= n
    OBVIOUS

\* A count with fewer than q whole sectors is below q sectors.
LEMMA QuotientBelow ==
    ASSUME NEW n \in Nat, NEW s \in Nat \ {0}, NEW q \in Nat, n \div s < q
    PROVE  n < q * s
<1>1. n < ((n \div s) + 1) * s
    OBVIOUS
<1>2. ((n \div s) + 1) * s <= q * s
    BY ProductGrows, n \div s \in Nat
<1> QED
    BY <1>1, <1>2

-----------------------------------------------------------------------------
(***************************************************************************)
(* The geometry of a volume that mount accepts.                            *)
(***************************************************************************)
\* Fat32::mount returned Ok: the fields are the ones it checked, the FATs and
\* the clusters lie one behind the other inside the ramdisk, and every sector
\* number of the volume fits 32 bits.
LEMMA MountedGeometry ==
    ASSUME NEW v \in Volumes, MountResult(v) = "Ok"
    PROVE  /\ v.sectors_per_cluster \in Nat \ {0}
           /\ v.reserved_sectors \in Nat
           /\ v.sectors_per_fat \in Nat \ {0}
           /\ first_data_sector(v) \in Nat
           /\ v.reserved_sectors + v.sectors_per_fat <= first_data_sector(v)
           /\ cluster_count(v) \in Nat
           /\ first_data_sector(v) + (cluster_count(v) * v.sectors_per_cluster) <= TotalSectors(v)
           /\ TotalSectors(v) \in Nat /\ TotalSectors(v) <= U32_MAX
           /\ TotalSectors(v) <= sector_count(v)
<1>1. ~ UnsupportedFields(v) /\ ~ OversizedVolume(v)
    BY DEF MountResult
<1>2. /\ v.sectors_per_cluster \in Nat /\ v.reserved_sectors \in Nat /\ v.fat_count \in Nat
      /\ v.sectors_per_fat \in Nat
      /\ v.total_sectors_16 \in 0 .. U32_MAX /\ v.total_sectors_32 \in 0 .. U32_MAX
    BY VolumeAssumption
<1>3. /\ v.sectors_per_cluster # 0 /\ v.sectors_per_fat # 0 /\ v.fat_count # 0
    BY <1>1 DEF UnsupportedFields
<1>4. TotalSectors(v) \in Nat /\ TotalSectors(v) <= U32_MAX
    BY <1>2, SizeAssumption DEF TotalSectors
<1>5. 1 * v.sectors_per_fat <= v.fat_count * v.sectors_per_fat
    BY <1>2, <1>3, ProductGrows
<1>6. v.fat_count * v.sectors_per_fat \in Nat
    BY <1>2
<1>7. first_data_sector(v) \in Nat /\ v.reserved_sectors + v.sectors_per_fat <= first_data_sector(v)
    BY <1>2, <1>5, <1>6 DEF first_data_sector
<1>8. TotalSectors(v) > first_data_sector(v) /\ TotalSectors(v) <= sector_count(v)
  <2>1. sector_count(v) \in Nat
      BY VolumeAssumption, SizeAssumption, QuotientFits DEF sector_count
  <2> QED
      BY <1>1, <1>4, <1>7, <2>1 DEF OversizedVolume
<1>9. TotalSectors(v) - first_data_sector(v) \in Nat
    BY <1>4, <1>7, <1>8
<1>10. /\ cluster_count(v) \in Nat
       /\ cluster_count(v) * v.sectors_per_cluster <= TotalSectors(v) - first_data_sector(v)
    BY <1>2, <1>3, <1>9, QuotientFits DEF cluster_count
<1>11. cluster_count(v) * v.sectors_per_cluster \in Nat
    BY <1>2, <1>10
<1> QED
    BY <1>2, <1>3, <1>4, <1>7, <1>8, <1>10, <1>11

\* The sectors of a cluster the volume has are sectors of its data area.
LEMMA ClusterInside ==
    ASSUME NEW v \in Volumes, MountResult(v) = "Ok",
           NEW c \in Nat, c >= 2, c < cluster_count(v) + 2,
           NEW i \in Nat, i < v.sectors_per_cluster
    PROVE  first_data_sector(v) + ((c - 2) * v.sectors_per_cluster) + i
              \in first_data_sector(v) .. TotalSectors(v) - 1
<1> DEFINE spc == v.sectors_per_cluster
           first == first_data_sector(v)
           count == cluster_count(v)
           total == TotalSectors(v)
           product == (c - 2) * spc
           bound == count * spc
<1>1. /\ spc \in Nat \ {0} /\ first \in Nat /\ count \in Nat /\ total \in Nat
      /\ first + bound <= total
    BY MountedGeometry
<1>2. c - 2 \in Nat /\ (c - 2) + 1 <= count
    BY <1>1
<1>3. ((c - 2) + 1) * spc <= count * spc
    BY <1>1, <1>2, ProductGrows
<1>4. ((c - 2) + 1) * spc = ((c - 2) * spc) + spc
    BY <1>1, <1>2, OneMore
<1>5. product \in Nat /\ bound \in Nat /\ product + spc <= bound /\ i < spc
    BY <1>1, <1>2, <1>3, <1>4
<1>6. first + product + i \in first .. total - 1
  <2> HIDE DEF product, bound, spc, first, total
  <2> QED
      BY <1>1, <1>5
<1> QED
    BY <1>6

\* cluster_to_sector and read_sector succeed for every sector of a valid
\* cluster, with a sector of the data area.
LEMMA DataReadsSucceed ==
    ASSUME volume \in Volumes, MountResult(volume) = "Ok",
           NEW c \in Nat, is_valid_cluster(c),
           NEW i \in Nat, i < volume.sectors_per_cluster
    PROVE  /\ DataError(c, i) = "None"
           /\ cluster_to_sector(c, i) \in first_data_sector(volume) .. TotalSectors(volume) - 1
<1> DEFINE first == first_data_sector(volume)
           total == TotalSectors(volume)
<1>1. /\ volume.sectors_per_cluster \in Nat /\ first \in Nat /\ total \in Nat
      /\ total <= U32_MAX /\ total <= sector_count(volume)
    BY MountedGeometry
<1>2. cluster_to_sector(c, i) \in first .. total - 1
    BY ClusterInside DEF is_valid_cluster, cluster_to_sector
<1>3. ~ (cluster_to_sector(c, i) > U32_MAX) /\ cluster_to_sector(c, i) < sector_count(volume)
  <2>1. sector_count(volume) \in Nat
      BY VolumeAssumption, SizeAssumption, QuotientFits DEF sector_count
  <2> HIDE DEF first, total
  <2> QED
      BY <1>1, <1>2, <2>1, SizeAssumption
<1>4. ~ (i >= volume.sectors_per_cluster)
    BY <1>1
<1>5. DataError(c, i) = "None"
    BY <1>3, <1>4 DEF DataError, InDevice
<1> QED
    BY <1>2, <1>5

\* The sectors of the first FAT have 32-bit numbers.
LEMMA FatFits ==
    ASSUME volume \in Volumes, MountResult(volume) = "Ok", NEW c \in Nat,
           (c * 4) \div SECTOR_SIZE < volume.sectors_per_fat
    PROVE  ~ (FatSector(c) > U32_MAX)
<1> DEFINE offset == (c * 4) \div SECTOR_SIZE
           reserved == volume.reserved_sectors
           spf == volume.sectors_per_fat
           bound == cluster_count(volume) * volume.sectors_per_cluster
<1>1. /\ reserved \in Nat /\ spf \in Nat /\ bound \in Nat /\ first_data_sector(volume) \in Nat
      /\ reserved + spf <= first_data_sector(volume)
      /\ first_data_sector(volume) + bound <= TotalSectors(volume)
      /\ TotalSectors(volume) \in Nat /\ TotalSectors(volume) <= U32_MAX
    BY MountedGeometry
<1>2. offset \in Nat /\ offset < spf /\ FatSector(c) = reserved + offset
    BY SizeAssumption, QuotientFits, c * 4 \in Nat DEF FatSector
<1> HIDE DEF offset, reserved, spf, bound
<1> QED
    BY <1>1, <1>2, SizeAssumption

\* next_cluster either refuses a cluster the FAT is too short for, or reads a
\* sector of the first FAT that holds the cluster's entry.
LEMMA FatReadsSucceed ==
    ASSUME volume \in Volumes, MountResult(volume) = "Ok",
           NEW c \in Nat, is_valid_cluster(c)
    PROVE  /\ FatError(c) \in {"None", "CorruptFat"}
           /\ FatError(c) = "None" =>
                /\ FatSector(c) \in volume.reserved_sectors
                                    .. volume.reserved_sectors + (volume.sectors_per_fat - 1)
                /\ FatEntry(c) \in Nat
<1> DEFINE spf == volume.sectors_per_fat
           offset == (c * 4) \div SECTOR_SIZE
           reserved == volume.reserved_sectors
<1>1. /\ spf \in Nat \ {0} /\ reserved \in Nat
      /\ reserved + spf <= TotalSectors(volume)
      /\ TotalSectors(volume) \in Nat
      /\ TotalSectors(volume) <= U32_MAX /\ TotalSectors(volume) <= sector_count(volume)
  <2>1. cluster_count(volume) * volume.sectors_per_cluster \in Nat
      BY MountedGeometry
  <2> QED
      BY <2>1, MountedGeometry
<1>2. offset \in Nat
    BY SizeAssumption, QuotientFits, c * 4 \in Nat
<1>3. sector_count(volume) \in Nat
    BY VolumeAssumption, SizeAssumption, QuotientFits DEF sector_count
<1>4. FatSector(c) = reserved + offset
    BY DEF FatSector
<1>5. CASE offset >= spf
    BY <1>5 DEF FatError
<1>6. CASE offset < spf
  <2>1. /\ FatSector(c) \in reserved .. reserved + (spf - 1)
        /\ FatSector(c) <= U32_MAX /\ FatSector(c) < sector_count(volume)
    <3> HIDE DEF spf, offset, reserved
    <3> QED
        BY <1>1, <1>2, <1>3, <1>4, <1>6, SizeAssumption
  <2>2. FatError(c) \in {"None", "CorruptFat"}
      BY <2>1 DEF FatError, InDevice
  <2>3. c * 4 < spf * SECTOR_SIZE
      BY <1>1, <1>6, SizeAssumption, QuotientBelow, c * 4 \in Nat
  <2>4. c \in 0 .. ((spf * SECTOR_SIZE) \div 4) - 1
    <3>1. PICK q \in Nat : SECTOR_SIZE = 4 * q
        BY SizeAssumption
    <3>2. spf * SECTOR_SIZE = 4 * (spf * q) /\ spf * q \in Nat
        BY <3>1, <1>1
    <3> DEFINE product == spf * q
    <3>3. c < product /\ (spf * SECTOR_SIZE) \div 4 = product
      <4>1. c * 4 < 4 * product /\ spf * SECTOR_SIZE = 4 * product /\ product \in Nat
          BY <2>3, <3>2
      <4> HIDE DEF product
      <4> QED
          BY <4>1
    <3> HIDE DEF product
    <3> QED
        BY <3>3, <3>2 DEF product
  <2>5. volume.fat[c] \in Nat
      BY <2>4, VolumeAssumption
  <2>6. FatEntry(c) \in Nat
      BY <2>5, SizeAssumption DEF FatEntry
  <2> QED
      BY <2>1, <2>2, <2>6
<1> QED
    BY <1>1, <1>2, <1>5, <1>6

-----------------------------------------------------------------------------
(***************************************************************************)
(* Every step keeps a walk on the volume.                                  *)
(***************************************************************************)
IInv ==
    /\ volume \in Volumes
    /\ TypeOK
    /\ ReadsInsideVolume
    /\ pc = "idle" => MountResult(volume) = "Ok"

\* What a step must establish of a walk: the part of IInv that is about it.
WalkInv ==
    /\ pc \in {"idle", "sector", "next"}
    /\ mode \in {"none", "find", "list", "read"}
    /\ component \in 0 .. Len(request.path)
    /\ cluster \in Nat /\ sector_index \in Nat /\ hops \in Nat /\ remaining \in Nat
    /\ result \in Answers /\ result # "SectorOutOfRange"
    /\ pc \in {"sector", "next"} =>
        /\ mode # "none"
        /\ is_valid_cluster(cluster)
        /\ sector_index < volume.sectors_per_cluster
        /\ hops <= cluster_count(volume)
        /\ (mode = "read") = (remaining > 0)
        /\ (mode = "find") = (component > 0)

\* Answering a request ends its walk.
LEMMA FinishKeeps ==
    ASSUME request'.path \in Seq(Names), NEW r \in Answers, r # "SectorOutOfRange", Finish(r)
    PROVE  WalkInv'
<1>1. Len(request'.path) \in Nat
    OBVIOUS
<1> QED
    BY <1>1 DEF Finish, WalkInv

\* A walk begins in a cluster of the volume, or the request is answered
\* with an error.
LEMMA WalkKeeps ==
    ASSUME IInv, MountResult(volume) = "Ok", volume' = volume, request'.path \in Seq(Names),
           NEW start \in Nat, NEW purpose \in {"find", "list", "read"},
           NEW n \in 0 .. Len(request'.path), NEW size \in Nat,
           (purpose = "read") = (size > 0), (purpose = "find") = (n > 0),
           Walk(start, purpose, n, size)
    PROVE  WalkInv'
<1>1. CASE is_valid_cluster(start)
  <2>1. volume.sectors_per_cluster \in Nat \ {0} /\ cluster_count(volume) \in Nat
      BY MountedGeometry DEF IInv
  <2>2. is_valid_cluster(start)'
      BY <1>1 DEF is_valid_cluster, cluster_count, TotalSectors, first_data_sector
  <2> QED
      BY <1>1, <2>1, <2>2
      DEF Walk, WalkInv, IInv, TypeOK, ReadsInsideVolume, is_valid_cluster, cluster_count,
          TotalSectors, first_data_sector
<1>2. CASE ~ is_valid_cluster(start)
    BY <1>2, FinishKeeps DEF Walk, Answers, Errors
<1> QED
    BY <1>1, <1>2

\* Looking up the next component begins a walk through its directory.
LEMMA LookUpKeeps ==
    ASSUME IInv, MountResult(volume) = "Ok", volume' = volume, request'.path \in Seq(Names),
           NEW start \in Nat, NEW n \in 1 .. Len(request'.path),
           LookUp(start, n, request'.path)
    PROVE  WalkInv'
<1>1. CASE request'.path[n] \in Dots
    BY <1>1, FinishKeeps DEF LookUp, Answers, Errors
<1>2. CASE request'.path[n] \notin Dots
  <2>1. Walk(start, "find", n, 0)
      BY <1>2 DEF LookUp
  <2>2. n \in 0 .. Len(request'.path) /\ n > 0
      OBVIOUS
  <2> QED
      BY <2>1, <2>2, WalkKeeps
<1> QED
    BY <1>1, <1>2

\* An entry found leads to the next lookup, to a walk, or to an answer.
LEMMA FoundKeeps ==
    ASSUME IInv, MountResult(volume) = "Ok", volume' = volume, request' = request,
           mode = "find", component > 0,
           NEW entry \in RawEntry, entry.kind \in {"file", "directory"}, Found(entry)
    PROVE  WalkInv'
<1>1. /\ entry.first_cluster \in Nat /\ entry.size \in Nat
      /\ request'.path \in Seq(Names) /\ Len(request.path) \in Nat
      /\ component \in 1 .. Len(request.path)
    BY DEF RawEntry, IInv, TypeOK
<1>2. CASE component = Len(request.path) /\ request.op = "read"
  <2>1. ReadFile(entry)
      BY <1>2 DEF Found
  <2>2. CASE entry.kind = "directory" \/ entry.size = 0
      BY <1>1, <2>1, <2>2, FinishKeeps DEF ReadFile, Answers, Errors
  <2>3. CASE entry.kind # "directory" /\ entry.size # 0
    <3>1. Walk(entry.first_cluster, "read", 0, entry.size) /\ entry.size > 0
        BY <1>1, <2>1, <2>3 DEF ReadFile
    <3> QED
        BY <1>1, <3>1, WalkKeeps
  <2> QED
      BY <2>2, <2>3
<1>3. CASE ~ (component = Len(request.path) /\ request.op = "read") /\ entry.kind = "file"
    BY <1>1, <1>3, FinishKeeps DEF Found, Answers, Errors
<1>4. CASE /\ ~ (component = Len(request.path) /\ request.op = "read")
           /\ entry.kind # "file" /\ component < Len(request.path)
  <2>1. LookUp(entry.first_cluster, component + 1, request'.path)
      BY <1>4 DEF Found
  <2>2. component + 1 \in 1 .. Len(request'.path)
      BY <1>1, <1>4
  <2> QED
      BY <1>1, <2>1, <2>2, LookUpKeeps
<1>5. CASE /\ ~ (component = Len(request.path) /\ request.op = "read")
           /\ entry.kind # "file" /\ ~ (component < Len(request.path))
  <2>1. Walk(entry.first_cluster, "list", 0, 0)
      BY <1>5 DEF Found
  <2> QED
      BY <1>1, <2>1, WalkKeeps
<1> QED
    BY <1>2, <1>3, <1>4, <1>5

\* A walk stays in its cluster for the next sector, or asks for the FAT.
LEMMA NextSectorKeeps ==
    ASSUME IInv, pc = "sector", volume' = volume, request' = request,
           NextSector, remaining' \in Nat, (mode = "read") = (remaining' > 0)
    PROVE  WalkInv'
<1>1. volume.sectors_per_cluster \in Nat \ {0}
    BY MountedGeometry DEF IInv, TypeOK
<1>2. is_valid_cluster(cluster)' /\ cluster_count(volume)' = cluster_count(volume)
    BY DEF NextSector, IInv, TypeOK, is_valid_cluster, cluster_count, TotalSectors,
           first_data_sector
<1>3. sector_index' \in Nat /\ sector_index' < volume.sectors_per_cluster
      /\ pc' \in {"sector", "next"}
    BY <1>1 DEF NextSector, IInv, TypeOK
<1> QED
    BY <1>2, <1>3 DEF NextSector, WalkInv, IInv, TypeOK, ReadsInsideVolume

\* A step that keeps the walk and leaves the history inside the volume keeps
\* the invariant.
LEMMA StepKeeps ==
    ASSUME IInv, MountResult(volume) = "Ok", volume' = volume, request'.path \in Seq(Names),
           WalkInv',
           \/ UNCHANGED <<lba, area>>
           \/ /\ area' = "data"
              /\ lba' \in first_data_sector(volume) .. TotalSectors(volume) - 1
           \/ /\ area' = "fat"
              /\ lba' \in volume.reserved_sectors
                          .. volume.reserved_sectors + (volume.sectors_per_fat - 1)
    PROVE  IInv'
<1>1. /\ MountResult(volume)' = "Ok"
      /\ first_data_sector(volume)' = first_data_sector(volume)
      /\ TotalSectors(volume)' = TotalSectors(volume)
    BY DEF MountResult, InvalidRamdisk, UnsupportedFields, OversizedVolume, TooFewClusters,
           fat_entries, sector_count, cluster_count, first_data_sector, TotalSectors
<1>2. volume' \in Volumes
    BY DEF IInv
<1>3. TypeOK'
    BY <1>1 DEF WalkInv, TypeOK
<1>4. ReadsInsideVolume'
  <2>1. result' # "SectorOutOfRange"
      BY DEF WalkInv
  <2>2. CASE UNCHANGED <<lba, area>>
      BY <1>1, <2>1, <2>2 DEF IInv, ReadsInsideVolume
  <2>3. CASE ~ UNCHANGED <<lba, area>>
      BY <1>1, <2>1, <2>3 DEF ReadsInsideVolume
  <2> QED
      BY <2>2, <2>3
<1> QED
    BY <1>1, <1>2, <1>3, <1>4 DEF IInv

\* Scanning a directory's sector keeps the invariant.
LEMMA VisitSectorKeeps == IInv /\ VisitSector => IInv'
<1> SUFFICES ASSUME IInv, VisitSector PROVE IInv'
    OBVIOUS
<1> DEFINE sector == cluster_to_sector(cluster, sector_index)
           raws == volume.entries[sector]
<1>1. /\ volume \in Volumes /\ MountResult(volume) = "Ok" /\ volume' = volume
      /\ request' = request /\ request'.path \in Seq(Names)
      /\ cluster \in Nat /\ is_valid_cluster(cluster)
      /\ sector_index \in Nat /\ sector_index < volume.sectors_per_cluster
      /\ pc = "sector" /\ mode \in {"find", "list"}
    BY DEF IInv, TypeOK, VisitSector
<1>2. /\ DataError(cluster, sector_index) = "None"
      /\ sector \in first_data_sector(volume) .. TotalSectors(volume) - 1
    BY <1>1, DataReadsSucceed
<1>3. raws \in Seq(RawEntry)
  <2>1. /\ first_data_sector(volume) \in Nat /\ TotalSectors(volume) \in Nat
        /\ TotalSectors(volume) <= sector_count(volume)
      BY <1>1, MountedGeometry
  <2>2. sector_count(volume) \in Nat
      BY <1>1, VolumeAssumption, SizeAssumption, QuotientFits DEF sector_count
  <2>3. sector \in 0 .. (volume.length \div SECTOR_SIZE) - 1
    <3> HIDE DEF sector
    <3> QED
        BY <1>2, <2>1, <2>2 DEF sector_count
  <2> QED
      BY <1>1, <2>3, VolumeAssumption
<1>4. /\ lba' = sector /\ area' = "data"
      /\ \/ Stops(raws) = {} /\ NextSector /\ UNCHANGED remaining
         \/ \E i \in Stops(raws) : IF raws[i].kind = "end" THEN Finish(AtEnd) ELSE Found(raws[i])
    BY <1>2 DEF VisitSector
<1> HIDE DEF sector, raws
<1>5. WalkInv'
  <2>1. CASE Stops(raws) = {} /\ NextSector /\ UNCHANGED remaining
      BY <1>1, <2>1, NextSectorKeeps DEF IInv, TypeOK
  <2>2. CASE \E i \in Stops(raws) : IF raws[i].kind = "end" THEN Finish(AtEnd) ELSE Found(raws[i])
    <3>1. PICK i \in Stops(raws) : IF raws[i].kind = "end" THEN Finish(AtEnd) ELSE Found(raws[i])
        BY <2>2
    <3>2. i \in DOMAIN raws /\ raws[i] \in RawEntry
        BY <1>3, <3>1 DEF Stops
    <3>3. CASE raws[i].kind = "end"
      <4>1. AtEnd \in {"Ok", "NotFound"}
          BY <1>1 DEF AtEnd
      <4> QED
          BY <1>1, <3>1, <3>3, <4>1, FinishKeeps DEF Answers, Errors
    <3>4. CASE raws[i].kind # "end"
      <4>1. /\ Found(raws[i]) /\ mode = "find"
            /\ raws[i].kind \in {"file", "directory"}
          BY <3>1, <3>4 DEF Stops, Wanted, Listed
      <4>2. component > 0
          BY <1>1, <4>1 DEF IInv, TypeOK
      <4> QED
          BY <1>1, <3>2, <4>1, <4>2, FoundKeeps
    <3> QED
        BY <3>3, <3>4
  <2> QED
      BY <1>4, <2>1, <2>2
<1> QED
    BY <1>1, <1>2, <1>4, <1>5, StepKeeps

\* Reading a file's sector keeps the invariant.
LEMMA ReadSectorKeeps == IInv /\ ReadSector => IInv'
<1> SUFFICES ASSUME IInv, ReadSector PROVE IInv'
    OBVIOUS
<1>1. /\ volume \in Volumes /\ MountResult(volume) = "Ok" /\ volume' = volume
      /\ request' = request /\ request'.path \in Seq(Names)
      /\ cluster \in Nat /\ is_valid_cluster(cluster)
      /\ sector_index \in Nat /\ sector_index < volume.sectors_per_cluster
      /\ remaining \in Nat /\ pc = "sector" /\ mode = "read"
    BY DEF IInv, TypeOK, ReadSector
<1>2. /\ DataError(cluster, sector_index) = "None"
      /\ cluster_to_sector(cluster, sector_index)
            \in first_data_sector(volume) .. TotalSectors(volume) - 1
    BY <1>1, DataReadsSucceed
<1>3. /\ lba' = cluster_to_sector(cluster, sector_index) /\ area' = "data"
      /\ \/ remaining = Chunk /\ Finish("Ok")
         \/ remaining # Chunk /\ remaining' = remaining - Chunk /\ NextSector
    BY <1>2 DEF ReadSector
<1>4. CASE remaining = Chunk /\ Finish("Ok")
    BY <1>1, <1>2, <1>3, <1>4, FinishKeeps, StepKeeps DEF Answers, Errors
<1>5. CASE remaining # Chunk /\ remaining' = remaining - Chunk /\ NextSector
  <2>1. remaining' \in Nat /\ remaining' > 0
      BY <1>1, <1>5, SizeAssumption DEF Chunk
  <2>2. WalkInv'
      BY <1>1, <1>5, <2>1, NextSectorKeeps
  <2> QED
      BY <1>1, <1>2, <1>3, <2>2, StepKeeps
<1> QED
    BY <1>3, <1>4, <1>5

\* Following the FAT to the next cluster keeps the invariant.
LEMMA NextClusterKeeps == IInv /\ NextCluster => IInv'
<1> SUFFICES ASSUME IInv, NextCluster PROVE IInv'
    OBVIOUS
<1>1. /\ volume \in Volumes /\ MountResult(volume) = "Ok" /\ volume' = volume
      /\ request' = request /\ request'.path \in Seq(Names)
      /\ cluster \in Nat /\ is_valid_cluster(cluster)
      /\ mode \in {"find", "list", "read"} /\ pc = "next"
      /\ hops \in Nat /\ hops <= cluster_count(volume)
    BY DEF IInv, TypeOK, NextCluster
<1>2. /\ FatError(cluster) \in {"None", "CorruptFat"}
      /\ FatError(cluster) = "None" =>
            /\ FatSector(cluster) \in volume.reserved_sectors
                                     .. volume.reserved_sectors + (volume.sectors_per_fat - 1)
            /\ FatEntry(cluster) \in Nat
    BY <1>1, FatReadsSucceed
<1>3. CASE FatError(cluster) = "CorruptFat"
  <2>1. Finish("CorruptFat") /\ UNCHANGED <<lba, area>>
      BY <1>3 DEF NextCluster
  <2>2. WalkInv'
      BY <1>1, <2>1, FinishKeeps DEF Answers, Errors
  <2> QED
      BY <1>1, <2>1, <2>2, StepKeeps
<1>4. CASE FatError(cluster) = "None"
  <2>1. lba' = FatSector(cluster) /\ area' = "fat"
      BY <1>4 DEF NextCluster
  <2>2. CASE \/ Finish(AtEnd) \/ Finish("CorruptFat") \/ Finish("DirectoryLoop")
    <3>1. AtEnd \in {"Ok", "NotFound", "TruncatedFile"}
        BY <1>1 DEF AtEnd
    <3>2. WalkInv'
        BY <1>1, <2>2, <3>1, FinishKeeps DEF Answers, Errors
    <3> QED
        BY <1>1, <1>2, <1>4, <2>1, <3>2, StepKeeps
  <2>3. CASE /\ is_valid_cluster(FatEntry(cluster)) /\ hops # cluster_count(volume)
             /\ cluster' = FatEntry(cluster) /\ hops' = CountedHop
             /\ pc' = "sector"
             /\ UNCHANGED <<mode, component, sector_index, remaining, result>>
    <3>1. is_valid_cluster(cluster)' /\ cluster_count(volume)' = cluster_count(volume)
        BY <1>1, <2>3 DEF is_valid_cluster, cluster_count, TotalSectors, first_data_sector
    <3>2. hops' \in Nat /\ hops' <= cluster_count(volume)
      <4>1. cluster_count(volume) \in Nat
          BY <1>1, MountedGeometry
      <4> QED
          BY <1>1, <2>3, <4>1 DEF CountedHop
    <3>3. WalkInv'
        BY <1>1, <1>2, <1>4, <2>3, <3>1, <3>2 DEF WalkInv, IInv, TypeOK, ReadsInsideVolume
    <3> QED
        BY <1>1, <1>2, <1>4, <2>1, <3>3, StepKeeps
  <2> QED
      BY <1>4, <2>2, <2>3 DEF NextCluster
<1> QED
    BY <1>2, <1>3, <1>4

\* A request of the shell keeps the invariant.
LEMMA CallKeeps ==
    ASSUME IInv, NEW r \in Requests, Call(r)
    PROVE  IInv'
<1>1. /\ volume \in Volumes /\ MountResult(volume) = "Ok" /\ volume' = volume
      /\ r.path \in Seq(Names) /\ request'.path = r.path /\ request'.path \in Seq(Names)
      /\ volume.root_cluster \in Nat /\ Len(r.path) \in Nat
    BY RequestAssumption, VolumeAssumption DEF IInv, Call
<1>2. UNCHANGED <<lba, area>>
    BY DEF Call
<1>3. CASE r.path # <<>>
  <2>1. 1 \in 1 .. Len(request'.path)
      BY <1>1, <1>3
  <2>2. LookUp(volume.root_cluster, 1, request'.path)
      BY <1>1, <1>3 DEF Call
  <2>3. WalkInv'
      BY <1>1, <2>1, <2>2, LookUpKeeps
  <2> QED
      BY <1>1, <1>2, <2>3, StepKeeps
<1>4. CASE r.path = <<>> /\ Walk(volume.root_cluster, "list", 0, 0)
  <2>1. 0 \in 0 .. Len(request'.path)
      BY <1>1
  <2>2. WalkInv'
      BY <1>1, <1>4, <2>1, WalkKeeps
  <2> QED
      BY <1>1, <1>2, <2>2, StepKeeps
<1>5. CASE r.path = <<>> /\ Finish("NotFound")
  <2>1. WalkInv'
      BY <1>1, <1>5, FinishKeeps DEF Answers, Errors
  <2> QED
      BY <1>1, <1>2, <2>1, StepKeeps
<1> QED
    BY <1>3, <1>4, <1>5 DEF Call

\* Mounting a volume keeps the invariant.
LEMMA MountKeeps == IInv /\ Mount => IInv'
<1> SUFFICES ASSUME IInv, Mount PROVE IInv'
    OBVIOUS
<1>1. MountResult(volume)' = MountResult(volume)
    BY DEF Mount, MountResult, InvalidRamdisk, UnsupportedFields, OversizedVolume, TooFewClusters,
           fat_entries, sector_count, cluster_count, first_data_sector, TotalSectors
<1>2. MountResult(volume) \in {"Ok", "InvalidRamdisk", "InvalidBootSector", "UnsupportedVolume"}
    BY DEF MountResult
<1>3. TypeOK' /\ volume' \in Volumes
    BY <1>2 DEF Mount, walk, IInv, TypeOK, Answers
<1>4. ReadsInsideVolume'
    BY <1>2 DEF Mount, IInv, ReadsInsideVolume, first_data_sector, TotalSectors
<1> QED
    BY <1>1, <1>3, <1>4 DEF IInv, Mount

\* Whatever the volume holds and the shell asks for, the walks of fat32.rs
\* stay inside the volume.
LEMMA Invariance == Spec => []IInv
<1>1. Init => IInv
    BY DEF Init, IInv, TypeOK, ReadsInsideVolume, Answers
<1>2. IInv /\ [Next]_vars => IInv'
  <2> SUFFICES ASSUME IInv, [Next]_vars PROVE IInv'
      OBVIOUS
  <2>1. CASE Mount
      BY <2>1, MountKeeps
  <2>2. ASSUME NEW r \in Requests, Call(r) PROVE IInv'
      BY <2>2, CallKeeps
  <2>3. CASE VisitSector
      BY <2>3, VisitSectorKeeps
  <2>4. CASE ReadSector
      BY <2>4, ReadSectorKeeps
  <2>5. CASE NextCluster
      BY <2>5, NextClusterKeeps
  <2>6. CASE UNCHANGED vars
    <3>1. /\ UNCHANGED <<volume, pc, mode, request, component, cluster, sector_index, hops>>
          /\ UNCHANGED <<remaining, result, lba, area>>
        BY <2>6 DEF vars, walk
    <3>2. /\ MountResult(volume)' = MountResult(volume)
          /\ is_valid_cluster(cluster)' = is_valid_cluster(cluster)
          /\ cluster_count(volume)' = cluster_count(volume)
          /\ first_data_sector(volume)' = first_data_sector(volume)
          /\ TotalSectors(volume)' = TotalSectors(volume)
        BY <3>1, Zenon
        DEF is_valid_cluster, MountResult, InvalidRamdisk, UnsupportedFields, OversizedVolume,
            TooFewClusters, fat_entries, sector_count, cluster_count, first_data_sector, TotalSectors
    <3>3. TypeOK' /\ ReadsInsideVolume'
        BY <3>1, <3>2 DEF IInv, TypeOK, ReadsInsideVolume
    <3> QED
        BY <3>1, <3>2, <3>3 DEF IInv
  <2> QED
      BY <2>1, <2>2, <2>3, <2>4, <2>5, <2>6 DEF Next, Step
<1> QED
    BY <1>1, <1>2, PTL DEF Spec

\* On every volume, list_dir and read_file keep their cluster, sector and loop
\* counter within what the volume has.
THEOREM TypeCorrect == Spec => []TypeOK
<1>1. IInv => TypeOK
    BY DEF IInv
<1> QED
    BY <1>1, Invariance, PTL

\* On every volume that Fat32::mount accepts, every read of the file system is
\* inside the ramdisk and inside the area it is meant for, so read_sector never
\* reports SectorOutOfRange.
THEOREM ReadsInside == Spec => []ReadsInsideVolume
<1>1. IInv => ReadsInsideVolume
    BY DEF IInv
<1> QED
    BY <1>1, Invariance, PTL

-----------------------------------------------------------------------------
(***************************************************************************)
(* Numbers, and functions defined by recursion.                            *)
(***************************************************************************)
\* A set of numbers that is not empty has a least one, and First is it.
LEMMA FirstIs ==
    ASSUME NEW T, T \subseteq Nat, T # {}
    PROVE  /\ First(T) \in T /\ \A j \in T : First(T) <= j
           /\ \A i \in T : (\A j \in T : i <= j) => i = First(T)
<1>1. IsWellFoundedOn(OpToRel(<, Nat), Nat)
    BY NatLessThanWellFounded
<1>2. PICK i \in T : \A j \in T : ~ (<<j, i>> \in OpToRel(<, Nat))
    BY <1>1, WFMin
<1>3. \A j \in T : i <= j
  <2>1. \A j \in T : ~ (j < i)
      BY <1>2, Zenon DEF OpToRel
  <2> QED
      BY <2>1
<1>4. First(T) \in T /\ \A j \in T : First(T) <= j
    BY <1>3, Zenon DEF First
<1>5. ASSUME NEW k \in T, \A j \in T : k <= j PROVE k = First(T)
  <2>1. k <= First(T) /\ First(T) <= k /\ k \in Nat /\ First(T) \in Nat
      BY <1>4, <1>5
  <2> QED
      BY <2>1
<1> QED
    BY <1>4, <1>5

\* A property that 0 has, and with n also n + 1, all numbers have.
LEMMA Inductive ==
    ASSUME NEW S, 0 \in S, \A n \in Nat : n \in S => n + 1 \in S
    PROVE  \A n \in Nat : n \in S
<1> SUFFICES ASSUME NEW m \in Nat, m \notin S PROVE FALSE
    OBVIOUS
<1> DEFINE T == Nat \ S
<1>1. T \subseteq Nat /\ T # {}
    OBVIOUS
<1>2. First(T) \in T /\ \A j \in T : First(T) <= j
    BY <1>1, FirstIs
<1>3. PICK k \in Nat : k \notin S /\ \A j \in Nat : j \notin S => k <= j
    BY <1>2
<1>4. k # 0 /\ k - 1 \in Nat
    BY <1>3
<1>5. k - 1 \in S
    BY <1>3, <1>4
<1> QED
    BY <1>3, <1>4, <1>5

\* The numbers, leaving out k.
Around(k, i) == IF i < k THEN i ELSE i + 1

\* They are different, and none of them is k.
LEMMA AroundIs ==
    ASSUME NEW n \in Nat, NEW k \in 0 .. n + 1, NEW i \in 0 .. n, NEW j \in 0 .. n
    PROVE  /\ Around(k, i) \in 0 .. n + 1 /\ Around(k, i) # k
           /\ i # j => Around(k, i) # Around(k, j)
  BY DEF Around

\* n + 1 values that are numbers from 1 to n are not all different.
LEMMA PigeonHole ==
    ASSUME NEW m \in Nat, NEW r \in [0 .. m -> 1 .. m]
    PROVE  \E x, y \in 0 .. m : x # y /\ r[x] = r[y]
<1> DEFINE Twice(n, f) == \E x, y \in 0 .. n : x # y /\ f[x] = f[y]
           S == {n \in Nat : \A f \in [0 .. n -> 1 .. n] : Twice(n, f)}
<1>1. 0 \in S
  <2>1. \A f \in [0 .. 0 -> 1 .. 0] : f[0] \in 1 .. 0
      OBVIOUS
  <2> QED
      BY <2>1
<1>2. ASSUME NEW n \in Nat, n \in S PROVE n + 1 \in S
  <2> HIDE DEF Twice
  <2> SUFFICES ASSUME NEW f \in [0 .. n + 1 -> 1 .. n + 1], ~ Twice(n + 1, f) PROVE FALSE
    <3>1. n + 1 \in Nat
        OBVIOUS
    <3> QED
        BY <3>1, Zenon
  <2>1. PICK k \in 0 .. n + 1 : \A i \in 0 .. n + 1 : i # k => f[i] # n + 1
    <3>1. CASE \E k \in 0 .. n + 1 : f[k] = n + 1
        BY <3>1, Zenon DEF Twice
    <3>2. CASE ~ \E k \in 0 .. n + 1 : f[k] = n + 1
        BY <3>2, 0 \in 0 .. n + 1
    <3> QED
        BY <3>1, <3>2
  <2> DEFINE after(i) == Around(k, i)
             g == [i \in 0 .. n |-> f[after(i)]]
  <2>2. \A i \in 0 .. n : after(i) \in 0 .. n + 1 /\ after(i) # k
      BY AroundIs, Zenon
  <2>3. \A i, j \in 0 .. n : i # j => after(i) # after(j)
      BY AroundIs, Zenon
  <2> HIDE DEF after
  <2>4. \A i \in 0 .. n : f[after(i)] \in 1 .. n
    <3>1. \A i \in 0 .. n : f[after(i)] \in 1 .. n + 1 /\ f[after(i)] # n + 1
        BY <2>1, <2>2, Zenon
    <3>2. \A x \in 1 .. n + 1 : x # n + 1 => x \in 1 .. n
        OBVIOUS
    <3> QED
        BY <3>1, <3>2, Zenon
  <2>5. Twice(n, g)
    <3>1. g \in [0 .. n -> 1 .. n]
        BY <2>4
    <3> HIDE DEF g
    <3> QED
        BY <1>2, <3>1, Zenon
  <2>6. PICK x, y \in 0 .. n : x # y /\ g[x] = g[y]
      BY <2>5, Zenon DEF Twice
  <2>7. f[after(x)] = f[after(y)]
      BY <2>6
  <2> QED
      BY <2>2, <2>3, <2>6, <2>7, Zenon DEF Twice
<1> HIDE DEF S
<1>3. m \in S
    BY <1>1, <1>2, Inductive
<1> QED
    BY <1>3 DEF S

\* The first n + 1 values that a and the steps g lead through.
Course(X, a, g, n, f) == f \in [0 .. n -> X] /\ f[0] = a /\ \A k \in 0 .. n - 1 : f[k + 1] = g[k][f[k]]

\* They exist for every n.
LEMMA CourseExists ==
    ASSUME NEW X, NEW a \in X, NEW g \in [Nat -> [X -> X]], NEW m \in Nat
    PROVE  \E f : Course(X, a, g, m, f)
<1> DEFINE S == {n \in Nat : \E f : Course(X, a, g, n, f)}
<1>1. 0 \in S
  <2> DEFINE f == [k \in 0 .. 0 |-> a]
  <2>1. Course(X, a, g, 0, f)
      BY DEF Course
  <2> QED
      BY <2>1
<1>2. ASSUME NEW n \in Nat, n \in S PROVE n + 1 \in S
  <2>1. PICK f : Course(X, a, g, n, f)
      BY <1>2
  <2> DEFINE h == [k \in 0 .. n + 1 |-> IF k = n + 1 THEN g[n][f[n]] ELSE f[k]]
  <2>2. f \in [0 .. n -> X] /\ n \in 0 .. n /\ f[0] = a
      BY <2>1 DEF Course
  <2>3. g[n] \in [X -> X]
      OBVIOUS
  <2>4. g[n][f[n]] \in X
      BY <2>2, <2>3
  <2>5. \A k \in 0 .. n : h[k] = f[k]
      OBVIOUS
  <2>6. h[n + 1] = g[n][f[n]]
      OBVIOUS
  <2>7. h \in [0 .. n + 1 -> X]
    <3>1. \A k \in 0 .. n + 1 : k # n + 1 => k \in 0 .. n
        OBVIOUS
    <3> QED
        BY <2>2, <2>4, <3>1
  <2>8. h[0] = a
      BY <2>2, <2>5
  <2> HIDE DEF h
  <2>9. ASSUME NEW k \in 0 .. n PROVE h[k + 1] = g[k][h[k]]
    <3>1. CASE k = n
        BY <2>2, <2>5, <2>6, <3>1
    <3>2. CASE k # n
      <4>1. k \in 0 .. n - 1 /\ k + 1 \in 0 .. n
          BY <3>2
      <4>2. f[k + 1] = g[k][f[k]]
          BY <2>1, <4>1 DEF Course
      <4> QED
          BY <2>5, <4>1, <4>2
    <3> QED
        BY <3>1, <3>2
  <2>10. (n + 1) - 1 = n
      OBVIOUS
  <2>11. Course(X, a, g, n + 1, h)
      BY <2>7, <2>8, <2>9, <2>10 DEF Course
  <2> QED
      BY <2>11
<1> HIDE DEF S
<1>3. m \in S
    BY <1>1, <1>2, Inductive
<1> QED
    BY <1>3 DEF S

-----------------------------------------------------------------------------
(***************************************************************************)
(* The chains of a mounted volume.                                         *)
(***************************************************************************)
Mounted(v) == v \in Volumes /\ MountResult(v) = "Ok"

\* What the arithmetic below needs of a mounted volume.
LEMMA Sizes ==
    ASSUME NEW v, Mounted(v)
    PROVE  /\ cluster_count(v) \in Nat /\ v.sectors_per_cluster \in Nat \ {0}
           /\ first_data_sector(v) \in Nat
           /\ Extent(v) = (cluster_count(v) + 1) * v.sectors_per_cluster /\ Extent(v) \in Nat
           /\ Clusters(v) \subseteq Nat /\ 0 \notin Clusters(v)
<1>1. cluster_count(v) \in Nat /\ v.sectors_per_cluster \in Nat \ {0} /\ first_data_sector(v) \in Nat
    BY MountedGeometry DEF Mounted
<1>2. (cluster_count(v) + 1) * v.sectors_per_cluster \in Nat
    BY <1>1
<1> QED
    BY <1>1, <1>2 DEF Extent, Clusters

\* The chain is the path that it is defined to be.
LEMMA ChainIs ==
    ASSUME NEW v, Mounted(v), NEW start \in Clusters(v)
    PROVE  /\ DOMAIN Chain(v, start) = 0 .. cluster_count(v) + 1
           /\ Chain(v, start)[0] = start
           /\ \A n \in 0 .. cluster_count(v) :
                Chain(v, start)[n + 1] = Follower(v, Chain(v, start)[n])
<1> DEFINE m == cluster_count(v) + 1
           g == [n \in Nat |-> [c \in Nat |-> Follower(v, c)]]
           Path(f) == f = [n \in 0 .. m |-> IF n = 0 THEN start ELSE Follower(v, f[n - 1])]
<1>1. m \in Nat /\ m - 1 = cluster_count(v) /\ start \in Nat /\ Clusters(v) \subseteq Nat
    BY Sizes
<1>2. g \in [Nat -> [Nat -> Nat]]
  <2>1. \A c \in Nat : Follower(v, c) \in Nat
      BY <1>1 DEF Follower
  <2> QED
      BY <2>1
<1> HIDE DEF m
<1>3. PICK f : Course(Nat, start, g, m, f)
    BY <1>1, <1>2, CourseExists, Zenon
<1>4. f \in [0 .. m -> Nat] /\ f[0] = start /\ \A k \in 0 .. m - 1 : f[k + 1] = Follower(v, f[k])
  <2>1. \A k \in 0 .. m - 1 : f[k] \in Nat /\ k \in Nat
      BY <1>1, <1>3 DEF Course
  <2> QED
      BY <1>3, <2>1 DEF Course
<1>5. Path(f)
  <2>1. ASSUME NEW n \in 0 .. m PROVE f[n] = IF n = 0 THEN start ELSE Follower(v, f[n - 1])
    <3>1. CASE n # 0
      <4>1. n - 1 \in 0 .. m - 1 /\ (n - 1) + 1 = n
          BY <1>1, <3>1
      <4> QED
          BY <1>4, <3>1, <4>1
    <3> QED
        BY <1>4, <3>1
  <2> QED
      BY <1>4, <2>1
<1>6. Chain(v, start) = CHOOSE h : Path(h)
    BY DEF Chain, m
<1>7. Path(Chain(v, start))
  <2> HIDE DEF Path
  <2> QED
      BY <1>5, <1>6, Zenon
<1>8. DOMAIN Chain(v, start) = 0 .. m /\ Chain(v, start)[0] = start
    BY <1>1, <1>7
<1>9. ASSUME NEW n \in 0 .. m - 1
      PROVE  Chain(v, start)[n + 1] = Follower(v, Chain(v, start)[n])
  <2>1. n + 1 \in 0 .. m /\ n + 1 # 0 /\ (n + 1) - 1 = n
      BY <1>1
  <2>2. Chain(v, start)[n + 1] = IF n + 1 = 0 THEN start ELSE Follower(v, Chain(v, start)[(n + 1) - 1])
      BY <1>7, <2>1
  <2> QED
      BY <2>1, <2>2
<1> QED
    BY <1>1, <1>8, <1>9 DEF m

\* Every place of a chain holds a cluster, or nothing is behind it.
LEMMA ChainHolds ==
    ASSUME NEW v, Mounted(v), NEW start \in Clusters(v), NEW n \in 0 .. cluster_count(v) + 1
    PROVE  /\ Chain(v, start)[n] \in Clusters(v) \cup {0}
           /\ Chain(v, start)[n] # 0 => \A k \in 0 .. n : Chain(v, start)[k] \in Clusters(v)
<1> DEFINE at == Chain(v, start)
           m == cluster_count(v) + 1
<1>1. m \in Nat /\ m - 1 = cluster_count(v) /\ 0 \notin Clusters(v)
    BY Sizes
<1>2. at[0] = start /\ \A k \in 0 .. m - 1 : at[k + 1] = Follower(v, at[k])
    BY <1>1, ChainIs
<1> HIDE DEF at, m
<1>3. \A c : Follower(v, c) \in Clusters(v) \cup {0}
    BY DEF Follower
<1>4. \A k \in 0 .. m : at[k] \in Clusters(v) \cup {0}
  <2>1. ASSUME NEW k \in 0 .. m, k # 0 PROVE at[k] \in Clusters(v) \cup {0}
    <3>1. k - 1 \in 0 .. m - 1 /\ (k - 1) + 1 = k
        BY <1>1, <2>1
    <3> QED
        BY <1>2, <1>3, <3>1
  <2> QED
      BY <1>2, <2>1
<1>5. \A k \in 0 .. m - 1 : at[k + 1] # 0 => at[k] # 0
    BY <1>1, <1>2 DEF Follower
<1>6. ASSUME at[n] # 0, NEW k \in 0 .. n, at[k] = 0 PROVE FALSE
  <2> DEFINE T == {i \in k .. n : at[i] # 0}
  <2>1. n \in Nat /\ k \in Nat /\ k <= n /\ n <= m
      BY <1>1 DEF m
  <2>2. T \subseteq Nat /\ n \in T
      BY <1>6, <2>1
  <2>3. First(T) \in T /\ \A j \in T : First(T) <= j
      BY <2>2, FirstIs
  <2>4. PICK i \in k .. n : at[i] # 0 /\ \A j \in k .. n : at[j] # 0 => i <= j
      BY <2>3
  <2>5. i # k /\ i - 1 \in k .. n /\ i - 1 \in 0 .. m - 1 /\ (i - 1) + 1 = i
      BY <1>1, <1>6, <2>1, <2>4
  <2>6. at[i - 1] # 0
      BY <1>5, <2>4, <2>5
  <2> QED
      BY <2>1, <2>4, <2>5, <2>6
<1>7. \A k \in 0 .. n : k \in 0 .. m
    BY <1>1 DEF m
<1> QED
    BY <1>1, <1>4, <1>6, <1>7 DEF at, m

\* A chain comes by a cluster twice exactly when it is longer than the volume
\* has clusters.
LEMMA CircularIs ==
    ASSUME NEW v, Mounted(v), NEW start \in Clusters(v)
    PROVE  Circular(Chain(v, start)) <=> Chain(v, start)[cluster_count(v) + 1] # 0
<1> DEFINE at == Chain(v, start)
           m == cluster_count(v) + 1
<1>1. m \in Nat \ {0} /\ 0 \notin Clusters(v) /\ Clusters(v) = 2 .. m
    BY Sizes DEF Clusters
<1>2. DOMAIN at = 0 .. m /\ \A k \in 0 .. m - 1 : at[k + 1] = Follower(v, at[k])
    BY <1>1, Sizes, ChainIs
<1>3. \A n \in 0 .. m : at[n] # 0 => \A k \in 0 .. n : at[k] \in Clusters(v)
    BY ChainHolds
<1> HIDE DEF at, m
<1>4. ASSUME at[m] # 0 PROVE Circular(at)
  <2> DEFINE f == [k \in 0 .. m |-> at[k]]
  <2>1. f \in [0 .. m -> Clusters(v)]
      BY <1>1, <1>3, <1>4
  <2> HIDE DEF f
  <2>2. \A c \in Clusters(v) : c \in 1 .. m
      BY <1>1
  <2>3. f \in [0 .. m -> 1 .. m]
      BY <2>1, <2>2
  <2>4. \E x, y \in 0 .. m : x # y /\ f[x] = f[y]
      BY <1>1, <2>3, PigeonHole
  <2>5. PICK x, y \in 0 .. m : x # y /\ at[x] = at[y]
      BY <2>4 DEF f
  <2>6. at[x] \in Clusters(v)
      BY <1>1, <1>3, <1>4
  <2> QED
      BY <1>1, <1>2, <2>5, <2>6, Zenon DEF Circular
<1>5. ASSUME Circular(at), at[m] = 0 PROVE FALSE
  <2>1. PICK i, j \in 0 .. m : i < j /\ at[i] = at[j] /\ at[j] # 0
    <3>1. PICK x, y \in 0 .. m : x # y /\ at[x] = at[y] /\ at[x] # 0
        BY <1>2, <1>5 DEF Circular
    <3>2. CASE x < y
        BY <3>1, <3>2
    <3>3. CASE y < x
        BY <3>1, <3>3
    <3> QED
        BY <1>1, <3>1, <3>2, <3>3
  <2> DEFINE S == {n \in Nat : j + n <= m => at[i + n] = at[j + n]}
  <2>2. \A n \in Nat : n \in S
    <3>1. 0 \in S
        BY <2>1
    <3>2. ASSUME NEW n \in Nat, n \in S PROVE n + 1 \in S
      <4>1. SUFFICES ASSUME j + (n + 1) <= m PROVE at[i + (n + 1)] = at[j + (n + 1)]
          OBVIOUS
      <4>2. /\ i + n \in 0 .. m - 1 /\ j + n \in 0 .. m - 1 /\ j + n <= m
            /\ i + (n + 1) = (i + n) + 1 /\ j + (n + 1) = (j + n) + 1
          BY <1>1, <2>1, <4>1
      <4>3. at[i + n] = at[j + n]
          BY <3>2, <4>2
      <4> QED
          BY <1>2, <4>2, <4>3
    <3> HIDE DEF S
    <3> QED
        BY <3>1, <3>2, Inductive
  <2> DEFINE T == {n \in 0 .. m : at[n] = 0}
  <2>3. T \subseteq Nat /\ m \in T
      BY <1>1, <1>5
  <2>4. First(T) \in T /\ \A n \in T : First(T) <= n
      BY <2>3, FirstIs
  <2>5. PICK k \in 0 .. m : at[k] = 0 /\ \A n \in 0 .. m : at[n] = 0 => k <= n
      BY <2>4
  <2>6. j < k
    <3>1. ~ (k <= j)
      <4>1. ASSUME k <= j PROVE FALSE
        <5>1. k \in 0 .. j
            BY <4>1
        <5> QED
            BY <1>1, <1>3, <2>1, <2>5, <5>1
      <4> QED
          BY <4>1
    <3> QED
        BY <3>1
  <2>7. k - j \in Nat /\ j + (k - j) = k /\ k <= m /\ i + (k - j) \in 0 .. m /\ i + (k - j) < k
      BY <1>1, <2>1, <2>6
  <2>8. at[i + (k - j)] = at[k]
      BY <2>2, <2>7
  <2> QED
      BY <2>5, <2>7, <2>8
<1> QED
    BY <1>4, <1>5 DEF at, m

\* The FAT has an entry for a cluster exactly when next_cluster can read it,
\* and then next_cluster returns the link.
LEMMA LinkIs ==
    ASSUME volume \in Volumes, MountResult(volume) = "Ok", NEW c \in Clusters(volume)
    PROVE  /\ FatError(c) = IF Covered(volume, c) THEN "None" ELSE "CorruptFat"
           /\ FatEntry(c) = Link(volume, c)
           /\ Covered(volume, c) => Link(volume, c) \in Nat
<1>1. c \in Nat /\ is_valid_cluster(c)
    BY Sizes DEF Clusters, is_valid_cluster, Mounted
<1>2. FatEntry(c) = Link(volume, c)
    BY DEF FatEntry, Link
<1>3. FatError(c) \in {"None", "CorruptFat"} /\ (FatError(c) = "None" => FatEntry(c) \in Nat)
    BY <1>1, FatReadsSucceed
<1> DEFINE spf == volume.sectors_per_fat
           offset == (c * 4) \div SECTOR_SIZE
<1>4. spf \in Nat /\ offset \in Nat
    BY <1>1, SizeAssumption, QuotientFits, VolumeAssumption, c * 4 \in Nat
<1>5. FatError(c) = "None" <=> offset < spf
  <2>1. offset >= spf => FatError(c) # "None"
      BY <1>1 DEF FatError
  <2>2. ASSUME offset < spf PROVE FatError(c) = "None"
    <3>1. ~ (FatSector(c) > U32_MAX)
        BY <1>1, <2>2, FatFits
    <3>2. ~ (offset >= spf)
        BY <1>4, <2>2
    <3> QED
        BY <1>1, <1>3, <3>1, <3>2 DEF FatError
  <2> QED
      BY <1>4, <2>1, <2>2
<1>6. offset < spf <=> c < fat_entries(volume)
  <2>1. PICK q \in Nat : SECTOR_SIZE = 4 * q
      BY SizeAssumption
  <2>2. q # 0 /\ fat_entries(volume) = spf * q
    <3>1. q # 0 /\ spf * SECTOR_SIZE = 4 * (spf * q) /\ spf * q \in Nat
        BY <1>4, <2>1, SizeAssumption
    <3> DEFINE product == spf * q
    <3>2. (4 * product) \div 4 = product
        BY <3>1
    <3> QED
        BY <3>1, <3>2 DEF fat_entries
  <2>3. offset < spf => c < spf * q
    <3>1. ASSUME offset < spf PROVE c * 4 < spf * SECTOR_SIZE
        BY <1>1, <1>4, <3>1, SizeAssumption, QuotientBelow, c * 4 \in Nat
    <3>2. spf * SECTOR_SIZE = 4 * (spf * q) /\ spf * q \in Nat
        BY <1>4, <2>1
    <3> QED
        BY <1>1, <3>1, <3>2
  <2>4. ASSUME c < spf * q, ~ (offset < spf) PROVE FALSE
    <3>1. offset * SECTOR_SIZE <= c * 4
        BY <1>1, SizeAssumption, QuotientFits, c * 4 \in Nat
    <3>2. spf * SECTOR_SIZE <= offset * SECTOR_SIZE
        BY <1>4, <2>4, SizeAssumption, ProductGrows
    <3>3. spf * SECTOR_SIZE = 4 * (spf * q) /\ spf * q \in Nat /\ spf * SECTOR_SIZE \in Nat
          /\ offset * SECTOR_SIZE \in Nat
        BY <1>4, <2>1
    <3> HIDE DEF spf, offset
    <3> QED
        BY <1>1, <2>4, <3>1, <3>2, <3>3
  <2> QED
      BY <2>2, <2>3, <2>4
<1> QED
    BY <1>2, <1>3, <1>5, <1>6 DEF Covered

-----------------------------------------------------------------------------
(***************************************************************************)
(* Places along a chain.                                                   *)
(***************************************************************************)
\* h whole clusters of s sectors and i sectors more.
LEMMA QuotientIs ==
    ASSUME NEW h \in Nat, NEW i \in Nat, NEW s \in Nat \ {0}, i < s
    PROVE  ((h * s) + i) \div s = h /\ ((h * s) + i) % s = i
<1> DEFINE n == (h * s) + i
           q == n \div s
<1>1. n \in Nat /\ h * s \in Nat /\ n < (h * s) + s
    OBVIOUS
<1>2. q \in Nat /\ q * s <= n /\ n < (q + 1) * s /\ n = (q * s) + (n % s)
  <2> HIDE DEF n
  <2> QED
      BY <1>1
<1> HIDE DEF n, q
<1>3. ~ (q < h)
  <2>1. ASSUME q < h PROVE FALSE
    <3>1. (q + 1) * s <= h * s /\ (q + 1) * s \in Nat
        BY <1>2, <2>1, ProductGrows
    <3>2. h * s <= n
        BY <1>1 DEF n
    <3> QED
        BY <1>1, <1>2, <3>1, <3>2
  <2> QED
      BY <2>1
<1>4. ~ (h < q)
  <2>1. ASSUME h < q PROVE FALSE
    <3>1. (h + 1) * s <= q * s /\ (h + 1) * s = (h * s) + s /\ q * s \in Nat
        BY <1>2, <2>1, ProductGrows, OneMore
    <3> QED
        BY <1>1, <1>2, <3>1
  <2> QED
      BY <2>1
<1>5. q = h
    BY <1>2, <1>3, <1>4
<1>6. n % s = i
  <2>1. n % s \in Nat /\ h * s \in Nat
      BY <1>1
  <2>2. (h * s) + i = (h * s) + (n % s)
      BY <1>2, <1>5 DEF n
  <2> QED
      BY <2>1, <2>2
<1> QED
    BY <1>5, <1>6 DEF n, q

\* The place of sector i of the cluster at place h of a chain.
PlaceOf(v, h, i) == (h * v.sectors_per_cluster) + i

\* It is a place of the chain, and its sector is the cluster's.
LEMMA PlaceIs ==
    ASSUME NEW v, Mounted(v), NEW start \in Clusters(v), NEW h \in 0 .. cluster_count(v),
           NEW i \in Nat, i < v.sectors_per_cluster
    PROVE  /\ PlaceOf(v, h, i) \in 0 .. Extent(v) - 1
           /\ PlaceOf(v, h, i) + 1 = PlaceOf(v, h, i + 1)
           /\ PlaceOf(v, h, v.sectors_per_cluster) = PlaceOf(v, h + 1, 0)
           /\ Chain(v, start)[h] # 0 => PlaceOf(v, h, i) \in Places(v, Chain(v, start))
           /\ SectorAt(v, Chain(v, start), PlaceOf(v, h, i))
                = first_data_sector(v) + ((Chain(v, start)[h] - 2) * v.sectors_per_cluster) + i
<1> DEFINE s == v.sectors_per_cluster
           m == cluster_count(v)
           p == (h * s) + i
<1>1. /\ m \in Nat /\ s \in Nat \ {0} /\ h \in Nat /\ h <= m
      /\ Extent(v) = (m + 1) * s /\ Extent(v) \in Nat
    BY Sizes
<1>2. p \div s = h /\ p % s = i
    BY <1>1, QuotientIs
<1>3. (h + 1) * s = (h * s) + s /\ h * s \in Nat
    BY <1>1, OneMore
<1>4. (h + 1) * s <= (m + 1) * s
    BY <1>1, ProductGrows
<1>5. p \in 0 .. Extent(v) - 1 /\ p + 1 = (h * s) + (i + 1)
  <2> HIDE DEF s, m
  <2> QED
      BY <1>1, <1>3, <1>4 DEF s
<1>6. PlaceOf(v, h, s) = PlaceOf(v, h + 1, 0)
    BY <1>1, <1>3 DEF PlaceOf
<1>7. PlaceOf(v, h, i) = p /\ PlaceOf(v, h, i + 1) = (h * s) + (i + 1)
    BY DEF PlaceOf
<1> HIDE DEF p
<1> QED
    BY <1>2, <1>5, <1>6, <1>7 DEF Places, SectorAt

\* A place of a chain is in one of its clusters.
LEMMA PlaceBelow ==
    ASSUME NEW v, Mounted(v), NEW chain, NEW p \in Places(v, chain)
    PROVE  /\ p \in Nat /\ p \div v.sectors_per_cluster \in 0 .. cluster_count(v)
           /\ p \div v.sectors_per_cluster \in 0 .. cluster_count(v) + 1
<1> DEFINE s == v.sectors_per_cluster
           m == cluster_count(v)
           d == p \div s
<1>1. /\ m \in Nat /\ s \in Nat \ {0} /\ Extent(v) = (m + 1) * s /\ Extent(v) \in Nat
      /\ p \in 0 .. Extent(v) - 1
    BY Sizes DEF Places
<1>2. p \in Nat /\ d \in Nat /\ d * s <= p /\ d * s \in Nat
    BY <1>1, QuotientFits
<1>3. ASSUME m + 1 <= d PROVE FALSE
  <2> HIDE DEF s, m, d
  <2>1. (m + 1) * s <= d * s
      BY <1>1, <1>2, <1>3, ProductGrows
  <2> QED
      BY <1>1, <1>2, <2>1
<1> HIDE DEF s, m, d
<1>4. d <= m
    BY <1>1, <1>2, <1>3
<1> QED
    BY <1>1, <1>2, <1>4 DEF s, m, d

\* The places of a chain have no gap.
LEMMA PlacesClosed ==
    ASSUME NEW v, Mounted(v), NEW start \in Clusters(v), NEW p \in Places(v, Chain(v, start)),
           NEW q \in Nat, q <= p
    PROVE  q \in Places(v, Chain(v, start))
<1> DEFINE s == v.sectors_per_cluster
           d == p \div s
           e == q \div s
<1>1. s \in Nat \ {0} /\ Extent(v) \in Nat /\ 0 \notin Clusters(v) /\ cluster_count(v) \in Nat
    BY Sizes
<1>2. p \in 0 .. Extent(v) - 1 /\ Chain(v, start)[d] # 0 /\ q \in 0 .. Extent(v) - 1
    BY <1>1 DEF Places
<1>3. p \in Nat /\ d \in 0 .. cluster_count(v) + 1
    BY PlaceBelow
<1>4. e \in Nat /\ e * s <= q /\ p < (d + 1) * s /\ e * s \in Nat /\ (d + 1) * s \in Nat
  <2>1. e \in Nat /\ e * s <= q
      BY <1>1, QuotientFits
  <2>2. p < (d + 1) * s
      BY <1>1, <1>3
  <2>3. e * s \in Nat /\ (d + 1) * s \in Nat
    <3> HIDE DEF d, e, s
    <3> QED
        BY <1>1, <1>3, <2>1
  <2> QED
      BY <2>1, <2>2, <2>3
<1>5. ~ (d + 1 <= e)
  <2>1. ASSUME d + 1 <= e PROVE FALSE
    <3> HIDE DEF s, d, e
    <3>1. (d + 1) * s <= e * s
        BY <1>1, <1>3, <1>4, <2>1, ProductGrows
    <3> QED
        BY <1>3, <1>4, <3>1
  <2> QED
      BY <2>1
<1>6. e \in 0 .. d
  <2> HIDE DEF d, e
  <2> QED
      BY <1>1, <1>3, <1>4, <1>5
<1>7. Chain(v, start)[e] \in Clusters(v)
    BY <1>2, <1>3, <1>6, ChainHolds
<1> QED
    BY <1>1, <1>2, <1>7 DEF Places

\* The chain of some cluster.
Traced(v, chain) == \E start \in Clusters(v) : chain = Chain(v, start)

\* A place of a chain has a sector of the data area.
LEMMA RawsIs ==
    ASSUME NEW v, Mounted(v), NEW chain, Traced(v, chain), NEW p \in Places(v, chain)
    PROVE  Raws(v, chain, p) \in Seq(RawEntry)
<1> DEFINE s == v.sectors_per_cluster
           c == chain[p \div s]
           i == p % s
           sector == SectorAt(v, chain, p)
<1>1. s \in Nat \ {0} /\ Extent(v) \in Nat /\ cluster_count(v) \in Nat
    BY Sizes
<1>2. p \in Nat /\ c # 0 /\ p \in 0 .. Extent(v) - 1
    BY <1>1 DEF Places
<1>3. p \div s \in 0 .. cluster_count(v) + 1
    BY PlaceBelow
<1>4. c \in Clusters(v)
  <2>1. PICK start \in Clusters(v) : chain = Chain(v, start)
      BY DEF Traced
  <2>2. Chain(v, start)[p \div s] \in Clusters(v) \cup {0}
      BY <1>3, ChainHolds
  <2> QED
      BY <1>2, <2>1, <2>2
<1>5. c \in Nat /\ c >= 2 /\ c < cluster_count(v) + 2
  <2> HIDE DEF c
  <2> QED
      BY <1>1, <1>4 DEF Clusters
<1>6. i \in Nat /\ i < s
    BY <1>1, <1>2
<1>7. sector \in first_data_sector(v) .. TotalSectors(v) - 1
  <2>1. sector = first_data_sector(v) + ((c - 2) * s) + i
      BY DEF SectorAt
  <2> HIDE DEF c, i, sector
  <2> QED
      BY <1>5, <1>6, <2>1, ClusterInside DEF Mounted
<1> HIDE DEF sector
<1>8. sector \in 0 .. (v.length \div SECTOR_SIZE) - 1
  <2>1. /\ first_data_sector(v) \in Nat /\ TotalSectors(v) \in Nat
        /\ TotalSectors(v) <= sector_count(v)
      BY MountedGeometry DEF Mounted
  <2>2. sector_count(v) \in Nat
      BY VolumeAssumption, SizeAssumption, QuotientFits DEF sector_count, Mounted
  <2> QED
      BY <1>7, <2>1, <2>2 DEF sector_count
<1> QED
    BY <1>8, VolumeAssumption DEF Raws, sector, Mounted

-----------------------------------------------------------------------------
(***************************************************************************)
(* Directories.                                                            *)
(***************************************************************************)
\* The pieces t of the places in S, one behind the other, up to place n.
Row(S, t, n, f) ==
    f = [k \in 0 .. n |-> IF k = 0 THEN <<>> ELSE IF k - 1 \in S THEN f[k - 1] \o t[k - 1] ELSE f[k - 1]]

\* They exist for every n.
LEMMA RowExists ==
    ASSUME NEW S, NEW t, NEW m \in Nat
    PROVE  \E f : Row(S, t, m, f)
<1> DEFINE Good == {n \in Nat : \E f : Row(S, t, n, f)}
           After(f, k) == IF k - 1 \in S THEN f[k - 1] \o t[k - 1] ELSE f[k - 1]
<1>1. 0 \in Good
  <2> DEFINE f == [k \in 0 .. 0 |-> <<>>]
  <2>1. Row(S, t, 0, f)
      BY DEF Row
  <2> QED
      BY <2>1
<1>2. ASSUME NEW n \in Nat, n \in Good PROVE n + 1 \in Good
  <2>1. PICK f : Row(S, t, n, f)
      BY <1>2
  <2> DEFINE h == [k \in 0 .. n + 1 |-> IF k = n + 1 THEN After(f, n + 1) ELSE f[k]]
  <2>2. \A k \in 0 .. n : f[k] = IF k = 0 THEN <<>> ELSE After(f, k)
    <3> HIDE DEF After
    <3> QED
        BY <2>1 DEF Row, After
  <2>3. \A k \in 0 .. n : h[k] = f[k]
      OBVIOUS
  <2>4. h[n + 1] = After(f, n + 1)
      OBVIOUS
  <2>5. DOMAIN h = 0 .. n + 1 /\ h = [k \in 0 .. n + 1 |-> h[k]]
      OBVIOUS
  <2> HIDE DEF h
  <2>6. ASSUME NEW k \in 0 .. n + 1 PROVE h[k] = IF k = 0 THEN <<>> ELSE After(h, k)
    <3>1. CASE k = 0
        BY <2>2, <2>3, <3>1
    <3>2. CASE k # 0
      <4>1. k - 1 \in 0 .. n
          BY <3>2
      <4>2. After(h, k) = After(f, k)
          BY <2>3, <4>1
      <4>3. h[k] = After(f, k)
        <5>1. CASE k = n + 1
            BY <2>4, <5>1
        <5>2. CASE k # n + 1
          <6>1. k \in 0 .. n
              BY <5>2
          <6> QED
              BY <2>2, <2>3, <3>2, <6>1
        <5> QED
            BY <5>1, <5>2
      <4> QED
          BY <3>2, <4>2, <4>3
    <3> QED
        BY <3>1, <3>2
  <2>7. Row(S, t, n + 1, h)
      BY <2>5, <2>6 DEF Row
  <2> QED
      BY <2>7
<1> HIDE DEF Good
<1>3. m \in Good
    BY <1>1, <1>2, Inductive
<1> QED
    BY <1>3 DEF Good

\* The listing grows by what a scanned sector shows, and not behind the mark.
LEMMA ListingsIs ==
    ASSUME NEW v, Mounted(v), NEW chain
    PROVE  /\ Listings(v, chain)[0] = <<>>
           /\ \A p \in 0 .. Extent(v) - 1 :
                Listings(v, chain)[p + 1] =
                    IF p \in Scanned(v, chain)
                    THEN Listings(v, chain)[p] \o Shown(Front(Raws(v, chain, p)))
                    ELSE Listings(v, chain)[p]
<1> DEFINE S == Scanned(v, chain)
           m == Extent(v)
           t == [p \in Nat |-> Shown(Front(Raws(v, chain, p)))]
           List(f) == f = [n \in 0 .. m |->
                             IF n = 0 THEN <<>>
                             ELSE IF n - 1 \in S THEN f[n - 1] \o Shown(Front(Raws(v, chain, n - 1)))
                             ELSE f[n - 1]]
           L == Listings(v, chain)
<1>1. m \in Nat
    BY Sizes
<1>2. L = CHOOSE f : List(f)
    BY DEF Listings
<1> HIDE DEF m, S
<1>3. PICK f : Row(S, t, m, f)
    BY <1>1, RowExists
<1>4. List(f)
  <2>1. \A n \in 0 .. m : n # 0 => t[n - 1] = Shown(Front(Raws(v, chain, n - 1)))
      BY <1>1
  <2> HIDE DEF t
  <2> QED
      BY <1>3, <2>1 DEF Row
<1>5. List(L)
  <2> HIDE DEF List, L
  <2> QED
      BY <1>2, <1>4, Zenon
<1> HIDE DEF L
<1>6. L[0] = <<>>
    BY <1>1, <1>5
<1>7. ASSUME NEW p \in 0 .. m - 1
      PROVE  L[p + 1] = IF p \in S THEN L[p] \o Shown(Front(Raws(v, chain, p))) ELSE L[p]
  <2>1. p + 1 \in 0 .. m /\ p + 1 # 0 /\ (p + 1) - 1 = p
      BY <1>1
  <2>2. L[p + 1] = IF p + 1 = 0 THEN <<>>
                   ELSE IF (p + 1) - 1 \in S
                   THEN L[(p + 1) - 1] \o Shown(Front(Raws(v, chain, (p + 1) - 1)))
                   ELSE L[(p + 1) - 1]
      BY <1>5, <2>1
  <2> QED
      BY <2>1, <2>2
<1> QED
    BY <1>6, <1>7 DEF L, m, S

\* Behind the scanned sectors nothing is added to the listing.
LEMMA ListingStays ==
    ASSUME NEW v, Mounted(v), NEW chain, NEW p \in 0 .. Extent(v),
           \A q \in Scanned(v, chain) : q < p
    PROVE  Listings(v, chain)[Extent(v)] = Listings(v, chain)[p]
<1> DEFINE m == Extent(v)
           L == Listings(v, chain)
           T == {n \in p .. m : L[n] # L[p]}
<1>1. m \in Nat /\ p \in Nat /\ p <= m
    BY Sizes
<1>2. SUFFICES ASSUME L[m] # L[p] PROVE FALSE
    OBVIOUS
<1>3. T \subseteq Nat /\ m \in T
    BY <1>1, <1>2
<1>4. First(T) \in T /\ \A j \in T : First(T) <= j
    BY <1>3, FirstIs
<1> HIDE DEF L, m
<1>5. PICK n \in p .. m : L[n] # L[p] /\ \A j \in p .. m : L[j] # L[p] => n <= j
    BY <1>4
<1>6. n # p /\ n - 1 \in p .. m /\ n - 1 \in 0 .. m - 1 /\ (n - 1) + 1 = n
    BY <1>1, <1>5
<1>7. L[n - 1] = L[p]
    BY <1>1, <1>5, <1>6
<1>8. n - 1 \notin Scanned(v, chain)
    BY <1>1, <1>6
<1>9. L[(n - 1) + 1] = L[n - 1]
    BY <1>6, <1>8, ListingsIs DEF L, m
<1> QED
    BY <1>5, <1>6, <1>7, <1>9

\* The entries in front of the mark are those no mark is in front of.
LEMMA FrontIs ==
    ASSUME NEW raws \in Seq(RawEntry), NEW name
    PROVE  /\ Marks(raws) \subseteq Nat /\ Named(raws, name) \subseteq Nat
           /\ Named(Front(raws), name) = {i \in Named(raws, name) : \A m \in Marks(raws) : i < m}
<1>1. Marks(raws) \subseteq 1 .. Len(raws) /\ Named(raws, name) \subseteq 1 .. Len(raws) /\ Len(raws) \in Nat
    BY DEF Marks, Named
<1>2. Marks(raws) \subseteq Nat /\ Named(raws, name) \subseteq Nat
    BY <1>1
<1>3. CASE Marks(raws) = {}
    BY <1>2, <1>3 DEF Front
<1>4. CASE Marks(raws) # {}
  <2> DEFINE m == First(Marks(raws))
             front == SubSeq(raws, 1, m - 1)
  <2>1. m \in Marks(raws) /\ \A j \in Marks(raws) : m <= j
      BY <1>2, <1>4, FirstIs
  <2>2. m \in 1 .. Len(raws)
      BY <1>1, <2>1
  <2> HIDE DEF m
  <2>3. front \in Seq(RawEntry) /\ Len(front) = m - 1 /\ \A i \in 1 .. m - 1 : front[i] = raws[i]
      BY <1>1, <2>2
  <2>4. DOMAIN front = 1 .. m - 1 /\ DOMAIN raws = 1 .. Len(raws)
      BY <2>3
  <2>5. Front(raws) = front
      BY <1>4 DEF Front, m
  <2> HIDE DEF front
  <2>6. Named(front, name) = {i \in Named(raws, name) : i < m}
    <3>1. \A i : i \in 1 .. m - 1 <=> i \in 1 .. Len(raws) /\ i < m
        BY <1>1, <2>2
    <3> QED
        BY <2>3, <2>4, <3>1 DEF Named
  <2>7. \A i \in Named(raws, name) : i < m <=> \A k \in Marks(raws) : i < k
      BY <1>2, <2>1
  <2> QED
      BY <1>2, <2>5, <2>6, <2>7
<1> QED
    BY <1>3, <1>4

\* No end mark in front of place p.
Quiet(v, chain, p) == \A q \in Places(v, chain) : q < p => Marks(Raws(v, chain, q)) = {}

\* No entry of that name in front of place p.
Absent(v, chain, name, p) ==
    \A q \in Places(v, chain) : q < p => Named(Raws(v, chain, q), name) = {}

\* A place with no mark in front of it is scanned.
LEMMA ScannedIs ==
    ASSUME NEW v, Mounted(v), NEW chain, NEW p \in Places(v, chain), Quiet(v, chain, p)
    PROVE  /\ p \in Scanned(v, chain)
           /\ Marks(Raws(v, chain, p)) # {} =>
                /\ Exhausted(v, chain) = "Ok"
                /\ \A q \in Scanned(v, chain) : q <= p
<1>1. Places(v, chain) \subseteq Nat
    BY PlaceBelow
<1>2. \A q \in Marked(v, chain) : p <= q
    BY <1>1 DEF Quiet, Marked
<1>3. p \in Scanned(v, chain)
    BY <1>2 DEF Scanned
<1>4. ASSUME Marks(Raws(v, chain, p)) # {}
      PROVE  Exhausted(v, chain) = "Ok" /\ \A q \in Scanned(v, chain) : q <= p
  <2>1. p \in Marked(v, chain)
      BY <1>4 DEF Marked
  <2> QED
      BY <2>1 DEF Exhausted, Scanned
<1> QED
    BY <1>3, <1>4

\* The whole chain has been seen, and no mark.
LEMMA NoMarkAtAll ==
    ASSUME NEW v, Mounted(v), NEW chain, NEW p, Quiet(v, chain, p), \A q \in Places(v, chain) : q < p
    PROVE  Exhausted(v, chain) = Ending(v, chain)
  BY DEF Quiet, Exhausted, Marked

\* The first entry of the name, in front of any mark, is the one found.
LEMMA FoundIs ==
    ASSUME NEW v, Mounted(v), NEW chain, Traced(v, chain), NEW p \in Places(v, chain), NEW name,
           Quiet(v, chain, p), Absent(v, chain, name, p),
           NEW raws, raws = Raws(v, chain, p), NEW i \in Named(raws, name),
           \A j \in Named(raws, name) : i <= j, \A j \in Marks(raws) : i < j
    PROVE  FindAlong(v, chain, name) = LeadOf(raws[i])
<1>1. Places(v, chain) \subseteq Nat /\ \A q \in Places(v, chain) : Raws(v, chain, q) \in Seq(RawEntry)
    BY PlaceBelow, RawsIs
<1>2. p \in Scanned(v, chain)
    BY ScannedIs
<1>3. raws \in Seq(RawEntry)
    BY <1>1
<1>5. i \in Named(Front(raws), name)
    BY <1>3, FrontIs
<1>6. p \in Holding(v, chain, name)
    BY <1>2, <1>5 DEF Holding
<1>7. \A q \in Holding(v, chain, name) : p <= q
  <2>1. ASSUME NEW q \in Holding(v, chain, name), q < p PROVE FALSE
    <3>1. q \in Places(v, chain) /\ Named(Front(Raws(v, chain, q)), name) # {}
        BY DEF Holding, Scanned
    <3>2. Named(Raws(v, chain, q), name) # {}
        BY <1>1, <3>1, FrontIs
    <3> QED
        BY <2>1, <3>1, <3>2 DEF Absent
  <2>2. Holding(v, chain, name) \subseteq Nat /\ p \in Nat
      BY <1>1 DEF Holding, Scanned
  <2> QED
      BY <2>1, <2>2
<1>8. First(Holding(v, chain, name)) = p
  <2>1. Holding(v, chain, name) \subseteq Nat
      BY <1>1 DEF Holding, Scanned
  <2> QED
      BY <1>6, <1>7, <2>1, FirstIs
<1>9. First(Named(raws, name)) = i
  <2>1. Named(raws, name) \subseteq Nat
      BY <1>3, FrontIs
  <2> QED
      BY <2>1, FirstIs
<1> QED
    BY <1>6, <1>8, <1>9 DEF FindAlong, FirstNamed

\* Nothing of the name in front of the mark, or in the whole chain.
LEMMA NothingFound ==
    ASSUME NEW v, NEW chain, NEW name,
           \A q \in Scanned(v, chain) : Named(Front(Raws(v, chain, q)), name) = {}
    PROVE  FindAlong(v, chain, name) =
              Lead(IF Exhausted(v, chain) = "Ok" THEN "NotFound" ELSE Exhausted(v, chain), 0, 0)
<1>1. Holding(v, chain, name) = {}
    BY DEF Holding
<1> QED
    BY <1>1 DEF FindAlong

\* A search that has come to p without a mark and without the name.
Searched(v, chain, name, p) ==
    /\ Mounted(v) /\ Traced(v, chain) /\ p \in Places(v, chain)
    /\ Quiet(v, chain, p) /\ Absent(v, chain, name, p)

\* Where the scan of a sector for a name stops first.
FirstStop(raws, name, i) ==
    LET stops == Marks(raws) \cup Named(raws, name)
    IN  i \in stops /\ \A j \in stops : i <= j

\* The first mark or entry of the name decides the search.
LEMMA SearchEnds ==
    ASSUME NEW v, NEW chain, NEW name, NEW p, Searched(v, chain, name, p),
           NEW raws, raws = Raws(v, chain, p), NEW i, FirstStop(raws, name, i)
    PROVE  /\ raws[i].kind = "end" => FindAlong(v, chain, name) = Lead("NotFound", 0, 0)
           /\ raws[i].kind # "end" => /\ FindAlong(v, chain, name) = LeadOf(raws[i])
                                      /\ raws[i] \in RawEntry
                                      /\ raws[i].kind \in {"file", "directory"}
<1>1. /\ Mounted(v) /\ Traced(v, chain) /\ p \in Places(v, chain)
      /\ Quiet(v, chain, p) /\ Absent(v, chain, name, p)
    BY DEF Searched
<1>2. p \in Nat /\ raws \in Seq(RawEntry)
    BY <1>1, PlaceBelow, RawsIs
<1>3. /\ i \in Marks(raws) \cup Named(raws, name)
      /\ \A j \in Marks(raws) : i <= j
      /\ \A j \in Named(raws, name) : i <= j
    BY DEF FirstStop
<1>4. Marks(raws) \subseteq Nat /\ Named(raws, name) \subseteq Nat
    BY <1>2, FrontIs
<1>5. ASSUME raws[i].kind = "end" PROVE FindAlong(v, chain, name) = Lead("NotFound", 0, 0)
  <2>1. i \in Marks(raws)
      BY <1>3, <1>5 DEF Marks, Named, Listed
  <2>2. Exhausted(v, chain) = "Ok" /\ \A q \in Scanned(v, chain) : q <= p
      BY <1>1, <2>1, ScannedIs
  <2>3. ASSUME NEW q \in Scanned(v, chain)
        PROVE  Named(Front(Raws(v, chain, q)), name) = {}
    <3>1. q \in Places(v, chain) /\ q \in Nat /\ q <= p
        BY <1>1, <2>2, PlaceBelow DEF Scanned
    <3>2. CASE q = p
      <4>1. Named(Front(raws), name) = {j \in Named(raws, name) : \A m \in Marks(raws) : j < m}
          BY <1>2, FrontIs
      <4>2. \A j \in Named(raws, name) : ~ (j < i)
          BY <1>3, <1>4, <2>1
      <4>3. Named(Front(raws), name) = {}
          BY <2>1, <4>1, <4>2
      <4> QED
          BY <3>2, <4>3
    <3>3. CASE q # p
      <4>1. q < p
          BY <1>2, <3>1, <3>3
      <4>2. Named(Raws(v, chain, q), name) = {}
          BY <1>1, <3>1, <4>1 DEF Absent
      <4>3. Raws(v, chain, q) \in Seq(RawEntry)
          BY <1>1, <3>1, RawsIs
      <4> QED
          BY <4>2, <4>3, FrontIs
    <3> QED
        BY <3>2, <3>3
  <2> QED
      BY <2>2, <2>3, NothingFound, Zenon
<1>6. ASSUME raws[i].kind # "end"
      PROVE  /\ FindAlong(v, chain, name) = LeadOf(raws[i])
             /\ raws[i] \in RawEntry /\ raws[i].kind \in {"file", "directory"}
  <2>1. i \in Named(raws, name)
      BY <1>3, <1>6 DEF Marks
  <2>2. raws[i] \in RawEntry /\ raws[i].kind \in {"file", "directory"}
      BY <1>2, <2>1 DEF Named, Listed
  <2>3. \A j \in Marks(raws) : i < j
    <3>1. \A j \in Marks(raws) : i # j
        BY <1>6 DEF Marks
    <3> QED
        BY <1>3, <1>4, <2>1, <3>1
  <2>4. FindAlong(v, chain, name) = LeadOf(raws[i])
      BY <1>1, <1>3, <2>1, <2>3, FoundIs
  <2> QED
      BY <2>2, <2>4
<1> QED
    BY <1>5, <1>6

-----------------------------------------------------------------------------
(***************************************************************************)
(* Paths.                                                                  *)
(***************************************************************************)
Leads == [kind : Errors \cup {"file", "directory"}, first_cluster : Nat, size : Nat]

\* A search leads to an entry or to an error.
LEMMA FindLeads ==
    ASSUME NEW v, Mounted(v), NEW start, NEW name
    PROVE  FindIn(v, start, name) \in Leads
<1>1. CASE start \notin Clusters(v)
    BY <1>1 DEF FindIn, Lead, Leads, Errors
<1>2. CASE start \in Clusters(v)
  <2> DEFINE chain == Chain(v, start)
             held == Holding(v, chain, name)
  <2>1. FindIn(v, start, name) = FindAlong(v, chain, name)
      BY <1>2 DEF FindIn
  <2>2. \A q \in Places(v, chain) : q \in Nat /\ Raws(v, chain, q) \in Seq(RawEntry)
      BY <1>2, PlaceBelow, RawsIs DEF Traced
  <2> HIDE DEF chain
  <2>3. CASE held = {}
    <3>1. Exhausted(v, chain) \in {"Ok", "DirectoryLoop", "CorruptFat"}
        BY DEF Exhausted, Ending
    <3> QED
        BY <2>1, <2>3, <3>1 DEF FindAlong, Lead, Leads, Errors
  <2>4. CASE held # {}
    <3>1. held \subseteq Nat /\ held \subseteq Places(v, chain)
        BY <2>2 DEF Holding, Scanned
    <3>2. First(held) \in held
        BY <2>4, <3>1, FirstIs
    <3> DEFINE raws == Raws(v, chain, First(held))
               named == Named(raws, name)
    <3>3. raws \in Seq(RawEntry) /\ Named(Front(raws), name) # {}
        BY <2>2, <3>1, <3>2 DEF Holding
    <3> HIDE DEF raws
    <3>4. named \subseteq Nat /\ named # {}
        BY <3>3, FrontIs
    <3>5. First(named) \in named
        BY <3>4, FirstIs
    <3>6. raws[First(named)] \in RawEntry /\ raws[First(named)].kind \in {"file", "directory"}
        BY <3>3, <3>5 DEF Named, Listed
    <3>7. LeadOf(raws[First(named)]) \in Leads
      <4> DEFINE entry == raws[First(named)]
      <4>1. entry \in RawEntry /\ entry.kind \in {"file", "directory"}
          BY <3>6
      <4> HIDE DEF entry
      <4>2. LeadOf(entry) \in Leads
          BY <4>1 DEF LeadOf, Lead, Leads, RawEntry
      <4> QED
          BY <4>2 DEF entry
    <3> QED
        BY <2>1, <2>4, <3>7 DEF FindAlong, FirstNamed, raws
  <2> QED
      BY <2>3, <2>4
<1> QED
    BY <1>1, <1>2

\* A component leads on from wherever its predecessors have led.
LEMMA DescendLeads ==
    ASSUME NEW v, Mounted(v), NEW from \in Leads, NEW name
    PROVE  Descend(v, from, name) \in Leads
<1>1. FindIn(v, from.first_cluster, name) \in Leads
    BY FindLeads
<1> QED
    BY <1>1 DEF Descend, Lead, Leads, Errors

\* Each beginning of the path leads on from the one before.
LEMMA ResolutionIs ==
    ASSUME NEW v, Mounted(v), NEW path \in Seq(Names)
    PROVE  /\ Resolution(v, path)[0] = Lead("directory", v.root_cluster, 0)
           /\ \A n \in 0 .. Len(path) : Resolution(v, path)[n] \in Leads
           /\ \A n \in 1 .. Len(path) :
                Resolution(v, path)[n] = Descend(v, Resolution(v, path)[n - 1], path[n])
<1> DEFINE m == Len(path)
           root == Lead("directory", v.root_cluster, 0)
           g == [n \in Nat |-> [x \in Leads |-> Descend(v, x, path[n + 1])]]
           R == Resolution(v, path)
           Path(f) == f = [n \in 0 .. m |-> IF n = 0 THEN root ELSE Descend(v, f[n - 1], path[n])]
<1>1. m \in Nat /\ root \in Leads
    BY VolumeAssumption DEF Mounted, Lead, Leads
<1>2. g \in [Nat -> [Leads -> Leads]]
    BY DescendLeads
<1>3. R = CHOOSE f : Path(f)
    BY DEF Resolution
<1> HIDE DEF m, root, g
<1>4. PICK f : Course(Leads, root, g, m, f)
    BY <1>1, <1>2, CourseExists, Zenon
<1>5. f \in [0 .. m -> Leads] /\ f[0] = root
    BY <1>4 DEF Course
<1>6. \A n \in 1 .. m : f[n] = Descend(v, f[n - 1], path[n])
  <2> SUFFICES ASSUME NEW n \in 1 .. m PROVE f[n] = Descend(v, f[n - 1], path[n])
      OBVIOUS
  <2>1. n - 1 \in 0 .. m - 1 /\ n - 1 \in Nat /\ n - 1 \in 0 .. m /\ (n - 1) + 1 = n
      BY <1>1
  <2>2. f[(n - 1) + 1] = g[n - 1][f[n - 1]] /\ f[n - 1] \in Leads
      BY <1>4, <1>5, <2>1 DEF Course
  <2>3. g[n - 1][f[n - 1]] = Descend(v, f[n - 1], path[(n - 1) + 1])
      BY <2>1, <2>2 DEF g
  <2> QED
      BY <2>1, <2>2, <2>3
<1>7. Path(f)
  <2>1. \A n \in 0 .. m : n # 0 => n \in 1 .. m
      BY <1>1
  <2> QED
      BY <1>5, <1>6, <2>1
<1>8. Path(R)
  <2> HIDE DEF Path, R
  <2> QED
      BY <1>3, <1>7, Zenon
<1> HIDE DEF R
<1>9. R[0] = root
    BY <1>1, <1>8
<1>10. \A n \in 1 .. m : R[n] = Descend(v, R[n - 1], path[n])
  <2>1. \A n \in 1 .. m : n \in 0 .. m /\ n # 0
      BY <1>1
  <2> QED
      BY <1>8, <2>1
<1>11. \A n \in 0 .. m : R[n] \in Leads
  <2> DEFINE S == {n \in Nat : n \in 0 .. m => R[n] \in Leads}
  <2>1. 0 \in S
      BY <1>1, <1>9
  <2>2. ASSUME NEW n \in Nat, n \in S PROVE n + 1 \in S
    <3>1. SUFFICES ASSUME n + 1 \in 0 .. m PROVE R[n + 1] \in Leads
        OBVIOUS
    <3>2. n \in 0 .. m /\ n + 1 \in 1 .. m /\ (n + 1) - 1 = n
        BY <1>1, <3>1
    <3>3. R[n] \in Leads
        BY <2>2, <3>2
    <3> QED
        BY <1>10, <3>2, <3>3, DescendLeads
  <2> HIDE DEF S
  <2>3. \A n \in Nat : n \in S
      BY <2>1, <2>2, Inductive
  <2> QED
      BY <2>3, <1>1 DEF S
<1> QED
    BY <1>9, <1>10, <1>11 DEF R, m, root

\* An error stays one.
LEMMA ErrorsStay ==
    ASSUME NEW v, Mounted(v), NEW path \in Seq(Names), NEW n \in 0 .. Len(path),
           Resolution(v, path)[n].kind \in Errors
    PROVE  Resolution(v, path)[Len(path)] = Resolution(v, path)[n]
<1> DEFINE m == Len(path)
           R == Resolution(v, path)
           S == {k \in Nat : n + k <= m => R[n + k] = R[n]}
<1>1. m \in Nat /\ n \in Nat /\ n <= m
    OBVIOUS
<1>2. \A k \in 1 .. m : R[k] = Descend(v, R[k - 1], path[k])
    BY ResolutionIs
<1>3. R[n].kind \in Errors
    OBVIOUS
<1> HIDE DEF R, m
<1>4. 0 \in S
    BY <1>1
<1>5. ASSUME NEW k \in Nat, k \in S PROVE k + 1 \in S
  <2>1. SUFFICES ASSUME n + (k + 1) <= m PROVE R[n + (k + 1)] = R[n]
      OBVIOUS
  <2>2. n + k <= m /\ n + (k + 1) \in 1 .. m /\ (n + (k + 1)) - 1 = n + k
      BY <1>1, <2>1
  <2>3. R[n + k] = R[n]
      BY <1>5, <2>2
  <2>4. R[n + (k + 1)] = Descend(v, R[n + k], path[n + (k + 1)])
      BY <1>2, <2>2
  <2> QED
      BY <1>3, <2>3, <2>4 DEF Descend
<1>6. \A k \in Nat : k \in S
  <2> HIDE DEF S
  <2> QED
      BY <1>4, <1>5, Inductive
<1>7. m - n \in Nat /\ n + (m - n) = m
    BY <1>1
<1>8. R[m] = R[n]
    BY <1>1, <1>6, <1>7
<1> QED
    BY <1>8 DEF R, m

-----------------------------------------------------------------------------
(***************************************************************************)
(* Sectors that have been seen, and how a chain ends.                      *)
(***************************************************************************)
\* A sector without a mark, or without the name, is one more of them.
LEMMA QuietGrows ==
    ASSUME NEW v, Mounted(v), NEW chain, NEW p \in Nat, NEW name
    PROVE  /\ Quiet(v, chain, p) /\ Marks(Raws(v, chain, p)) = {} => Quiet(v, chain, p + 1)
           /\ Absent(v, chain, name, p) /\ Named(Raws(v, chain, p), name) = {}
                => Absent(v, chain, name, p + 1)
<1>1. \A q \in Places(v, chain) : q < p + 1 => q < p \/ q = p
    BY PlaceBelow
<1> QED
    BY <1>1 DEF Quiet, Absent

\* p whole sectors and r bytes more need p + 1 sectors.
LEMMA NeededIs ==
    ASSUME NEW p \in Nat, NEW r \in Nat, r > 0
    PROVE  /\ r <= SECTOR_SIZE => Needed(r + (p * SECTOR_SIZE)) = p + 1
           /\ Needed(r + (p * SECTOR_SIZE)) - 1 \in Nat /\ p <= Needed(r + (p * SECTOR_SIZE)) - 1
<1> DEFINE s == SECTOR_SIZE
           product == p * s
           n == (r + product) + (s - 1)
           q == n \div s
<1>1. s \in Nat \ {0} /\ product \in Nat /\ (p + 1) * s = product + s
    BY SizeAssumption, OneMore
<1>2. n \in Nat /\ n >= product + s
  <2> HIDE DEF product, s
  <2> QED
      BY <1>1
<1>3. Needed(r + (p * SECTOR_SIZE)) = q
    BY Zenon DEF Needed
<1>4. q \in Nat
  <2> HIDE DEF n, s
  <2> QED
      BY <1>1, <1>2, QuotientFits
<1>5. ~ (q < p + 1)
  <2>1. ASSUME q < p + 1 PROVE FALSE
    <3> HIDE DEF n, s, product
    <3>1. n < (p + 1) * s
        BY <1>1, <1>2, <2>1, QuotientBelow
    <3> QED
        BY <1>1, <1>2, <3>1
  <2> QED
      BY <2>1
<1>6. ASSUME r <= s PROVE q = p + 1
  <2>1. r - 1 \in Nat /\ r - 1 < s /\ p + 1 \in Nat
      BY <1>1, <1>6
  <2>2. n = ((p + 1) * s) + (r - 1)
    <3> HIDE DEF s, product
    <3> QED
        BY <1>1 DEF n
  <2>3. (((p + 1) * s) + (r - 1)) \div s = p + 1
    <3> HIDE DEF s
    <3> QED
        BY <1>1, <2>1, QuotientIs
  <2> QED
      BY <2>2, <2>3
<1> HIDE DEF q
<1>7. q - 1 \in Nat /\ p <= q - 1
    BY <1>4, <1>5
<1> QED
    BY <1>3, <1>6, <1>7

\* A chain with nothing behind place h ends there, soundly or not.
LEMMA EndsAt ==
    ASSUME NEW v, Mounted(v), NEW start \in Clusters(v), NEW h \in 0 .. cluster_count(v),
           Chain(v, start)[h] \in Clusters(v), Chain(v, start)[h + 1] = 0
    PROVE  /\ Ending(v, Chain(v, start)) =
                IF Covered(v, Chain(v, start)[h]) /\ Link(v, Chain(v, start)[h]) >= FAT32_EOC
                THEN "Ok" ELSE "CorruptFat"
           /\ \A p \in Places(v, Chain(v, start)) : p < PlaceOf(v, h + 1, 0)
<1> DEFINE at == Chain(v, start)
           m == cluster_count(v) + 1
           s == v.sectors_per_cluster
<1>1. /\ m \in Nat /\ m - 1 = cluster_count(v) /\ 0 \notin Clusters(v) /\ Clusters(v) \subseteq Nat
      /\ s \in Nat \ {0} /\ h \in Nat /\ h + 1 \in 0 .. m /\ h \in 0 .. m
    BY Sizes
<1>2. DOMAIN at = 0 .. m /\ \A k \in 0 .. m - 1 : at[k + 1] = Follower(v, at[k])
    BY <1>1, ChainIs
<1>3. \A n \in 0 .. m : at[n] # 0 => \A k \in 0 .. n : at[k] \in Clusters(v)
    BY ChainHolds
<1>4. ~ Circular(at) <=> at[m] = 0
    BY CircularIs
<1>5. at[h] \in Clusters(v) /\ at[h + 1] = 0
    OBVIOUS
<1> HIDE DEF at, m
<1>6. \A n \in 0 .. m : n > h => at[n] = 0
  <2> SUFFICES ASSUME NEW n \in 0 .. m, n > h, at[n] # 0 PROVE FALSE
      OBVIOUS
  <2>1. h + 1 \in 0 .. n
      BY <1>1
  <2> QED
      BY <1>1, <1>3, <1>5, <2>1
<1>7. ~ Circular(at)
  <2>1. m \in 0 .. m /\ m > h
      BY <1>1
  <2> QED
      BY <1>4, <1>6, <2>1
<1>8. \A n \in 0 .. m : n < h => ~ (Link(v, at[n]) >= FAT32_EOC)
  <2> SUFFICES ASSUME NEW n \in 0 .. m, n < h PROVE ~ (Link(v, at[n]) >= FAT32_EOC)
      OBVIOUS
  <2>1. n \in 0 .. m - 1 /\ n + 1 \in 0 .. h
      BY <1>1
  <2>2. at[n + 1] # 0 /\ at[n + 1] = Follower(v, at[n])
      BY <1>1, <1>2, <1>3, <1>5, <2>1
  <2>3. Link(v, at[n]) \in Clusters(v) /\ Link(v, at[n]) < FAT32_BAD_CLUSTER
      BY <2>2 DEF Follower
  <2> QED
      BY <1>1, <2>3, SizeAssumption DEF FAT32_BAD_CLUSTER, FAT32_EOC
<1>9. (\E n \in DOMAIN at : at[n] # 0 /\ Covered(v, at[n]) /\ Link(v, at[n]) >= FAT32_EOC)
        <=> Covered(v, at[h]) /\ Link(v, at[h]) >= FAT32_EOC
  <2>1. ASSUME NEW n \in 0 .. m, at[n] # 0, Link(v, at[n]) >= FAT32_EOC PROVE n = h
    <3>1. ~ (n > h) /\ ~ (n < h)
        BY <1>6, <1>8, <2>1
    <3> QED
        BY <1>1, <3>1
  <2>2. at[h] # 0 /\ h \in 0 .. m
      BY <1>1, <1>5
  <2> QED
      BY <1>2, <2>1, <2>2
<1>10. ASSUME NEW p \in Places(v, at) PROVE p < PlaceOf(v, h + 1, 0)
  <2> DEFINE d == p \div s
  <2>1. p \in Nat /\ d \in 0 .. m /\ at[d] # 0
      BY PlaceBelow DEF Places, m
  <2>2. d < h + 1
    <3>1. ~ (d > h)
        BY <1>6, <2>1
    <3> HIDE DEF d
    <3> QED
        BY <1>1, <2>1, <3>1
  <2>3. p < (h + 1) * s
      BY <1>1, <2>1, <2>2, QuotientBelow
  <2>4. PlaceOf(v, h + 1, 0) = (h + 1) * s
      BY <1>1 DEF PlaceOf
  <2> QED
      BY <2>3, <2>4
<1> QED
    BY <1>7, <1>9, <1>10 DEF Ending, at

\* A chain that goes on behind as many clusters as there are is a circle.
LEMMA GoesRound ==
    ASSUME NEW v, Mounted(v), NEW start \in Clusters(v),
           Chain(v, start)[cluster_count(v) + 1] # 0
    PROVE  /\ Ending(v, Chain(v, start)) = "DirectoryLoop"
           /\ \A p \in Places(v, Chain(v, start)) : p < PlaceOf(v, cluster_count(v) + 1, 0)
<1>1. Ending(v, Chain(v, start)) = "DirectoryLoop"
    BY CircularIs DEF Ending
<1>2. PlaceOf(v, cluster_count(v) + 1, 0) = Extent(v) /\ Extent(v) \in Nat
    BY Sizes DEF PlaceOf, Extent
<1>3. \A p \in Places(v, Chain(v, start)) : p < Extent(v)
    BY <1>2 DEF Places
<1> QED
    BY <1>1, <1>2, <1>3

\* Whole sectors of a chain.
Full(v, chain, n) == [i \in 1 .. n |-> <<SectorAt(v, chain, i - 1), SECTOR_SIZE>>]

\* One chunk more.
Longer(f, p, e) == [i \in 1 .. p + 1 |-> IF i < p + 1 THEN f[i] ELSE e]

\* It is the one appended.
LEMMA AppendIs ==
    ASSUME NEW v, NEW chain, NEW p \in Nat, NEW e
    PROVE  Append(Full(v, chain, p), e) = Longer(Full(v, chain, p), p, e)
<1> DEFINE S == {<<SectorAt(v, chain, i - 1), SECTOR_SIZE>> : i \in Nat} \cup {e}
           f == Full(v, chain, p)
<1>1. f \in Seq(S) /\ Len(f) = p
  <2>1. f \in [1 .. p -> S]
      BY DEF Full
  <2> HIDE DEF f, S
  <2> QED
      BY <2>1
<1>2. e \in S
    OBVIOUS
<1> HIDE DEF S, f
<1>3. /\ Append(f, e) \in Seq(S) /\ Len(Append(f, e)) = p + 1
      /\ \A i \in 1 .. p : Append(f, e)[i] = f[i]
      /\ Append(f, e)[p + 1] = e
    BY <1>1, <1>2
<1>4. Append(f, e) = [i \in 1 .. p + 1 |-> Append(f, e)[i]]
  <2> DEFINE t == Append(f, e)
  <2>1. t \in Seq(S) /\ Len(t) = p + 1
      BY <1>3
  <2> HIDE DEF t
  <2>2. t = [i \in 1 .. p + 1 |-> t[i]]
      BY <2>1
  <2> QED
      BY <2>2 DEF t
<1>5. \A i \in 1 .. p + 1 : Append(f, e)[i] = IF i < p + 1 THEN f[i] ELSE e
  <2>1. \A i \in 1 .. p + 1 : i < p + 1 => i \in 1 .. p
      OBVIOUS
  <2>2. \A i \in 1 .. p + 1 : ~ (i < p + 1) => i = p + 1
      OBVIOUS
  <2> QED
      BY <1>3, <2>1, <2>2
<1> QED
    BY <1>4, <1>5 DEF f, Longer
=============================================================================
