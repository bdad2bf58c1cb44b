--------------------------- MODULE BootDisk_proofs --------------------------
(***************************************************************************)
(* Proofs about the way from the image to the shell, in three parts: the   *)
(* image of build.rs, for every layout; the loader, for any machine, any   *)
(* size of the data volume and of the chunks it is read in; and the two    *)
(* joined by the stick that the one writes and the other reads.            *)
(***************************************************************************)
EXTENDS BootDisk, WellFoundedInduction, TLAPS

(***************************************************************************)
(* Sequences.                                                              *)
(***************************************************************************)
\* Sequences with the same elements are the same.
LEMMA SameSequence ==
    ASSUME NEW S, NEW s \in Seq(S), NEW t \in Seq(S), Len(s) = Len(t),
           \A i \in 1 .. Len(s) : s[i] = t[i]
    PROVE  s = t
  OBVIOUS

\* Two sequences, joined.
LEMMA Joined ==
    ASSUME NEW S, NEW s \in Seq(S), NEW t \in Seq(S)
    PROVE  /\ s \o t \in Seq(S) /\ Len(s \o t) = Len(s) + Len(t)
           /\ \A i \in 1 .. Len(s) + Len(t) :
                 (s \o t)[i] = IF i <= Len(s) THEN s[i] ELSE t[i - Len(s)]
  OBVIOUS

\* A sequence and one element more.
LEMMA Appended ==
    ASSUME NEW S, NEW s \in Seq(S), NEW e \in S
    PROVE  /\ Append(s, e) \in Seq(S) /\ Len(Append(s, e)) = Len(s) + 1
           /\ \A i \in 1 .. Len(s) : Append(s, e)[i] = s[i]
           /\ Append(s, e)[Len(s) + 1] = e
  OBVIOUS

(***************************************************************************)
(* Arithmetic of the alignment.                                            *)
(***************************************************************************)

\* Multiples of the alignment are apart by at least the alignment.
LEMMA MultiplesApart ==
    ASSUME NEW a \in Nat \ {0}, NEW m \in Nat, NEW k \in Nat, a * m < a * k
    PROVE  a * m + a <= a * k
<1>1. m < k
  <2>1. SUFFICES ASSUME k <= m PROVE FALSE
    OBVIOUS
  <2> DEFINE d == m - k
  <2>2. d \in Nat /\ m = k + d
    BY <2>1
  <2> HIDE DEF d
  <2>3. a * m = a * k + a * d /\ a * d \in Nat /\ a * k \in Nat
    BY <2>2
  <2> QED
    BY <2>3
<1> DEFINE d == k - (m + 1)
<1>2. d \in Nat /\ k = m + 1 + d
  BY <1>1
<1> HIDE DEF d
<1>3. a * k = a * m + a + a * d /\ a * d \in Nat /\ a * m \in Nat
  BY <1>2
<1> QED
  BY <1>3

\* A number without a remainder is a multiple.
LEMMA IsMultiple ==
    ASSUME NEW a \in Nat \ {0}, NEW n \in Nat, n % a = 0
    PROVE  \E k \in Nat : n = a * k
<1>1. n \div a \in Nat /\ n = a * (n \div a) + (n % a)
  OBVIOUS
<1> QED
  BY <1>1

\* align_up: the first multiple that is not below the value.
LEMMA AlignUp ==
    ASSUME NEW a \in Nat \ {0}, NEW n \in Nat
    PROVE  /\ align_up(n, a) \in Nat /\ n <= align_up(n, a)
           /\ (a + align_up(n, a)) % a = 0
           /\ \A q \in Nat : q % a = 0 /\ n <= q => align_up(n, a) <= q
<1> DEFINE v == n + a - 1
           m == v \div a
<1>1. v \in Nat
  OBVIOUS
<1>2. m \in Nat /\ v = a * m + (v % a) /\ v % a \in 0 .. a - 1
  <2> HIDE DEF v
  <2> QED BY <1>1
<1>3. align_up(n, a) = a * m
  <2>1. align_up(n, a) = m * a
    BY DEF align_up
  <2> HIDE DEF m
  <2> QED BY <1>2, <2>1
<1>4. v = n + a - 1
  OBVIOUS
<1> HIDE DEF v, m
<1>5. a * m \in Nat
  BY <1>2
<1>6. n <= a * m
  BY <1>1, <1>2, <1>4, <1>5
<1>7. (a + a * m) % a = 0
  <2>1. a + a * m = a * (m + 1) /\ m + 1 \in Nat
    BY <1>2
  <2>2. \A k \in Nat : (a * k) % a = 0
    OBVIOUS
  <2> QED
    BY <2>1, <2>2
<1>8. ASSUME NEW q \in Nat, q % a = 0, n <= q PROVE a * m <= q
  <2>1. PICK k \in Nat : q = a * k
    BY <1>8, IsMultiple
  <2>2. a * k \in Nat
    BY <2>1
  <2>3. CASE a * k < a * m
    <3>1. a * k + a <= a * m
      BY <2>3, <1>2, MultiplesApart
    <3> QED
      BY <3>1, <2>1, <2>2, <1>8, <1>1, <1>2, <1>4, <1>5
  <2> QED
    BY <2>1, <2>2, <2>3, <1>5
<1> QED
  BY <1>3, <1>5, <1>6, <1>7, <1>8

(***************************************************************************)
(* Where the partitions come to lie.                                       *)
(***************************************************************************)
BootFirst == MIB
DataFirst(boot) == MIB + align_up(boot, MIB)

BootPartition(boot) == [name |-> "sol-boot", size |-> boot, first |-> BootFirst]
DataPartition(boot) == [name |-> "sol-data", size |-> DATA_PARTITION_LBAS, first |-> DataFirst(boot)]

\* The sizes as numbers, and their order on the disk.
LEMMA Layout ==
    ASSUME NEW boot \in BootSizes
    PROVE  /\ boot \in Nat \ {0} /\ BootFirst \in Nat /\ DataFirst(boot) \in Nat
           /\ disk_size(boot) \in Nat
           /\ GPT_LBAS < BootFirst
           /\ BootFirst + boot <= DataFirst(boot)
           /\ DataFirst(boot) + DATA_PARTITION_LBAS + GPT_LBAS < disk_size(boot)
<1>1. /\ boot \in Nat \ {0} /\ MIB \in Nat \ {0} /\ DATA_PARTITION_LBAS \in Nat
      /\ GPT_LBAS \in Nat /\ GPT_LBAS < MIB
  BY LayoutAssumption DEF MIB
<1>2. align_up(boot, MIB) \in Nat /\ boot <= align_up(boot, MIB)
  BY <1>1, AlignUp
<1> QED
  BY <1>1, <1>2 DEF BootFirst, DataFirst, disk_size

\* The EFI partition goes to the first aligned block.
LEMMA BootPlace ==
    ASSUME NEW boot \in BootSizes
    PROVE  /\ BootFirst \in Places(<<>>, disk_size(boot), boot)
           /\ First(Places(<<>>, disk_size(boot), boot)) = BootFirst
<1> DEFINE places == Places(<<>>, disk_size(boot), boot)
<1>1. /\ MIB \in Nat \ {0} /\ GPT_LBAS \in Nat /\ GPT_LBAS < MIB
      /\ PARTITION_ALIGNMENT_LBAS = MIB /\ BootFirst = MIB /\ DATA_PARTITION_LBAS \in Nat
  BY LayoutAssumption DEF MIB, BootFirst
<1>2. BootFirst \in places
  <2>1. BootFirst \in GPT_LBAS + 1 .. disk_size(boot) - GPT_LBAS - boot
    BY <1>1, Layout
  <2>2. BootFirst % PARTITION_ALIGNMENT_LBAS = 0
    BY <1>1
  <2> QED
    BY <2>1, <2>2 DEF Places
<1>3. ASSUME NEW q \in places PROVE q \in Nat /\ BootFirst <= q
  <2>1. q \in Nat /\ 0 < q /\ q % MIB = 0
    BY <1>1, Layout DEF Places
  <2>2. PICK k \in Nat : q = MIB * k
    BY <1>1, <2>1, IsMultiple
  <2>3. MIB * 0 < MIB * k
    BY <1>1, <2>1, <2>2
  <2>4. MIB * 0 + MIB <= MIB * k
    BY <1>1, <2>3, MultiplesApart
  <2> QED
    BY <1>1, <2>1, <2>2, <2>4
<1> HIDE DEF places
<1>4. First(places) = BootFirst
  <2>1. BootFirst \in Nat
    BY <1>1
  <2>2. \A p \in places : (\A q \in places : p <= q) => p = BootFirst
    BY <1>2, <1>3, <2>1
  <2> QED
    BY <1>2, <1>3, <2>2 DEF First
<1> QED
  BY <1>2, <1>4 DEF places

\* The data partition goes to the first aligned block behind it.
LEMMA DataPlace ==
    ASSUME NEW boot \in BootSizes
    PROVE  /\ DataFirst(boot) \in Places(<<BootPartition(boot)>>, disk_size(boot), DATA_PARTITION_LBAS)
           /\ First(Places(<<BootPartition(boot)>>, disk_size(boot), DATA_PARTITION_LBAS)) = DataFirst(boot)
<1> DEFINE parts == <<BootPartition(boot)>>
           places == Places(parts, disk_size(boot), DATA_PARTITION_LBAS)
<1>1. /\ MIB \in Nat \ {0} /\ GPT_LBAS \in Nat /\ GPT_LBAS < MIB
      /\ PARTITION_ALIGNMENT_LBAS = MIB /\ BootFirst = MIB /\ DATA_PARTITION_LBAS \in Nat \ {0}
      /\ boot \in Nat \ {0}
  BY LayoutAssumption DEF MIB, BootFirst
<1>2. DOMAIN parts = {1} /\ parts[1].first = BootFirst /\ parts[1].size = boot
  BY DEF BootPartition
<1>3. /\ DataFirst(boot) \in Nat /\ DataFirst(boot) % MIB = 0 /\ BootFirst + boot <= DataFirst(boot)
      /\ DataFirst(boot) = BootFirst + align_up(boot, MIB)
      /\ align_up(boot, MIB) \in Nat
      /\ \A q \in Nat : q % MIB = 0 /\ boot <= q => align_up(boot, MIB) <= q
  BY <1>1, AlignUp, Layout DEF DataFirst
<1>4. DataFirst(boot) \in places
  <2>1. DataFirst(boot) \in GPT_LBAS + 1 .. disk_size(boot) - GPT_LBAS - DATA_PARTITION_LBAS
    BY <1>1, <1>3, Layout
  <2>2. Blocks(DataFirst(boot), DATA_PARTITION_LBAS) \cap Blocks(BootFirst, boot) = {}
    BY <1>1, <1>3 DEF Blocks
  <2> HIDE DEF parts
  <2> QED
    BY <1>1, <1>2, <1>3, <2>1, <2>2 DEF Places
<1>5. ASSUME NEW q \in places PROVE q \in Nat /\ DataFirst(boot) <= q
  <2>1. /\ q \in Nat /\ 0 < q /\ q % MIB = 0
        /\ Blocks(q, DATA_PARTITION_LBAS) \cap Blocks(BootFirst, boot) = {}
    <3> HIDE DEF parts
    <3> QED BY <1>1, <1>2, Layout DEF Places
  <2>2. PICK k \in Nat : q = MIB * k
    BY <1>1, <2>1, IsMultiple
  <2>3. MIB * 0 < MIB * k
    BY <1>1, <2>1, <2>2
  <2>4. MIB * 0 + MIB <= MIB * k
    BY <1>1, <2>3, MultiplesApart
  <2>5. MIB <= q
    BY <1>1, <2>2, <2>4
  <2>6. MIB + boot <= q
    <3>1. SUFFICES ASSUME q < MIB + boot PROVE FALSE
      BY <1>1, <2>1
    <3>2. q \in Blocks(q, DATA_PARTITION_LBAS)
      BY <1>1, <2>1 DEF Blocks
    <3>3. q \in Blocks(BootFirst, boot)
      BY <1>1, <2>1, <2>5, <3>1 DEF Blocks
    <3> QED
      BY <2>1, <3>2, <3>3
  <2>7. q - MIB \in Nat /\ boot <= q - MIB
    BY <1>1, <2>1, <2>5, <2>6
  <2>8. (q - MIB) % MIB = 0
    <3>1. k # 0
      BY <1>1, <2>3
    <3>2. k - 1 \in Nat /\ q - MIB = MIB * (k - 1)
      BY <1>1, <2>2, <3>1
    <3>3. \A n \in Nat : (MIB * n) % MIB = 0
      BY <1>1
    <3> QED
      BY <3>2, <3>3
  <2>9. align_up(boot, MIB) <= q - MIB
    BY <1>3, <2>7, <2>8
  <2> QED
    BY <1>1, <1>3, <2>1, <2>9
<1> HIDE DEF places
<1>6. First(places) = DataFirst(boot)
  <2>1. \A p \in places : (\A q \in places : p <= q) => p = DataFirst(boot)
    BY <1>3, <1>4, <1>5
  <2> QED
    BY <1>4, <1>5, <2>1 DEF First
<1> QED
  BY <1>4, <1>6 DEF places

(***************************************************************************)
(* Files.                                                                  *)
(***************************************************************************)
Kinds == {"zero", "mbr", "gpt", "backup", "boot", "data"}
Content == Kinds \X Nat \X Nat

\* A function over the first numbers is a file of that length.
LEMMA FunctionIsFile ==
    ASSUME NEW n \in Nat, NEW f \in [1 .. n -> Content]
    PROVE  f \in Seq(Content) /\ Len(f) = n
  OBVIOUS

\* What build_data_volume and create_uefi_image hand on: block i says it is block i.
LEMMA FilledIs ==
    ASSUME build \in Nat, NEW kind \in Kinds, NEW n \in Nat
    PROVE  /\ Filled(kind, n) \in Seq(Content) /\ Len(Filled(kind, n)) = n
           /\ \A i \in 1 .. n : Filled(kind, n)[i] = <<kind, build, i>>
<1>1. ASSUME NEW i \in 1 .. n PROVE <<kind, build, i>> \in Content
  <2>1. i \in Nat
    OBVIOUS
  <2> QED
    BY <2>1 DEF Content
<1>2. Filled(kind, n) \in [1 .. n -> Content]
  BY <1>1 DEF Filled
<1> QED
  BY <1>2, FunctionIsFile DEF Filled

\* A write changes the blocks it covers and no other, and not the length.
LEMMA WrittenIs ==
    ASSUME NEW file \in Seq(Content), NEW lba \in Int, NEW content \in Seq(Content)
    PROVE  /\ Written(file, lba, content) \in Seq(Content)
           /\ Len(Written(file, lba, content)) = Len(file)
           /\ \A i \in 1 .. Len(file) :
                 Written(file, lba, content)[i] =
                     IF i - lba \in 1 .. Len(content) THEN content[i - lba] ELSE file[i]
<1>1. Len(file) \in Nat /\ DOMAIN content = 1 .. Len(content)
  OBVIOUS
<1>2. \A i \in 1 .. Len(file) : i - lba \in 1 .. Len(content) => content[i - lba] \in Content
  OBVIOUS
<1>3. Written(file, lba, content) \in [1 .. Len(file) -> Content]
  BY <1>1, <1>2 DEF Written
<1> QED
  BY <1>1, <1>3, FunctionIsFile DEF Written

(***************************************************************************)
(* The inductive invariant: what each stage has behind it.                 *)
(***************************************************************************)
Stages == {"volume", "extract", "open", "set_len", "mbr", "sol-boot", "sol-data", "write_table",
           "write_boot", "copy", "done", "failed"}
Sized == {"mbr", "sol-boot", "sol-data", "write_table", "write_boot", "copy", "done"}
Tabled == {"write_table", "write_boot", "copy", "done"}
Booted == {"write_boot", "copy", "done"}

\* What element i of the image holds once it has its size.
Laid(i) ==
    LET boot == i - BootFirst
        user == i - DataFirst(Len(efi))
        last == i - (Len(image) - GPT_LBAS)
    IN  /\ i = 1 => image[i] = IF stage = "mbr" THEN Zero ELSE <<"mbr", build, 1>>
        /\ i - 1 \in 1 .. GPT_LBAS => image[i] = IF stage \in Booted THEN <<"gpt", build, i - 1>> ELSE Zero
        /\ boot \in 1 .. Len(efi) =>
               image[i] = IF stage \in {"copy", "done"} \/ (stage = "write_boot" /\ boot <= copied)
                          THEN <<"boot", build, boot>> ELSE Zero
        /\ user \in 1 .. DATA_PARTITION_LBAS =>
               image[i] = IF stage = "done" \/ (stage = "copy" /\ user <= copied)
                          THEN <<"data", build, user>> ELSE Zero
        /\ last \in 1 .. GPT_LBAS => image[i] = IF stage \in Booted THEN <<"backup", build, last>> ELSE Zero
        /\ \/ i = 1 \/ i - 1 \in 1 .. GPT_LBAS \/ boot \in 1 .. Len(efi)
           \/ user \in 1 .. DATA_PARTITION_LBAS \/ last \in 1 .. GPT_LBAS
           \/ image[i] = Zero

FilesOK ==
    /\ build \in Nat /\ stage \in Stages /\ copied \in Nat
    /\ volume \in Seq(Content) /\ efi \in Seq(Content) /\ image \in Seq(Content)

MaterialOK ==
    /\ stage \notin {"volume", "failed"} => volume = Filled("data", DATA_PARTITION_LBAS)
    /\ stage \notin {"volume", "extract", "failed"} =>
          Len(efi) \in BootSizes /\ efi = Filled("boot", Len(efi))

TableOK ==
    /\ stage = "sol-boot" => table = <<>>
    /\ stage = "sol-data" => table = <<BootPartition(Len(efi))>>
    /\ stage \in Tabled => table = <<BootPartition(Len(efi)), DataPartition(Len(efi))>>

LayoutOK ==
    /\ stage = "set_len" => image = <<>>
    /\ stage \in Sized => Len(image) = disk_size(Len(efi)) /\ \A i \in 1 .. Len(image) : Laid(i)

IInv == FilesOK /\ MaterialOK /\ TableOK /\ LayoutOK /\ ImageIsOfOneBuild

\* A laid out image is of the running build.
LEMMA LaidIsOfOneBuild ==
    FilesOK /\ stage \in Sized /\ (\A i \in 1 .. Len(image) : Laid(i)) => ImageIsOfOneBuild
<1> SUFFICES ASSUME FilesOK, stage \in Sized, \A i \in 1 .. Len(image) : Laid(i)
             PROVE  ImageIsOfOneBuild
  OBVIOUS
<1>1. DOMAIN image = 1 .. Len(image)
  BY DEF FilesOK
<1>2. \A i \in DOMAIN image : image[i] # Zero => image[i][2] = build
  <2> SUFFICES ASSUME NEW i \in 1 .. Len(image), image[i] # Zero PROVE image[i][2] = build
    BY <1>1
  <2>1. Laid(i)
    OBVIOUS
  <2>2. \E kind, position : image[i] = <<kind, build, position>>
    <3>1. CASE i = 1
      BY <2>1, <3>1 DEF Laid
    <3>2. CASE i - 1 \in 1 .. GPT_LBAS
      BY <2>1, <3>2 DEF Laid
    <3>3. CASE i - BootFirst \in 1 .. Len(efi)
      BY <2>1, <3>3 DEF Laid
    <3>4. CASE i - DataFirst(Len(efi)) \in 1 .. DATA_PARTITION_LBAS
      BY <2>1, <3>4 DEF Laid
    <3>5. CASE i - (Len(image) - GPT_LBAS) \in 1 .. GPT_LBAS
      BY <2>1, <3>5 DEF Laid
    <3> QED
      BY <2>1, <3>1, <3>2, <3>3, <3>4, <3>5 DEF Laid
  <2> QED
    BY <2>2
<1> QED
  BY <1>2 DEF ImageIsOfOneBuild

\* Steps that leave the image as it is.
LEMMA FailKeeps == ASSUME IInv, Fail PROVE IInv'
  BY DEF IInv, Fail, FilesOK, MaterialOK, TableOK, LayoutOK, ImageIsOfOneBuild, Stages, Sized, Tabled

\* A build starts over what the last one left.
LEMMA BuildAgainKeeps == ASSUME IInv, BuildAgain PROVE IInv'
  BY DEF IInv, BuildAgain, FilesOK, MaterialOK, TableOK, LayoutOK, ImageIsOfOneBuild, Stages, Sized, Tabled

\* build_data_volume makes the volume of this build.
LEMMA VolumeKeeps == ASSUME IInv, build_data_volume PROVE IInv'
<1>1. volume' \in Seq(Content)
  BY FilledIs, LayoutAssumption DEF IInv, FilesOK, build_data_volume, Kinds
<1> QED
  BY <1>1 DEF IInv, build_data_volume, FilesOK, MaterialOK, TableOK, LayoutOK, ImageIsOfOneBuild,
              Stages, Sized, Tabled, Filled

\* extract_efi_partition makes the EFI partition of this build.
LEMMA ExtractKeeps == ASSUME IInv, extract_efi_partition PROVE IInv'
<1>1. PICK size \in BootSizes : efi' = Filled("boot", size)
  BY DEF extract_efi_partition
<1>2. size \in Nat /\ build \in Nat
  BY LayoutAssumption DEF IInv, FilesOK
<1>3. efi' \in Seq(Content) /\ Len(efi') = size
  BY <1>1, <1>2, FilledIs DEF Kinds
<1>4. build' = build /\ volume' = volume /\ image' = image /\ copied' = copied
      /\ stage = "extract" /\ stage' = "open"
  BY DEF extract_efi_partition
<1>5. (efi = Filled("boot", Len(efi)))'
  BY <1>1, <1>3, <1>4 DEF Filled
<1>6. MaterialOK'
  BY <1>3, <1>4, <1>5 DEF IInv, MaterialOK, Filled
<1> QED
  BY <1>3, <1>4, <1>6 DEF IInv, FilesOK, TableOK, LayoutOK, ImageIsOfOneBuild, Stages, Sized, Tabled

\* The file is opened with truncate, and empty.
LEMMA OpenKeeps == ASSUME IInv, OpenImage PROVE IInv'
  BY DEF IInv, OpenImage, FilesOK, MaterialOK, TableOK, LayoutOK, ImageIsOfOneBuild, Stages, Sized, Tabled, Filled

\* The file gets its size, and zeros.
LEMMA SetLenKeeps == ASSUME IInv, SetLen PROVE IInv'
<1>1. /\ stage = "set_len" /\ stage' = "mbr" /\ build' = build /\ volume' = volume /\ efi' = efi
      /\ copied' = copied /\ table' = table
  BY DEF SetLen
<1>2. image = <<>> /\ Len(efi) \in BootSizes
  BY <1>1 DEF IInv, LayoutOK, MaterialOK
<1> DEFINE n == disk_size(Len(efi))
<1>3. n \in Nat
  BY <1>2, Layout
<1>4. image' = [i \in 1 .. n |-> Zero]
  BY <1>2 DEF SetLen
<1>5. Zero \in Content
  BY DEF Zero, Content, Kinds
<1>6. image' \in Seq(Content) /\ Len(image') = n
  <2> HIDE DEF n
  <2> QED BY <1>3, <1>4, <1>5, FunctionIsFile
<1>7. FilesOK' /\ MaterialOK' /\ TableOK'
  BY <1>1, <1>6 DEF IInv, FilesOK, MaterialOK, TableOK, Stages, Tabled, Filled
<1>8. \A i \in 1 .. Len(image') : Laid(i)'
  <2> HIDE DEF n
  <2> QED BY <1>1, <1>4, <1>6 DEF Laid, Booted
<1>9. LayoutOK'
  BY <1>1, <1>6, <1>8 DEF LayoutOK
<1>10. (FilesOK /\ stage \in Sized /\ (\A i \in 1 .. Len(image) : Laid(i)) => ImageIsOfOneBuild)'
  BY LaidIsOfOneBuild, PTL
<1> QED
  BY <1>1, <1>7, <1>8, <1>9, <1>10 DEF IInv, Sized

\* The numbers behind a sized image.
LEMMA Numbers ==
    ASSUME IInv, stage \in Sized
    PROVE  /\ Len(efi) \in Nat \ {0} /\ Len(efi) \in BootSizes
           /\ Len(image) \in Nat /\ Len(image) = disk_size(Len(efi))
           /\ BootFirst \in Nat /\ DataFirst(Len(efi)) \in Nat
           /\ GPT_LBAS \in Nat /\ DATA_PARTITION_LBAS \in Nat \ {0} /\ build \in Nat
           /\ GPT_LBAS < BootFirst
           /\ BootFirst + Len(efi) <= DataFirst(Len(efi))
           /\ DataFirst(Len(efi)) + DATA_PARTITION_LBAS + GPT_LBAS < Len(image)
<1>1. /\ Len(efi) \in BootSizes /\ Len(image) = disk_size(Len(efi)) /\ build \in Nat
      /\ Len(image) \in Nat /\ Len(efi) \in Nat
  BY DEF IInv, MaterialOK, LayoutOK, FilesOK, Sized
<1> QED
  BY <1>1, Layout, LayoutAssumption

\* Four regions one behind the other, and the block before them, are apart.
LEMMA RegionsApart ==
    ASSUME NEW g \in Nat, NEW n \in Nat, NEW d \in Nat, NEW b \in Nat, NEW f \in Nat, NEW len \in Nat,
           g < b, b + n <= f, f + d + g < len, NEW i \in 1 .. len
    PROVE  /\ i = 1 => /\ i - 1 \notin 1 .. g /\ i - b \notin 1 .. n
                       /\ i - f \notin 1 .. d /\ i - (len - g) \notin 1 .. g
           /\ i - 1 \in 1 .. g => i - b \notin 1 .. n /\ i - f \notin 1 .. d /\ i - (len - g) \notin 1 .. g
           /\ i - b \in 1 .. n => i - f \notin 1 .. d /\ i - (len - g) \notin 1 .. g
           /\ i - f \in 1 .. d => i - (len - g) \notin 1 .. g
  OBVIOUS

\* No block of a sized image is in two of its regions.
LEMMA Apart ==
    ASSUME IInv, stage \in Sized, NEW i \in 1 .. Len(image)
    PROVE  LET gpt  == i - 1 \in 1 .. GPT_LBAS
               boot == i - BootFirst \in 1 .. Len(efi)
               user == i - DataFirst(Len(efi)) \in 1 .. DATA_PARTITION_LBAS
               last == i - (Len(image) - GPT_LBAS) \in 1 .. GPT_LBAS
           IN  /\ i = 1 => ~gpt /\ ~boot /\ ~user /\ ~last
               /\ gpt => ~boot /\ ~user /\ ~last
               /\ boot => ~user /\ ~last
               /\ user => ~last
  BY Numbers, RegionsApart

\* What has to be shown of a step that writes to a sized image.
LEMMA WritingKeeps ==
    ASSUME IInv, stage \in Sized, stage' \in Sized,
           build' = build, volume' = volume, efi' = efi, copied' \in Nat,
           image' \in Seq(Content), Len(image') = Len(image), TableOK',
           \A i \in 1 .. Len(image) : Laid(i)'
    PROVE  IInv'
<1>1. FilesOK' /\ MaterialOK'
  BY DEF IInv, FilesOK, MaterialOK, Filled, Sized, Stages
<1>2. LayoutOK'
  BY DEF IInv, LayoutOK, Sized
<1>3. (FilesOK /\ stage \in Sized /\ (\A i \in 1 .. Len(image) : Laid(i)) => ImageIsOfOneBuild)'
  BY LaidIsOfOneBuild, PTL
<1> QED
  BY <1>1, <1>2, <1>3 DEF IInv

\* overwrite_lba0 writes block 0.
LEMMA WriteMbrKeeps == ASSUME IInv, WriteMbr PROVE IInv'
<1>1. /\ stage = "mbr" /\ stage' = "sol-boot" /\ build' = build /\ volume' = volume /\ efi' = efi
      /\ copied' = copied /\ table' = <<>> /\ stage \in Sized /\ stage' \in Sized
      /\ image' = Written(image, 0, Filled("mbr", 1))
  BY DEF WriteMbr, Sized
<1>2. image \in Seq(Content) /\ build \in Nat /\ copied \in Nat /\ "mbr" \in Kinds
  BY DEF IInv, FilesOK, Kinds
<1>3. /\ Filled("mbr", 1) \in Seq(Content) /\ Len(Filled("mbr", 1)) = 1
      /\ Filled("mbr", 1)[1] = <<"mbr", build, 1>>
  <2>1. 1 \in Nat /\ 1 \in 1 .. 1
    OBVIOUS
  <2> QED
    BY <1>2, <2>1, FilledIs
<1>4. /\ image' \in Seq(Content) /\ Len(image') = Len(image)
      /\ \A i \in 1 .. Len(image) : image'[i] = IF i = 1 THEN <<"mbr", build, 1>> ELSE image[i]
  BY <1>1, <1>2, <1>3, WrittenIs
<1>5. ASSUME NEW i \in 1 .. Len(image) PROVE Laid(i)'
  <2>1. Laid(i)
    BY <1>1 DEF IInv, LayoutOK
  <2> QED
    BY <1>1, <1>4, <2>1, Apart DEF Laid, Booted
<1>6. TableOK'
  BY <1>1 DEF TableOK, Tabled
<1> QED
  BY <1>1, <1>2, <1>4, <1>5, <1>6, WritingKeeps

\* A sequence of one gets a second element.
LEMMA AppendToOne == ASSUME NEW a, NEW b PROVE Append(<<a>>, b) = <<a, b>>
<1>1. <<a>> \in Seq({a, b}) /\ <<a, b>> \in Seq({a, b}) /\ Len(<<a>>) = 1
      /\ Len(<<a, b>>) = 2 /\ <<a>>[1] = a /\ <<a, b>>[1] = a /\ <<a, b>>[2] = b
  OBVIOUS
<1>2. /\ Append(<<a>>, b) \in Seq({a, b}) /\ Len(Append(<<a>>, b)) = 2
      /\ Append(<<a>>, b)[1] = a /\ Append(<<a>>, b)[2] = b
  BY <1>1, Appended
<1>3. \A i \in 1 .. 2 : i = 1 \/ i = 2
  OBVIOUS
<1> DEFINE s == Append(<<a>>, b)
           t == <<a, b>>
<1>4. /\ s \in Seq({a, b}) /\ t \in Seq({a, b}) /\ Len(s) = 2 /\ Len(t) = 2
      /\ s[1] = t[1] /\ s[2] = t[2]
  BY <1>1, <1>2
<1> HIDE DEF s, t
<1>5. s = t
  BY <1>3, <1>4, SameSequence
<1> QED
  BY <1>5 DEF s, t

\* Adding the partitions leaves the image alone.
LEMMA AddKeeps ==
    ASSUME IInv, NEW size, NEW next,
           \/ /\ size = Len(efi) /\ next = "sol-data" /\ add_partition("sol-boot", size, next)
           \/ /\ size = DATA_PARTITION_LBAS /\ next = "write_table" /\ add_partition("sol-data", size, next)
    PROVE  IInv'
<1>1. /\ stage \in {"sol-boot", "sol-data"} /\ stage' = next /\ next \in {"sol-data", "write_table"}
      /\ build' = build /\ volume' = volume /\ efi' = efi /\ copied' = copied /\ image' = image
      /\ stage \in Sized /\ stage' \in Sized
  BY DEF add_partition, Sized
<1>2. ASSUME NEW i \in 1 .. Len(image) PROVE Laid(i)'
  <2>1. Laid(i)
    BY <1>1 DEF IInv, LayoutOK
  <2> QED
    BY <1>1, <2>1 DEF Laid, Booted
<1>3. TableOK'
  <2>1. CASE next = "sol-data"
    <3>1. /\ table = <<>> /\ size = Len(efi) /\ stage = "sol-boot"
          /\ table' = Append(table, [name |-> "sol-boot", size |-> size,
                                    first |-> First(Places(table, Len(image), size))])
      BY <2>1 DEF IInv, TableOK, add_partition
    <3>2. table' = Append(<<>>, BootPartition(Len(efi)))
      BY <1>1, <3>1, Numbers, BootPlace DEF BootPartition
    <3>3. table' = <<BootPartition(Len(efi))>>
      BY <3>2
    <3> QED
      BY <1>1, <2>1, <3>3 DEF TableOK, Tabled
  <2>2. CASE next = "write_table"
    <3>1. /\ table = <<BootPartition(Len(efi))>> /\ size = DATA_PARTITION_LBAS /\ stage = "sol-data"
          /\ table' = Append(table, [name |-> "sol-data", size |-> size,
                                    first |-> First(Places(table, Len(image), size))])
      BY <2>2 DEF IInv, TableOK, add_partition
    <3>2. table' = Append(<<BootPartition(Len(efi))>>, DataPartition(Len(efi)))
      BY <1>1, <3>1, Numbers, DataPlace DEF DataPartition
    <3>3. table' = <<BootPartition(Len(efi)), DataPartition(Len(efi))>>
      BY <3>2, AppendToOne
    <3> QED
      BY <1>1, <2>2, <3>3 DEF TableOK, Tabled
  <2> QED
    BY <1>1, <2>1, <2>2
<1>4. image' \in Seq(Content) /\ copied' \in Nat
  BY <1>1 DEF IInv, FilesOK
<1> QED
  BY <1>1, <1>2, <1>3, <1>4, WritingKeeps

\* Both tables.
LEMMA WriteTableKeeps == ASSUME IInv, WriteTable PROVE IInv'
<1> DEFINE head == Filled("gpt", GPT_LBAS)
           tail == Filled("backup", GPT_LBAS)
           half == Written(image, 1, head)
<1>1. /\ stage = "write_table" /\ stage' = "write_boot" /\ build' = build /\ volume' = volume
      /\ efi' = efi /\ copied' = 0 /\ table' = table /\ stage \in Sized /\ stage' \in Sized
      /\ image' = Written(half, Len(image) - GPT_LBAS, tail)
  BY DEF WriteTable, Sized
<1>2. /\ image \in Seq(Content) /\ build \in Nat /\ "gpt" \in Kinds /\ "backup" \in Kinds
      /\ GPT_LBAS \in Nat /\ Len(image) - GPT_LBAS \in Int
  BY LayoutAssumption DEF IInv, FilesOK, Kinds
<1>3. /\ head \in Seq(Content) /\ Len(head) = GPT_LBAS
      /\ \A k \in 1 .. GPT_LBAS : head[k] = <<"gpt", build, k>>
      /\ tail \in Seq(Content) /\ Len(tail) = GPT_LBAS
      /\ \A k \in 1 .. GPT_LBAS : tail[k] = <<"backup", build, k>>
  BY <1>2, FilledIs, Zenon
<1> HIDE DEF head, tail
<1>4. /\ half \in Seq(Content) /\ Len(half) = Len(image)
      /\ \A i \in 1 .. Len(image) :
            half[i] = IF i - 1 \in 1 .. GPT_LBAS THEN <<"gpt", build, i - 1>> ELSE image[i]
  <2>1. 1 \in Int
    OBVIOUS
  <2>2. /\ half \in Seq(Content) /\ Len(half) = Len(image)
        /\ \A i \in 1 .. Len(image) :
              half[i] = IF i - 1 \in 1 .. Len(head) THEN head[i - 1] ELSE image[i]
    BY <1>2, <1>3, <2>1, WrittenIs
  <2> HIDE DEF half
  <2> QED
    BY <1>3, <2>2
<1> HIDE DEF half
<1>5. /\ image' \in Seq(Content) /\ Len(image') = Len(image)
      /\ \A i \in 1 .. Len(image) :
            image'[i] = IF i - (Len(image) - GPT_LBAS) \in 1 .. GPT_LBAS
                        THEN <<"backup", build, i - (Len(image) - GPT_LBAS)>> ELSE half[i]
  <2> DEFINE lba == Len(image) - GPT_LBAS
  <2>1. lba \in Int /\ image' = Written(half, lba, tail)
    BY <1>1, <1>2
  <2> HIDE DEF lba
  <2>2. /\ image' \in Seq(Content) /\ Len(image') = Len(half)
        /\ \A i \in 1 .. Len(half) :
              image'[i] = IF i - lba \in 1 .. Len(tail) THEN tail[i - lba] ELSE half[i]
    BY <1>3, <1>4, <2>1, WrittenIs
  <2>3. \A i \in 1 .. Len(image) :
              image'[i] = IF i - lba \in 1 .. GPT_LBAS THEN <<"backup", build, i - lba>> ELSE half[i]
    BY <1>3, <1>4, <2>2, Zenon
  <2> QED
    BY <1>4, <2>2, <2>3 DEF lba
<1>6. ASSUME NEW i \in 1 .. Len(image) PROVE Laid(i)'
  <2>1. Laid(i)
    BY <1>1 DEF IInv, LayoutOK
  <2> QED
    <3>1. CASE i = 1
      BY <1>1, <1>4, <1>5, <2>1, <3>1, Apart, Zenon DEF Laid, Booted
    <3>2. CASE i - 1 \in 1 .. GPT_LBAS
      BY <1>1, <1>4, <1>5, <2>1, <3>2, Apart DEF Laid, Booted
    <3>3. CASE i - BootFirst \in 1 .. Len(efi)
      <4>1. ~(i - BootFirst <= 0)
        BY <1>1, <3>3, Numbers
      <4> QED
        BY <4>1, <1>1, <1>4, <1>5, <2>1, <3>3, Apart, Zenon DEF Laid, Booted
    <3>4. CASE i - DataFirst(Len(efi)) \in 1 .. DATA_PARTITION_LBAS
      BY <1>1, <1>4, <1>5, <2>1, <3>4, Apart, Zenon DEF Laid, Booted
    <3>5. CASE i - (Len(image) - GPT_LBAS) \in 1 .. GPT_LBAS
      BY <1>1, <1>4, <1>5, <2>1, <3>5, Apart DEF Laid, Booted
    <3> QED
      BY <1>1, <1>4, <1>5, <2>1, <3>1, <3>2, <3>3, <3>4, <3>5, Zenon DEF Laid, Booted
<1>7. TableOK'
  BY <1>1 DEF IInv, TableOK, Tabled
<1> QED
  BY <1>1, <1>5, <1>6, <1>7, WritingKeeps

\* One block of a file, written to the image.
LEMMA BlockIs ==
    ASSUME IInv, NEW kind \in Kinds, NEW n \in Nat, NEW first \in Nat, copied < n,
           image' = Written(image, first + copied, <<Filled(kind, n)[copied + 1]>>)
    PROVE  /\ image' \in Seq(Content) /\ Len(image') = Len(image)
           /\ \A i \in 1 .. Len(image) :
                 image'[i] = IF i - first = copied + 1 THEN <<kind, build, i - first>> ELSE image[i]
<1>1. /\ image \in Seq(Content) /\ build \in Nat /\ copied \in Nat
  BY DEF IInv, FilesOK
<1>2. copied + 1 \in 1 .. n /\ first + copied \in Int
  BY <1>1
<1> DEFINE block == Filled(kind, n)[copied + 1]
<1>3. block = <<kind, build, copied + 1>> /\ block \in Content
  <2>1. block = <<kind, build, copied + 1>>
    BY <1>1, <1>2, FilledIs
  <2>2. copied + 1 \in Nat
    BY <1>1
  <2>3. <<kind, build, copied + 1>> \in Content
    BY <1>1, <2>2 DEF Content
  <2> QED
    BY <2>1, <2>3
<1> HIDE DEF block
<1> DEFINE one == <<block>>
           lba == first + copied
<1>4. one \in Seq(Content) /\ Len(one) = 1 /\ one[1] = block
  BY <1>3
<1>5. image' = Written(image, lba, one) /\ lba \in Int
  BY <1>2 DEF block
<1> HIDE DEF one
<1>6. /\ image' \in Seq(Content) /\ Len(image') = Len(image)
      /\ \A i \in 1 .. Len(image) :
            image'[i] = IF i - lba \in 1 .. Len(one) THEN one[i - lba] ELSE image[i]
  <2> HIDE DEF lba
  <2> DEFINE after == Written(image, lba, one)
  <2>1. /\ after \in Seq(Content) /\ Len(after) = Len(image)
        /\ \A i \in 1 .. Len(image) :
              after[i] = IF i - lba \in 1 .. Len(one) THEN one[i - lba] ELSE image[i]
    BY <1>1, <1>4, <1>5, WrittenIs, Zenon
  <2>2. image' = after
    BY <1>5
  <2> HIDE DEF after
  <2> QED BY <2>1, <2>2
<1>7. ASSUME NEW i \in 1 .. Len(image)
      PROVE  image'[i] = IF i - first = copied + 1 THEN <<kind, build, i - first>> ELSE image[i]
  <2>1. CASE i - first = copied + 1
    <3>1. i - lba = 1 /\ 1 \in 1 .. 1
      BY <1>1, <2>1
    <3>2. image'[i] = one[1]
      <4> HIDE DEF lba
      <4> QED BY <1>4, <1>6, <3>1
    <3> QED
      BY <1>3, <1>4, <2>1, <3>2
  <2>2. CASE i - first # copied + 1
    <3>1. i - lba \notin 1 .. 1
      BY <1>1, <2>2
    <3> HIDE DEF lba
    <3> QED
      BY <1>4, <1>6, <2>2, <3>1
  <2> QED
    BY <2>1, <2>2
<1> QED
  BY <1>6, <1>7

\* The EFI partition, block by block.
LEMMA WriteBootKeeps == ASSUME IInv, CopyTo("write_boot", efi, table[1], "copy") PROVE IInv'
<1>1. /\ stage = "write_boot" /\ build' = build /\ volume' = volume /\ efi' = efi /\ table' = table
      /\ stage \in Sized
  BY DEF CopyTo, Sized
<1>2. /\ efi = Filled("boot", Len(efi)) /\ table[1].first = BootFirst /\ "boot" \in Kinds
      /\ copied \in Nat /\ image \in Seq(Content)
  BY <1>1 DEF IInv, FilesOK, MaterialOK, TableOK, Tabled, BootPartition, Kinds
<1>3. CASE /\ copied < Len(efi) /\ copied' = copied + 1 /\ stage' = stage
           /\ image' = Written(image, table[1].first + copied, <<efi[copied + 1]>>)
  <2> DEFINE n == Len(efi)
  <2>1. n \in Nat /\ BootFirst \in Nat
    BY <1>1, Numbers
  <2>2. image' = Written(image, BootFirst + copied, <<Filled("boot", n)[copied + 1]>>) /\ copied < n
    BY <1>2, <1>3
  <2>3. /\ image' \in Seq(Content) /\ Len(image') = Len(image)
        /\ \A i \in 1 .. Len(image) :
              image'[i] = IF i - BootFirst = copied + 1 THEN <<"boot", build, i - BootFirst>> ELSE image[i]
    <3> HIDE DEF n
    <3> QED BY <1>2, <2>1, <2>2, BlockIs, Zenon
  <2>4. ASSUME NEW i \in 1 .. Len(image) PROVE Laid(i)'
    <3>1. Laid(i)
      BY <1>1 DEF IInv, LayoutOK
    <3>2. i - BootFirst = copied + 1 => i - BootFirst \in 1 .. Len(efi)
      BY <1>2, <1>3, <2>1
    <3>3. i - BootFirst \in Int
      BY <2>1
    <3>4. CASE i - BootFirst \in 1 .. Len(efi)
      <4>1. (i - BootFirst <= copied + 1) <=> (i - BootFirst <= copied \/ i - BootFirst = copied + 1)
        BY <1>2, <3>3
      <4> QED
        BY <4>1, <1>1, <1>2, <1>3, <2>3, <3>1, <3>2, <3>3, <3>4, Apart DEF Laid, Booted
    <3>5. CASE i - DataFirst(Len(efi)) \in 1 .. DATA_PARTITION_LBAS
      BY <1>1, <1>2, <1>3, <2>3, <3>1, <3>2, <3>3, <3>5, Apart, Zenon DEF Laid, Booted
    <3>6. CASE /\ i - BootFirst \notin 1 .. Len(efi)
               /\ i - DataFirst(Len(efi)) \notin 1 .. DATA_PARTITION_LBAS
      BY <1>1, <1>2, <1>3, <2>3, <3>1, <3>2, <3>3, <3>6, Zenon DEF Laid, Booted
    <3> QED
      BY <3>4, <3>5, <3>6
  <2>5. TableOK'
    BY <1>1, <1>3 DEF IInv, TableOK, Tabled
  <2>6. copied' \in Nat /\ stage' \in Sized
    BY <1>1, <1>2, <1>3
  <2> QED
    BY <1>1, <2>3, <2>4, <2>5, <2>6, WritingKeeps
<1>4. CASE copied >= Len(efi) /\ copied' = 0 /\ stage' = "copy" /\ image' = image
  <2>1. ASSUME NEW i \in 1 .. Len(image) PROVE Laid(i)'
    <3>1. Laid(i)
      BY <1>1 DEF IInv, LayoutOK
    <3>2. i - BootFirst \in 1 .. Len(efi) => i - BootFirst <= copied
      BY <1>1, <1>2, <1>4, Numbers
    <3>3. i - DataFirst(Len(efi)) \in 1 .. DATA_PARTITION_LBAS => ~(i - DataFirst(Len(efi)) <= 0)
      BY <1>1, Numbers
    <3> QED
      BY <1>1, <1>4, <3>1, <3>2, <3>3 DEF Laid, Booted
  <2>2. TableOK' /\ stage' \in Sized
    BY <1>1, <1>4 DEF IInv, TableOK, Tabled, Sized
  <2> QED
    BY <1>1, <1>2, <1>4, <2>1, <2>2, WritingKeeps
<1> QED
  BY <1>1, <1>3, <1>4 DEF CopyTo

\* The data volume, block by block.
LEMMA CopyDataKeeps == ASSUME IInv, copy_data_partition PROVE IInv'
<1> DEFINE n == DATA_PARTITION_LBAS
           first == DataFirst(Len(efi))
<1>1. /\ stage = "copy" /\ build' = build /\ volume' = volume /\ efi' = efi /\ table' = table
      /\ stage \in Sized
  BY DEF copy_data_partition, CopyTo, Sized
<1>2. /\ volume = Filled("data", n) /\ table[2].first = first /\ "data" \in Kinds
      /\ copied \in Nat /\ image \in Seq(Content) /\ build \in Nat
  BY <1>1 DEF IInv, FilesOK, MaterialOK, TableOK, Tabled, DataPartition, Kinds
<1>3. n \in Nat /\ first \in Nat
  BY <1>1, Numbers
<1>4. Len(volume) = n
  BY <1>2, <1>3, FilledIs
<1>5. CASE /\ copied < Len(volume) /\ copied' = copied + 1 /\ stage' = stage
           /\ image' = Written(image, table[2].first + copied, <<volume[copied + 1]>>)
  <2>1. image' = Written(image, first + copied, <<Filled("data", n)[copied + 1]>>) /\ copied < n
    BY <1>2, <1>4, <1>5
  <2>2. /\ image' \in Seq(Content) /\ Len(image') = Len(image)
        /\ \A i \in 1 .. Len(image) :
              image'[i] = IF i - first = copied + 1 THEN <<"data", build, i - first>> ELSE image[i]
    <3> HIDE DEF n, first
    <3> QED BY <1>2, <1>3, <2>1, BlockIs
  <2>3. ASSUME NEW i \in 1 .. Len(image) PROVE Laid(i)'
    <3>1. Laid(i)
      BY <1>1 DEF IInv, LayoutOK
    <3>2. i - first \in Int /\ (i - first = copied + 1 => i - first \in 1 .. n)
      BY <1>2, <1>3, <1>4, <1>5
    <3>4. CASE i - BootFirst \in 1 .. Len(efi)
      BY <1>1, <1>2, <1>5, <2>2, <3>1, <3>2, <3>4, Apart, Zenon DEF Laid, Booted
    <3>5. CASE i - DataFirst(Len(efi)) \in 1 .. DATA_PARTITION_LBAS
      <4>1. /\ i # 1 /\ i - 1 \notin 1 .. GPT_LBAS /\ i - BootFirst \notin 1 .. Len(efi)
            /\ i - (Len(image) - GPT_LBAS) \notin 1 .. GPT_LBAS
        BY <1>1, <3>5, Apart
      <4>2. image[i] = IF i - first <= copied THEN <<"data", build, i - first>> ELSE Zero
        BY <1>1, <3>1, <3>5 DEF Laid
      <4>3. image'[i] = IF i - first <= copied + 1 THEN <<"data", build, i - first>> ELSE Zero
        BY <1>2, <2>2, <3>2, <4>2
      <4>4. /\ stage' = "copy" /\ copied' = copied + 1 /\ efi' = efi /\ build' = build
            /\ Len(image') = Len(image) /\ DataFirst(Len(efi))' = first
        BY <1>1, <1>5, <2>2, Zenon
      <4> HIDE DEF first
      <4> QED
        BY <3>5, <4>1, <4>3, <4>4 DEF Laid, first
    <3>6. CASE /\ i - BootFirst \notin 1 .. Len(efi)
               /\ i - DataFirst(Len(efi)) \notin 1 .. DATA_PARTITION_LBAS
      BY <1>1, <1>2, <1>5, <2>2, <3>1, <3>2, <3>6, Zenon DEF Laid, Booted
    <3> QED
      BY <3>4, <3>5, <3>6
  <2>4. TableOK' /\ copied' \in Nat /\ stage' \in Sized
    BY <1>1, <1>2, <1>5 DEF IInv, TableOK, Tabled
  <2> QED
    BY <1>1, <2>2, <2>3, <2>4, WritingKeeps
<1>6. CASE copied >= Len(volume) /\ copied' = 0 /\ stage' = "done" /\ image' = image
  <2>1. ASSUME NEW i \in 1 .. Len(image) PROVE Laid(i)'
    <3>1. Laid(i)
      BY <1>1 DEF IInv, LayoutOK
    <3>2. i - first \in 1 .. n => i - first <= copied
      BY <1>2, <1>3, <1>4, <1>6
    <3> QED
      BY <1>1, <1>6, <3>1, <3>2 DEF Laid, Booted
  <2>2. TableOK' /\ stage' \in Sized
    BY <1>1, <1>6 DEF IInv, TableOK, Tabled, Sized
  <2> QED
    BY <1>1, <1>2, <1>6, <2>1, <2>2, WritingKeeps
<1> QED
  BY <1>1, <1>5, <1>6 DEF copy_data_partition, CopyTo

(***************************************************************************)
(* The theorems.                                                           *)
(***************************************************************************)

\* Before the first build there are no files.
LEMMA ImageInitOK == ASSUME ImageInit PROVE IInv
  BY DEF ImageInit, IInv, FilesOK, MaterialOK, TableOK, LayoutOK, ImageIsOfOneBuild, Stages, Sized, Tabled

\* Every step of a build, its failure and its repetition keep the invariant.
LEMMA ImageNextOK == ASSUME IInv, [ImageNext]_imageVars PROVE IInv'
<1>1. CASE ImageNext
  BY <1>1, FailKeeps, BuildAgainKeeps, VolumeKeeps, ExtractKeeps, OpenKeeps, SetLenKeeps, WriteMbrKeeps,
     AddKeeps, WriteTableKeeps, WriteBootKeeps, CopyDataKeeps
     DEF ImageNext, assemble_two_partition_image
<1>2. CASE UNCHANGED imageVars
  <2>1. /\ build' = build /\ stage' = stage /\ volume' = volume /\ efi' = efi /\ image' = image
        /\ table' = table /\ copied' = copied
    BY <1>2 DEF imageVars
  <2>2. FilesOK' /\ MaterialOK' /\ TableOK' /\ ImageIsOfOneBuild'
    BY <2>1 DEF IInv, FilesOK, MaterialOK, TableOK, ImageIsOfOneBuild, Filled
  <2>3. \A i \in 1 .. Len(image) : Laid(i) => Laid(i)'
    BY <2>1 DEF Laid
  <2>4. LayoutOK'
    BY <2>1, <2>3 DEF IInv, LayoutOK
  <2> QED
    BY <2>2, <2>4 DEF IInv
<1> QED
  BY <1>1, <1>2

\* The invariant holds in every state of every sequence of builds.
THEOREM ImageInvariance == ImageSpec => []IInv
  BY ImageInitOK, ImageNextOK, PTL DEF ImageSpec

\* There is a place for the partition that comes next.
LEMMA PlacesAreLeft == ASSUME IInv PROVE RoomForBoth
<1>1. ASSUME stage = "sol-boot" PROVE Places(table, Len(image), Len(efi)) # {}
  BY <1>1, BootPlace DEF IInv, TableOK, LayoutOK, MaterialOK, Sized
<1>2. ASSUME stage = "sol-data" PROVE Places(table, Len(image), DATA_PARTITION_LBAS) # {}
  BY <1>2, DataPlace DEF IInv, TableOK, LayoutOK, MaterialOK, Sized
<1> QED
  BY <1>1, <1>2 DEF RoomForBoth

\* disk_size leaves room for both partitions whatever the size of the EFI
\* partition and the alignment are: add_partition never fails.
THEOREM PartitionsFit == ImageSpec => []RoomForBoth
  BY PlacesAreLeft, ImageInvariance, PTL

\* At the end every block is laid.
LEMMA DoneIsWhole == ASSUME IInv PROVE BuiltImageIsWhole
<1> SUFFICES ASSUME stage = "done", NEW i \in DOMAIN image PROVE image[i] = Belongs(i)
  BY DEF BuiltImageIsWhole
<1>1. i \in 1 .. Len(image) /\ stage \in Sized
  BY DEF IInv, FilesOK, Sized
<1>2. Laid(i)
  BY <1>1 DEF IInv, LayoutOK
<1>3. table[1].first = BootFirst /\ table[2].first = DataFirst(Len(efi))
  BY DEF IInv, TableOK, Tabled, BootPartition, DataPartition
<1> QED
  BY <1>1, <1>2, <1>3, Apart DEF Laid, Booted, Belongs

\* A build that succeeds leaves both tables, the EFI partition and the data
\* volume where the table says, whole, and zeros everywhere else.
THEOREM FinishedImageIsWhole == ImageSpec => []BuiltImageIsWhole
  BY DoneIsWhole, ImageInvariance, PTL

\* However builds end and follow each other, OpenOptions::truncate keeps what
\* earlier ones wrote out of the image.
THEOREM NothingOfAnEarlierBuild == ImageSpec => []ImageIsOfOneBuild
  BY ImageInvariance, PTL DEF IInv

-----------------------------------------------------------------------------

(***************************************************************************)
(*                               The loader                                *)
(***************************************************************************)

(***************************************************************************)
(* Names.                                                                  *)
(***************************************************************************)

\* What TLC can evaluate of a sequence makes it one.
LEMMA SequenceOf ==
    ASSUME NEW s, IsSequence(s)
    PROVE  \E S : s \in Seq(S)
<1> DEFINE S == {s[i] : i \in 1 .. Len(s)}
           n == Len(s)
           f == [i \in 1 .. n |-> s[i]]
<1>1. n \in Nat /\ s = f
  BY DEF IsSequence
<1>2. f \in [1 .. n -> S]
  OBVIOUS
<1>3. f \in Seq(S)
  <2> HIDE DEF S, n, f
  <2> QED BY <1>1, <1>2
<1> QED
  BY <1>1, <1>3

\* A set of positions that is not empty has a first one.
LEMMA FirstPosition ==
    ASSUME NEW T, T \subseteq Nat, T # {}
    PROVE  \E i \in T : \A j \in T : i <= j
<1>1. IsWellFoundedOn(OpToRel(<, Nat), Nat)
  BY NatLessThanWellFounded
<1>2. PICK i \in T : \A j \in T : ~ (<<j, i>> \in OpToRel(<, Nat))
  BY <1>1, WFMin
<1>3. \A j \in T : ~ (j < i)
  BY <1>2 DEF OpToRel
<1> QED
  BY <1>3

\* Comparing characters and the Nul behind them, as the loader does, is
\* comparing names, as the GPT means them.
LEMMA NamesCompared ==
    ASSUME NEW entry, IsSequence(entry.name), Len(entry.name) > Len(SOL_DATA_PARTITION_NAME)
    PROVE  is_sol_data_partition_entry(entry) <=>
               entry.type = SOL_DATA_PARTITION_TYPE /\ NameOf(entry) = SOL_DATA_PARTITION_NAME
<1> DEFINE name == entry.name
           sol == SOL_DATA_PARTITION_NAME
           ends == {i \in DOMAIN name : name[i] = Nul}
           end == IF ends = {} THEN Len(name) + 1 ELSE CHOOSE i \in ends : \A j \in ends : i <= j
<1>1. NameOf(entry) = SubSeq(name, 1, end - 1)
  BY DEF NameOf
<1>2. PICK S : name \in Seq(S)
  BY SequenceOf
<1>3. PICK R : sol \in Seq(R)
  BY SequenceOf, LoaderAssumption
<1>4. \A i \in 1 .. Len(sol) : sol[i] # Nul
  BY <1>3, LoaderAssumption
<1>5. Len(name) > Len(sol) /\ Len(name) \in Nat /\ Len(sol) \in Nat
      /\ DOMAIN name = 1 .. Len(name) /\ DOMAIN sol = 1 .. Len(sol)
  BY <1>2, <1>3
<1>6. is_sol_data_partition_entry(entry) <=>
          /\ entry.type = SOL_DATA_PARTITION_TYPE
          /\ \A i \in 1 .. Len(sol) : name[i] = sol[i]
          /\ name[Len(sol) + 1] = Nul
  BY <1>5 DEF is_sol_data_partition_entry
<1>7. ends # {} => end \in ends /\ \A j \in ends : end <= j
  <2> SUFFICES ASSUME ends # {} PROVE end \in ends /\ \A j \in ends : end <= j
    OBVIOUS
  <2>1. ends \subseteq Nat
    BY <1>5
  <2>2. \E i \in ends : \A j \in ends : i <= j
    <3> HIDE DEF ends
    <3> QED BY <2>1, FirstPosition
  <2> HIDE DEF ends
  <2> QED BY <2>2
<1>8. end \in 1 .. Len(name) + 1
  BY <1>5, <1>7
<1>9. /\ Len(SubSeq(name, 1, end - 1)) = end - 1
      /\ \A i \in 1 .. end - 1 : SubSeq(name, 1, end - 1)[i] = name[i]
      /\ SubSeq(name, 1, end - 1) \in Seq(S)
  <2> HIDE DEF end
  <2> QED BY <1>2, <1>5, <1>8
<1>10. ASSUME \A i \in 1 .. Len(sol) : name[i] = sol[i], name[Len(sol) + 1] = Nul
       PROVE  SubSeq(name, 1, end - 1) = sol
  <2>1. Len(sol) + 1 \in ends
    BY <1>5, <1>10
  <2>2. \A j \in ends : j \in 1 .. Len(name) /\ ~ (j <= Len(sol))
    BY <1>4, <1>5, <1>10
  <2>3. end = Len(sol) + 1
    <3> HIDE DEF ends, end
    <3> QED BY <1>5, <1>7, <2>1, <2>2, <1>8
  <2> HIDE DEF ends, end
  <2> DEFINE cut == SubSeq(name, 1, end - 1)
  <2>4. Len(cut) = Len(sol) /\ \A i \in 1 .. Len(cut) : cut[i] = sol[i]
    BY <1>5, <1>9, <1>10, <2>3
  <2>5. cut \in Seq(S \cup R) /\ sol \in Seq(S \cup R)
    BY <1>3, <1>9
  <2> HIDE DEF cut
  <2>6. cut = sol
    BY <2>4, <2>5, SameSequence
  <2> QED
    BY <2>6 DEF cut
<1>11. ASSUME SubSeq(name, 1, end - 1) = sol
       PROVE  (\A i \in 1 .. Len(sol) : name[i] = sol[i]) /\ name[Len(sol) + 1] = Nul
  <2>1. end - 1 = Len(sol) /\ \A i \in 1 .. Len(sol) : name[i] = sol[i]
    <3> HIDE DEF end
    <3> QED BY <1>9, <1>11
  <2>2. end = Len(sol) + 1
    <3> HIDE DEF end
    <3> QED BY <1>5, <1>8, <2>1
  <2>3. ends # {}
    BY <1>5, <2>2
  <2>4. name[end] = Nul
    BY <1>7, <2>3
  <2> HIDE DEF end
  <2> QED
    BY <2>1, <2>2, <2>4
<1> HIDE DEF end
<1>12. SubSeq(name, 1, end - 1) = sol <=>
           (\A i \in 1 .. Len(sol) : name[i] = sol[i]) /\ name[Len(sol) + 1] = Nul
  BY <1>10, <1>11
<1> QED
  BY <1>1, <1>6, <1>12

(***************************************************************************)
(* Chunks.                                                                 *)
(***************************************************************************)

\* Block b is in chunk k if and only if it lies between its ends.
LEMMA BlocksOfChunk ==
    ASSUME NEW c \in Nat \ {0}, NEW b \in Nat, NEW k \in Nat
    PROVE  /\ k * c \in Nat /\ (k + 1) * c = k * c + c
           /\ b \div c = k <=> k * c <= b /\ b < k * c + c
<1> DEFINE q == b \div c
<1>1. q \in Nat /\ b = c * q + (b % c) /\ b % c \in 0 .. c - 1
  OBVIOUS
<1> HIDE DEF q
<1>2. k * c \in Nat /\ (k + 1) * c = k * c + c /\ c * q \in Nat /\ k * c = c * k
  BY <1>1
<1>3. ASSUME NEW m \in Nat, NEW n \in Nat, m < n PROVE c * m + c <= c * n
  <2> DEFINE d == n - (m + 1)
  <2>1. d \in Nat /\ n = m + 1 + d
    BY <1>3
  <2> HIDE DEF d
  <2>2. c * n = c * m + c + c * d /\ c * d \in Nat /\ c * m \in Nat
    BY <2>1
  <2> QED
    BY <2>2
<1>4. CASE q = k
  BY <1>1, <1>2, <1>4 DEF q
<1>5. CASE q < k
  <2>1. c * q + c <= c * k
    BY <1>1, <1>3, <1>5
  <2>2. b < k * c
    BY <1>1, <1>2, <2>1
  <2> QED
    BY <1>1, <1>2, <1>5, <2>2 DEF q
<1>6. CASE k < q
  <2>1. c * k + c <= c * q
    BY <1>1, <1>3, <1>6
  <2>2. ~ (b < k * c + c)
    BY <1>1, <1>2, <2>1
  <2> QED
    BY <1>1, <1>2, <1>6, <2>2 DEF q
<1> QED
  BY <1>1, <1>4, <1>5, <1>6

(***************************************************************************)
(* The inductive invariant.                                                *)
(***************************************************************************)
\* What a machine is in Machines, and with a stick in it.
Listed(m) ==
    /\ IsSequence(m.handles)
    /\ \A h \in 1 .. Len(m.handles) :
          /\ IsSequence(m.handles[h].entry.name)
          /\ Len(m.handles[h].entry.name) > Len(SOL_DATA_PARTITION_NAME)

\* Every machine's firmware lists handles with whole names.
LEMMA MachinesAreListed == \A m \in Machines : Listed(m)
  BY MachineAssumption DEF Listed

Matches(h) == machine.handles[h].opens /\ is_sol_data_partition_entry(machine.handles[h].entry)

Positions ==
    /\ Listed(machine)
    /\ handle \in 1 .. Len(machine.handles) + 1 /\ index \in Nat
    /\ pc \notin {"read", "exit", "kernel_main"} => index = 0
    /\ pc \notin {"exit", "kernel_main"} => ramdisk = <<>>

\* The handles behind the loader are none it looks for.
Skipped == \A g \in 1 .. handle - 1 : ~ Matches(g)

\* The chunks behind the loader are those of the partition.
Reading ==
    pc = "read" =>
        /\ handle <= Len(machine.handles) /\ Matches(handle) /\ Supported(Partition.media)
        /\ data = [b \in 0 .. SOL_DATA_BLOCKS - 1 |-> data[b]]
        /\ \A b \in 0 .. SOL_DATA_BLOCKS - 1 :
              b < index * CHUNK_BLOCKS => data[b] = Partition.content[b]

\* What the loader leaves with.
Leaving ==
    pc \in {"exit", "kernel_main"} =>
        /\ ramdisk # <<>> =>
              /\ handle <= Len(machine.handles) /\ Matches(handle) /\ Supported(Partition.media)
              /\ ramdisk[1].from = Partition
              /\ ramdisk[1].data = [b \in 0 .. SOL_DATA_BLOCKS - 1 |-> Partition.content[b]]
        /\ ramdisk = <<>> /\ boot_mode = "Disk" =>
              \/ handle = Len(machine.handles) + 1
              \/ /\ Matches(handle)
                 /\ \/ ~ Partition.block_io \/ ~ Supported(Partition.media)
                    \/ ~ machine.memory \/ Partition.bad # {}

LInv == Positions /\ Skipped /\ Reading /\ Leaving

\* The list of handles has a length.
LEMMA HandlesAreListed ==
    ASSUME LInv
    PROVE  /\ Len(machine.handles) \in Nat /\ DOMAIN machine.handles = 1 .. Len(machine.handles)
           /\ handle \in Nat \ {0}
<1>1. Listed(machine) /\ handle \in 1 .. Len(machine.handles) + 1
  BY DEF LInv, Positions
<1>2. IsSequence(machine.handles)
  BY <1>1 DEF Listed
<1>3. PICK S : machine.handles \in Seq(S)
  BY <1>2, SequenceOf
<1> QED
  BY <1>1, <1>3

\* The loader starts before the first handle.
LEMMA StartsBefore == ASSUME Init PROVE LInv
<1>1. Listed(machine)
  BY MachinesAreListed DEF Init
<1>2. IsSequence(machine.handles)
  BY <1>1 DEF Listed
<1>3. PICK S : machine.handles \in Seq(S)
  BY <1>2, SequenceOf
<1>4. Len(machine.handles) \in Nat
  BY <1>3
<1> QED
  BY <1>1, <1>4 DEF Init, LInv, Positions, Skipped, Reading, Leaving

\* The steps before the search touch nothing of it; without a boot device
\* there is none.
LEMMA LoadingKeeps ==
    ASSUME LInv, load_kernel \/ load_config_file \/ load_sol_data_partition PROVE LInv'
  BY DEF LInv, Positions, Skipped, Reading, Leaving, Matches, Partition,
         load_kernel, load_config_file, load_sol_data_partition, GiveUp

\* A round of the search.
LEMMA SearchKeeps == ASSUME LInv, Search PROVE LInv'
<1>1. /\ pc = "search" /\ machine' = machine /\ boot_mode' = boot_mode /\ index = 0 /\ ramdisk = <<>>
      /\ index' = index /\ ramdisk' = ramdisk
  BY DEF Search, GiveUp, LInv, Positions
<1>2. CASE handle > Len(machine.handles) /\ GiveUp
  <2>1. handle = Len(machine.handles) + 1
    BY <1>2, HandlesAreListed DEF LInv, Positions
  <2> QED
    BY <1>1, <1>2, <2>1 DEF GiveUp, LInv, Positions, Skipped, Reading, Leaving, Matches, Partition
<1>3. CASE /\ handle <= Len(machine.handles) /\ ~ Matches(handle)
           /\ handle' = handle + 1 /\ pc' = pc /\ data' = data
  <2>1. handle' \in 1 .. Len(machine.handles) + 1
    BY <1>3, HandlesAreListed
  <2>2. \A g \in 1 .. handle' - 1 : g \in 1 .. handle - 1 \/ g = handle
    BY <1>3, HandlesAreListed
  <2>3. Skipped'
    BY <1>1, <1>3, <2>2 DEF LInv, Skipped, Matches
  <2> QED
    BY <1>1, <1>3, <2>1, <2>3 DEF LInv, Positions, Reading, Leaving
<1>4. CASE /\ handle <= Len(machine.handles) /\ Matches(handle) /\ Supported(Partition.media)
           /\ data' = [b \in 0 .. SOL_DATA_BLOCKS - 1 |-> Unread]
           /\ pc' = "read" /\ handle' = handle
  <2>1. index * CHUNK_BLOCKS = 0
    BY <1>1, LoaderAssumption
  <2>2. \A b \in 0 .. SOL_DATA_BLOCKS - 1 : ~ (b < 0)
    BY LoaderAssumption
  <2>3. Reading'
    BY <1>1, <1>4, <2>1, <2>2 DEF Reading, Matches, Partition
  <2> QED
    BY <1>1, <1>4, <2>3 DEF LInv, Positions, Skipped, Leaving, Matches
<1>5. CASE /\ handle <= Len(machine.handles) /\ Matches(handle) /\ GiveUp
           /\ ~ (Partition.block_io /\ Supported(Partition.media) /\ machine.memory)
  BY <1>1, <1>5 DEF GiveUp, LInv, Positions, Skipped, Reading, Leaving, Matches, Partition, Supported
<1> QED
  BY <1>2, <1>3, <1>4, <1>5 DEF Search, Matches, Partition

\* A chunk is read, or the read fails and the loader gives up.
LEMMA ReadChunkKeeps == ASSUME LInv, ReadChunk PROVE LInv'
<1> DEFINE N == SOL_DATA_BLOCKS
           C == CHUNK_BLOCKS
           Source(b) == Lba(index) + (b - index * CHUNK_BLOCKS)
<1>1. /\ pc = "read" /\ machine' = machine /\ boot_mode' = boot_mode /\ handle' = handle /\ ramdisk' = ramdisk
      /\ handle <= Len(machine.handles) /\ Matches(handle) /\ Supported(Partition.media) /\ index \in Nat
      /\ data = [b \in 0 .. N - 1 |-> data[b]]
  BY DEF ReadChunk, GiveUp, LInv, Positions, Reading
<1>2. C \in Nat \ {0} /\ N \in Nat \ {0}
  BY LoaderAssumption
<1>3. CASE (\E b \in Chunk(index) : Source(b) \in Partition.bad) /\ GiveUp
  BY <1>1, <1>3 DEF GiveUp, LInv, Positions, Skipped, Reading, Leaving, Matches, Partition
<1>4. CASE /\ data' = [b \in DOMAIN data |-> IF b \in Chunk(index) THEN Partition.content[Source(b)] ELSE data[b]]
           /\ index' = index + 1 /\ pc' = pc
  <2>1. DOMAIN data = 0 .. N - 1
    <3>1. DOMAIN [b \in 0 .. N - 1 |-> data[b]] = 0 .. N - 1
      OBVIOUS
    <3> QED
      BY <1>1, <3>1
  <2>2. index * C \in Nat /\ (index + 1) * C = index * C + C
    BY <1>1, <1>2, BlocksOfChunk
  <2>3. \A b \in 0 .. N - 1 : Source(b) = b
    BY <1>1, <1>2, <2>2 DEF Lba
  <2>4. \A b \in 0 .. N - 1 : b \in Chunk(index) <=> index * C <= b /\ b < index * C + C
    BY <1>1, <1>2, <2>1, BlocksOfChunk DEF Chunk
  <2>5. /\ DOMAIN data' = 0 .. N - 1 /\ data' = [b \in 0 .. N - 1 |-> data'[b]]
        /\ \A b \in 0 .. N - 1 : data'[b] = IF b \in Chunk(index) THEN Partition.content[b] ELSE data[b]
    BY <1>4, <2>1, <2>3
  <2>6. ASSUME NEW b \in 0 .. N - 1, b < index' * C PROVE data'[b] = Partition.content[b]
    <3>1. b < index * C + C
      BY <1>4, <2>2, <2>6
    <3>2. CASE b \in Chunk(index)
      BY <2>5, <3>2
    <3>3. CASE b \notin Chunk(index)
      <4>1. b < index * C
        BY <2>2, <2>4, <3>1, <3>3
      <4> QED
        BY <1>1, <2>5, <3>3, <4>1 DEF LInv, Reading
    <3> QED
      BY <3>2, <3>3
  <2>7. Reading'
    BY <1>1, <1>4, <2>5, <2>6 DEF Reading, Matches, Partition
  <2> QED
    BY <1>1, <1>4, <2>7 DEF LInv, Positions, Skipped, Leaving, Matches
<1> QED
  BY <1>1, <1>3, <1>4 DEF ReadChunk

\* The loop over the chunks ends when all of the volume has been read.
LEMMA ReadEndKeeps == ASSUME LInv, ReadEnd PROVE LInv'
<1> DEFINE N == SOL_DATA_BLOCKS
           C == CHUNK_BLOCKS
<1>1. /\ pc = "read" /\ machine' = machine /\ boot_mode' = boot_mode /\ handle' = handle
      /\ data' = data /\ index' = index /\ pc' = "exit"
      /\ ramdisk' = <<[data |-> data, from |-> Partition]>> /\ Chunk(index) = {}
      /\ handle <= Len(machine.handles) /\ Matches(handle) /\ Supported(Partition.media) /\ index \in Nat
      /\ data = [b \in 0 .. N - 1 |-> data[b]]
  BY DEF ReadEnd, LInv, Positions, Reading
<1>2. C \in Nat \ {0} /\ N \in Nat \ {0}
  BY LoaderAssumption
<1>3. index * C \in Nat
  BY <1>1, <1>2, BlocksOfChunk
<1>4. DOMAIN data = 0 .. N - 1
  <2>1. DOMAIN [b \in 0 .. N - 1 |-> data[b]] = 0 .. N - 1
    OBVIOUS
  <2> QED
    BY <1>1, <2>1
<1>5. N <= index * C
  <2> SUFFICES ASSUME index * C < N PROVE FALSE
    BY <1>2, <1>3
  <2> DEFINE b == index * C
  <2>1. b \in 0 .. N - 1
    BY <1>2, <1>3
  <2>2. b \div C = index
    <3>1. b \in Nat /\ index * C <= b /\ b < index * C + C
      BY <1>2, <1>3
    <3> HIDE DEF b
    <3> QED BY <1>1, <1>2, <3>1, BlocksOfChunk
  <2> HIDE DEF b
  <2> QED
    BY <1>1, <1>4, <2>1, <2>2 DEF Chunk
<1>6. \A b \in 0 .. N - 1 : data[b] = Partition.content[b]
  <2>1. \A b \in 0 .. N - 1 : b < index * C
    BY <1>2, <1>3, <1>5
  <2> QED
    BY <1>1, <2>1 DEF LInv, Reading
<1>7. data = [b \in 0 .. N - 1 |-> Partition.content[b]]
  BY <1>1, <1>6
<1>8. ramdisk' # <<>> /\ ramdisk'[1].from = Partition /\ ramdisk'[1].data = data
  BY <1>1, Zenon
<1>9. Leaving'
  BY <1>1, <1>7, <1>8, Zenon DEF Leaving, Matches, Partition
<1> QED
  BY <1>1, <1>9 DEF LInv, Positions, Skipped, Reading, Matches

\* The kernel is entered with what the loader leaves with.
LEMMA EnterKeeps == ASSUME LInv, Enter PROVE LInv'
  BY DEF LInv, Positions, Skipped, Reading, Leaving, Matches, Partition, Enter

(***************************************************************************)
(* The theorems.                                                           *)
(***************************************************************************)

\* Every step of the loader keeps the invariant.
LEMMA LoaderStepOK == ASSUME LInv, [Next]_vars PROVE LInv'
<1>1. CASE Next
  BY <1>1, LoadingKeeps, SearchKeeps, ReadChunkKeeps, ReadEndKeeps, EnterKeeps, Zenon DEF Next
<1>2. CASE UNCHANGED vars
  BY <1>2 DEF vars, LInv, Positions, Skipped, Reading, Leaving, Matches, Partition
<1> QED
  BY <1>1, <1>2

\* The invariant holds in every state of the loader, on every machine.
THEOREM LoaderInvariance == Spec => []LInv
  BY LoaderStepOK, StartsBefore, PTL DEF Spec

\* What the loader takes for sol-data is what the GPT calls so.
LEMMA MatchIsSolData ==
    ASSUME Listed(machine), NEW h \in 1 .. Len(machine.handles)
    PROVE  Matches(h) <=> IsSolData(machine.handles[h])
<1>1. /\ IsSequence(machine.handles[h].entry.name)
      /\ Len(machine.handles[h].entry.name) > Len(SOL_DATA_PARTITION_NAME)
  BY DEF Listed
<1> QED
  BY <1>1, NamesCompared DEF Matches, IsSolData

\* The loader leaves with a whole partition, or with none.
LEMMA LeavesWhole == ASSUME LInv PROVE SnapshotIsThePartition
<1> SUFFICES ASSUME pc = "kernel_main", ramdisk # <<>>
             PROVE  /\ IsSolData(ramdisk[1].from)
                    /\ ramdisk[1].data = [b \in 0 .. SOL_DATA_BLOCKS - 1 |-> ramdisk[1].from.content[b]]
  BY DEF SnapshotIsThePartition
<1>1. /\ handle <= Len(machine.handles) /\ Matches(handle) /\ ramdisk[1].from = Partition
      /\ ramdisk[1].data = [b \in 0 .. SOL_DATA_BLOCKS - 1 |-> Partition.content[b]]
  BY DEF LInv, Leaving
<1>2. Listed(machine) /\ handle \in 1 .. Len(machine.handles)
  BY <1>1, HandlesAreListed DEF LInv, Positions
<1>3. IsSolData(Partition)
  BY <1>1, <1>2, MatchIsSolData, Zenon DEF Partition
<1> QED
  BY <1>1, <1>3

\* However large the volume and the chunks are, and wherever a read fails:
\* with a ramdisk the kernel gets every block of one partition in its place,
\* and that partition is called sol-data.
THEOREM WholePartitionOrNone == Spec => []SnapshotIsThePartition
  BY LeavesWhole, LoaderInvariance, PTL

\* It leaves without one because of the first.
LEMMA LeavesFirst == ASSUME LInv PROVE FirstSolDataDecides
<1> SUFFICES ASSUME pc = "kernel_main", ramdisk = <<>>, boot_mode = "Disk",
                    NEW h \in DOMAIN machine.handles, IsSolData(machine.handles[h]),
                    \A g \in 1 .. h - 1 : ~ IsSolData(machine.handles[g])
             PROVE  LET p == machine.handles[h]
                    IN ~ p.block_io \/ ~ Supported(p.media) \/ ~ machine.memory \/ p.bad # {}
  BY DEF FirstSolDataDecides
<1>1. /\ Listed(machine) /\ h \in 1 .. Len(machine.handles) /\ Len(machine.handles) \in Nat
      /\ handle \in 1 .. Len(machine.handles) + 1
  BY HandlesAreListed DEF LInv, Positions
<1>2. Matches(h)
  BY <1>1, MatchIsSolData
<1>3. handle <= h
  BY <1>1, <1>2 DEF LInv, Skipped
<1>4. Matches(handle)
  BY <1>1, <1>3 DEF LInv, Leaving
<1>5. handle = h
  <2>1. handle \in 1 .. Len(machine.handles)
    BY <1>1, <1>3
  <2>2. IsSolData(machine.handles[handle])
    BY <1>1, <1>4, <2>1, MatchIsSolData
  <2>3. ~ (handle \in 1 .. h - 1)
    BY <2>2
  <2> QED
    BY <1>1, <1>3, <2>3
<1> QED
  BY <1>1, <1>5, SMTT(30) DEF LInv, Leaving, Partition

\* The search takes the first partition called sol-data, however many
\* handles there are and whichever of them cannot be opened.
THEOREM FirstDecides == Spec => []FirstSolDataDecides
  BY LeavesFirst, LoaderInvariance, PTL

(***************************************************************************)
(*                                The stick                                *)
(***************************************************************************)

\* What an image with a table holds, whenever its build has ended: the
\* partitions are where the table says, and of build n if they are there.
Standing(size, n) ==
    /\ Len(image) = disk_size(size)
    /\ table = <<BootPartition(size), DataPartition(size)>>
    /\ \A i \in 1 .. Len(image) :
          /\ i - BootFirst \in 1 .. size => image[i] \in {Zero, <<"boot", n, i - BootFirst>>}
          /\ i - DataFirst(size) \in 1 .. DATA_PARTITION_LBAS =>
                /\ image[i] \in {Zero, <<"data", n, i - DataFirst(size)>>}
                /\ stage = "done" => image[i] # Zero

Builds == build \in 1 .. MaxBuilds

TableStands ==
    image # <<>> /\ image[2][1] = "gpt" => \E size \in BootSizes, n \in 1 .. build : Standing(size, n)

\* The stick is in the machine.
Plugged ==
    /\ stage \in {"done", "failed"} /\ Bootable
    /\ \E m \in Machines, first, second \in {1, 2} : machine = WithStick(m, first, second)

Before ==
    pc = "off" =>
        /\ boot_mode = "Disk" /\ handle = 1 /\ data = <<>> /\ index = 0 /\ ramdisk = <<>>

\* kernel_main comes as far as its expects are met.
Going ==
    /\ kernel # "take_framebuffer" => pc = "kernel_main"
    /\ kernel = NoRamdisk => ramdisk = <<>>

BInv ==
    /\ IInv /\ Builds /\ TableStands
    /\ Before
    /\ pc # "off" => Plugged /\ LInv
    /\ Going

\* In a laid out image with a table the partitions stand.
LEMMA LaidStands == IInv /\ Builds /\ stage \in Sized => TableStands
<1> SUFFICES ASSUME IInv, Builds, stage \in Sized, image # <<>>, image[2][1] = "gpt"
             PROVE  \E size \in BootSizes, n \in 1 .. build : Standing(size, n)
  BY DEF TableStands
<1>1. /\ Len(efi) \in BootSizes /\ Len(image) = disk_size(Len(efi)) /\ build \in 1 .. build
      /\ \A i \in 1 .. Len(image) : Laid(i)
  BY DEF IInv, MaterialOK, LayoutOK, Sized, Builds
<1>2. /\ Len(efi) \in Nat \ {0} /\ BootFirst \in Nat /\ DataFirst(Len(efi)) \in Nat /\ Len(image) \in Nat
      /\ GPT_LBAS \in Nat /\ GPT_LBAS < BootFirst
      /\ BootFirst + Len(efi) <= DataFirst(Len(efi))
      /\ DataFirst(Len(efi)) + DATA_PARTITION_LBAS + GPT_LBAS < Len(image)
  BY <1>1, Layout, LayoutAssumption
<1>3. 2 \in 1 .. Len(image)
  BY <1>2, LayoutAssumption
<1>4. stage \in Booted
  <2> SUFFICES ASSUME stage \notin Booted PROVE FALSE
    OBVIOUS
  <2>1. Laid(2)
    BY <1>1, <1>3
  <2>2. stage \in {"mbr", "sol-boot", "sol-data", "write_table"}
    BY DEF Sized, Booted
  <2>3. Zero[1] = "zero"
    BY DEF Zero
  <2>4. image[2] = Zero
    BY <2>1, <2>2 DEF Laid, Booted
  <2> QED
    BY <2>3, <2>4
<1>5. table = <<BootPartition(Len(efi)), DataPartition(Len(efi))>>
  BY <1>4 DEF IInv, TableOK, Booted, Tabled
<1>6. ASSUME NEW i \in 1 .. Len(image)
      PROVE  /\ i - BootFirst \in 1 .. Len(efi) => image[i] \in {Zero, <<"boot", build, i - BootFirst>>}
             /\ i - DataFirst(Len(efi)) \in 1 .. DATA_PARTITION_LBAS =>
                   /\ image[i] \in {Zero, <<"data", build, i - DataFirst(Len(efi))>>}
                   /\ stage = "done" => image[i] # Zero
  <2>1. Laid(i)
    BY <1>1
  <2>2. \A k : <<"data", build, k>> # Zero
    BY DEF Zero
  <2> QED
    BY <2>1, <2>2 DEF Laid
<1>7. Standing(Len(efi), build)
  BY <1>1, <1>5, <1>6 DEF Standing
<1> QED
  BY <1>1, <1>7

\* An image stands until the next build opens it.
LEMMA ImageStepOK == ASSUME IInv, Builds, TableStands, [ImageNext]_imageVars PROVE IInv' /\ Builds' /\ TableStands'
<1>1. IInv'
  BY ImageNextOK, Zenon
<1>2. Builds' /\ build <= build'
  BY LayoutAssumption, SMTT(30)
     DEF Builds, ImageNext, imageVars, build_data_volume, extract_efi_partition, assemble_two_partition_image,
         OpenImage, SetLen, WriteMbr, add_partition, WriteTable, CopyTo, copy_data_partition, Fail, BuildAgain
<1>3. CASE stage' \in Sized
  <2>1. (IInv /\ Builds /\ stage \in Sized => TableStands)'
    BY LaidStands, PTL
  <2> QED
    BY <1>1, <1>2, <1>3, <2>1
<1>4. CASE stage' \notin Sized /\ image' = <<>>
  BY <1>1, <1>2, <1>4 DEF TableStands
<1>5. CASE image' = image /\ table' = table /\ (stage' = "done" => stage = "done")
  <2>1. \A size, n : Standing(size, n) => Standing(size, n)'
    BY <1>5 DEF Standing
  <2>2. 1 .. build \subseteq 1 .. build'
    BY <1>2 DEF Builds
  <2> QED
    BY <1>1, <1>2, <1>5, <2>1, <2>2 DEF TableStands
<1>6. stage' \in Sized \/ (stage' \notin Sized /\ image' = <<>>)
      \/ (image' = image /\ table' = table /\ (stage' = "done" => stage = "done"))
  BY DEF ImageNext, imageVars, build_data_volume, extract_efi_partition, assemble_two_partition_image, Sized,
         OpenImage, SetLen, WriteMbr, add_partition, WriteTable, CopyTo, copy_data_partition, Fail, BuildAgain
<1> QED
  BY <1>3, <1>4, <1>5, <1>6

\* A list with two more in front or behind.
Longer(t, s, a, b) ==
    /\ \E T : t \in Seq(T)
    /\ Len(t) = Len(s) + 2
    /\ \A h \in 1 .. Len(t) : t[h] \in {a, b} \/ \E g \in 1 .. Len(s) : t[h] = s[g]
    /\ \E g, h \in 1 .. Len(t) : t[g] = a /\ t[h] = b

\* A list with two handles put before or after it holds its old ones in
\* order, and the two.
LEMMA TwoMore ==
    ASSUME NEW S, NEW s \in Seq(S), NEW a, NEW b
    PROVE  \A t : t = <<a, b>> \o s \/ t = s \o <<a, b>> => Longer(t, s, a, b)
<1> SUFFICES ASSUME NEW t, t = <<a, b>> \o s \/ t = s \o <<a, b>> PROVE Longer(t, s, a, b)
  BY Zenon
<1> DEFINE T == S \cup {a, b}
           two == <<a, b>>
<1>1. two \in Seq(T) /\ Len(two) = 2 /\ two[1] = a /\ two[2] = b
  OBVIOUS
<1>2. s \in Seq(T) /\ Len(s) \in Nat
  OBVIOUS
<1> HIDE DEF two, T
<1>3. CASE t = two \o s
  <2>1. /\ t \in Seq(T) /\ Len(t) = Len(s) + 2
        /\ \A h \in 1 .. Len(t) : t[h] = IF h <= 2 THEN two[h] ELSE s[h - 2]
    BY <1>1, <1>2, <1>3, Joined
  <2>2. \A h \in 1 .. Len(t) : h = 1 \/ h = 2 \/ h - 2 \in 1 .. Len(s)
    BY <1>2, <2>1, SMTT(30)
  <2>3. 1 \in 1 .. Len(t) /\ 2 \in 1 .. Len(t)
    BY <1>2, <2>1
  <2>4. t[1] = a /\ t[2] = b
    BY <1>1, <2>1, <2>3
  <2>5. \A h \in 1 .. Len(t) : h - 2 \in 1 .. Len(s) => t[h] = s[h - 2]
    BY <1>2, <2>1
  <2>6. \A h \in 1 .. Len(t) : t[h] \in {a, b} \/ \E g \in 1 .. Len(s) : t[h] = s[g]
    BY <2>2, <2>4, <2>5
  <2> QED
    BY <2>1, <2>3, <2>4, <2>6 DEF Longer
<1>4. CASE t = s \o two
  <2>1. /\ t \in Seq(T) /\ Len(t) = Len(s) + 2
        /\ \A h \in 1 .. Len(t) : t[h] = IF h <= Len(s) THEN s[h] ELSE two[h - Len(s)]
    BY <1>1, <1>2, <1>4, Joined
  <2>2. \A h \in 1 .. Len(t) : h - Len(s) = 1 \/ h - Len(s) = 2 \/ h \in 1 .. Len(s)
    BY <1>2, <2>1
  <2>3. Len(s) + 1 \in 1 .. Len(t) /\ Len(s) + 2 \in 1 .. Len(t)
    BY <1>2, <2>1
  <2>4. t[Len(s) + 1] = a /\ t[Len(s) + 2] = b
    <3>1. ~ (Len(s) + 1 <= Len(s)) /\ (Len(s) + 1) - Len(s) = 1
      BY <1>2
    <3>2. ~ (Len(s) + 2 <= Len(s)) /\ (Len(s) + 2) - Len(s) = 2
      BY <1>2
    <3>3. t[Len(s) + 1] = two[1]
      BY <2>1, <2>3, <3>1
    <3>4. t[Len(s) + 2] = two[2]
      BY <2>1, <2>3, <3>2
    <3> QED
      BY <1>1, <3>3, <3>4
  <2>5. \A h \in 1 .. Len(t) : h \in 1 .. Len(s) => t[h] = s[h]
    BY <1>2, <2>1
  <2>6. \A h \in 1 .. Len(t) : h = Len(s) + 1 \/ h = Len(s) + 2 \/ h \in 1 .. Len(s)
    BY <1>2, <2>2
  <2>7. \A h \in 1 .. Len(t) : t[h] \in {a, b} \/ \E g \in 1 .. Len(s) : t[h] = s[g]
    BY <2>4, <2>5, <2>6
  <2> QED
    BY <2>1, <2>3, <2>4, <2>7 DEF Longer
<1> QED
  BY <1>3, <1>4 DEF two

\* A sequence is what TLC can evaluate as one.
LEMMA IsSequenceOf == ASSUME NEW S, NEW s \in Seq(S) PROVE IsSequence(s)
  BY DEF IsSequence

\* A function on 1 .. n is a sequence.
LEMMA FilledUp ==
    ASSUME NEW n \in Nat, NEW f, f = [i \in 1 .. n |-> f[i]]
    PROVE  IsSequence(f) /\ Len(f) = n
<1>1. f \in Seq({f[i] : i \in 1 .. n}) /\ DOMAIN f = 1 .. n
  BY Zenon, SMT
<1>2. Len(f) = n
  BY <1>1
<1> QED
  BY <1>1, <1>2, IsSequenceOf

\* The names add_partition gives fill their entries, and are longer than
\* what the loader compares them with.
LEMMA EntryNames ==
    ASSUME NEW partition
    PROVE  /\ IsSequence(Entry(partition).name)
           /\ Len(Entry(partition).name) > Len(SOL_DATA_PARTITION_NAME)
<1>1. PICK name : Entry(partition).name
                   = [i \in 1 .. GPT_NAME_CHARS |-> IF i <= Len(name) THEN name[i] ELSE Nul]
  BY Zenon DEF Entry, GptEntry
<1> DEFINE f == Entry(partition).name
<1>2. f = [i \in 1 .. GPT_NAME_CHARS |-> f[i]]
  BY <1>1
<1> HIDE DEF f
<1>3. GPT_NAME_CHARS \in Nat /\ Len(SOL_DATA_PARTITION_NAME) < GPT_NAME_CHARS
  BY StickAssumption
<1>4. IsSequence(f) /\ Len(f) = GPT_NAME_CHARS
  BY <1>2, <1>3, FilledUp
<1>5. Len(SOL_DATA_PARTITION_NAME) \in Nat
  BY LoaderAssumption DEF IsSequence
<1> QED
  BY <1>3, <1>4, <1>5 DEF f

\* What the machine lists: partitions of other disks, and the stick's two.
Inside ==
    /\ Listed(machine) /\ machine.boot_disk = 1
    /\ \A h \in 1 .. Len(machine.handles) :
          \/ machine.handles[h].disk # 1
          \/ \E k \in {1, 2} : machine.handles[h] = HandleOf(table[k], machine.opens)
    /\ \E h \in 1 .. Len(machine.handles) : machine.handles[h] = HandleOf(table[2], machine.opens)

\* A machine with the stick plugged in lists the stick's partitions beside
\* those of other disks.
LEMMA StickInside == Plugged => Inside
<1> SUFFICES ASSUME Plugged PROVE Inside
  OBVIOUS
<1>1. PICK m \in Machines, first \in {1, 2}, second \in {1, 2} : machine = WithStick(m, first, second)
  BY DEF Plugged
<1> DEFINE a == HandleOf(table[first], m.opens)
           b == HandleOf(table[3 - first], m.opens)
           t == IF second = 1 THEN <<a, b>> \o m.handles ELSE m.handles \o <<a, b>>
<1>2. /\ {"handles", "boot_disk", "opens"} \subseteq DOMAIN m /\ m.boot_disk = 1
      /\ \A h \in 1 .. Len(m.handles) : m.handles[h].disk # 1
  BY StickAssumption
<1>3. machine.handles = t /\ machine.boot_disk = 1 /\ machine.opens = m.opens
  BY <1>1, <1>2 DEF WithStick, Stick
<1>4. Listed(m)
  BY MachinesAreListed
<1>5. PICK S : m.handles \in Seq(S)
  BY <1>4, SequenceOf DEF Listed
<1>6. t = <<a, b>> \o m.handles \/ t = m.handles \o <<a, b>>
  BY Zenon
<1>7. {a, b} = {HandleOf(table[1], m.opens), HandleOf(table[2], m.opens)}
  BY first = 1 \/ first = 2
<1>8. \A k \in {1, 2} : HandleOf(table[k], m.opens).entry = Entry(table[k])
  BY DEF HandleOf
<1>9. \A x \in {a, b} : IsSequence(x.entry.name) /\ Len(x.entry.name) > Len(SOL_DATA_PARTITION_NAME)
  <2> HIDE DEF a, b
  <2> QED BY <1>7, <1>8, EntryNames, Zenon
<1> HIDE DEF a, b, t
<1>10. /\ \E T : t \in Seq(T)
       /\ Len(t) = Len(m.handles) + 2
       /\ \A h \in 1 .. Len(t) : t[h] \in {a, b} \/ \E g \in 1 .. Len(m.handles) : t[h] = m.handles[g]
       /\ \E g, h \in 1 .. Len(t) : t[g] = a /\ t[h] = b
  <2>1. Longer(t, m.handles, a, b)
    BY <1>5, <1>6, TwoMore, Zenon
  <2> QED
    BY <2>1 DEF Longer
<1>11. IsSequence(t)
  BY <1>10, IsSequenceOf
<1>12. Listed(machine)
  BY <1>3, <1>4, <1>9, <1>10, <1>11, Zenon DEF Listed
<1>13. ASSUME NEW h \in 1 .. Len(t)
       PROVE  \/ t[h].disk # 1
              \/ \E k \in {1, 2} : t[h] = HandleOf(table[k], m.opens)
  <2>1. CASE t[h] \in {a, b}
    BY <1>7, <2>1
  <2>2. CASE \E g \in 1 .. Len(m.handles) : t[h] = m.handles[g]
    BY <1>2, <2>2
  <2> QED
    BY <1>10, <2>1, <2>2
<1>14. \E h \in 1 .. Len(t) : t[h] = HandleOf(table[2], m.opens)
  BY <1>7, <1>10, Zenon
<1> QED
  BY <1>3, <1>12, <1>13, <1>14 DEF Inside

\* The first of the stick's partitions is none the loader looks for; the
\* second can be read, and its blocks are those of the image.
LEMMA StickHolds ==
    ASSUME NEW size \in BootSizes, NEW n, Standing(size, n), NEW opens
    PROVE  /\ ~ is_sol_data_partition_entry(HandleOf(table[1], opens).entry)
           /\ table[2].name = "sol-data"
           /\ HandleOf(table[2], opens).opens = opens
           /\ HandleOf(table[2], opens).block_io /\ HandleOf(table[2], opens).bad = {}
           /\ HandleOf(table[2], opens).media
                = [usable |-> TRUE, block_size |-> BLOCK_SIZE, blocks |-> DATA_PARTITION_LBAS]
           /\ \A b \in 0 .. DATA_PARTITION_LBAS - 1 :
                 /\ DataFirst(size) + b + 1 \in 1 .. Len(image)
                 /\ HandleOf(table[2], opens).content[b] = image[DataFirst(size) + b + 1]
<1> DEFINE N == DATA_PARTITION_LBAS
<1>1. table[1] = BootPartition(size) /\ table[2] = DataPartition(size) /\ Len(image) = disk_size(size)
  BY DEF Standing
<1>2. table[1].name = "sol-boot" /\ table[2].name = "sol-data" /\ table[2].size = N
      /\ table[2].first = DataFirst(size)
  BY <1>1, SMTT(30) DEF BootPartition, DataPartition
<1>3. Entry(table[1]).type = EFI
  BY <1>2 DEF Entry, GptEntry
<1>4. ~ is_sol_data_partition_entry(HandleOf(table[1], opens).entry)
  BY <1>3, StickAssumption, Zenon DEF HandleOf, is_sol_data_partition_entry
<1>5. /\ HandleOf(table[2], opens).opens = opens
      /\ HandleOf(table[2], opens).block_io /\ HandleOf(table[2], opens).bad = {}
      /\ HandleOf(table[2], opens).media
           = [usable |-> TRUE, block_size |-> BLOCK_SIZE, blocks |-> table[2].size]
  BY Zenon DEF HandleOf
<1>6. /\ DataFirst(size) \in Nat /\ disk_size(size) \in Nat
      /\ DataFirst(size) + N + GPT_LBAS < disk_size(size)
  BY Layout
<1>7. ASSUME NEW b \in 0 .. N - 1
      PROVE  /\ DataFirst(size) + b + 1 \in 1 .. Len(image)
             /\ HandleOf(table[2], opens).content[b] = image[DataFirst(size) + b + 1]
  <2>1. N \in Nat /\ GPT_LBAS \in Nat
    BY LayoutAssumption
  <2> HIDE DEF N
  <2>2. DataFirst(size) + b + 1 \in 1 .. disk_size(size)
    BY <1>6, <2>1
  <2>3. HandleOf(table[2], opens).content = [c \in 0 .. N - 1 |-> image[DataFirst(size) + c + 1]]
    BY <1>2, Zenon DEF HandleOf, N
  <2> QED
    BY <1>1, <2>2, <2>3
<1> QED
  BY <1>2, <1>4, <1>5, <1>7, Zenon DEF N

\* Where the two sources agree, the loader looks for the second and can take
\* it over.
LEMMA StickMatches ==
    ASSUME SourcesAgree, NEW size \in BootSizes, NEW n, Standing(size, n), NEW opens
    PROVE  /\ is_sol_data_partition_entry(HandleOf(table[2], opens).entry)
           /\ Supported(HandleOf(table[2], opens).media)
<1> DEFINE name == SOL_DATA_PARTITION_NAME
           e == Entry(table[2])
<1>1. /\ e.type = SOL_DATA_PARTITION_TYPE
      /\ e.name = [i \in 1 .. GPT_NAME_CHARS |-> IF i <= Len(name) THEN name[i] ELSE Nul]
  <2>1. e = GptEntry(BASIC, DataName)
    BY StickHolds DEF Entry
  <2> QED
    BY <2>1 DEF GptEntry, SourcesAgree
<1>2. /\ Len(name) \in Nat /\ DOMAIN name = 1 .. Len(name)
      /\ GPT_NAME_CHARS \in Nat /\ Len(name) < GPT_NAME_CHARS
  <2>1. Len(name) \in Nat /\ name = [i \in 1 .. Len(name) |-> name[i]]
    BY LoaderAssumption DEF IsSequence
  <2>2. DOMAIN [i \in 1 .. Len(name) |-> name[i]] = 1 .. Len(name)
    OBVIOUS
  <2> QED
    BY <2>1, <2>2, StickAssumption
<1>3. Len(e.name) > Len(name)
  BY EntryNames
<1> HIDE DEF name, e
<1>4. \A i \in DOMAIN name : e.name[i] = name[i]
  BY <1>1, <1>2
<1>5. e.name[Len(name) + 1] = Nul
  BY <1>1, <1>2
<1>6. is_sol_data_partition_entry(e)
  BY <1>1, <1>3, <1>4, <1>5, Zenon DEF is_sol_data_partition_entry, name
<1>7. HandleOf(table[2], opens).entry = e
  BY DEF HandleOf, e
<1>8. Supported([usable |-> TRUE, block_size |-> BLOCK_SIZE, blocks |-> DATA_PARTITION_LBAS])
  BY Zenon DEF Supported, SourcesAgree
<1> QED
  BY <1>6, <1>7, <1>8, StickHolds, Zenon

\* What the loader takes for supported is as large as it says.
LEMMA SupportedSize ==
    ASSUME Supported([usable |-> TRUE, block_size |-> BLOCK_SIZE, blocks |-> DATA_PARTITION_LBAS])
    PROVE  DATA_PARTITION_LBAS = SOL_DATA_BLOCKS
<1>1. DATA_PARTITION_LBAS * BLOCK_SIZE = SOL_DATA_BLOCKS * BLOCK_SIZE
  BY Zenon DEF Supported
<1>2. DATA_PARTITION_LBAS \in Nat /\ SOL_DATA_BLOCKS \in Nat /\ BLOCK_SIZE \in Nat \ {0}
  BY LayoutAssumption, LoaderAssumption
<1>3. \A a, b \in Nat, c \in Nat \ {0} : a * c = b * c => a = b
  OBVIOUS
<1> QED
  BY <1>1, <1>2, <1>3

\* What is handed over from the stick, of which build it is, and whether it
\* is whole.
LEMMA HandedOver ==
    ASSUME TableStands, Builds, Plugged, LInv, pc = "kernel_main", ramdisk # <<>>, ramdisk[1].from.disk = 1
    PROVE  /\ KernelBuild \in 1 .. build
           /\ DOMAIN ramdisk[1].data = 0 .. SOL_DATA_BLOCKS - 1
           /\ \A b \in 0 .. SOL_DATA_BLOCKS - 1 :
                 /\ ramdisk[1].data[b] \in {Zero, <<"data", KernelBuild, b + 1>>}
                 /\ stage = "done" => ramdisk[1].data[b] # Zero
<1> DEFINE N == SOL_DATA_BLOCKS
<1>1. /\ handle <= Len(machine.handles) /\ Matches(handle) /\ Supported(Partition.media)
      /\ ramdisk[1].from = Partition
      /\ ramdisk[1].data = [b \in 0 .. N - 1 |-> Partition.content[b]]
  BY DEF LInv, Leaving
<1>2. Inside /\ image # <<>> /\ image[2][1] = "gpt"
  BY StickInside DEF Plugged, Bootable
<1>3. PICK size \in BootSizes, n \in 1 .. build : Standing(size, n)
  BY <1>2 DEF TableStands
<1>4. handle \in 1 .. Len(machine.handles)
  BY <1>1, HandlesAreListed DEF LInv, Positions
<1>5. PICK k \in {1, 2} : Partition = HandleOf(table[k], machine.opens)
  BY <1>1, <1>2, <1>4 DEF Inside, Partition
<1>6. k = 2
  <2>1. is_sol_data_partition_entry(Partition.entry)
    BY <1>1, Zenon DEF Matches, Partition
  <2>2. ~ is_sol_data_partition_entry(HandleOf(table[1], machine.opens).entry)
    BY <1>3, StickHolds, Zenon
  <2> QED
    BY <1>5, <2>1, <2>2
<1>7. table[1].first = BootFirst /\ table[1].size = size
  BY <1>3 DEF Standing, BootPartition
<1>8. KernelBuild = n
  <2>1. /\ size \in Nat \ {0} /\ BootFirst \in Nat /\ Len(image) = disk_size(size) /\ disk_size(size) \in Nat
        /\ BootFirst + size <= DataFirst(size) /\ DataFirst(size) \in Nat
        /\ DataFirst(size) + DATA_PARTITION_LBAS + GPT_LBAS < disk_size(size)
    BY <1>3, Layout DEF Standing
  <2>2. BootFirst + 1 \in 1 .. Len(image) /\ (BootFirst + 1) - BootFirst \in 1 .. size /\ 1 \in 1 .. size
        /\ (BootFirst + 1) - BootFirst = 1
    BY <2>1, LayoutAssumption
  <2>3. image[BootFirst + 1] \in {Zero, <<"boot", n, 1>>}
    BY <1>3, <2>2 DEF Standing
  <2>4. image[BootFirst + 1][1] = "boot"
    BY <1>7, <2>2 DEF Plugged, Bootable
  <2>5. image[BootFirst + 1] = <<"boot", n, 1>>
    BY <2>3, <2>4 DEF Zero
  <2> QED
    BY <1>7, <2>5 DEF KernelBuild
<1>9. DATA_PARTITION_LBAS = N
  <2>1. Partition.media = [usable |-> TRUE, block_size |-> BLOCK_SIZE, blocks |-> DATA_PARTITION_LBAS]
    BY <1>3, <1>5, <1>6, StickHolds, Zenon
  <2> QED
    BY <1>1, <2>1, SupportedSize, Zenon
<1>10. ASSUME NEW b \in 0 .. N - 1
       PROVE /\ ramdisk[1].data[b] \in {Zero, <<"data", n, b + 1>>}
             /\ stage = "done" => ramdisk[1].data[b] # Zero
  <2> DEFINE i == DataFirst(size) + b + 1
  <2>1. i \in 1 .. Len(image) /\ ramdisk[1].data[b] = image[i]
    <3>1. i \in 1 .. Len(image) /\ Partition.content[b] = image[i]
      BY <1>3, <1>5, <1>6, <1>9, StickHolds
    <3> HIDE DEF i, N
    <3> QED
      BY <1>1, <3>1
  <2>2. i - DataFirst(size) = b + 1 /\ b + 1 \in 1 .. DATA_PARTITION_LBAS
    <3> HIDE DEF N
    <3> QED BY <1>9, Layout, LayoutAssumption
  <2> HIDE DEF i
  <2>3. i - DataFirst(size) \in 1 .. DATA_PARTITION_LBAS
    BY <2>2, Zenon
  <2>4. image[i] \in {Zero, <<"data", n, i - DataFirst(size)>>} /\ (stage = "done" => image[i] # Zero)
    BY <1>3, <2>1, <2>3 DEF Standing
  <2> QED
    BY <2>1, <2>2, <2>4, Zenon
<1> QED
  BY <1>1, <1>3, <1>8, <1>10, Zenon

\* A sound machine booted from the stick gives its volume to the kernel.
LEMMA SoundHandsOver ==
    ASSUME SourcesAgree, TableStands, Plugged, LInv, pc = "kernel_main", boot_mode = "Disk", Sound
    PROVE  /\ ramdisk # <<>> /\ ramdisk[1].from.disk = machine.boot_disk
           /\ DOMAIN ramdisk[1].data = 0 .. DATA_PARTITION_LBAS - 1
<1> DEFINE stick == HandleOf(table[2], machine.opens)
<1>1. /\ Inside /\ image # <<>> /\ image[2][1] = "gpt" /\ Listed(machine) /\ machine.boot_disk = 1
      /\ machine.opens /\ machine.memory
  BY StickInside DEF Plugged, Bootable, Sound, Inside
<1>2. PICK size \in BootSizes, n \in 1 .. build : Standing(size, n)
  BY <1>1 DEF TableStands
<1>3. /\ ~ is_sol_data_partition_entry(HandleOf(table[1], machine.opens).entry)
      /\ is_sol_data_partition_entry(stick.entry) /\ stick.opens = machine.opens
      /\ stick.block_io /\ stick.bad = {} /\ Supported(stick.media)
  BY <1>2, StickHolds, StickMatches, Zenon
<1>4. /\ Len(machine.handles) \in Nat /\ DOMAIN machine.handles = 1 .. Len(machine.handles)
      /\ handle \in Nat \ {0}
  BY HandlesAreListed, Zenon
<1> HIDE DEF stick
<1>5. ASSUME handle <= Len(machine.handles), Matches(handle) PROVE Partition = stick
  <2>1. handle \in 1 .. Len(machine.handles)
    BY <1>4, <1>5
  <2>2. IsSolData(machine.handles[handle])
    BY <1>1, <1>5, <2>1, MatchIsSolData, Zenon
  <2>3. machine.handles[handle].disk = 1
    BY <1>1, <1>4, <2>1, <2>2, Zenon DEF Sound
  <2>4. PICK k \in {1, 2} : machine.handles[handle] = HandleOf(table[k], machine.opens)
    BY <1>1, <2>1, <2>3, Zenon DEF Inside
  <2>5. k # 1
    BY <1>3, <1>5, <2>4, Zenon DEF Matches
  <2>6. k = 2
    BY <2>5
  <2> QED
    BY <2>4, <2>6, Zenon DEF Partition, stick
<1>6. Leaving /\ Skipped
  BY Zenon DEF LInv
<1>7. ramdisk # <<>>
  <2> SUFFICES ASSUME ramdisk = <<>> PROVE FALSE
    OBVIOUS
  <2>1. PICK h \in 1 .. Len(machine.handles) : machine.handles[h] = stick
    BY <1>1, Zenon DEF Inside, stick
  <2>2. Matches(h)
    BY <1>1, <1>3, <2>1, Zenon DEF Matches
  <2>3. \/ handle = Len(machine.handles) + 1
        \/ /\ Matches(handle)
           /\ \/ ~ Partition.block_io \/ ~ Supported(Partition.media)
              \/ ~ machine.memory \/ Partition.bad # {}
    BY <1>6, Zenon DEF Leaving
  <2>4. ~ (h \in 1 .. handle - 1)
    BY <1>6, <2>2, Zenon DEF Skipped
  <2>5. handle <= h /\ handle <= Len(machine.handles) /\ handle # Len(machine.handles) + 1
    BY <1>4, <2>4
  <2> QED
    BY <1>1, <1>3, <1>5, <2>3, <2>5, Zenon
<1>8. /\ handle <= Len(machine.handles) /\ Matches(handle) /\ ramdisk[1].from = Partition
      /\ ramdisk[1].data = [b \in 0 .. SOL_DATA_BLOCKS - 1 |-> Partition.content[b]]
  BY <1>6, <1>7, Zenon DEF Leaving
<1>9. ramdisk[1].from.disk = machine.boot_disk
  <2>1. stick.disk = 1
    BY Zenon DEF HandleOf, stick
  <2> QED
    BY <1>1, <1>5, <1>8, <2>1, Zenon
<1>10. DOMAIN ramdisk[1].data = 0 .. SOL_DATA_BLOCKS - 1
  BY <1>8, Zenon
<1> QED
  BY <1>7, <1>9, <1>10, Zenon DEF SourcesAgree

(***************************************************************************)
(* Every step keeps the joined invariant.                                  *)
(***************************************************************************)

\* Building while the machine is off keeps the parts together.
LEMMA BuildKeeps ==
    ASSUME BInv, pc = "off", [ImageNext]_imageVars, UNCHANGED <<vars, kernel>> PROVE BInv'
<1>1. IInv' /\ Builds' /\ TableStands'
  BY ImageStepOK DEF BInv
<1>2. pc' = "off" /\ kernel' = kernel /\ kernel = "take_framebuffer"
  BY DEF vars, BInv, Going
<1>3. Before'
  BY <1>2 DEF BInv, Before, vars
<1>4. Going'
  BY <1>2 DEF Going, NoRamdisk
<1> QED
  BY <1>1, <1>2, <1>3, <1>4 DEF BInv

\* Powering on hands the loader the disk as it was built.
LEMMA PowerOnKeeps == ASSUME BInv, PowerOn PROVE BInv'
<1>1. /\ build' = build /\ stage' = stage /\ volume' = volume /\ efi' = efi /\ image' = image
      /\ table' = table /\ copied' = copied /\ pc = "off" /\ pc' = "load_kernel" /\ kernel' = kernel
      /\ handle' = handle /\ data' = data /\ index' = index /\ ramdisk' = ramdisk /\ boot_mode' = boot_mode
  BY DEF PowerOn, imageVars
<1>2. IInv' /\ Builds' /\ TableStands'
  <2>1. UNCHANGED imageVars
    BY <1>1 DEF imageVars
  <2> QED
    BY <2>1, ImageStepOK DEF BInv
<1>3. Plugged'
  <2>1. PICK m \in Machines, first \in {1, 2}, second \in {1, 2} : machine' = WithStick(m, first, second)
    BY DEF PowerOn
  <2>2. WithStick(m, first, second)' = WithStick(m, first, second)
    BY <1>1 DEF WithStick, Stick, HandleOf
  <2>3. machine' = WithStick(m, first, second)'
    BY <2>1, <2>2
  <2>4. (stage \in {"done", "failed"} /\ Bootable)'
    BY <1>1, Zenon DEF PowerOn, Bootable
  <2> QED
    BY <2>3, <2>4 DEF Plugged
<1>4. Listed(machine)'
  <2>1. (Plugged => Inside)'
    BY StickInside, PTL
  <2> QED
    BY <1>3, <2>1 DEF Inside
<1>5. handle' = 1 /\ index' = 0 /\ ramdisk' = <<>> /\ kernel = "take_framebuffer"
  BY <1>1 DEF BInv, Before, Going
<1>6. LInv'
  <2>1. IsSequence(machine.handles)'
    BY <1>4 DEF Listed
  <2>2. Len(machine.handles)' \in Nat
    BY <2>1 DEF IsSequence
  <2> QED
    BY <1>1, <1>4, <1>5, <2>2 DEF LInv, Positions, Skipped, Reading, Leaving
<1> QED
  BY <1>1, <1>2, <1>3, <1>5, <1>6 DEF BInv, Before, Going

\* The loader's steps keep the disk, and what the kernel was given.
LEMMA LoaderKeeps == ASSUME BInv, Next, UNCHANGED <<imageVars, kernel>> PROVE BInv'
<1>1. /\ build' = build /\ stage' = stage /\ volume' = volume /\ efi' = efi /\ image' = image
      /\ table' = table /\ copied' = copied /\ kernel' = kernel
  BY Zenon DEF imageVars
<1>2. /\ pc \notin {"off", "kernel_main"} /\ pc' # "off" /\ machine' = machine
  BY DEF Next, load_kernel, load_config_file, load_sol_data_partition, Search, ReadChunk, ReadEnd, Enter, GiveUp
<1>3. kernel = "take_framebuffer" /\ Plugged /\ LInv
  BY <1>2 DEF BInv, Going
<1>4. IInv' /\ Builds' /\ TableStands'
  BY ImageStepOK DEF BInv
<1>5. LInv'
  BY <1>3, LoaderStepOK
<1>6. Plugged'
  <2>1. \A m, first, second : WithStick(m, first, second)' = WithStick(m, first, second)
    BY <1>1 DEF WithStick, Stick, HandleOf
  <2>2. Bootable'
    BY <1>1, <1>3 DEF Plugged, Bootable
  <2> QED
    BY <1>1, <1>2, <1>3, <2>1, <2>2 DEF Plugged
<1> QED
  BY <1>1, <1>2, <1>3, <1>4, <1>5, <1>6 DEF BInv, Before, Going, NoRamdisk

\* kernel_main panics for want of a ramdisk only when there is none.
LEMMA KernelKeeps == ASSUME BInv, kernel_main, UNCHANGED <<imageVars, vars>> PROVE BInv'
<1>1. /\ build' = build /\ stage' = stage /\ volume' = volume /\ efi' = efi /\ image' = image
      /\ table' = table /\ copied' = copied
      /\ machine' = machine /\ pc' = pc /\ boot_mode' = boot_mode /\ handle' = handle
      /\ data' = data /\ index' = index /\ ramdisk' = ramdisk
  BY DEF imageVars, vars
<1>2. pc = "kernel_main"
  BY Zenon DEF kernel_main, Expect, ExpectOfVolume
<1>3. Plugged /\ LInv /\ TableStands /\ Builds
  BY <1>2 DEF BInv
<1>4. IInv' /\ Builds' /\ TableStands'
  BY ImageStepOK DEF BInv
<1>5. LInv'
  BY <1>3, LoaderStepOK
<1>6. Plugged'
  <2>1. \A m, first, second : WithStick(m, first, second)' = WithStick(m, first, second)
    BY <1>1 DEF WithStick, Stick, HandleOf
  <2>2. Bootable'
    BY <1>1, <1>3 DEF Plugged, Bootable
  <2> QED
    BY <1>1, <1>3, <2>1, <2>2 DEF Plugged
<1>7. kernel' = NoRamdisk => ramdisk = <<>>
  BY Zenon DEF kernel_main, Expect, ExpectOfVolume, NoRamdisk, BInv, Going
<1>8. Going'
  BY <1>1, <1>2, <1>7, Zenon DEF Going
<1> QED
  BY <1>1, <1>2, <1>4, <1>5, <1>6, <1>8 DEF BInv, Before

\* The invariant holds from the first build to the shell or to the panic.
THEOREM BootInvariance == BootDiskSpec => []BInv
<1>1. ASSUME BootDiskInit PROVE BInv
  <2>1. IInv
    BY <1>1, ImageInitOK DEF BootDiskInit
  <2>2. image = <<>> /\ build = 1 /\ Builds
    BY <1>1, LayoutAssumption DEF BootDiskInit, ImageInit, Builds
  <2> QED
    BY <1>1, <2>1, <2>2 DEF BootDiskInit, BInv, TableStands, Before, Going
<1>2. ASSUME BInv, [BootDiskNext]_<<vars, imageVars, kernel>> PROVE BInv'
  <2>1. CASE pc = "off" /\ ImageNext /\ UNCHANGED <<vars, kernel>>
    BY <1>2, <2>1, BuildKeeps
  <2>2. CASE PowerOn
    BY <1>2, <2>2, PowerOnKeeps
  <2>3. CASE Next /\ UNCHANGED <<imageVars, kernel>>
    BY <1>2, <2>3, LoaderKeeps
  <2>4. CASE kernel_main /\ UNCHANGED <<imageVars, vars>>
    BY <1>2, <2>4, KernelKeeps
  <2>5. CASE UNCHANGED <<vars, imageVars, kernel>>
    <3>1. CASE pc = "off"
      BY <1>2, <2>5, <3>1, BuildKeeps
    <3>2. CASE pc # "off"
      <4>1. /\ build' = build /\ stage' = stage /\ volume' = volume /\ efi' = efi /\ image' = image
            /\ table' = table /\ copied' = copied
            /\ machine' = machine /\ pc' = pc /\ boot_mode' = boot_mode /\ handle' = handle
            /\ data' = data /\ index' = index /\ ramdisk' = ramdisk /\ kernel' = kernel
        BY <2>5 DEF imageVars, vars
      <4>2. IInv' /\ Builds' /\ TableStands'
        BY <1>2, <2>5, ImageStepOK DEF BInv
      <4>3. LInv' /\ Plugged /\ LInv
        BY <1>2, <2>5, <3>2, LoaderStepOK DEF BInv
      <4>4. \A m, first, second : WithStick(m, first, second)' = WithStick(m, first, second)
        BY <4>1 DEF WithStick, Stick, HandleOf
      <4>5. Bootable'
        BY <4>1, <4>3 DEF Plugged, Bootable
      <4>6. Plugged'
        BY <4>1, <4>3, <4>4, <4>5 DEF Plugged
      <4> QED
        BY <1>2, <3>2, <4>1, <4>2, <4>3, <4>6 DEF BInv, Before, Going
    <3> QED
      BY <3>1, <3>2
  <2> QED
    BY <1>2, <2>1, <2>2, <2>3, <2>4, <2>5 DEF BootDiskNext
<1> QED
  BY <1>1, <1>2, PTL DEF BootDiskSpec

\* What the kernel is handed from the stick is of the kernel's own build,
\* each block in its place, and all of the volume unless that build failed,
\* whatever was built before, whatever else the machine lists.
THEOREM KernelGetsItsVolume == BootDiskSpec => []BuiltVolumeReachesKernel
<1>1. ASSUME BInv PROVE BuiltVolumeReachesKernel
  <2> SUFFICES ASSUME pc = "kernel_main", ramdisk # <<>>, ramdisk[1].from.disk = machine.boot_disk,
                      NEW b \in DOMAIN ramdisk[1].data
               PROVE  \/ ramdisk[1].data[b] = <<"data", KernelBuild, b + 1>>
                      \/ stage = "failed" /\ ramdisk[1].data[b] = Zero
    BY DEF BuiltVolumeReachesKernel
  <2>1. Plugged /\ LInv /\ TableStands /\ Builds /\ stage \in {"done", "failed"}
    BY <1>1 DEF BInv, Plugged
  <2>2. machine.boot_disk = 1
    BY <2>1, StickInside DEF Inside
  <2> QED
    BY <2>1, <2>2, HandedOver
<1> QED
  BY <1>1, BootInvariance, PTL

\* If the type, the name and the size that build.rs gives the data partition
\* are the ones load_sol_data_partition looks for, then every image that
\* boots, however its build ended, gives its data partition to the kernel on
\* every sound machine, and from_boot_info's expect is met.
THEOREM AgreeingSourcesMeet == ASSUME SourcesAgree PROVE BootDiskSpec => []BuiltVolumeIsFound
<1>1. ASSUME BInv PROVE BuiltVolumeIsFound
  <2> SUFFICES ASSUME pc = "kernel_main", boot_mode = "Disk", Sound
               PROVE  /\ ramdisk # <<>> /\ ramdisk[1].from.disk = machine.boot_disk
                      /\ DOMAIN ramdisk[1].data = 0 .. DATA_PARTITION_LBAS - 1
                      /\ kernel # NoRamdisk
    BY DEF BuiltVolumeIsFound
  <2>1. Plugged /\ LInv /\ TableStands /\ Going
    BY <1>1 DEF BInv
  <2>2. /\ ramdisk # <<>> /\ ramdisk[1].from.disk = machine.boot_disk
        /\ DOMAIN ramdisk[1].data = 0 .. DATA_PARTITION_LBAS - 1
    BY <2>1, SoundHandsOver, Zenon
  <2> QED
    BY <2>1, <2>2, Zenon DEF Going
<1> QED
  BY <1>1, BootInvariance, PTL

\* What holds of the builds and of the loader alone holds of them together:
\* with a stick whose image is any of the builds', whole or not.
THEOREM PartsHoldTogether ==
    BootDiskSpec => [](/\ RoomForBoth /\ BuiltImageIsWhole /\ ImageIsOfOneBuild
                       /\ SnapshotIsThePartition /\ FirstSolDataDecides)
<1>1. ASSUME BInv
      PROVE  /\ RoomForBoth /\ BuiltImageIsWhole /\ ImageIsOfOneBuild
             /\ SnapshotIsThePartition /\ FirstSolDataDecides
  <2>1. RoomForBoth /\ BuiltImageIsWhole /\ ImageIsOfOneBuild
    BY <1>1, PlacesAreLeft, DoneIsWhole DEF BInv, IInv
  <2>2. CASE pc = "off"
    BY <2>1, <2>2 DEF SnapshotIsThePartition, FirstSolDataDecides
  <2>3. CASE pc # "off"
    BY <1>1, <2>1, <2>3, LeavesWhole, LeavesFirst DEF BInv
  <2> QED
    BY <2>2, <2>3
<1> QED
  BY <1>1, BootInvariance, PTL
=============================================================================
