----------------------------- MODULE DiskImage -----------------------------
(***************************************************************************)
(* How build.rs makes build/sol-os.img: it builds the data volume, takes   *)
(* the EFI partition out of the bootloader's image, and lays both out in a *)
(* new GPT disk image.  Any step may fail; the file then stays as it is,   *)
(* and the next build finds it.  Sizes and addresses are in blocks of 512  *)
(* bytes; block b of a file is element b + 1 of a sequence.  What a block   *)
(* holds is <<kind, build, position>>.                                     *)
(***************************************************************************)
EXTENDS Integers, Sequences

CONSTANTS
    BootSizes,                  \* sizes the EFI partition may have
    PARTITION_ALIGNMENT_LBAS,   \* MIB in blocks
    DATA_PARTITION_LBAS,        \* DATA_PARTITION_BYTES in blocks
    GPT_LBAS,                   \* a GPT header and its table, 33
    MaxBuilds                   \* bound: builds

ASSUME LayoutAssumption ==
    /\ BootSizes \subseteq Nat \ {0}
    /\ PARTITION_ALIGNMENT_LBAS \in Nat \ {0}
    /\ DATA_PARTITION_LBAS \in Nat \ {0}
    /\ GPT_LBAS \in Nat /\ GPT_LBAS < PARTITION_ALIGNMENT_LBAS
    /\ MaxBuilds \in Nat \ {0}

VARIABLES
    build, stage,   \* the number of the build, and how far it is
    volume, efi,    \* sol-data.fat and the bytes of the EFI partition
    image,          \* sol-os.img
    table,          \* the partitions in the order they were added
    copied          \* blocks of the running copy that are in the image

imageVars == <<build, stage, volume, efi, image, table, copied>>

MIB == PARTITION_ALIGNMENT_LBAS
Zero == <<"zero", 0, 0>>
Filled(kind, size) == [i \in 1 .. size |-> <<kind, build, i>>]

ImageInit ==
    /\ build = 1 /\ stage = "volume"
    /\ volume = <<>> /\ efi = <<>> /\ image = <<>>
    /\ table = <<>> /\ copied = 0

-----------------------------------------------------------------------------
align_up(value, alignment) == ((value + alignment - 1) \div alignment) * alignment

\* Mutant: as large as what is put there.
DiskSizeTight(boot) == MIB + boot + DATA_PARTITION_LBAS + MIB

disk_size(boot) == MIB + align_up(boot, MIB) + MIB + DATA_PARTITION_LBAS + MIB

Blocks(first, size) == first .. first + size - 1

\* GptDisk::add_partition: the aligned places among the usable blocks that
\* no partition has taken.  The first of them is used.
Places(parts, length, size) ==
    {first \in GPT_LBAS + 1 .. length - GPT_LBAS - size :
        /\ first % PARTITION_ALIGNMENT_LBAS = 0
        /\ \A p \in DOMAIN parts : Blocks(first, size) \cap Blocks(parts[p].first, parts[p].size) = {}}

First(places) == CHOOSE p \in places : \A q \in places : p <= q

\* A file after content has been written at block lba.
Written(file, lba, content) ==
    [i \in 1 .. Len(file) |-> IF i - lba \in DOMAIN content THEN content[i - lba] ELSE file[i]]

-----------------------------------------------------------------------------
\* An error of any call (add_partition finds no room, the volume has another
\* length), or the end of the process: the build stops.
Fail ==
    /\ stage \notin {"done", "failed"}
    /\ stage' = "failed"
    /\ UNCHANGED <<build, volume, efi, image, table, copied>>

build_data_volume ==
    /\ stage = "volume" /\ stage' = "extract"
    /\ volume' = Filled("data", DATA_PARTITION_LBAS)
    /\ UNCHANGED <<build, efi, image, table, copied>>

\* The partition create_uefi_image has made, whatever its size.
extract_efi_partition ==
    /\ stage = "extract" /\ stage' = "open"
    /\ \E size \in BootSizes : efi' = Filled("boot", size)
    /\ UNCHANGED <<build, volume, image, table, copied>>

\* Mutant: the file is opened without truncate.
OpenKeeping ==
    /\ stage = "open" /\ stage' = "set_len"
    /\ UNCHANGED <<build, volume, efi, image, table, copied>>

OpenImage ==
    /\ stage = "open" /\ stage' = "set_len"
    /\ image' = <<>>
    /\ UNCHANGED <<build, volume, efi, table, copied>>

\* set_len cuts the file, or fills it up with zeros.
SetLen ==
    /\ stage = "set_len" /\ stage' = "mbr"
    /\ image' = [i \in 1 .. disk_size(Len(efi)) |-> IF i \in DOMAIN image THEN image[i] ELSE Zero]
    /\ UNCHANGED <<build, volume, efi, table, copied>>

\* overwrite_lba0, and a table without partitions in memory.
WriteMbr ==
    /\ stage = "mbr" /\ stage' = "sol-boot"
    /\ image' = Written(image, 0, Filled("mbr", 1))
    /\ table' = <<>>
    /\ UNCHANGED <<build, volume, efi, copied>>

add_partition(name, size, next) ==
    /\ stage = name /\ stage' = next
    /\ Places(table, Len(image), size) # {}
    /\ table' = Append(table, [name |-> name, size |-> size,
                              first |-> First(Places(table, Len(image), size))])
    /\ UNCHANGED <<build, volume, efi, image, copied>>

\* The table at the head of the disk and its copy at the end.
WriteTable ==
    /\ stage = "write_table" /\ stage' = "write_boot"
    /\ image' = Written(Written(image, 1, Filled("gpt", GPT_LBAS)),
                        Len(image) - GPT_LBAS, Filled("backup", GPT_LBAS))
    /\ copied' = 0
    /\ UNCHANGED <<build, volume, efi, table>>

\* Mutant: starts a block too late.
CopyLate(name, content, partition, next) ==
    /\ stage = name
    /\ \/ /\ copied < Len(content)
          /\ image' = Written(image, partition.first + copied + 1, <<content[copied + 1]>>)
          /\ copied' = copied + 1 /\ UNCHANGED stage
       \/ /\ copied >= Len(content)
          /\ copied' = 0 /\ stage' = next /\ UNCHANGED image
    /\ UNCHANGED <<build, volume, efi, table>>

\* Content goes to a partition block by block.
CopyTo(name, content, partition, next) ==
    /\ stage = name
    /\ \/ /\ copied < Len(content)
          /\ image' = Written(image, partition.first + copied, <<content[copied + 1]>>)
          /\ copied' = copied + 1 /\ UNCHANGED stage
       \/ /\ copied >= Len(content)
          /\ copied' = 0 /\ stage' = next /\ UNCHANGED image
    /\ UNCHANGED <<build, volume, efi, table>>

copy_data_partition ==
    /\ stage = "copy" /\ Len(volume) = table[2].size
    /\ CopyTo("copy", volume, table[2], "done")

assemble_two_partition_image ==
    \/ OpenImage \/ SetLen \/ WriteMbr
    \/ add_partition("sol-boot", Len(efi), "sol-data")
    \/ add_partition("sol-data", DATA_PARTITION_LBAS, "write_table")
    \/ WriteTable
    \/ stage = "write_boot" /\ CopyTo("write_boot", efi, table[1], "copy")
    \/ copy_data_partition

\* The build is run again over what the last one left.
BuildAgain ==
    /\ stage \in {"done", "failed"} /\ build < MaxBuilds
    /\ build' = build + 1 /\ stage' = "volume"
    /\ UNCHANGED <<volume, efi, image, table, copied>>

ImageNext ==
    \/ build_data_volume \/ extract_efi_partition \/ assemble_two_partition_image
    \/ Fail \/ BuildAgain

ImageSpec == ImageInit /\ [][ImageNext]_imageVars

-----------------------------------------------------------------------------
(***************************************************************************)
(* Properties.                                                             *)
(***************************************************************************)

\* disk_size leaves room for both partitions between the two tables, however
\* the size of the EFI partition falls on the alignment.
RoomForBoth ==
    /\ stage = "sol-boot" => Places(table, Len(image), Len(efi)) # {}
    /\ stage = "sol-data" => Places(table, Len(image), DATA_PARTITION_LBAS) # {}

\* What belongs into element i of a finished image.
Belongs(i) ==
    LET boot == i - table[1].first
        user == i - table[2].first
        last == i - (Len(image) - GPT_LBAS)
    IN CASE i = 1                              -> <<"mbr", build, 1>>
         [] i - 1 \in 1 .. GPT_LBAS            -> <<"gpt", build, i - 1>>
         [] boot \in 1 .. Len(efi)             -> <<"boot", build, boot>>
         [] user \in 1 .. DATA_PARTITION_LBAS  -> <<"data", build, user>>
         [] last \in 1 .. GPT_LBAS             -> <<"backup", build, last>>
         [] OTHER                              -> Zero

\* A build that succeeds leaves both tables, the EFI partition and the data
\* volume whole, none of them over another, and nothing else in the file.
BuiltImageIsWhole ==
    stage = "done" => \A i \in DOMAIN image : image[i] = Belongs(i)

\* Wherever a build ends, and whatever was there before, what the image
\* holds is of one build.
ImageIsOfOneBuild ==
    \A i, j \in DOMAIN image : image[i] # Zero /\ image[j] # Zero => image[i][2] = image[j][2]
=============================================================================
