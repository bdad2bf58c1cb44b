------------------------------ MODULE BootDisk -----------------------------
(***************************************************************************)
(* From the build to the shell: the image build.rs leaves is put on a      *)
(* stick, the loader is started from it, and kernel_main goes through what *)
(* it needs before it turns to the keyboard (BringUp).  What joins         *)
(* DiskImage and UefiLoader is the GPT of the image, by whose names and    *)
(* types the loader finds the data volume.                                 *)
(***************************************************************************)
EXTENDS DiskImage, UefiLoader

\* What build.rs writes into the GPT; what the loader looks for there is in
\* constants of its own (SOL_DATA_PARTITION_TYPE, _NAME and SOL_DATA_BLOCKS).
CONSTANTS
    EFI, BASIC,             \* types of gpt::partition_types
    BootName, DataName,     \* "sol-boot" and "sol-data", as characters
    GPT_NAME_CHARS          \* characters a GPT entry has room for, 36

\* Names fit into an entry with a Nul behind them; the stick is a disk of its
\* own, and its EFI partition is not of the type the loader looks for.
ASSUME StickAssumption ==
    /\ GPT_NAME_CHARS \in Nat /\ Len(SOL_DATA_PARTITION_NAME) < GPT_NAME_CHARS
    /\ EFI # SOL_DATA_PARTITION_TYPE
    /\ \A m \in Machines :
          /\ {"handles", "boot_disk", "opens", "memory", "framebuffer", "frames"} \subseteq DOMAIN m
          /\ m.boot_disk = 1
          /\ \A h \in 1 .. Len(m.handles) : m.handles[h].disk # 1

VARIABLE kernel     \* where kernel_main is, or the message it has panicked with

BootDiskInit ==
    /\ ImageInit
    /\ machine = <<>> /\ pc = "off" /\ boot_mode = "Disk"
    /\ handle = 1 /\ data = <<>> /\ index = 0 /\ ramdisk = <<>>
    /\ kernel = "take_framebuffer"

\* An entry of the GPT, its name filled up with Nul.
GptEntry(type, name) ==
    [type |-> type,
     name |-> [i \in 1 .. GPT_NAME_CHARS |-> IF i <= Len(name) THEN name[i] ELSE Nul]]

\* Mutant: the two partitions are added under each other's name.
EntrySwapped(partition) ==
    IF partition.name = "sol-boot" THEN GptEntry(BASIC, DataName) ELSE GptEntry(EFI, BootName)

\* Mutant: both partitions are added as EFI partitions.
EntryBothEfi(partition) ==
    GptEntry(EFI, IF partition.name = "sol-data" THEN DataName ELSE BootName)

\* The entry add_partition makes for each partition.
Entry(partition) ==
    IF partition.name = "sol-data" THEN GptEntry(BASIC, DataName) ELSE GptEntry(EFI, BootName)

\* What the firmware makes of a partition of the image; opens: whether it
\* gives out its PartitionInfo.
HandleOf(partition, opens) ==
    [disk |-> 1, opens |-> opens, entry |-> Entry(partition), block_io |-> TRUE,
     media |-> [usable |-> TRUE, block_size |-> BLOCK_SIZE, blocks |-> partition.size],
     content |-> [b \in 0 .. partition.size - 1 |-> image[partition.first + b + 1]],
     bad |-> {}]

\* The firmware finds a loader only in a whole EFI partition of a disk with
\* a table.
Bootable ==
    /\ Len(table) = 2 /\ image # <<>> /\ image[2][1] = "gpt"
    /\ \A i \in 1 .. table[1].size : image[table[1].first + i][1] = "boot"

\* The partitions of the stick, and a machine that lists them before or
\* behind its own.
Stick(first, opens) == <<HandleOf(table[first], opens), HandleOf(table[3 - first], opens)>>

WithStick(m, first, second) ==
    [m EXCEPT !.handles = IF second = 1 THEN Stick(first, m.opens) \o @ ELSE @ \o Stick(first, m.opens)]

\* The stick is a copy of the image, made after a build has ended, well or
\* not.  The firmware lists its partitions among those of the machine, in
\* any order.
PowerOn ==
    /\ pc = "off" /\ stage \in {"done", "failed"} /\ Bootable
    /\ pc' = "load_kernel"
    /\ \E m \in Machines, first, second \in {1, 2} : machine' = WithStick(m, first, second)
    /\ UNCHANGED <<boot_mode, handle, data, index, ramdisk, kernel, imageVars>>

-----------------------------------------------------------------------------
\* A step of kernel_main whose result it expects: without it, it panics.
Expect(from, found, to, message) ==
    /\ pc = "kernel_main"
    /\ kernel = from
    /\ kernel' = IF found THEN to ELSE message

\* Whether mount, list_dir and read_file succeed depends on what the volume
\* holds, which the formatting library and disk_files decide; what they make
\* of any volume is in Fat32.
ExpectOfVolume(from, to, message) == \E found \in BOOLEAN : Expect(from, found, to, message)

NoRamdisk == "bootloader did not provide the FAT32 ramdisk"

kernel_main ==
    \/ Expect("take_framebuffer", machine.framebuffer, "traps", "UEFI did not provide a framebuffer")
    \/ Expect("traps", TRUE, "init_heap", "")        \* gdt::init, interrupts::init, int3
    \/ Expect("init_heap", machine.frames, "from_boot_info", "heap mapping failed")
    \/ Expect("from_boot_info", ramdisk # <<>>, "mount", NoRamdisk)
    \/ ExpectOfVolume("mount", "list_dir", "FAT32 mount failed")
    \/ ExpectOfVolume("list_dir", "read_file", "root directory read failed")
    \/ ExpectOfVolume("read_file", "initialize_controller", "HELLO.TXT read failed")

BootDiskNext ==
    \/ pc = "off" /\ ImageNext /\ UNCHANGED <<vars, kernel>>
    \/ PowerOn
    \/ Next /\ UNCHANGED <<imageVars, kernel>>
    \/ kernel_main /\ UNCHANGED <<imageVars, vars>>

BootDiskSpec == BootDiskInit /\ [][BootDiskNext]_<<vars, imageVars, kernel>>

-----------------------------------------------------------------------------
\* The build whose kernel the stick boots.
KernelBuild == image[table[1].first + 1][2]

\* The kernel and its disk are of one build: what is handed over from the
\* stick is in its place and of the kernel's build, and it is the whole
\* volume if that build ended well.
BuiltVolumeReachesKernel ==
    pc = "kernel_main" /\ ramdisk # <<>> /\ ramdisk[1].from.disk = machine.boot_disk =>
        \A b \in DOMAIN ramdisk[1].data :
            \/ ramdisk[1].data[b] = <<"data", KernelBuild, b + 1>>
            \/ stage = "failed" /\ ramdisk[1].data[b] = Zero

\* The three things the loader knows the data volume by are what build.rs
\* has written: the type, the name and the size of its partition.
SourcesAgree ==
    /\ BASIC = SOL_DATA_PARTITION_TYPE
    /\ DataName = SOL_DATA_PARTITION_NAME
    /\ DATA_PARTITION_LBAS = SOL_DATA_BLOCKS

\* The firmware gives out the stick's partitions and enough memory, and lists
\* no other partition called sol-data.
Sound ==
    /\ machine.opens /\ machine.memory
    /\ \A h \in DOMAIN machine.handles :
          IsSolData(machine.handles[h]) => machine.handles[h].disk = machine.boot_disk

\* The loader finds what build.rs has laid out: booted from the stick on a
\* sound machine, wherever the firmware lists the stick's partitions, it
\* gives the kernel the whole data partition, and kernel_main never panics
\* for want of a ramdisk.  This takes the agreement of constants which
\* build.rs and the loader, two programs, have each for themselves.
BuiltVolumeIsFound ==
    pc = "kernel_main" /\ boot_mode = "Disk" /\ Sound =>
        /\ ramdisk # <<>> /\ ramdisk[1].from.disk = machine.boot_disk
        /\ DOMAIN ramdisk[1].data = 0 .. DATA_PARTITION_LBAS - 1
        /\ kernel # NoRamdisk
=============================================================================
