----------------------------- MODULE UefiLoader ----------------------------
(***************************************************************************)
(* How the vendored UEFI loader gives the kernel its disk (main_inner and  *)
(* load_sol_data_partition of vendor/bootloader/uefi): it looks through    *)
(* the partitions the firmware lists, reads the first one that is called   *)
(* sol-data chunk by chunk, and leaves the boot services.  The firmware is *)
(* external: a machine says what its calls will answer.                    *)
(***************************************************************************)
EXTENDS Integers, Sequences

CONSTANTS
    Machines,                   \* what the loader may run on
    SOL_DATA_PARTITION_TYPE,
    SOL_DATA_PARTITION_NAME,    \* a sequence of characters
    SOL_DATA_BLOCKS,            \* SOL_DATA_BYTES in blocks of 512 bytes
    BLOCK_SIZE,                 \* 512
    CHUNK_BLOCKS,               \* BLOCK_IO_CHUNK_BYTES in blocks
    Nul,                        \* the character that ends a name
    Unread                      \* what freshly allocated pages hold

IsSequence(s) == Len(s) \in Nat /\ s = [i \in 1 .. Len(s) |-> s[i]]

ASSUME LoaderAssumption ==
    /\ SOL_DATA_BLOCKS \in Nat \ {0} /\ BLOCK_SIZE \in Nat \ {0} /\ CHUNK_BLOCKS \in Nat \ {0}
    /\ IsSequence(SOL_DATA_PARTITION_NAME)
    /\ \A i \in DOMAIN SOL_DATA_PARTITION_NAME : SOL_DATA_PARTITION_NAME[i] # Nul

\* A GPT entry has room for 36 characters, sol-data has 8.
ASSUME MachineAssumption ==
    \A m \in Machines :
        /\ IsSequence(m.handles)
        /\ \A h \in 1 .. Len(m.handles) :
              LET name == m.handles[h].entry.name
              IN IsSequence(name) /\ Len(name) > Len(SOL_DATA_PARTITION_NAME)

VARIABLES
    machine,            \* the firmware and its disks, which do not change:
                        \* handles with their disk, GPT entry, media, content
                        \* and bad blocks, and whether calls succeed
    pc, boot_mode,
    handle,             \* position in the list of PartitionInfo handles
    data, index,        \* the allocated pages, and the next chunk
    ramdisk             \* what BootInfo will say: <<>>, or <<a record>>

vars == <<machine, pc, boot_mode, handle, data, index, ramdisk>>

Init ==
    /\ machine \in Machines
    /\ pc = "load_kernel" /\ boot_mode = "Disk"
    /\ handle = 1 /\ data = <<>> /\ index = 0 /\ ramdisk = <<>>

-----------------------------------------------------------------------------
(***************************************************************************)
(* Files, from the device or the server the loader came from.  A call      *)
(* returns Some or None, or panics where the code unwraps.                 *)
(***************************************************************************)
locate_and_open_protocol(protocol) == protocol \in machine.protocols

load_file_from_disk(name) ==
    IF locate_and_open_protocol("SimpleFileSystem") THEN machine.disk_files[name] ELSE "None"

load_file_from_tftp_boot_server(name) ==
    IF locate_and_open_protocol("BaseCode") THEN machine.tftp_files[name] ELSE "None"

load_file_from_boot_method(name) ==
    IF boot_mode = "Disk" THEN load_file_from_disk(name) ELSE load_file_from_tftp_boot_server(name)

\* From the boot device, or else from the boot server.
load_kernel ==
    /\ pc = "load_kernel"
    /\ \/ /\ load_file_from_boot_method("kernel") = "Some"
          /\ pc' = "load_config" /\ UNCHANGED boot_mode
       \/ /\ load_file_from_boot_method("kernel") = "None" /\ boot_mode = "Disk"
          /\ boot_mode' = "Tftp" /\ UNCHANGED pc
       \/ /\ load_file_from_boot_method("kernel") = "None" /\ boot_mode = "Tftp"
          /\ pc' = "panic" /\ UNCHANGED boot_mode
       \/ /\ load_file_from_boot_method("kernel") = "panic"
          /\ pc' = "panic" /\ UNCHANGED boot_mode
    /\ UNCHANGED <<machine, handle, data, index, ramdisk>>

\* boot.json may be missing or bad: there are defaults.
load_config_file ==
    /\ pc = "load_config"
    /\ pc' = IF load_file_from_boot_method("config") = "panic" THEN "panic" ELSE "load_sol_data"
    /\ UNCHANGED <<machine, boot_mode, handle, data, index, ramdisk>>

\* return None
GiveUp == pc' = "exit" /\ UNCHANGED <<handle, data, index, ramdisk>>

load_sol_data_partition ==
    /\ pc = "load_sol_data"
    /\ \/ boot_mode = "Disk" /\ pc' = "search" /\ UNCHANGED <<handle, data, index, ramdisk>>
       \/ boot_mode = "Tftp" /\ GiveUp
    /\ UNCHANGED <<machine, boot_mode>>

is_sol_data_partition_entry(entry) ==
    /\ entry.type = SOL_DATA_PARTITION_TYPE
    /\ Len(entry.name) > Len(SOL_DATA_PARTITION_NAME)
    /\ \A i \in DOMAIN SOL_DATA_PARTITION_NAME : entry.name[i] = SOL_DATA_PARTITION_NAME[i]
    /\ entry.name[Len(SOL_DATA_PARTITION_NAME) + 1] = Nul

\* The tests of the partition's media; usable stands for the medium being
\* present, a logical partition and not too strictly aligned.
Supported(media) ==
    /\ media.usable
    /\ media.block_size = BLOCK_SIZE
    /\ media.blocks * media.block_size = SOL_DATA_BLOCKS * BLOCK_SIZE

Partition == machine.handles[handle]

\* Mutant: a handle that cannot be opened ends the search.
SearchStops ==
    /\ pc = "search"
    /\ \/ handle > Len(machine.handles) /\ GiveUp
       \/ /\ handle <= Len(machine.handles)
          /\ \/ ~ Partition.opens /\ GiveUp
             \/ /\ Partition.opens /\ ~ is_sol_data_partition_entry(Partition.entry)
                /\ handle' = handle + 1 /\ UNCHANGED <<pc, data, index, ramdisk>>
             \/ /\ Partition.opens /\ is_sol_data_partition_entry(Partition.entry)
                /\ IF Partition.block_io /\ Supported(Partition.media) /\ machine.memory
                   THEN /\ data' = [b \in 0 .. SOL_DATA_BLOCKS - 1 |-> Unread]
                        /\ pc' = "read" /\ UNCHANGED <<handle, index, ramdisk>>
                   ELSE GiveUp
    /\ UNCHANGED <<machine, boot_mode>>

\* One round of the loop over the handles: skipped, or the one that counts,
\* whatever becomes of it.
Search ==
    /\ pc = "search"
    /\ \/ handle > Len(machine.handles) /\ GiveUp
       \/ /\ handle <= Len(machine.handles)
          /\ \/ /\ ~ (Partition.opens /\ is_sol_data_partition_entry(Partition.entry))
                /\ handle' = handle + 1 /\ UNCHANGED <<pc, data, index, ramdisk>>
             \/ /\ Partition.opens /\ is_sol_data_partition_entry(Partition.entry)
                /\ IF Partition.block_io /\ Supported(Partition.media) /\ machine.memory
                   THEN /\ data' = [b \in 0 .. SOL_DATA_BLOCKS - 1 |-> Unread]
                        /\ pc' = "read" /\ UNCHANGED <<handle, index, ramdisk>>
                   ELSE GiveUp
    /\ UNCHANGED <<machine, boot_mode>>

\* The blocks of data that are chunk i; the last chunk may be short.
Chunk(i) == {b \in DOMAIN data : b \div CHUNK_BLOCKS = i}

\* Mutant: counts chunks where blocks are meant.
LbaOfChunk(i) == i

Lba(i) == i * CHUNK_BLOCKS

\* read_blocks of one chunk; on an error nothing is handed over.
ReadChunk ==
    /\ pc = "read" /\ Chunk(index) # {}
    /\ LET Source(b) == Lba(index) + (b - index * CHUNK_BLOCKS) IN
          IF \E b \in Chunk(index) : Source(b) \in Partition.bad THEN GiveUp
          ELSE /\ data' = [b \in DOMAIN data |-> IF b \in Chunk(index) THEN Partition.content[Source(b)]
                                                 ELSE data[b]]
               /\ index' = index + 1
               /\ UNCHANGED <<pc, handle, ramdisk>>
    /\ UNCHANGED <<machine, boot_mode>>

\* return Some(data)
ReadEnd ==
    /\ pc = "read" /\ Chunk(index) = {}
    /\ ramdisk' = <<[data |-> data, from |-> Partition]>> /\ pc' = "exit"
    /\ UNCHANGED <<machine, boot_mode, handle, data, index>>

\* exit_boot_services and load_and_switch_to_kernel.
Enter ==
    /\ pc = "exit"
    /\ pc' = "kernel_main"
    /\ UNCHANGED <<machine, boot_mode, handle, data, index, ramdisk>>

Next ==
    \/ load_kernel \/ load_config_file \/ load_sol_data_partition \/ Search
    \/ ReadChunk \/ ReadEnd \/ Enter

Spec == Init /\ [][Next]_vars

-----------------------------------------------------------------------------
(***************************************************************************)
(* Properties.                                                             *)
(***************************************************************************)

\* A name as the GPT means it: the characters before the first Nul.
NameOf(entry) ==
    LET ends == {i \in DOMAIN entry.name : entry.name[i] = Nul}
        end  == IF ends = {} THEN Len(entry.name) + 1
                ELSE CHOOSE i \in ends : \A j \in ends : i <= j
    IN SubSeq(entry.name, 1, end - 1)

IsSolData(partition) ==
    /\ partition.opens
    /\ partition.entry.type = SOL_DATA_PARTITION_TYPE
    /\ NameOf(partition.entry) = SOL_DATA_PARTITION_NAME

\* The kernel never sees half a disk: with a ramdisk it is entered with
\* every block of one partition, in order, and that partition is a sol-data
\* partition, to the last character of its name.
SnapshotIsThePartition ==
    pc = "kernel_main" /\ ramdisk # <<>> =>
        /\ IsSolData(ramdisk[1].from)
        /\ ramdisk[1].data = [b \in 0 .. SOL_DATA_BLOCKS - 1 |-> ramdisk[1].from.content[b]]

\* The first sol-data partition that is listed decides: the kernel goes
\* without a disk only if there is none, if the kernel came from a server,
\* or if that very partition cannot be taken over whole.
FirstSolDataDecides ==
    pc = "kernel_main" /\ ramdisk = <<>> /\ boot_mode = "Disk" =>
        \A h \in DOMAIN machine.handles :
            /\ IsSolData(machine.handles[h])
            /\ \A g \in 1 .. h - 1 : ~ IsSolData(machine.handles[g])
            => LET p == machine.handles[h]
               IN ~ p.block_io \/ ~ Supported(p.media) \/ ~ machine.memory \/ p.bad # {}

\* What the comments in main_inner and on load_sol_data_partition say: the
\* bytes come from the partition on the device the loader was booted from.
SnapshotFromBootDevice ==
    pc = "kernel_main" /\ ramdisk # <<>> => ramdisk[1].from.disk = machine.boot_disk
=============================================================================
