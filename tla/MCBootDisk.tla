----------------------------- MODULE MCBootDisk ----------------------------
(***************************************************************************)
(* BootDisk for TLC.  The constants of build.rs and those of the loader    *)
(* are each given by the literals of their own source; no assumption says  *)
(* that they agree.  An EFI partition that is a multiple of the alignment  *)
(* or one or two blocks longer; a volume of three blocks and a chunk of    *)
(* two, so that the last chunk is short.  Besides the stick the machine    *)
(* has at most one partition, of either type, with a name shorter, equal   *)
(* or longer than sol-data, of any geometry, with a bad block anywhere; or *)
(* a firmware whose calls fail.                                            *)
(***************************************************************************)
EXTENDS BootDisk

\* A size as many blocks, so that one smaller, equal or larger than 64 MiB
\* stays so.
Scaled(bytes) == IF bytes < 67108864 THEN 2 ELSE IF bytes = 67108864 THEN 3 ELSE 4

\* build.rs: gpt::partition_types in groups of 16 bits, the names it gives to
\* add_partition, and 64 * MIB.
BuildEfi == <<\hC12A, \h7328, \hF81F, \h11D2, \hBA4B, \h00A0, \hC93E, \hC93B>>
BuildBasic == <<\hEBD0, \hA0A2, \hB9E5, \h4433, \h87C0, \h68B6, \hB726, \h99C7>>
BuildBootName == <<"s", "o", "l", "-", "b", "o", "o", "t">>
BuildDataName == <<"s", "o", "l", "-", "d", "a", "t", "a">>
BuildMib == 1024 * 1024
BuildDataSize == Scaled(64 * BuildMib)

\* The loader: "ebd0a0a2-b9e5-4433-87c0-68b6b72699c7", b"sol-data" and
\* 64 * 1024 * 1024.
LoaderType == <<\hebd0, \ha0a2, \hb9e5, \h4433, \h87c0, \h68b6, \hb726, \h99c7>>
LoaderName == <<"s", "o", "l", "-", "d", "a", "t", "a">>
LoaderSize == Scaled(64 * 1024 * 1024)

Entries ==
    {GptEntry(BuildBasic, name) :
        name \in {BuildDataName, BuildDataName \o <<"2">>, <<"s", "o", "l">>}}
    \cup {GptEntry(BuildEfi, BuildDataName)}

Healthy(entry) ==
    [disk |-> 2, opens |-> TRUE, entry |-> entry, block_io |-> TRUE,
     media |-> [usable |-> TRUE, block_size |-> 1, blocks |-> 3],
     content |-> [b \in 0 .. 2 |-> <<"other", 0, b>>], bad |-> {}]

Others ==
    UNION {LET p == Healthy(entry) IN
               {p, [p EXCEPT !.opens = FALSE], [p EXCEPT !.block_io = FALSE],
                [p EXCEPT !.media.usable = FALSE], [p EXCEPT !.media.blocks = 2],
                [p EXCEPT !.media.blocks = 4],
                [p EXCEPT !.media = [usable |-> TRUE, block_size |-> 3, blocks |-> 1]]}
               \cup {[p EXCEPT !.bad = {b}] : b \in 0 .. 2} : entry \in Entries}

Files == [{"kernel", "config"} -> {"Some", "None", "panic"}]
AllThere == [f \in {"kernel", "config"} |-> "Some"]

Machine(handles, opens, memory, protocols, disk, tftp) ==
    [handles |-> handles, boot_disk |-> 1, opens |-> opens, memory |-> memory, protocols |-> protocols,
     disk_files |-> disk, tftp_files |-> tftp, framebuffer |-> TRUE, frames |-> TRUE]

Plain == Machine(<<>>, TRUE, TRUE, {"SimpleFileSystem"}, AllThere, AllThere)

MCMachines ==
    {[Plain EXCEPT !.handles = <<p>>] : p \in Others}
    \cup {[Plain EXCEPT !.framebuffer = FALSE], [Plain EXCEPT !.frames = FALSE]}
    \cup {Machine(<<>>, opens, memory, protocols, AllThere, AllThere) :
            opens, memory \in BOOLEAN, protocols \in SUBSET {"SimpleFileSystem", "BaseCode"}}
    \cup {Machine(<<>>, TRUE, TRUE, {"SimpleFileSystem", "BaseCode"}, disk, tftp) :
            disk \in Files, tftp \in {f \in Files : f.config # "None"}}
=============================================================================
