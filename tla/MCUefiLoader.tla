---------------------------- MODULE MCUefiLoader ---------------------------
(***************************************************************************)
(* UefiLoader for TLC, on a machine with two disks that both have          *)
(* partitions and a firmware that works.                                   *)
(***************************************************************************)
EXTENDS UefiLoader

CONSTANTS s, d, basic, esp

MCName == <<s, d>>

Partitions ==
    {[disk |-> disk, opens |-> TRUE, entry |-> [type |-> type, name |-> <<s, d, Nul>>],
      block_io |-> TRUE, media |-> [usable |-> TRUE, block_size |-> 1, blocks |-> 3],
      content |-> [b \in 0 .. 2 |-> <<disk, b>>], bad |-> {}] :
        disk \in 1 .. 2, type \in {basic, esp}}

AllThere == [f \in {"kernel", "config"} |-> "Some"]

MCMachines ==
    {[handles |-> handles, boot_disk |-> 1, memory |-> TRUE, protocols |-> {"SimpleFileSystem"},
      disk_files |-> AllThere, tftp_files |-> AllThere] :
        handles \in UNION {[1 .. n -> Partitions] : n \in 0 .. 3}}
=============================================================================
