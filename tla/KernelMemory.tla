--------------------------- MODULE KernelMemory ----------------------------
(***************************************************************************)
(* How the kernel gets its heap (memory.rs): the frames of the boot        *)
(* memory map are handed out once each, in order, and init_heap maps the   *)
(* heap's pages to them.  A step is one call of the loop's body: taking    *)
(* the page's frame, entering one level of the page tables, setting the    *)
(* entry.                                                                  *)
(***************************************************************************)
EXTENDS Integers, Sequences, FiniteSets

CONSTANTS
    MemoryMaps,     \* sequences of regions, records of start, end and usable
    PageTables,     \* what the bootloader may have left: see BootTables
    FRAME_SIZE,     \* 4096 in the code
    ENTRIES,        \* entries of a page table, 512 in the code
    HEAP_START,
    HEAP_SIZE,
    None

\* Level 1 tables hold the entries of pages; the level 4 table is the root.
Levels == 1 .. 3

\* The number of the level's table that covers a page.
Table(level, page) == <<level, page \div ENTRIES ^ level>>

start_page == HEAP_START \div FRAME_SIZE
end_page == (HEAP_START + HEAP_SIZE - 1) \div FRAME_SIZE
HeapPages == start_page .. end_page

\* A memory map lists memory once: no two of its regions share a byte.  The
\* bootloader's tables are records of present tables and mapped pages.
ASSUME MemoryAssumption ==
    /\ FRAME_SIZE \in Nat \ {0} /\ ENTRIES \in Nat \ {0, 1}
    /\ HEAP_START \in Nat /\ HEAP_SIZE \in Nat \ {0} /\ None \notin Nat
    /\ \A map \in MemoryMaps :
          /\ map \in Seq([start : Nat, end : Nat, usable : BOOLEAN])
          /\ \A i, j \in DOMAIN map :
                i # j => map[i].end <= map[j].start \/ map[j].end <= map[i].start
    /\ \A boot \in PageTables : \A page \in boot.pages, level \in Levels :
          Table(level, page) \in boot.tables

VARIABLES
    memory_regions, next_frame,    \* BootInfoFrameAllocator
    boot,                    \* the page tables the kernel was entered with
    tables,                  \* frames of the tables map_to has created
    mapping,                 \* frames of the pages map_to has mapped
    pc, page, frame, level,  \* init_heap: where it is, and its locals
    ready                    \* ALLOCATOR.init has been called

frames == <<memory_regions, next_frame>>
vars == <<frames, boot, tables, mapping, pc, page, frame, level, ready>>

Init ==
    /\ memory_regions \in MemoryMaps /\ next_frame = 0
    /\ boot \in PageTables
    /\ tables = <<>> /\ mapping = <<>>
    /\ pc = "loop" /\ page = start_page /\ frame = None /\ level = 3
    /\ ready = FALSE

-----------------------------------------------------------------------------
\* Mutant: a region's first frame may begin before the region.
align_up_down(value) == value - (value % FRAME_SIZE)

\* (value + alignment - 1) & !(alignment - 1)
align_up(value) == (value + FRAME_SIZE - 1) - ((value + FRAME_SIZE - 1) % FRAME_SIZE)

\* (start..end).step_by(4096): the whole frames of a region, by address.
RegionFrames(region) ==
    LET first == align_up(region.start)
        last  == region.end - (region.end % FRAME_SIZE)
    IN {f \in first .. last - 1 : (f - first) % FRAME_SIZE = 0}

\* What usable_frames yields: the frames of the usable regions, each with
\* its region, and the order they come in.
usable_frames ==
    UNION {{i} \X RegionFrames(memory_regions[i]) :
             i \in {i \in DOMAIN memory_regions : memory_regions[i].usable}}

Earlier(p, q) == p[1] < q[1] \/ (p[1] = q[1] /\ p[2] < q[2])

usable_frame_count == Cardinality(usable_frames)

\* Iterator::nth, the item that n others come before.
nth(n) == CHOOSE p \in usable_frames : Cardinality({q \in usable_frames : Earlier(q, p)}) = n

\* What allocate_frame returns: the next'th usable frame, if there is one.
NextFrame == IF next_frame < usable_frame_count THEN nth(next_frame)[2] ELSE None

\* Mutant: the iterator is not advanced.
allocate_frame_again == UNCHANGED frames

\* allocate_frame: next moves on even when there was no frame.
allocate_frame == next_frame' = next_frame + 1 /\ UNCHANGED memory_regions

-----------------------------------------------------------------------------
Fail == pc' = "failed"

\* An entry is set.
With(entries, at, to) == [x \in DOMAIN entries \cup {at} |-> IF x = at THEN to ELSE entries[x]]

\* The head of the loop: a frame for the page, or ? returns.
TakeFrame ==
    /\ pc = "loop" /\ page \in HeapPages
    /\ allocate_frame
    /\ frame' = NextFrame /\ level' = 3
    /\ IF NextFrame = None THEN Fail ELSE pc' = "walk"
    /\ UNCHANGED <<boot, tables, mapping, page, ready>>

Present == boot.tables \cup DOMAIN tables

\* Mutant: a frame is taken before it is known whether the table is there.
EnterTableWasteful ==
    /\ pc = "walk" /\ level \in Levels
    /\ allocate_frame
    /\ \/ /\ Table(level, page) \in Present
          /\ UNCHANGED <<tables, pc>>
       \/ /\ Table(level, page) \notin Present
          /\ IF NextFrame = None THEN Fail /\ UNCHANGED tables
             ELSE tables' = With(tables, Table(level, page), NextFrame) /\ UNCHANGED pc
    /\ level' = level - 1
    /\ UNCHANGED <<boot, mapping, page, frame, ready>>

\* map_to, create_next_table: a missing table takes a frame of its own.
EnterTable ==
    /\ pc = "walk" /\ level \in Levels
    /\ \/ /\ Table(level, page) \in Present
          /\ UNCHANGED <<frames, tables, pc>>
       \/ /\ Table(level, page) \notin Present
          /\ allocate_frame
          /\ IF NextFrame = None THEN Fail /\ UNCHANGED tables
             ELSE tables' = With(tables, Table(level, page), NextFrame) /\ UNCHANGED pc
    /\ level' = level - 1
    /\ UNCHANGED <<boot, mapping, page, frame, ready>>

\* map_to, at last: the entry is set unless the page is mapped already.
SetEntry ==
    /\ pc = "walk" /\ level = 0
    /\ \/ /\ page \in boot.pages
          /\ Fail /\ UNCHANGED <<mapping, page>>
       \/ /\ page \notin boot.pages
          /\ mapping' = With(mapping, page, frame)
          /\ page' = page + 1 /\ pc' = "loop"
    /\ UNCHANGED <<frames, boot, tables, frame, level, ready>>

\* Mutant: the range of pages ends before its last page.
FinishEarly ==
    /\ pc = "loop" /\ page \notin HeapPages \ {end_page}
    /\ ready' = TRUE /\ pc' = "done"
    /\ UNCHANGED <<frames, boot, tables, mapping, page, frame, level>>

\* The end of the loop, ALLOCATOR.init and Ok.
Finish ==
    /\ pc = "loop" /\ page \notin HeapPages
    /\ ready' = TRUE /\ pc' = "done"
    /\ UNCHANGED <<frames, boot, tables, mapping, page, frame, level>>

Next == TakeFrame \/ EnterTable \/ SetEntry \/ Finish

Spec == Init /\ [][Next]_vars

-----------------------------------------------------------------------------
(***************************************************************************)
(* Properties.                                                             *)
(***************************************************************************)

\* Every variable keeps its type, and a step leaves the map and the
\* bootloader's tables alone.
TypeOK ==
    /\ memory_regions \in Seq([start : Nat, end : Nat, usable : BOOLEAN]) /\ next_frame \in Nat
    /\ \A table \in DOMAIN tables : table[1] \in Levels /\ tables[table] \in Nat
    /\ DOMAIN mapping \subseteq HeapPages /\ \A p \in DOMAIN mapping : mapping[p] \in Nat
    /\ pc \in {"loop", "walk", "done", "failed"} /\ level \in 0 .. 3
    /\ page \in start_page .. end_page + 1
    /\ frame \in Nat \cup {None}
    /\ (pc = "walk" => frame # None)
    /\ ready \in BOOLEAN

\* The frames in use: of tables, of pages, and of the page at hand.
Given == {tables[t] : t \in DOMAIN tables} \cup {mapping[p] : p \in DOMAIN mapping}
         \cup IF pc = "walk" THEN {frame} ELSE {}

\* allocate_frame's promise to map_to: a frame is never used twice, whether
\* for a page of the heap or for a table created on the way to one.
FramesHaveOneOwner ==
    Cardinality(Given) = Cardinality(DOMAIN tables) + Cardinality(DOMAIN mapping)
                         + IF pc = "walk" THEN 1 ELSE 0

\* Nothing the firmware keeps is overwritten: every byte of a frame in use
\* lies in a region marked usable, however regions meet inside a frame.
FramesAreUsable ==
    \A f \in Given : \E i \in DOMAIN memory_regions :
        /\ memory_regions[i].usable
        /\ memory_regions[i].start <= f /\ f + FRAME_SIZE <= memory_regions[i].end

\* The allocator is given the heap only when each of its bytes is mapped,
\* through tables that are there.
HeapIsBacked ==
    ready => \A address \in HEAP_START .. HEAP_START + HEAP_SIZE - 1 :
        /\ address \div FRAME_SIZE \in DOMAIN mapping
        /\ \A l \in Levels : Table(l, address \div FRAME_SIZE) \in Present

\* The tables above the heap's pages that the bootloader did not leave.
MissingTables == {Table(l, p) : l \in Levels, p \in HeapPages} \ boot.tables
Cost == Cardinality(HeapPages) + Cardinality(MissingTables)

\* init_heap gives up exactly when it has to, and what meminfo reports as
\* consumed is what the heap costs: no frame is lost on the way.
HeapCost ==
    /\ pc = "done" => next_frame = Cost /\ next_frame <= usable_frame_count
    /\ pc = "failed" => usable_frame_count < Cost \/ HeapPages \cap boot.pages # {}
=============================================================================
