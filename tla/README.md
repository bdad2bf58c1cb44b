# Sol OS in TLA+

A verification project for Sol OS, the x86_64 UEFI hobby kernel of this repository:
TLA+ models of its parts, TLC configurations that check them on small instances, and
TLAPS proofs of the properties that matter most for every size. Everything is modelled
from the code under `src/`; `PROJECT.json` maps each definition to its lines.

## The system and its parts

| Part | Code | State | Operations | Module |
|---|---|---|---|---|
| Input queue | `kernel/src/keyboard.rs` 27-75 | ring of events, head, tail, dropped | push (IRQ1), pop (shell) | `InputQueue`, abstract `BoundedFifo` |
| Input path | `shell.rs` run, `interrupts.rs`, `timer.rs`, `pic.rs` | interrupt flag, PIC registers, 8042 buffer, ticks | device interrupts, poll / handle / `sti; hlt`, halt, reboot | `InputPath` |
| Scancode decoder | `keyboard.rs` 122-252 | prefix, Shift, Caps Lock | handle_scancode | `Keyboard` |
| Line editor, history | `shell.rs` 20-236 | line, cursor, history ring, draft, row on the screen | one per key event | `LineEditor`, abstract `EditSession` |
| Heap allocator | `allocator.rs` | start, end, next | init, alloc | `BumpAllocator` |
| FAT32 reader, ramdisk | `fat32.rs`, `storage.rs` | the walk: cluster, sector, hops | mount, list_dir, read_file | `Fat32`, reference `Fat32Reference` |
| Frames, heap mapping | `memory.rs` | frames taken, page tables, heap pages | allocate_frame, init_heap | `KernelMemory` |
| Framebuffer console | `framebuffer.rs` 51-212 | pixels, position, cursor | print, clear, show_cursor | `Framebuffer`, abstract `Terminal` |
| Console locks, faults, panics | `console.rs`, `serial.rs`, `framebuffer.rs` 15-49, `interrupts.rs`, `main.rs` | two spin locks, stack of handlers, interrupt flag | print, exception, panic, device interrupt | `Console` |
| Set-up of the devices | `keyboard.rs` 81-120 and 254-301, `pic.rs`, `timer.rs`, `interrupts.rs` 28-36 | the 8042's buffers and command byte, what the set-up read and returned | initialize_controller, pic and timer initialize, enable interrupts | `BringUp` |
| Disk image build | `src/build.rs` 40-209 | the files of `OUT_DIR`, the image block by block, the partition table | a step for every write of a build, failure between any two, building again | `DiskImage` |
| UEFI snapshot | `vendor/bootloader/uefi/src/main.rs` 72-503 | boot mode, search position, chunks read | load the kernel and its configuration, find and read `sol-data`, enter the kernel | `UefiLoader` |
| From the build to the shell | `build.rs`, the loader, `main.rs` 46-127 | all of the two above, and where `kernel_main` is | put the image on a stick, boot it, every `expect` of `kernel_main` | `BootDisk` |

How they meet: `build.rs` lays out an image with an EFI partition and the FAT32 volume
`sol-data`; the loader hands the kernel a snapshot of that partition; `kernel_main` sets up
the serial line, the screen, the traps, the heap and the volume (it panics when the mount, the
first listing or `HELLO.TXT` fails), then the 8042, the PIC and the PIT, and enters the
shell. From there a key raises IRQ1, the handler decodes it and pushes an event, and
the shell pops it, edits its line, redraws the row and runs commands on the volume.

Two modules compose parts that interact. `BootDisk` joins `DiskImage` and `UefiLoader`
through the partition table of the image. `BringUp` puts the set-up of the devices in
front of `InputPath`, which itself joins the queue, as its abstract specification
`BoundedFifo`, with the handlers, the devices and the shell's loop.

What makes it hard: interrupts cut the main loop between any two instructions; the loop
may sleep on a queue that has just been filled; atomics are read and written in a chosen
order without locks; arrays keep bytes of longer lines; the volume, its FAT and its
directories may hold anything; the frames can run out in the middle of a page; the cursor
is drawn by inversion and must be undone exactly; a fault may hit the holder of the
lock its own report needs; the 8042 answers when it likes while keys are pressed; and a
build may fail over the image of an earlier one. `PROJECT.json` lists these hazards at their lines.

## Modules

**BoundedFifo / InputQueue.** A step of `InputQueue` is one access to shared memory: push
loads, checks, writes the slot, publishes head or counts a drop; pop loads, reads, publishes
tail. Both sides interleave freely, more than one processor needs. `BoundedFifo` is the
promise: a FIFO of capacity - 1 that drops the newest event when it is full.

**InputPath.** The processor runs one of three contexts; an interrupt needs IF, a pending
line and no line of the same or a higher priority in service. Keys are numbered, so that
loss and order show. A command is a stage of
the loop during which interrupts arrive; it comes back, or it is halt or reboot and stops
the machine. The PIC, PIT
and 8042 are external and modelled as the code uses them.

**BringUp.** `initialize_controller` step by step against an 8042 with an input buffer, an
output buffer, a command byte left in any state by the firmware, and its own pace; or
no 8042 at all. Every wait is bounded in the code, so a wait may give up at any moment at which
what it waits for has not happened. A byte of the keyboard that comes behind
`drain_output` is read in place of the command byte, as in the code. `pic_initialize` forgets
requests; whether an 8259 sees a line that is already high is left open.
The shell's loop and the handlers are those of `InputPath`.

**Keyboard.** The decoder, byte by byte, beside a keyboard that presses, repeats and releases keys,
wraps extended keys in fake Shifts, and runs ahead of the interrupts. `owed` says what the
typist meant. Two Shifts held at once, and Caps Lock held until it repeats, are the known
limits of the decoder's one-bit modifiers; `ambiguous` marks them.

**LineEditor / EditSession.** The code's fixed arrays and lengths, with the bytes that stay
behind a length, the history as a ring indexed from `next`, and the row that `redraw`
leaves on the screen. `EditSession` is an editor of plain texts, a list of past lines
and a draft.

**BumpAllocator.** `init`'s three stores and `alloc`'s load and compare-exchange, by
contexts that interleave. Overflow of the address space is in the model.

**Fat32 / Fat32Reference.** One step per sector or FAT entry. A volume is a record of the
boot fields, the FAT and the raw entries of each sector, with any values. A raw entry is
classified as the code's tests do: end, skip, file, directory. Names are equal or
different. `Fat32Reference` says what a volume holds as a whole - a chain is a function from
places to clusters, a directory the entries of its sectors in front of the first end mark, a
path leads from each of its beginnings to the next - and shares no step with `Fat32`, only
what a sector holds and what is listed of it. What it promises of a call that fails is exact
too: the error, and the entries or sectors in front of the damage that the visitor has been given by then.

**KernelMemory.** The memory map in bytes, frames in order of the usable regions, and
`init_heap` page by page: a frame for the page, a walk through the tables that takes a
frame for each missing one (`map_to`, external), an entry, and in the end the allocator.

**Framebuffer / Terminal.** Every pixel of a small screen, positions, the inverted
cursor. `Terminal` is a grid of characters with a cursor mark; the refinement mapping
reads a cell's character off its pixels. Colours and byte layouts are left out. As in the
code, `scroll` moves the top border along with the text.

**Console.** A stack of frames, each with the steps it still has to take. Faults and panics
push a frame that never returns; device interrupts and the breakpoint return. A spin
lock held by a lower frame is never released. Before the IDT is loaded exceptions are
not modelled: nothing in the kernel handles them.

**UefiLoader.** Loading the kernel and `boot.json` from the boot disk or, when the disk has no
kernel, from the boot server, where each call finds a file, finds none or panics (a kernel
file that does not parse counts as a panic); the search for the partition by type and
name, the reading in chunks and the entry of the kernel, on machines with any handles, media and
failing blocks.

**DiskImage.** One step for each file the build makes and each write to the image: truncation, length, MBR,
the two `add_partition` calls (external: the first aligned place with room), the tables, the
copies of both partitions. A build may fail between any two steps, and be run again over
what it left. A block holds zero, or what was written there and by which build.

**BootDisk.** At any moment whatever image there is may be put on a stick and booted. The
firmware turns the image's table into handles, next to those of the machine. What `build.rs` writes
into the GPT (`EFI`, `BASIC`, `BootName`, `DataName`, `DATA_PARTITION_LBAS`) and what the loader looks
for there (`SOL_DATA_PARTITION_TYPE`, `_NAME`, `SOL_DATA_BLOCKS`) are separate constants, and
`MCBootDisk` gives each the literals of its own source: that they agree is checked, not
assumed. `kernel_main` then goes through its `expect`s: framebuffer, memory, ramdisk, `mount`, `list_dir`,
`read_file`, and panics with the message of the one that fails. Whether the last three succeed on a volume of the
formatting library with `disk_files` on it is left open (either may happen); what they make of any volume is in `Fat32`.

## Runs

| Run | Shows | Instance |
|---|---|---|
| `input_queue` | no slot is written and read at once, the ring is a bounded FIFO, a published event is read | 4 slots, 2 events: fills, wraps, drops |
| `bring_up` | the set-up ends, true means that the keyboard is configured, its answer is not taken for a key unless it gave up or misread; keys are handled in order or accounted for, each is settled, ticks go on, a stopped machine stays stopped | 4 keys, room for 2, one byte drained; any command byte, 8042 absent or not |
| `input_path_halt` | finding 1: the loop sleeps on a key | 2 keys, room for 2 |
| `keyboard` | what is typed is what is pushed, in order; nothing is left behind in the decoder | 8 keys that share codes, one byte of lag and a key's own bytes |
| `line_editor` | the row shows the line, the editor implements `EditSession` | lines of 2, history of 2, Tab of 2: full lines, shifts, a wrapping ring |
| `bump_allocator` | blocks are disjoint and in the heap; every call returns | 2 contexts, 9 bytes at an odd address close to the end of memory |
| `fat32` | reads stay in their area, answers are what the volume holds, calls return | 16,608 volumes of at most 12 sectors, most of them damaged |
| `kernel_memory` | frames have one owner and are wholly usable; the heap is enabled exactly when all of it is mapped, at the least cost | 3 pages, up to 5 tables, 3 regions meeting at every offset |
| `framebuffer` | positions stay on the screen, the cursor leaves nothing, nothing is drawn beside or below the cells, the writer implements `Terminal` | 11 x 12 pixels: 2 columns, 2 rows of glyphs of 2 x 3, a rest on both sides, a border wider than the line spacing, as in the code |
| `console` | reports come out, panics come to rest, device handlers return | 4 frames |
| `boot_disk` | the image has room, is whole when its build ends well and never of two builds; the snapshot is a whole partition or none, the first `sol-data` decides; a volume from the stick is whole and of its build; with the literals of both sources the loader finds the stick's data partition on every machine that gives out its partitions and memory and lists no other `sol-data` | EFI partitions of 3, 4, 5 blocks with alignment 3, volume of 3, chunks of 2, 2 builds; some 110 machines: one more partition of every kind, or failing firmware |
| `uefi_loader_device` | finding 2: the snapshot of another disk | 2 partitions on 2 disks, 3 blocks, chunks of 2 |

Why the bounds are enough: each is the smallest at which the code's limits meet - a ring that wraps while
full, a chain that returns to itself through every cluster, a chunk that is short, a page table
shared by two pages of three - and the limits that are numbers (2^32, 2^28, 2^64, the address
space) are lowered so that they are reached. `CHECK_DEADLOCK FALSE` stands where the system
really may stop: after halt or a report, after boot has failed or finished, when a call is
not followed by another, and when the bound on keys or on builds is used up.

For every property a mutant, the code with a plausible mistake, is listed in `PROJECT.json`;
the property fails on it. Mutants stand before the definitions they replace.

### Fairness

* `InputQueue`, `BumpAllocator`, `Fat32`: weak fairness of the code's own steps - a
  processor that runs.
* `InputPath`: the PIT fires again and again; handlers, the loop and interrupt delivery are fair;
  ticks are 10 ms apart and handlers take microseconds, so that unless a tick stays pending for
  ever the loop runs again and again with none pending (`TicksAreFarApart`). Whoever types owes nothing.
* `BringUp`: as `InputPath`, and the set-up runs on; the PIT is only counted on once it has been
  programmed. Nothing is assumed of the 8042: it may never take a command or answer.
* `Console`: strong fairness of each frame's steps, for the same reason. Faults, panics
  and interrupts need not happen.

## Findings

1. `shell.rs:132-133` says that `sti; hlt` avoids the missed-key race between checking the
   queue and halting. Interrupts are on while the queue is checked, so a key may be
   pushed between the check and `sti; hlt`; the processor then sleeps on it until the
   next tick, at most 10 ms later (`NoKeyMissedByHalt` fails; `KeyIsSettled` holds).
2. `uefi/src/main.rs:131-132` and `201-202` say that the snapshot comes from the boot
   device. The search takes the first `sol-data` partition of any disk
   (`SnapshotFromBootDevice` fails).

Behaviours that no document contradicts, and that the models show:

* Releasing one of two held Shift keys turns Shift off.
* A fault that hits the drawing of the screen prints its name on the serial line and then
  waits for ever for the lock of the screen, where a panic would halt.
* If `initialize_controller` gives up waiting for the answer to 0x20, or a key was read in its
  place, the answer may come later and is decoded as a scancode (`AnswerIsNotAKey` says that
  only then; `keyboard.rs:87-88` speaks of replies that race the handler during the set-up, which is
  true: interrupts are off).
* A byte that waits in the 8042 when the PIC is reset holds IRQ1 high. An 8259 that
  wants an edge never sees it, and the keyboard stays silent (`Deaf` in `KeyIsSettled`).
* `timer.rs:13-14` says that the PIC is masked until the PIT is programmed; `initialize_hardware`
  has unmasked it before, harmlessly, as interrupts are off.
* A build that fails may leave a stick that boots with part of a volume, though never with
  parts of two builds.
* The screen's border (8) is wider than the line spacing (2), and `scroll` moves the border too: the lower 6 pixel
  rows of the line that scrolled out stay visible in the top border. The cells are not
  affected (`ImplementsTerminal`), nor the other borders (`SidesStayClear`).

## Proofs

TLAPS checks eight modules, from the assumptions named in the modules they extend: every
safety property of the passing runs, and every refinement. Each
theorem holds for every value of the constants; the invariants are inductive
strengthenings of the properties the runs check.

* `Keyboard_proofs`, the driver of `keyboard.rs`. The ring, for every capacity of at least two
  (`CapacityAssumption`): types; `RingInv` - push between its check and its publication stands
  on a free slot, pop on a published one, and each holds what it wrote or read - which makes
  `NoSlotRace` inductive; and the refinement of `BoundedFifo`, `RingIsFifo`, from lemmas on what
  publishing head, writing a free slot and publishing tail do to the sequence in the ring.
  The decoder, for every set of keys and every lag of the interrupts (`KeysAssumption`): `KInv`
  says that the bytes on the wire lead the decoder, from where it is, through exactly the
  events that are owed to the state the keys are in. "Lead" is the existence of a course
  (`Reaches`): a decoder and the events left at each byte. A byte handled cuts the course at
  its head, a key sent prolongs it at its end, so that no induction over the wire is needed.
  From it `NothingIsOwed`, `DecoderSettles` and `DecodesWhatIsTyped`.
* `BringUp_proofs` (`BoundsAssumption`), from `BootSpec`, without fairness. `KInv`: the keys in
  their five places are ascending, at most the last one pressed, and with the lost ones as many
  as were pressed; a step moves one key across a boundary, which leaves the concatenation as it
  is, adds the next key at its end or removes one. `CInv`: before port 1 is enabled the
  command byte is in the 8042's input buffer or taken, and at most one answer is
  outstanding. From them `KeysAccountedFor`, `ReadyMeansReady`, `AnswerIsNotAKey`; and
  `StoppedStaysStopped` from interrupts being off once stopped.
* `LineEditor_proofs` (`EditorAssumption`): `EInv` (lengths, cursor, ring and draft in their
  ranges, characters and not stale bytes below each length, the row shows the line). `ScreenShowsLine`
  needs that `displayed_length` is the length. The refinement of `EditSession`, `EditorIsSession`, maps
  the ring to the list of past lines, and shows for each key what its array operations do to the text.
* `Fat32_proofs`, for every volume, sector size and request (`SizeAssumption`, `RequestAssumption`,
  `VolumeAssumption`): `TypeOK` and
  `ReadsInsideVolume`. The argument is arithmetic on what mount checked
  (`MountedGeometry`): a valid cluster's sectors lie behind the FATs and within the
  volume, an entry below the FAT's length lies in the first FAT. The invariant `IInv` adds that
  walks only happen on mounted volumes and stand on valid clusters. The module goes on with what
  the definitions of `Fat32Reference` compute for every mounted volume: the recursive functions
  `Chain`, `Listings` and `Resolution` are those their equations say, a chain that has a
  cluster at each of its places repeats one (`PigeonHole`), and one that does not
  ends once, in an end mark or in damage.
* `Fat32Answers_proofs`, on top of it: `AnswersMatchVolume`, for every volume, however damaged.
  The inductive invariant `AInv` adds `WalksChain` to `IInv`: a walk stands at the place of the chain of what the
  path has led to so far that `hops` and `sector_index` say; no sector behind it held the
  end mark or the name that is looked for; what has been listed is what these sectors list; what has been
  delivered is these sectors in full, all of them the chain's, and the rest of the size remains. It is needed because
  `AnswersMatchVolume` says nothing of a call that is under way. Each step then either moves
  the place by one, or ends the call where the reference has the end mark, the first entry of
  that name, the last byte, or the damage; the code's loop counter runs out exactly on a chain that
  goes round (`GoesRound`).
* `Framebuffer_proofs`, for every screen, font, spacing, border and cursor in which a glyph
  fits (`ScreenAssumption`): lemmas on what each method does to a good writer. `SidesStayClear` needs that
  columns and rows are those of cells, and arithmetic on quotients: what passes the test of
  `write_character` or `new_line` is one of the cells counted by division. The refinement of
  `Terminal`, `ScreenIsATerminal`: `Shows(w, t)` says that the writer stands where the terminal t
  does and that each cell's pixels are those of t's glyph; a lemma for each method says which step of the
  terminal it is - `scroll` is where the rest below the last row must be clear, so that
  what comes up is blank - and since the first pixel tells glyphs apart, the text read off the picture is t's.
  In the same module, the reports of
  `Console`, for every depth of the stack (`DepthAssumption`): `CInv` says which steps each kind
  of frame may have left - only the kernel's own code has `sti`, a report never has `iret` -
  and that above a report that has run `cli` every frame will bring back a flag that is
  off. From it `ReportIsNotInterrupted`.
* `KernelMemory_proofs`, the heap. The allocator, for every heap, set
  of layouts and set of contexts (`HeapAssumption`, `LayoutAssumption`, `PowerAssumption`): the
  inductive invariant `HInv` (types, `HeapInv`, `BlocksDisjoint`). `HeapInv` is needed because
  the loaded `next` and the limit may be stale: it says that every block ends at or below
  `next`, so that an exchange that succeeds adds a block behind all others. From it
  `BlocksInHeap`, and two facts no run repeats: `BlocksAligned`, `NextNeverFalls`. The memory under
  it, for every memory map without overlaps, heap and set of page tables
  (`MemoryAssumption`): `usable_frames().nth(k)` exists below the count and differs for
  different k, by counting the frames in front (`NthIs`, `NthApart`). `MInv` says which tables
  and pages are there when `init_heap` has come to a page and a level, that every
  frame in use was drawn and has one use, and that as many were drawn as are in
  use. From it `FramesHaveOneOwner`, `FramesAreUsable`, `HeapIsBacked` and `HeapCost`.
* `BootDisk_proofs`, from the build to the shell. The image, for every size and alignment (`LayoutAssumption`: the tables are smaller
  than the alignment): `IInv` says after each step what the table and every block of the image hold. With the
  arithmetic of `align_up` it gives `RoomForBoth`, `BuiltImageIsWhole` and `ImageIsOfOneBuild`.
  The loader, for every machine (`LoaderAssumption`, `MachineAssumption`: an entry's name has
  room for `sol-data` and a terminator): `LInv` says that no handle before the present one
  matches, and that the chunks read so far are the first blocks of a partition of the right size. From it
  `SnapshotIsThePartition` and `FirstSolDataDecides`. Both together (`StickAssumption`: names that fit into
  a GPT entry, an EFI partition of another type, a stick that is a disk of its own): `BInv` adds where a table
  in the image puts the partitions, also when its build failed behind it, what the
  handles of a plugged stick are, and when `kernel_main` lacks a ramdisk. From it
  `BuiltVolumeReachesKernel`, whether or not the constants of `build.rs` and the loader agree (a partition of another size is
  refused by the loader), and `BuiltVolumeIsFound` if they do: `SourcesAgree` is the
  hypothesis of `AgreeingSourcesMeet`, and whether the literals meet it is what the run `boot_disk` shows; and `PartsHoldTogether`, the properties of the
  parts in the composition.

TLC has checked `MInv`, `BInv` and `WalksChain` too, as invariants of `kernel_memory`, `boot_disk` (with nine machines) and `fat32`.

Induction over data - the places of a chain, the sectors of a directory, the components of a
path, the positions of a name - cannot use the library's induction theorems, whose parameter is an operator. It is done on
sets instead: a set of numbers that holds 0 and with each number the next one holds them all
(`Inductive`), because its complement would have a least element (`WFMin`, `NatLessThanWellFounded`).

Only model-checked: liveness (`KeyIsSettled`, `TimerKeepsTicking`, `ShellIsReached`,
`PublishedSlotIsRead`, `AllocReturns`, `CallsReturn`, and of `Console` `ReportComesOut`,
`PanicComesToRest` and `DeviceHandlersReturn`), which is out of the prover's reach.

## Not modelled, and why

* `gdt.rs`: tables built once. `pci.rs`: not called. The UART: only its lock and its bounded
  wait matter.
* The commands `help`, `echo`, `uptime`, `meminfo`: output only. `ls` and `cat` are
  the calls of `Fat32`.
* The content of `boot.json`, the choice of a display mode and the page tables in the loader; the
  formatting of the FAT32 volume, the copy of `disk_files` and the list of watched
  files in `build.rs`: library calls, whose result is one value here.
* The launcher `src/main.rs`: arguments and processes of the host. The vendored image builder:
  upstream code that runs at build time, with a BIOS path this system does not use.
* `Framebuffer` assumes a screen with room for a glyph within its borders
  (`ScreenAssumption`); `LineEditor` assumes that a line fits a row, which holds from
  85 columns on.
