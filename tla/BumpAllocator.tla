--------------------------- MODULE BumpAllocator ---------------------------
(***************************************************************************)
(* The kernel's global allocator (allocator.rs): a heap that is handed out *)
(* from the bottom and never taken back, without a lock.  Every atomic     *)
(* access is a step; the steps of different contexts interleave, and an    *)
(* allocation that lost the compare-exchange starts over.                  *)
(***************************************************************************)
EXTENDS Integers, FiniteSets

CONSTANTS
    Contexts,      \* what may allocate: the main flow, and what preempts it
    Layouts,       \* the layouts asked for, records of size and align
    heap_start,
    heap_size,
    USIZE_MAX      \* 2^64 - 1 in the code: where checked_add gives up

\* memory::init_heap's constants, and the checked_add of init.
ASSUME HeapAssumption ==
    /\ heap_start \in Nat \ {0} /\ heap_size \in Nat
    /\ USIZE_MAX \in Nat /\ heap_start + heap_size <= USIZE_MAX

\* A Layout of GlobalAlloc::alloc has a size above zero.
ASSUME LayoutAssumption ==
    \A l \in Layouts : l.size \in Nat \ {0} /\ l.align \in Nat \ {0}

\* And its alignment is a power of two, so that & !(align - 1) rounds down
\* to a multiple of align.
ASSUME PowerAssumption ==
    \A l \in Layouts : \E k \in 0 .. 63 : l.align = 2 ^ k

VARIABLES
    start, end, next,    \* BumpAllocator
    stores,              \* how many of init's three stores are done
    at,                  \* where each context is in alloc
    layout,              \* alloc's argument, by context
    limit,               \* the end alloc has loaded
    current,             \* the next alloc has loaded
    result,              \* what the context's latest alloc returned
    blocks,              \* history: the blocks handed out
    serial               \* history: how many there are, which tells them apart

heap == <<start, end, next, stores>>
history == <<blocks, serial>>
allocator == <<heap, at, layout, limit, current, result, history>>

NULL == 0

\* BumpAllocator::new
HeapInit ==
    /\ start = 0 /\ end = 0 /\ next = 0 /\ stores = 0
    /\ at = [c \in Contexts |-> "idle"]
    /\ layout \in [Contexts -> Layouts]
    /\ limit = [c \in Contexts |-> 0]
    /\ current = [c \in Contexts |-> 0]
    /\ result = [c \in Contexts |-> NULL]
    /\ blocks = {} /\ serial = 0

(***************************************************************************)
(* init: three stores, next the last of them.                              *)
(***************************************************************************)
InitStore ==
    /\ stores < 3
    /\ stores' = stores + 1
    /\ start' = IF stores = 0 THEN heap_start ELSE start
    /\ end' = IF stores = 1 THEN heap_start + heap_size ELSE end
    /\ next' = IF stores = 2 THEN heap_start ELSE next
    /\ UNCHANGED <<at, layout, limit, current, result, history>>

(***************************************************************************)
(* alloc                                                                   *)
(***************************************************************************)
AllocBegin(c, l) ==
    /\ at[c] = "idle"
    /\ layout' = [layout EXCEPT ![c] = l]
    /\ limit' = [limit EXCEPT ![c] = end]
    /\ at' = [at EXCEPT ![c] = "load"]
    /\ UNCHANGED <<heap, current, result, history>>

\* (current + align_mask) & !align_mask
Aligned(now, l) == (now + (l.align - 1)) - ((now + (l.align - 1)) % l.align)

AllocationEnd(now, l) == Aligned(now, l) + l.size

\* Mutant: the end of the heap may be passed by one.
FitsLoosely(now, l, bound) ==
    /\ now # 0
    /\ now + (l.align - 1) <= USIZE_MAX
    /\ AllocationEnd(now, l) <= USIZE_MAX
    /\ AllocationEnd(now, l) <= bound + 1

\* The two checked_adds and the test that the block ends inside the heap.
Fits(now, l, bound) ==
    /\ now + (l.align - 1) <= USIZE_MAX
    /\ AllocationEnd(now, l) <= USIZE_MAX
    /\ now # 0
    /\ AllocationEnd(now, l) <= bound

\* The relaxed load of next at the head of the loop, and what follows from it.
AllocLoad(c) ==
    /\ at[c] = "load"
    /\ current' = [current EXCEPT ![c] = next]
    /\ \/ /\ Fits(next, layout[c], limit[c])
          /\ at' = [at EXCEPT ![c] = "exchange"]
          /\ UNCHANGED result
       \/ /\ ~ Fits(next, layout[c], limit[c])
          /\ at' = [at EXCEPT ![c] = "idle"]
          /\ result' = [result EXCEPT ![c] = NULL]
    /\ UNCHANGED <<heap, layout, limit, history>>

Block(c) == [address |-> Aligned(current[c], layout[c]), size |-> layout[c].size,
             align |-> layout[c].align, serial |-> serial]

\* Mutant: next is stored whatever it is by now.
AllocStore(c) ==
    /\ at[c] = "exchange"
    /\ next' = AllocationEnd(current[c], layout[c])
    /\ result' = [result EXCEPT ![c] = Block(c).address]
    /\ blocks' = blocks \cup {Block(c)} /\ serial' = serial + 1
    /\ at' = [at EXCEPT ![c] = "idle"]
    /\ UNCHANGED <<start, end, stores, layout, limit, current>>

\* Mutant: a lost exchange is tried again with the old value.
AllocRetriesBlindly(c) ==
    /\ at[c] = "exchange"
    /\ \/ /\ next = current[c]
          /\ next' = AllocationEnd(current[c], layout[c])
          /\ result' = [result EXCEPT ![c] = Block(c).address]
          /\ blocks' = blocks \cup {Block(c)} /\ serial' = serial + 1
          /\ at' = [at EXCEPT ![c] = "idle"]
       \/ /\ next # current[c]
          /\ UNCHANGED <<next, result, history, at>>
    /\ UNCHANGED <<start, end, stores, layout, limit, current>>

\* compare_exchange_weak, which on x86-64 fails only when next has moved.
AllocExchange(c) ==
    /\ at[c] = "exchange"
    /\ \/ /\ next = current[c]
          /\ next' = AllocationEnd(current[c], layout[c])
          /\ result' = [result EXCEPT ![c] = Block(c).address]
          /\ blocks' = blocks \cup {Block(c)} /\ serial' = serial + 1
          /\ at' = [at EXCEPT ![c] = "idle"]
       \/ /\ next # current[c]
          /\ at' = [at EXCEPT ![c] = "load"]
          /\ UNCHANGED <<next, result, history>>
    /\ UNCHANGED <<start, end, stores, layout, limit, current>>

HeapNext ==
    \/ InitStore
    \/ \E c \in Contexts :
          \/ \E l \in Layouts : AllocBegin(c, l)
          \/ AllocLoad(c)
          \/ AllocExchange(c)

HeapSpec == HeapInit /\ [][HeapNext]_allocator

\* A context in alloc runs on: preempted, it is resumed.
HeapFairness == \A c \in Contexts : WF_allocator(AllocLoad(c) \/ AllocExchange(c))

FairHeapSpec == HeapSpec /\ HeapFairness

-----------------------------------------------------------------------------
(***************************************************************************)
(* Properties.                                                             *)
(***************************************************************************)

usize == 0 .. USIZE_MAX
BlockType == [address : usize, size : Nat \ {0}, align : Nat \ {0}, serial : Nat]

\* Every variable keeps its type; no address leaves the width of a usize.
HeapTypeOK ==
    /\ start \in usize /\ end \in usize /\ next \in usize /\ stores \in 0 .. 3
    /\ at \in [Contexts -> {"idle", "load", "exchange"}]
    /\ layout \in [Contexts -> Layouts]
    /\ limit \in [Contexts -> usize] /\ current \in [Contexts -> usize]
    /\ result \in [Contexts -> usize]
    /\ blocks \subseteq BlockType /\ serial \in Nat

\* No two blocks share a byte, whatever was preempted where.
BlocksDisjoint ==
    \A a, b \in blocks : a # b =>
        a.address + a.size <= b.address \/ b.address + b.size <= a.address

\* Every block lies in the mapped heap; nothing is handed out before init
\* has stored next.
BlocksInHeap ==
    /\ \A b \in blocks : heap_start <= b.address /\ b.address + b.size <= heap_start + heap_size
    /\ stores < 3 => blocks = {}

\* Every block has the alignment its layout asks for.
BlocksAligned == \A b \in blocks : b.address % b.align = 0

\* The heap grows only: no step takes handed out bytes back.
NextNeverFalls == [][next' >= next]_allocator

\* Why blocks stay apart.  The heap is [heap_start, next) handed out and
\* [next, end) free; an alloc about to exchange has computed a block that
\* starts at or above the next it loaded and ends inside the heap, so the
\* block is free exactly when next is still what was loaded.
HeapInv ==
    /\ stores < 2 => end = 0
    /\ stores >= 2 => end = heap_start + heap_size
    /\ stores < 3 => next = 0 /\ blocks = {}
    /\ stores = 3 => heap_start <= next /\ next <= end
    /\ \A b \in blocks : heap_start <= b.address /\ b.address + b.size <= next
    /\ \A c \in Contexts : limit[c] \in {0, heap_start + heap_size}
    /\ \A c \in Contexts : at[c] = "exchange" => Fits(current[c], layout[c], limit[c])

\* Every allocation comes back: the loop ends, because each exchange it
\* loses has taken bytes from a heap that is never refilled.
AllocReturns == \A c \in Contexts : at[c] # "idle" ~> at[c] = "idle"
=============================================================================
