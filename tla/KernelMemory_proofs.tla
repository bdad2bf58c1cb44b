------------------------ MODULE KernelMemory_proofs ------------------------
(***************************************************************************)
(* Proofs about the kernel's memory.  The frame allocator and the heap's   *)
(* mapping, for every memory map, whatever page tables the bootloader      *)
(* left, and any sizes of frames, tables and heap.  The allocations that   *)
(* cut each other in the bump allocator, for every heap, every set of      *)
(* contexts and every set of layouts.                                      *)
(***************************************************************************)
EXTENDS KernelMemory, BumpAllocator, FiniteSetTheorems, FunctionTheorems, TLAPS

(***************************************************************************)
(*                            The bump allocator                           *)
(***************************************************************************)

\* Rounding up to a multiple never goes down, and moves by less than align.
LEMMA AlignedUp ==
    ASSUME NEW now \in Nat, NEW l, l.align \in Nat \ {0}
    PROVE  /\ Aligned(now, l) \in Nat
           /\ Aligned(now, l) >= now
<1> DEFINE v == now + (l.align - 1)
<1>1. v \in Nat
  OBVIOUS
<1>2. v % l.align \in 0 .. l.align - 1
  <2> HIDE DEF v
  <2> QED BY <1>1
<1>3. Aligned(now, l) = v - (v % l.align)
  BY DEF Aligned
<1> HIDE DEF v
<1>4. v = now + (l.align - 1)
  BY DEF v
<1> QED
  BY <1>1, <1>2, <1>3, <1>4

\* Taking its remainder from a number leaves a multiple.
LEMMA MinusRemainder ==
    ASSUME NEW v \in Nat, NEW a \in Nat \ {0}
    PROVE  (v - (v % a)) % a = 0
<1> DEFINE q == v \div a
<1>1. q \in Nat /\ v = a * q + (v % a) /\ v % a \in Nat
  OBVIOUS
<1> HIDE DEF q
<1>2. a * q \in Nat /\ (a * q) % a = 0
  BY <1>1
<1>3. v - (v % a) = a * q
  BY <1>1, <1>2
<1> QED
  BY <1>2, <1>3

\* A block that fits starts at or above next and ends inside the heap.
LEMMA FittingBlock ==
    ASSUME NEW now \in Nat, NEW bound \in Nat, NEW l \in Layouts, Fits(now, l, bound)
    PROVE  /\ Aligned(now, l) \in Nat /\ Aligned(now, l) >= now
           /\ AllocationEnd(now, l) \in Nat
           /\ AllocationEnd(now, l) = Aligned(now, l) + l.size
           /\ AllocationEnd(now, l) > now
           /\ AllocationEnd(now, l) <= bound
           /\ AllocationEnd(now, l) <= USIZE_MAX
           /\ Aligned(now, l) <= USIZE_MAX
<1>1. l.size \in Nat \ {0} /\ l.align \in Nat \ {0}
  BY LayoutAssumption
<1>2. Aligned(now, l) \in Nat /\ Aligned(now, l) >= now
  BY <1>1, AlignedUp
<1> QED
  BY <1>1, <1>2, HeapAssumption DEF Fits, AllocationEnd

(***************************************************************************)
(* The inductive invariant: types, the shape of the heap and the blocks'   *)
(* disjointness, which need each other.  An exchange that succeeds finds   *)
(* next where it loaded it, below the block it computed; every block       *)
(* handed out before ends at or below next.                                *)
(***************************************************************************)
HInv == HeapTypeOK /\ HeapInv /\ BlocksDisjoint

\* BumpAllocator::new establishes the invariant.
LEMMA InitHInv == HeapInit => HInv
  BY HeapAssumption
  DEF HeapInit, HInv, HeapTypeOK, HeapInv, BlocksDisjoint, usize, NULL

\* The stores of init keep it.
LEMMA InitStoreHInv == ASSUME HInv, InitStore PROVE HInv'
<1> USE DEF HInv
<1>1. HeapTypeOK'
  BY HeapAssumption DEF InitStore, HeapTypeOK, usize, history
<1>2. HeapInv'
  <2>1. blocks = {}
    BY DEF InitStore, HeapInv, HeapTypeOK
  <2>2. UNCHANGED <<blocks, at, layout, limit, current>>
    BY DEF InitStore, history
  <2>3. \A c \in Contexts : at'[c] = "exchange" => Fits(current'[c], layout'[c], limit'[c])
    BY <2>2 DEF HeapInv
  <2> QED
    BY <2>1, <2>2, <2>3, HeapAssumption DEF InitStore, HeapInv, HeapTypeOK, usize
<1>3. BlocksDisjoint'
  BY DEF InitStore, BlocksDisjoint, history
<1> QED
  BY <1>1, <1>2, <1>3

\* Entering alloc keeps it.
LEMMA AllocBeginHInv ==
    ASSUME HInv, NEW c \in Contexts, NEW l \in Layouts, AllocBegin(c, l) PROVE HInv'
<1> USE DEF HInv
<1>1. HeapTypeOK'
  BY DEF AllocBegin, HeapTypeOK, heap, history
<1>2. HeapInv'
  <2>1. UNCHANGED <<end, next, stores, blocks, current>>
    BY DEF AllocBegin, heap, history
  <2>2. \A d \in Contexts : limit'[d] \in {0, heap_start + heap_size}
    BY HeapAssumption DEF AllocBegin, HeapInv, HeapTypeOK
  <2>3. \A d \in Contexts : at'[d] = "exchange" => Fits(current'[d], layout'[d], limit'[d])
    <3> TAKE d \in Contexts
    <3>1. CASE d = c
      BY <3>1 DEF AllocBegin, HeapTypeOK
    <3>2. CASE d # c
      BY <3>2, <2>1 DEF AllocBegin, HeapTypeOK, HeapInv
    <3> QED BY <3>1, <3>2
  <2> QED
    BY <2>1, <2>2, <2>3 DEF HeapInv
<1>3. BlocksDisjoint'
  BY DEF AllocBegin, BlocksDisjoint, history
<1> QED
  BY <1>1, <1>2, <1>3

\* The load and the tests that follow it keep it.
LEMMA AllocLoadHInv ==
    ASSUME HInv, NEW c \in Contexts, AllocLoad(c) PROVE HInv'
<1> USE DEF HInv
<1>1. HeapTypeOK'
  BY HeapAssumption DEF AllocLoad, HeapTypeOK, heap, history, usize, NULL
<1>2. HeapInv'
  <2>1. UNCHANGED <<end, next, stores, blocks, limit, layout>>
    BY DEF AllocLoad, heap, history
  <2>2. \A d \in Contexts : at'[d] = "exchange" => Fits(current'[d], layout'[d], limit'[d])
    <3> TAKE d \in Contexts
    <3>1. CASE d = c
      BY <3>1, <2>1 DEF AllocLoad, HeapTypeOK
    <3>2. CASE d # c
      BY <3>2, <2>1 DEF AllocLoad, HeapTypeOK, HeapInv
    <3> QED BY <3>1, <3>2
  <2> QED
    BY <2>1, <2>2 DEF HeapInv
<1>3. BlocksDisjoint'
  BY DEF AllocLoad, BlocksDisjoint, history
<1> QED
  BY <1>1, <1>2, <1>3

\* What an exchange that succeeds adds: a block between the old next and
\* the new one.
LEMMA ExchangeAdds ==
    ASSUME HInv, NEW c \in Contexts, AllocExchange(c), next = current[c]
    PROVE  /\ Block(c) \in BlockType
           /\ blocks' = blocks \cup {Block(c)}
           /\ next <= Block(c).address
           /\ Block(c).address + Block(c).size = next'
           /\ next' \in usize /\ next' > next /\ next' <= end
           /\ heap_start <= next /\ stores = 3
           /\ Block(c).address = Aligned(current[c], layout[c])
<1> USE DEF HInv
<1>1. /\ at[c] = "exchange" /\ layout[c] \in Layouts
      /\ Fits(current[c], layout[c], limit[c])
      /\ current[c] \in Nat /\ limit[c] \in Nat /\ serial \in Nat
  BY DEF AllocExchange, HeapInv, HeapTypeOK, usize
<1>2. /\ next' = AllocationEnd(current[c], layout[c])
      /\ blocks' = blocks \cup {Block(c)}
  BY DEF AllocExchange
<1>3. layout[c].size \in Nat \ {0} /\ layout[c].align \in Nat \ {0}
  BY <1>1, LayoutAssumption
<1>4. current[c] # 0
  BY <1>1 DEF Fits
<1>5. stores = 3 /\ heap_start <= next /\ end = heap_start + heap_size
  BY <1>4 DEF HeapInv, HeapTypeOK
<1>6. /\ Aligned(current[c], layout[c]) \in Nat
      /\ Aligned(current[c], layout[c]) >= current[c]
      /\ AllocationEnd(current[c], layout[c]) \in Nat
      /\ AllocationEnd(current[c], layout[c]) = Aligned(current[c], layout[c]) + layout[c].size
      /\ AllocationEnd(current[c], layout[c]) > current[c]
      /\ AllocationEnd(current[c], layout[c]) <= limit[c]
      /\ AllocationEnd(current[c], layout[c]) <= USIZE_MAX
      /\ Aligned(current[c], layout[c]) <= USIZE_MAX
  BY <1>1, FittingBlock
<1>7. limit[c] <= end
  BY <1>5, HeapAssumption DEF HeapInv
<1>8. Block(c).address = Aligned(current[c], layout[c]) /\ Block(c).size = layout[c].size
  BY DEF Block
<1>9. Block(c) \in BlockType
  BY <1>1, <1>3, <1>6, HeapAssumption DEF Block, BlockType, usize
<1> QED
  BY <1>1, <1>2, <1>5, <1>6, <1>7, <1>8, <1>9, HeapAssumption DEF usize, HeapTypeOK

\* The compare-exchange keeps it, won or lost.
LEMMA AllocExchangeHInv ==
    ASSUME HInv, NEW c \in Contexts, AllocExchange(c) PROVE HInv'
<1> USE DEF HInv
<1>1. CASE next # current[c]
  <2>1. /\ UNCHANGED <<start, end, next, stores, layout, limit, current, result, blocks, serial>>
        /\ at' = [at EXCEPT ![c] = "load"]
    BY <1>1 DEF AllocExchange, history
  <2>2. HeapTypeOK'
    BY <2>1 DEF HeapTypeOK
  <2>3. \A d \in Contexts : at'[d] = "exchange" => Fits(current'[d], layout'[d], limit'[d])
    BY <2>1 DEF HeapTypeOK, HeapInv
  <2>4. HeapInv'
    BY <2>1, <2>3 DEF HeapInv
  <2> QED
    BY <2>1, <2>2, <2>4 DEF BlocksDisjoint
<1>2. CASE next = current[c]
  <2>1. /\ UNCHANGED <<start, end, stores, layout, limit, current>>
        /\ at' = [at EXCEPT ![c] = "idle"]
        /\ result' = [result EXCEPT ![c] = Block(c).address]
        /\ serial' = serial + 1
    BY <1>2 DEF AllocExchange
  <2>2. /\ Block(c) \in BlockType
        /\ blocks' = blocks \cup {Block(c)}
        /\ next <= Block(c).address
        /\ Block(c).address + Block(c).size = next'
        /\ next' \in usize /\ next' > next /\ next' <= end
        /\ heap_start <= next /\ stores = 3
    BY <1>2, ExchangeAdds
  <2>3. Block(c).address \in usize /\ Block(c).size \in Nat
    BY <2>2 DEF BlockType
  <2>4. HeapTypeOK'
    BY <2>1, <2>2, <2>3 DEF HeapTypeOK
  <2>5. \A b \in blocks : /\ b.address \in Nat /\ b.size \in Nat
                          /\ heap_start <= b.address /\ b.address + b.size <= next
    BY DEF HeapTypeOK, HeapInv, BlockType, usize
  <2>6. \A b \in blocks' : heap_start <= b.address /\ b.address + b.size <= next'
    BY <2>2, <2>3, <2>5, HeapAssumption DEF HeapTypeOK, usize
  <2>7. \A d \in Contexts : at'[d] = "exchange" => Fits(current'[d], layout'[d], limit'[d])
    BY <2>1 DEF HeapTypeOK, HeapInv
  <2>8. HeapInv'
    BY <2>1, <2>2, <2>6, <2>7, HeapAssumption DEF HeapInv, HeapTypeOK, usize
  <2>9. BlocksDisjoint'
    <3> SUFFICES ASSUME NEW a \in blocks', NEW b \in blocks', a # b
                 PROVE  a.address + a.size <= b.address \/ b.address + b.size <= a.address
      BY DEF BlocksDisjoint
    <3>1. CASE a \in blocks /\ b \in blocks
      BY <3>1 DEF BlocksDisjoint
    <3>2. CASE a \in blocks /\ b = Block(c)
      BY <3>2, <2>2, <2>3, <2>5 DEF HeapTypeOK, usize
    <3>3. CASE a = Block(c) /\ b \in blocks
      BY <3>3, <2>2, <2>3, <2>5 DEF HeapTypeOK, usize
    <3> QED
      BY <3>1, <3>2, <3>3, <2>2
  <2> QED
    BY <2>4, <2>8, <2>9
<1> QED
  BY <1>1, <1>2

\* The invariant holds of every behaviour.
THEOREM AllocatorInvariance == HeapSpec => []HInv
<1>1. HInv /\ [HeapNext]_allocator => HInv'
  <2> SUFFICES ASSUME HInv, [HeapNext]_allocator PROVE HInv'
    OBVIOUS
  <2>1. CASE UNCHANGED allocator
    BY <2>1 DEF allocator, heap, history, HInv, HeapTypeOK, HeapInv, BlocksDisjoint
  <2> QED
    BY <2>1, InitStoreHInv, AllocBeginHInv, AllocLoadHInv, AllocExchangeHInv DEF HeapNext
<1> QED
  BY <1>1, InitHInv, PTL DEF HeapSpec

\* Every variable of the allocator keeps its type, and no address overflows.
THEOREM AllocatorTypeCorrect == HeapSpec => []HeapTypeOK
  BY AllocatorInvariance, PTL DEF HInv

\* No two blocks alloc hands out share a byte, for every interleaving of
\* every number of contexts.
THEOREM Disjoint == HeapSpec => []BlocksDisjoint
  BY AllocatorInvariance, PTL DEF HInv

\* Every block lies in the heap init was given, and none exists before.
THEOREM InHeap == HeapSpec => []BlocksInHeap
<1>1. HInv => BlocksInHeap
  <2> SUFFICES ASSUME HInv PROVE BlocksInHeap
    OBVIOUS
  <2>1. CASE stores < 3
    BY <2>1 DEF HInv, HeapInv, BlocksInHeap
  <2>2. CASE ~ (stores < 3)
    <3>1. stores = 3 /\ next <= heap_start + heap_size
      BY <2>2 DEF HInv, HeapInv, HeapTypeOK
    <3>2. \A b \in blocks : b.address \in Nat /\ b.size \in Nat
      BY DEF HInv, HeapTypeOK, BlockType, usize
    <3> QED
      BY <3>1, <3>2, HeapAssumption DEF HInv, HeapInv, HeapTypeOK, usize, BlocksInHeap
  <2> QED
    BY <2>1, <2>2
<1> QED
  BY <1>1, AllocatorInvariance, PTL

\* No step of init or alloc moves next down.
THEOREM NeverFalls == HeapSpec => NextNeverFalls
<1>1. HInv /\ [HeapNext]_allocator => [next' >= next]_allocator
  <2> SUFFICES ASSUME HInv, HeapNext PROVE next' >= next
    OBVIOUS
  <2>1. CASE InitStore
    BY <2>1, HeapAssumption DEF InitStore, HInv, HeapTypeOK, HeapInv, usize
  <2>2. ASSUME NEW c \in Contexts, NEW l \in Layouts, AllocBegin(c, l) PROVE next' >= next
    BY <2>2 DEF AllocBegin, heap, HInv, HeapTypeOK, usize
  <2>3. ASSUME NEW c \in Contexts, AllocLoad(c) PROVE next' >= next
    BY <2>3 DEF AllocLoad, heap, HInv, HeapTypeOK, usize
  <2>4. ASSUME NEW c \in Contexts, AllocExchange(c) PROVE next' >= next
    <3>1. CASE next = current[c]
      BY <2>4, <3>1, ExchangeAdds DEF HInv, HeapTypeOK, usize
    <3>2. CASE next # current[c]
      BY <2>4, <3>2 DEF AllocExchange, HInv, HeapTypeOK, usize
    <3> QED
      BY <3>1, <3>2
  <2> QED
    BY <2>1, <2>2, <2>3, <2>4 DEF HeapNext
<1> QED
  BY <1>1, AllocatorInvariance, PTL DEF HeapSpec, NextNeverFalls

\* Every block is aligned as its layout asks.
THEOREM AlignedBlocks == HeapSpec => []BlocksAligned
<1>1. HeapInit => BlocksAligned
  BY DEF HeapInit, BlocksAligned
<1>2. HInv /\ BlocksAligned /\ [HeapNext]_allocator => BlocksAligned'
  <2> SUFFICES ASSUME HInv, BlocksAligned, [HeapNext]_allocator, ~ (blocks' = blocks)
               PROVE  BlocksAligned'
    BY DEF BlocksAligned
  <2>1. PICK c \in Contexts : AllocExchange(c) /\ next = current[c]
    BY DEF HeapNext, allocator, history, InitStore, AllocBegin, AllocLoad, AllocExchange
  <2>2. /\ blocks' = blocks \cup {Block(c)}
        /\ Block(c).address = Aligned(current[c], layout[c])
    BY <2>1, ExchangeAdds
  <2>3. current[c] \in Nat /\ layout[c].align \in Nat \ {0}
    BY LayoutAssumption DEF HInv, HeapTypeOK, usize
  <2>4. Block(c).align = layout[c].align
    BY DEF Block
  <2>5. Aligned(current[c], layout[c]) % layout[c].align = 0
    <3> DEFINE v == current[c] + (layout[c].align - 1)
    <3>1. v \in Nat
      BY <2>3
    <3> HIDE DEF v
    <3>2. (v - (v % layout[c].align)) % layout[c].align = 0
      BY <2>3, <3>1, MinusRemainder
    <3> QED
      BY <3>2 DEF v, Aligned
  <2> QED
    BY <2>2, <2>4, <2>5 DEF BlocksAligned
<1> QED
  BY <1>1, <1>2, AllocatorInvariance, PTL DEF HeapSpec

-----------------------------------------------------------------------------

(***************************************************************************)
(*                         The mapping of the heap                         *)
(***************************************************************************)

(***************************************************************************)
(* The frames of a region.                                                 *)
(***************************************************************************)

\* Multiples of a number are apart by at least the number.
LEMMA MultiplesApart ==
    ASSUME NEW a \in Nat \ {0}, NEW m \in Int, NEW k \in Int, a * m < a * k
    PROVE  a * m + a <= a * k
<1>1. m < k
  <2>1. SUFFICES ASSUME k <= m PROVE FALSE
    OBVIOUS
  <2> DEFINE d == m - k
  <2>2. d \in Nat /\ m = k + d
    BY <2>1
  <2> HIDE DEF d
  <2>3. a * m = a * k + a * d /\ a * d \in Nat /\ a * k \in Int
    BY <2>2
  <2> QED
    BY <2>3
<1> DEFINE d == k - (m + 1)
<1>2. d \in Nat /\ k = m + 1 + d
  BY <1>1
<1> HIDE DEF d
<1>3. a * k = a * m + a + a * d /\ a * d \in Nat /\ a * m \in Int
  BY <1>2
<1> QED
  BY <1>3

\* & !(FRAME_SIZE - 1) takes a number down to a multiple.
LEMMA RoundDown ==
    ASSUME NEW a \in Nat \ {0}, NEW n \in Nat
    PROVE  \E m \in Nat : /\ n - (n % a) = a * m /\ a * m \in Nat
                          /\ a * m <= n /\ n < a * m + a
<1>1. n \div a \in Nat /\ n = a * (n \div a) + (n % a) /\ n % a \in 0 .. a - 1
  OBVIOUS
<1>2. a * (n \div a) \in Nat
  BY <1>1
<1> QED
  BY <1>1, <1>2

\* Every byte of a frame of a region is in the region.
LEMMA FrameInside ==
    ASSUME FRAME_SIZE \in Nat \ {0}, NEW region, region.start \in Nat, region.end \in Nat,
           NEW f \in RegionFrames(region)
    PROVE  f \in Nat /\ region.start <= f /\ f + FRAME_SIZE <= region.end
<1> DEFINE a == FRAME_SIZE
           v == region.start + a - 1
           last == region.end - (region.end % a)
<1>0. v \in Nat /\ a \in Nat \ {0}
  OBVIOUS
<1>1. PICK m \in Nat : v - (v % a) = a * m /\ a * m \in Nat /\ v < a * m + a
  <2> HIDE DEF v, a
  <2> QED BY <1>0, RoundDown
<1>2. PICK k \in Nat : last = a * k /\ a * k \in Nat /\ a * k <= region.end
  BY RoundDown
<1>3. /\ f \in a * m .. a * k - 1
      /\ (f - a * m) % a = 0
  BY <1>1, <1>2 DEF RegionFrames, align_up
<1>4. region.start <= a * m
  BY <1>1
<1> DEFINE d == f - a * m
           q == d \div a
<1>5. d \in Nat /\ d % a = 0 /\ f = a * m + d
  BY <1>1, <1>2, <1>3
<1>6. q \in Nat /\ d = a * q
  <2> HIDE DEF d
  <2> QED BY <1>5
<1> HIDE DEF d, q, a, v, last
<1>7. f = a * (m + q) /\ m + q \in Int /\ k \in Int
  BY <1>1, <1>2, <1>5, <1>6 DEF a
<1>8. a * (m + q) < a * k
  BY <1>2, <1>3, <1>7 DEF a
<1>9. a * (m + q) + a <= a * k
  BY <1>7, <1>8, MultiplesApart DEF a
<1> QED
  BY <1>1, <1>2, <1>3, <1>4, <1>7, <1>9 DEF a

(***************************************************************************)
(* What usable_frames yields.                                              *)
(***************************************************************************)
UsableRegions == {i \in DOMAIN memory_regions : memory_regions[i].usable}

\* The map as it was assumed.
LEMMA MapIs ==
    ASSUME memory_regions \in MemoryMaps
    PROVE  /\ DOMAIN memory_regions = 1 .. Len(memory_regions) /\ Len(memory_regions) \in Nat
           /\ \A i \in DOMAIN memory_regions :
                 memory_regions[i].start \in Nat /\ memory_regions[i].end \in Nat
           /\ \A i, j \in DOMAIN memory_regions :
                 i # j => \/ memory_regions[i].end <= memory_regions[j].start
                          \/ memory_regions[j].end <= memory_regions[i].start
<1> DEFINE R == [start : Nat, end : Nat, usable : BOOLEAN]
<1>1. memory_regions \in Seq(R)
  BY MemoryAssumption
<1>2. /\ DOMAIN memory_regions = 1 .. Len(memory_regions) /\ Len(memory_regions) \in Nat
      /\ \A i \in DOMAIN memory_regions : memory_regions[i] \in R
  <2> HIDE DEF R
  <2> QED BY <1>1
<1>3. \A r \in R : r.start \in Nat /\ r.end \in Nat
  OBVIOUS
<1> HIDE DEF R
<1> QED
  BY <1>1, <1>2, <1>3, MemoryAssumption

\* A frame that is yielded is one of a usable region, wholly inside.
LEMMA Yielded ==
    ASSUME memory_regions \in MemoryMaps, NEW p \in usable_frames
    PROVE  /\ p = <<p[1], p[2]>> /\ p[1] \in UsableRegions /\ p[1] \in Nat /\ p[2] \in Nat
           /\ memory_regions[p[1]].start <= p[2]
           /\ p[2] + FRAME_SIZE <= memory_regions[p[1]].end
<1>1. PICK i \in UsableRegions : p \in {i} \X RegionFrames(memory_regions[i])
  BY DEF usable_frames, UsableRegions
<1>2. p = <<p[1], p[2]>> /\ p[1] = i /\ p[2] \in RegionFrames(memory_regions[i])
  BY <1>1
<1>3. i \in DOMAIN memory_regions /\ i \in Nat /\ memory_regions[i].start \in Nat /\ memory_regions[i].end \in Nat
  BY <1>1, MapIs DEF UsableRegions
<1>4. FRAME_SIZE \in Nat \ {0}
  BY MemoryAssumption
<1> QED
  BY <1>2, <1>3, <1>4, FrameInside

\* No frame is yielded twice.
LEMMA YieldedOnce ==
    ASSUME memory_regions \in MemoryMaps, NEW p \in usable_frames, NEW q \in usable_frames, p[2] = q[2]
    PROVE  p = q
<1>1. /\ p = <<p[1], p[2]>> /\ p[1] \in DOMAIN memory_regions /\ p[2] \in Nat
      /\ memory_regions[p[1]].start <= p[2]
      /\ p[2] + FRAME_SIZE <= memory_regions[p[1]].end
  BY Yielded DEF UsableRegions
<1>2. /\ q = <<q[1], q[2]>> /\ q[1] \in DOMAIN memory_regions /\ q[2] \in Nat
      /\ memory_regions[q[1]].start <= q[2]
      /\ q[2] + FRAME_SIZE <= memory_regions[q[1]].end
  BY Yielded DEF UsableRegions
<1>3. CASE p[1] # q[1]
  <2>1. \/ memory_regions[p[1]].end <= memory_regions[q[1]].start
        \/ memory_regions[q[1]].end <= memory_regions[p[1]].start
    BY <1>1, <1>2, <1>3, MapIs
  <2>2. /\ memory_regions[p[1]].end \in Nat /\ memory_regions[q[1]].end \in Nat
        /\ memory_regions[p[1]].start \in Nat /\ memory_regions[q[1]].start \in Nat
        /\ FRAME_SIZE \in Nat \ {0}
    BY <1>1, <1>2, MapIs, MemoryAssumption
  <2> QED
    BY <1>1, <1>2, <2>1, <2>2
<1> QED
  BY <1>1, <1>2, <1>3

\* There are finitely many.
LEMMA UsableFinite ==
    ASSUME memory_regions \in MemoryMaps
    PROVE  IsFiniteSet(usable_frames) /\ usable_frame_count \in Nat
<1> DEFINE Of(i) == {i} \X RegionFrames(memory_regions[i])
           all == {Of(i) : i \in UsableRegions}
           f == [i \in UsableRegions |-> Of(i)]
<1>1. IsFiniteSet(UsableRegions)
  <2>1. IsFiniteSet(1 .. Len(memory_regions))
    BY MapIs, FS_Interval
  <2>2. UsableRegions \in SUBSET (1 .. Len(memory_regions))
    BY MapIs DEF UsableRegions
  <2> QED
    BY <2>1, <2>2, FS_Subset
<1>2. f \in Surjection(UsableRegions, all)
  BY DEF Surjection
<1>3. IsFiniteSet(all)
  BY <1>1, <1>2, FS_Surjection
<1>4. ASSUME NEW i \in UsableRegions PROVE IsFiniteSet(Of(i))
  <2> DEFINE r == memory_regions[i]
             n == r.end
             F == RegionFrames(r)
  <2>1. r.start \in Nat /\ r.end \in Nat /\ FRAME_SIZE \in Nat \ {0}
    BY MapIs, MemoryAssumption DEF UsableRegions
  <2>2. \A x \in F : x \in Nat /\ x <= n
    <3> HIDE DEF r
    <3>1. \A x \in RegionFrames(r) : x \in Nat /\ x + FRAME_SIZE <= r.end
      BY <2>1, FrameInside
    <3> QED
      BY <2>1, <3>1
  <2>3. F \in SUBSET Nat
    BY <2>2
  <2> HIDE DEF F, n
  <2>4. IsFiniteSet(F)
    BY <2>1, <2>2, <2>3, FS_BoundedSetOfNaturals DEF n
  <2>5. IsFiniteSet({i})
    BY FS_Singleton
  <2> QED
    BY <2>4, <2>5, FS_Product DEF F
<1>5. usable_frames = UNION all
  BY DEF usable_frames, UsableRegions
<1> HIDE DEF all, Of
<1>6. \A T \in all : IsFiniteSet(T)
  BY <1>4 DEF all
<1>7. IsFiniteSet(usable_frames)
  BY <1>3, <1>5, <1>6, FS_UNION
<1> QED
  BY <1>7, FS_CardinalityType DEF usable_frame_count

\* The frames that come before one.
Ahead(p) == {q \in usable_frames : Earlier(q, p)}

\* Of two frames one comes first, and with it all that come before it.
LEMMA AheadGrows ==
    ASSUME memory_regions \in MemoryMaps, NEW p \in usable_frames, NEW q \in usable_frames, Earlier(p, q)
    PROVE  Cardinality(Ahead(p)) + 1 <= Cardinality(Ahead(q))
<1>1. \A x \in usable_frames : x[1] \in Nat /\ x[2] \in Nat
  BY Yielded
<1>2. p \notin Ahead(p)
  BY <1>1 DEF Ahead, Earlier
<1>3. Ahead(p) \cup {p} \in SUBSET Ahead(q)
  BY <1>1 DEF Ahead, Earlier
<1>4. IsFiniteSet(Ahead(p)) /\ IsFiniteSet(Ahead(q))
  <2>1. Ahead(p) \in SUBSET usable_frames /\ Ahead(q) \in SUBSET usable_frames
    BY DEF Ahead
  <2> QED
    BY <2>1, UsableFinite, FS_Subset
<1>5. Cardinality(Ahead(p) \cup {p}) = Cardinality(Ahead(p)) + 1
  BY <1>2, <1>4, FS_AddElement
<1> QED
  BY <1>3, <1>4, <1>5, FS_Subset

\* nth finds a frame as long as there is one.
LEMMA NthIs ==
    ASSUME memory_regions \in MemoryMaps, NEW n \in Nat, n < usable_frame_count
    PROVE  nth(n) \in usable_frames /\ Cardinality(Ahead(nth(n))) = n
<1> DEFINE U == usable_frames
           N == usable_frame_count
           rank == [p \in U |-> Cardinality(Ahead(p))]
<1>1. IsFiniteSet(U) /\ N \in Nat /\ N = Cardinality(U)
  BY UsableFinite DEF usable_frame_count
<1>2. ASSUME NEW p \in U PROVE rank[p] \in 0 .. N - 1
  <2>1. Ahead(p) \in SUBSET (U \ {p})
    <3>1. p[1] \in Nat /\ p[2] \in Nat
      BY Yielded
    <3> QED
      BY <3>1 DEF Ahead, Earlier
  <2>2. IsFiniteSet(U \ {p}) /\ Cardinality(U \ {p}) = N - 1
    BY <1>1, FS_RemoveElement
  <2>3. IsFiniteSet(Ahead(p)) /\ Cardinality(Ahead(p)) <= N - 1
    BY <2>1, <2>2, FS_Subset
  <2>4. Cardinality(Ahead(p)) \in Nat
    BY <2>3, FS_CardinalityType
  <2> QED
    BY <1>1, <2>3, <2>4
<1>3. rank \in [U -> 0 .. N - 1]
  BY <1>2
<1>4. ASSUME NEW p \in U, NEW q \in U, rank[p] = rank[q] PROVE p = q
  <2> SUFFICES ASSUME p # q PROVE FALSE
    OBVIOUS
  <2>1. /\ p = <<p[1], p[2]>> /\ p[1] \in Nat /\ p[2] \in Nat
        /\ q = <<q[1], q[2]>> /\ q[1] \in Nat /\ q[2] \in Nat
    BY Yielded
  <2>2. Earlier(p, q) \/ Earlier(q, p)
    <3>1. p[1] # q[1] \/ p[2] # q[2]
      BY <2>1
    <3> QED
      BY <2>1, <3>1 DEF Earlier
  <2>3. Cardinality(Ahead(p)) \in Nat /\ Cardinality(Ahead(q)) \in Nat
    BY <1>2
  <2>4. Cardinality(Ahead(p)) = Cardinality(Ahead(q))
    BY <1>4
  <2> QED
    BY <2>2, <2>3, <2>4, AheadGrows
<1> HIDE DEF rank, N, U
<1>5. rank \in Injection(U, 0 .. N - 1)
  BY <1>3, <1>4, Fun_IsInj
<1>6. IsFiniteSet(0 .. N - 1) /\ Cardinality(0 .. N - 1) = N
  <2>1. 0 \in Int /\ N - 1 \in Int /\ (0 > N - 1 => N = 0)
    BY <1>1
  <2> QED
    BY <1>1, <2>1, FS_Interval
<1>7. rank \in Surjection(U, 0 .. N - 1)
  BY <1>1, <1>5, <1>6, FS_Injection
<1>8. n \in 0 .. N - 1
  BY <1>1 DEF N
<1>9. \E p \in U : rank[p] = n
  BY <1>7, <1>8 DEF Surjection
<1>10. \E p \in usable_frames : Cardinality({q \in usable_frames : Earlier(q, p)}) = n
  BY <1>9 DEF rank, U, Ahead
<1> QED
  BY <1>10 DEF nth, Ahead

\* allocate_frame never returns the same frame again.
LEMMA NthApart ==
    ASSUME memory_regions \in MemoryMaps, NEW n \in Nat, n < usable_frame_count,
           NEW k \in Nat, k < usable_frame_count, nth(n)[2] = nth(k)[2]
    PROVE  n = k
<1>1. /\ nth(n) \in usable_frames /\ Cardinality(Ahead(nth(n))) = n
      /\ nth(k) \in usable_frames /\ Cardinality(Ahead(nth(k))) = k
  BY NthIs
<1>2. nth(n) = nth(k)
  BY <1>1, YieldedOnce
<1> QED
  BY <1>1, <1>2

(***************************************************************************)
(* The inductive invariant.                                                *)
(***************************************************************************)
Alive == pc \in {"loop", "walk", "done"}

Shape ==
    /\ memory_regions \in MemoryMaps /\ next_frame \in Nat
    /\ pc \in {"loop", "walk", "done", "failed"} /\ level \in 0 .. 3
    /\ page \in start_page .. end_page + 1
    /\ pc = "walk" => page \in HeapPages /\ frame \in Nat
    /\ pc = "done" => page = end_page + 1
    /\ ready => pc = "done"

\* The tables on the way to the pages that are mapped, and to the one at
\* hand as far as map_to has come.
Passed ==
    {Table(l, p) : l \in Levels, p \in start_page .. page - 1}
    \cup IF pc = "walk" THEN {Table(l, page) : l \in level + 1 .. 3} ELSE {}

Built ==
    /\ DOMAIN mapping = start_page .. page - 1
    /\ IsFiniteSet(DOMAIN tables)
    /\ Alive => DOMAIN tables = Passed \ boot.tables

\* Every frame in use was drawn, and was one of the map's.
Drawn == \A f \in Given : \E k \in 0 .. next_frame - 1 : k < usable_frame_count /\ f = nth(k)[2]

\* The frames of tables and pages, and that each has one use.
Uses(entries) == {entries[x] : x \in DOMAIN entries}
Kept == Uses(tables) \cup Uses(mapping)

Owned ==
    /\ IsFiniteSet(Kept) /\ Cardinality(Kept) = Cardinality(DOMAIN tables) + Cardinality(DOMAIN mapping)
    /\ pc = "walk" => frame \notin Kept

Holders == Cardinality(DOMAIN tables) + Cardinality(DOMAIN mapping) + IF pc = "walk" THEN 1 ELSE 0

Spent == Alive => next_frame = Holders /\ next_frame <= usable_frame_count

MInv == Shape /\ Built /\ Drawn /\ Owned /\ Spent /\ (pc = "failed" => HeapCost)

\* The heap's pages are counted from its first byte to its last.
LEMMA PageOf ==
    ASSUME NEW a \in Nat, NEW b \in Nat, a <= b
    PROVE  /\ a \div FRAME_SIZE \in Nat /\ b \div FRAME_SIZE \in Nat
           /\ a \div FRAME_SIZE <= b \div FRAME_SIZE
<1> DEFINE F == FRAME_SIZE
           m == a \div F
           k == b \div F
<1>1. F \in Nat \ {0}
  BY MemoryAssumption
<1> HIDE DEF F
<1>2. m \in Nat /\ a = F * m + (a % F) /\ a % F \in 0 .. F - 1
  BY <1>1
<1>3. k \in Nat /\ b = F * k + (b % F) /\ b % F \in 0 .. F - 1
  BY <1>1
<1> HIDE DEF m, k
<1>4. F * m \in Nat /\ F * k \in Nat
  BY <1>1, <1>2, <1>3
<1>5. ~ (k < m)
  <2> SUFFICES ASSUME k < m PROVE FALSE
    OBVIOUS
  <2> DEFINE d == m - k - 1
  <2>1. d \in Nat /\ m = k + 1 + d
    BY <1>2, <1>3
  <2> HIDE DEF d
  <2>2. F * m = F * k + F + F * d /\ F * d \in Nat
    BY <1>1, <1>3, <2>1
  <2> QED
    BY <1>1, <1>2, <1>3, <1>4, <2>2
<1> QED
  BY <1>2, <1>3, <1>5 DEF m, k, F

\* The heap has a first and a last page, and every byte of it is on one of
\* them or between.
LEMMA Pages ==
    /\ start_page \in Nat /\ end_page \in Nat /\ start_page <= end_page
    /\ \A address \in HEAP_START .. HEAP_START + HEAP_SIZE - 1 : address \div FRAME_SIZE \in HeapPages
<1> DEFINE a == HEAP_START
           b == HEAP_START + HEAP_SIZE - 1
<1>1. a \in Nat /\ b \in Nat /\ a <= b
  BY MemoryAssumption
<1>2. start_page = a \div FRAME_SIZE /\ end_page = b \div FRAME_SIZE
  BY DEF start_page, end_page
<1> HIDE DEF a, b
<1>3. start_page \in Nat /\ end_page \in Nat /\ start_page <= end_page
  BY <1>1, <1>2, PageOf
<1>4. ASSUME NEW c \in a .. b PROVE c \div FRAME_SIZE \in HeapPages
  <2>1. c \in Nat /\ a <= c /\ c <= b
    BY <1>1
  <2>2. /\ c \div FRAME_SIZE \in Nat /\ a \div FRAME_SIZE <= c \div FRAME_SIZE
        /\ c \div FRAME_SIZE <= b \div FRAME_SIZE
    BY <1>1, <2>1, PageOf
  <2> QED
    BY <1>2, <1>3, <2>2 DEF HeapPages
<1> QED
  BY <1>3, <1>4 DEF a, b

\* What is yielded depends on the map alone.
LEMMA SameMap ==
    ASSUME memory_regions' = memory_regions
    PROVE  /\ usable_frame_count' = usable_frame_count
           /\ \A k : nth(k)' = nth(k)
  BY DEF usable_frames, usable_frame_count, nth

\* What allocate_frame returns is a frame nobody has, or none is left.
LEMMA Fresh ==
    ASSUME MInv
    PROVE  \/ NextFrame = None /\ ~ (next_frame < usable_frame_count)
           \/ /\ next_frame < usable_frame_count /\ NextFrame = nth(next_frame)[2]
              /\ NextFrame \in Nat /\ NextFrame # None /\ NextFrame \notin Given
<1>1. CASE ~ (next_frame < usable_frame_count)
  BY <1>1 DEF NextFrame
<1>2. CASE next_frame < usable_frame_count
  <2>1. memory_regions \in MemoryMaps /\ next_frame \in Nat
    BY DEF MInv, Shape
  <2>2. NextFrame = nth(next_frame)[2]
    BY <1>2 DEF NextFrame
  <2>3. NextFrame \in Nat
    BY <1>2, <2>1, <2>2, NthIs, Yielded
  <2>4. NextFrame # None
    BY <2>3, MemoryAssumption
  <2>5. NextFrame \notin Given
    <3> SUFFICES ASSUME NextFrame \in Given PROVE FALSE
      OBVIOUS
    <3>1. PICK k \in 0 .. next_frame - 1 : k < usable_frame_count /\ NextFrame = nth(k)[2]
      BY DEF MInv, Drawn
    <3>2. k \in Nat /\ k # next_frame
      BY <2>1
    <3> QED
      BY <1>2, <2>1, <2>2, <3>1, <3>2, NthApart
  <2> QED
    BY <1>2, <2>2, <2>3, <2>4, <2>5
<1> QED
  BY <1>1, <1>2

\* Frames in use stay drawn, and one more may be drawn.
LEMMA DrawnKeeps ==
    ASSUME MInv, memory_regions' = memory_regions, next_frame' \in {next_frame, next_frame + 1},
           \A f \in Given' : f \in Given \/ (next_frame' = next_frame + 1 /\ next_frame < usable_frame_count /\ f = nth(next_frame)[2])
    PROVE  Drawn'
<1>1. next_frame \in Nat /\ (next_frame' = next_frame \/ next_frame' = next_frame + 1)
  BY DEF MInv, Shape
<1>2. ASSUME NEW f \in Given' PROVE \E k \in 0 .. next_frame' - 1 : k < usable_frame_count' /\ f = nth(k)'[2]
  <2>1. CASE f \in Given
    <3>1. PICK k \in 0 .. next_frame - 1 : k < usable_frame_count /\ f = nth(k)[2]
      BY <2>1 DEF MInv, Drawn
    <3>2. k \in 0 .. next_frame' - 1
      <4>1. CASE next_frame' = next_frame
        BY <4>1
      <4>2. CASE next_frame' = next_frame + 1
        BY <1>1, <4>2
      <4> QED
        BY <1>1, <4>1, <4>2
    <3> QED
      BY <3>1, <3>2, SameMap
  <2>2. CASE next_frame' = next_frame + 1 /\ next_frame < usable_frame_count /\ f = nth(next_frame)[2]
    <3>1. next_frame \in 0 .. next_frame' - 1
      BY <1>1, <2>2
    <3> QED
      BY <2>2, <3>1, SameMap
  <2> QED
    BY <2>1, <2>2
<1> QED
  BY <1>2 DEF Drawn

\* What the heap costs, and that what is held is part of it.
LEMMA HeldIsPart ==
    ASSUME MInv, Alive
    PROVE  /\ DOMAIN tables \subseteq MissingTables /\ DOMAIN mapping \subseteq HeapPages
           /\ page \notin DOMAIN mapping /\ page \in Nat
           /\ IsFiniteSet(MissingTables) /\ IsFiniteSet(HeapPages)
           /\ IsFiniteSet(DOMAIN tables) /\ IsFiniteSet(DOMAIN mapping)
           /\ Cardinality(DOMAIN tables) \in Nat /\ Cardinality(DOMAIN mapping) \in Nat
           /\ Cardinality(MissingTables) \in Nat /\ Cardinality(HeapPages) \in Nat
<1>1. /\ start_page \in Nat /\ end_page \in Nat /\ page \in start_page .. end_page + 1 /\ page \in Nat
      /\ (pc = "walk" => page \in HeapPages) /\ level \in 0 .. 3
  BY Pages DEF MInv, Shape
<1>2. start_page .. page - 1 \subseteq HeapPages
  BY <1>1 DEF HeapPages
<1>3. DOMAIN mapping \subseteq HeapPages /\ page \notin DOMAIN mapping
  BY <1>1, <1>2 DEF MInv, Built
<1>4. DOMAIN tables \subseteq MissingTables
  <2>1. level + 1 .. 3 \subseteq Levels
    BY <1>1 DEF Levels
  <2>2. Passed \subseteq {Table(l, p) : l \in Levels, p \in HeapPages}
    BY <1>1, <1>2, <2>1 DEF Passed
  <2> QED
    BY <2>2 DEF MInv, Built, MissingTables
<1>5. IsFiniteSet(HeapPages)
  BY <1>1, FS_Interval DEF HeapPages
<1>6. IsFiniteSet(MissingTables)
  <2> DEFINE S == Levels \X HeapPages
             all == {Table(x[1], x[2]) : x \in S}
             f == [x \in S |-> Table(x[1], x[2])]
  <2>1. IsFiniteSet(S)
    <3>1. IsFiniteSet(Levels)
      <4>1. 1 \in Int /\ 3 \in Int
        OBVIOUS
      <4> QED
        BY <4>1, FS_Interval DEF Levels
    <3> QED
      BY <1>5, <3>1, FS_Product
  <2>2. f \in Surjection(S, all)
    BY DEF Surjection
  <2>3. IsFiniteSet(all)
    <3> HIDE DEF S, all, f
    <3> QED BY <2>1, <2>2, FS_Surjection
  <2>4. MissingTables \in SUBSET all
    <3>1. ASSUME NEW t \in MissingTables PROVE t \in all
      <4>1. PICK l \in Levels, p \in HeapPages : t = Table(l, p)
        BY <3>1 DEF MissingTables
      <4>2. <<l, p>> \in S /\ t = Table(<<l, p>>[1], <<l, p>>[2])
        BY <4>1
      <4> QED
        BY <4>2
    <3> QED
      BY <3>1
  <2> HIDE DEF all
  <2> QED
    BY <2>3, <2>4, FS_Subset
<1>7. IsFiniteSet(DOMAIN tables) /\ IsFiniteSet(DOMAIN mapping)
  BY <1>3, <1>4, <1>5, <1>6, FS_Subset
<1> QED
  BY <1>1, <1>3, <1>4, <1>5, <1>6, <1>7, FS_CardinalityType
\* Before the first page nothing is mapped and no frame is given.
LEMMA InitOK ==
    ASSUME Init PROVE MInv
<1>1. Shape
  BY Pages, MemoryAssumption DEF Init, Shape
<1>2. DOMAIN tables = {} /\ DOMAIN mapping = {} /\ Kept = {} /\ Given = {}
  BY DEF Init, Kept, Given, Uses
<1>3. Passed = {} /\ DOMAIN mapping = start_page .. page - 1
  BY <1>2, Pages DEF Init, Passed
<1>4. Built
  BY <1>2, <1>3, FS_EmptySet DEF Built
<1>5. Drawn /\ Owned
  BY <1>2, FS_EmptySet DEF Drawn, Owned, Init
<1>6. Spent
  <2>1. memory_regions \in MemoryMaps
    BY DEF Init
  <2>2. usable_frame_count \in Nat
    BY <2>1, UsableFinite
  <2> QED
    BY <1>2, <2>2, FS_EmptySet DEF Spent, Holders, Init
<1> QED
  BY <1>1, <1>4, <1>5, <1>6 DEF MInv, Init

\* Taking the page's frame keeps the invariant.
LEMMA TakeFrameOK ==
    ASSUME MInv, TakeFrame PROVE MInv'
<1>1. /\ pc = "loop" /\ page \in HeapPages /\ next_frame' = next_frame + 1 /\ memory_regions' = memory_regions
      /\ frame' = NextFrame /\ level' = 3 /\ UNCHANGED <<boot, tables, mapping, page, ready>>
      /\ pc' = IF NextFrame = None THEN "failed" ELSE "walk"
  BY DEF TakeFrame, allocate_frame, Fail
<1>2. Alive /\ next_frame \in Nat /\ usable_frame_count \in Nat
  BY <1>1, UsableFinite DEF Alive, MInv, Shape
<1>3. Kept' = Kept /\ Given = Kept
  BY <1>1 DEF Kept, Given, Uses
<1>4. next_frame = Holders /\ next_frame <= usable_frame_count
  BY <1>2 DEF MInv, Spent
<1>5. Shape'
  BY <1>1, <1>2, Fresh DEF MInv, Shape, HeapPages
<1>6. Drawn'
  <2>1. Given' = Kept \/ (Given' = Kept \cup {NextFrame} /\ NextFrame # None)
    BY <1>1, <1>3 DEF Given, Kept, Uses
  <2> QED
    BY <1>1, <1>3, <2>1, Fresh, DrawnKeeps
<1>7. CASE NextFrame = None
  <2>1. pc' = "failed" /\ ~ (next_frame < usable_frame_count)
    BY <1>1, <1>7, Fresh
  <2>2. Built' /\ Owned' /\ Spent'
    BY <1>1, <1>3, <2>1 DEF MInv, Built, Owned, Spent, Alive
  <2>3. usable_frame_count < Cost
    <3>1. Cardinality(DOMAIN tables) <= Cardinality(MissingTables)
      BY <1>2, HeldIsPart, FS_Subset
    <3>2. Cardinality(DOMAIN mapping) < Cardinality(HeapPages)
      BY <1>1, <1>2, HeldIsPart, FS_Subset
    <3> QED
      BY <1>1, <1>2, <1>4, <2>1, <3>1, <3>2, HeldIsPart DEF Holders, Cost
  <2>4. HeapCost'
    <3>1. Cost' = Cost
      BY <1>1 DEF Cost, MissingTables
    <3> QED
      BY <1>1, <2>1, <2>3, <3>1, SameMap DEF HeapCost
  <2> QED
    BY <1>5, <1>6, <2>2, <2>4 DEF MInv
<1>8. CASE NextFrame # None
  <2>1. pc' = "walk" /\ next_frame < usable_frame_count /\ NextFrame \notin Kept
    BY <1>1, <1>3, <1>8, Fresh
  <2>2. Passed' = Passed
    BY <1>1, <2>1 DEF Passed
  <2>3. Built'
    BY <1>1, <1>2, <2>2 DEF MInv, Built
  <2>4. Owned'
    BY <1>1, <1>3, <2>1 DEF MInv, Owned
  <2>5. Spent'
    <3>1. Holders' = next_frame + 1
      BY <1>1, <1>2, <1>4, <2>1, HeldIsPart DEF Holders
    <3> QED
      BY <1>1, <1>2, <2>1, <3>1, SameMap DEF Spent
  <2> QED
    BY <1>5, <1>6, <2>1, <2>3, <2>4, <2>5 DEF MInv
<1> QED
  BY <1>7, <1>8

\* Entering a level, with a new table or with the one that is there, keeps
\* the invariant.
LEMMA EnterTableOK ==
    ASSUME MInv, EnterTable PROVE MInv'
<1> DEFINE T == Table(level, page)
<1>1. /\ pc = "walk" /\ level \in 1 .. 3 /\ level' = level - 1
      /\ UNCHANGED <<memory_regions, boot, mapping, page, frame, ready>>
  BY DEF EnterTable, allocate_frame, frames, Levels
<1>2. /\ Alive /\ next_frame \in Nat /\ usable_frame_count \in Nat /\ page \in HeapPages /\ frame \in Nat
      /\ page \in start_page .. end_page + 1
  BY <1>1, UsableFinite DEF Alive, MInv, Shape
<1>3. Given = Kept \cup {frame} /\ frame \notin Kept
  BY <1>1 DEF Kept, Given, Uses, MInv, Owned
<1>4. next_frame = Holders /\ next_frame <= usable_frame_count /\ DOMAIN tables = Passed \ boot.tables
  BY <1>2 DEF MInv, Spent, Built
<1>5. T \in {Table(l, p) : l \in Levels, p \in HeapPages}
  BY <1>1, <1>2 DEF Levels
<1>6. pc' = "walk" => Passed' = Passed \cup {T}
  <2> SUFFICES ASSUME pc' = "walk" PROVE Passed' = Passed \cup {T}
    OBVIOUS
  <2>1. level' + 1 .. 3 = (level + 1 .. 3) \cup {level}
    BY <1>1
  <2>2. {Table(l, page) : l \in level' + 1 .. 3} = {Table(l, page) : l \in level + 1 .. 3} \cup {T}
    BY <2>1
  <2>3. /\ Passed = {Table(l, p) : l \in Levels, p \in start_page .. page - 1}
                    \cup {Table(l, page) : l \in level + 1 .. 3}
        /\ Passed' = {Table(l, p) : l \in Levels, p \in start_page .. page - 1}
                     \cup {Table(l, page) : l \in level' + 1 .. 3}
    BY <1>1 DEF Passed
  <2> QED
    BY <2>2, <2>3
<1> HIDE DEF T
<1>7. CASE T \in Present
  <2>1. UNCHANGED <<next_frame, tables, pc>>
    BY <1>7 DEF EnterTable, frames, T
  <2>2. Kept' = Kept /\ Given' = Given
    BY <1>1, <2>1 DEF Kept, Given, Uses
  <2>3. Shape'
    BY <1>1, <2>1 DEF MInv, Shape
  <2>4. Passed' \ boot.tables = Passed \ boot.tables
    BY <1>1, <1>4, <1>6, <1>7, <2>1 DEF Present
  <2>5. Built'
    BY <1>1, <1>2, <1>4, <2>1, <2>4 DEF MInv, Built
  <2>6. Drawn'
    BY <1>1, <2>1, <2>2, DrawnKeeps
  <2>7. Owned'
    BY <1>1, <2>1, <2>2 DEF MInv, Owned
  <2>8. Spent'
    BY <1>1, <2>1, SameMap DEF MInv, Spent, Alive, Holders
  <2> QED
    BY <1>1, <2>1, <2>3, <2>5, <2>6, <2>7, <2>8 DEF MInv
<1>8. CASE T \notin Present /\ NextFrame = None
  <2>1. next_frame' = next_frame + 1 /\ pc' = "failed" /\ tables' = tables
    BY <1>8 DEF EnterTable, allocate_frame, Fail, T
  <2>2. ~ (next_frame < usable_frame_count)
    BY <1>8, Fresh
  <2>3. Kept' = Kept /\ Given' = Kept
    BY <1>1, <2>1 DEF Kept, Given, Uses
  <2>4. Shape'
    BY <1>1, <1>2, <2>1 DEF MInv, Shape
  <2>5. Drawn'
    BY <1>1, <1>3, <2>1, <2>3, DrawnKeeps
  <2>6. Built' /\ Owned' /\ Spent'
    BY <1>1, <2>1, <2>3 DEF MInv, Built, Owned, Spent, Alive
  <2>7. usable_frame_count < Cost
    <3>1. Cardinality(DOMAIN tables) < Cardinality(MissingTables)
      <4>1. T \in MissingTables /\ T \notin DOMAIN tables
        BY <1>5, <1>8 DEF MissingTables, Present
      <4> QED
        BY <1>2, <4>1, HeldIsPart, FS_Subset
    <3>2. Cardinality(DOMAIN mapping) < Cardinality(HeapPages)
      BY <1>2, HeldIsPart, FS_Subset
    <3> QED
      BY <1>1, <1>2, <1>4, <2>2, <3>1, <3>2, HeldIsPart DEF Holders, Cost
  <2>8. HeapCost'
    <3>1. Cost' = Cost
      BY <1>1 DEF Cost, MissingTables
    <3> QED
      BY <1>1, <2>1, <2>7, <3>1, SameMap DEF HeapCost
  <2> QED
    BY <2>4, <2>5, <2>6, <2>8 DEF MInv
<1>9. CASE T \notin Present /\ NextFrame # None
  <2>1. next_frame' = next_frame + 1 /\ pc' = "walk" /\ tables' = With(tables, T, NextFrame)
    BY <1>1, <1>9 DEF EnterTable, allocate_frame, T
  <2>2. /\ next_frame < usable_frame_count /\ NextFrame = nth(next_frame)[2] /\ NextFrame \notin Kept
        /\ NextFrame # frame
    BY <1>3, <1>9, Fresh
  <2>3. T \notin DOMAIN tables /\ T \notin boot.tables
    BY <1>9 DEF Present
  <2>4. DOMAIN tables' = DOMAIN tables \cup {T} /\ Kept' = Kept \cup {NextFrame}
    <3>1. /\ DOMAIN tables' = DOMAIN tables \cup {T}
          /\ Uses(tables') = Uses(tables) \cup {NextFrame}
      <4> DEFINE w == With(tables, T, NextFrame)
      <4>1. DOMAIN w = DOMAIN tables \cup {T} /\ w[T] = NextFrame /\ \A z \in DOMAIN tables : w[z] = tables[z]
        BY <2>3 DEF With
      <4>2. tables' = w
        BY <2>1
      <4> HIDE DEF w
      <4>3. Uses(w) = Uses(tables) \cup {NextFrame}
        BY <4>1 DEF Uses
      <4> QED
        BY <4>1, <4>2, <4>3
    <3>2. Kept' = Uses(tables') \cup Uses(mapping)
      BY <1>1 DEF Kept
    <3> QED
      BY <3>1, <3>2 DEF Kept
  <2>5. Given' = Given \cup {NextFrame}
    BY <1>1, <1>3, <2>1, <2>4 DEF Given, Kept, Uses
  <2>6. /\ Cardinality(DOMAIN tables') = Cardinality(DOMAIN tables) + 1 /\ IsFiniteSet(DOMAIN tables')
        /\ Cardinality(Kept') = Cardinality(Kept) + 1 /\ IsFiniteSet(Kept')
    <3>1. IsFiniteSet(Kept) /\ IsFiniteSet(DOMAIN tables)
      BY <1>2, HeldIsPart DEF MInv, Owned
    <3>2. Cardinality(DOMAIN tables \cup {T}) = Cardinality(DOMAIN tables) + 1 /\ IsFiniteSet(DOMAIN tables \cup {T})
      BY <2>3, <3>1, FS_AddElement
    <3>3. Cardinality(Kept \cup {NextFrame}) = Cardinality(Kept) + 1 /\ IsFiniteSet(Kept \cup {NextFrame})
      BY <2>2, <3>1, FS_AddElement
    <3> QED
      BY <2>4, <3>2, <3>3
  <2>7. Shape'
    BY <1>1, <1>2, <2>1 DEF MInv, Shape
  <2>8. Built'
    BY <1>1, <1>4, <1>6, <2>1, <2>3, <2>4, <2>6 DEF MInv, Built
  <2>9. Drawn'
    BY <1>1, <2>1, <2>2, <2>5, DrawnKeeps
  <2>10. Owned'
    BY <1>1, <1>2, <1>3, <2>2, <2>4, <2>6, HeldIsPart DEF MInv, Owned
  <2>11. Spent'
    <3>1. Holders' = next_frame + 1
      BY <1>1, <1>2, <1>4, <2>1, <2>6, HeldIsPart DEF Holders
    <3> QED
      BY <1>1, <1>2, <2>1, <2>2, <3>1, SameMap DEF Spent
  <2> QED
    BY <2>1, <2>7, <2>8, <2>9, <2>10, <2>11 DEF MInv
<1> QED
  BY <1>7, <1>8, <1>9
\* Setting the page's entry keeps the invariant.
LEMMA SetEntryOK ==
    ASSUME MInv, SetEntry PROVE MInv'
<1>1. /\ pc = "walk" /\ level = 0
      /\ UNCHANGED <<memory_regions, next_frame, boot, tables, frame, level, ready>>
  BY DEF SetEntry, frames
<1>2. /\ Alive /\ next_frame \in Nat /\ usable_frame_count \in Nat /\ page \in HeapPages /\ frame \in Nat
      /\ page \in start_page .. end_page + 1 /\ start_page \in Nat /\ end_page \in Nat /\ page \in Nat
  BY <1>1, UsableFinite, Pages DEF Alive, MInv, Shape
<1>3. Given = Kept \cup {frame} /\ frame \notin Kept
  BY <1>1 DEF Kept, Given, Uses, MInv, Owned
<1>4. /\ next_frame = Holders /\ next_frame <= usable_frame_count /\ DOMAIN tables = Passed \ boot.tables
      /\ DOMAIN mapping = start_page .. page - 1
  BY <1>2 DEF MInv, Spent, Built
<1>5. CASE page \in boot.pages
  <2>1. pc' = "failed" /\ mapping' = mapping /\ page' = page
    BY <1>5 DEF SetEntry, Fail
  <2>2. Kept' = Kept /\ Given' = Kept
    BY <1>1, <2>1, Zenon DEF Kept, Given, Uses
  <2>3. Shape'
    BY <1>1, <1>2, <2>1 DEF MInv, Shape
  <2>4. Drawn'
    BY <1>1, <1>3, <2>1, <2>2, DrawnKeeps
  <2>5. Built' /\ Owned' /\ Spent'
    BY <1>1, <2>1, <2>2 DEF MInv, Built, Owned, Spent, Alive
  <2>6. HeapCost'
    BY <1>1, <1>2, <1>5, <2>1 DEF HeapCost
  <2> QED
    BY <2>3, <2>4, <2>5, <2>6 DEF MInv
<1>6. CASE page \notin boot.pages
  <2>1. pc' = "loop" /\ mapping' = With(mapping, page, frame) /\ page' = page + 1
    BY <1>6 DEF SetEntry
  <2>2. page \notin DOMAIN mapping
    BY <1>2, HeldIsPart
  <2>3. DOMAIN mapping' = DOMAIN mapping \cup {page} /\ Kept' = Kept \cup {frame}
    <3>1. /\ DOMAIN mapping' = DOMAIN mapping \cup {page}
          /\ Uses(mapping') = Uses(mapping) \cup {frame}
      <4> DEFINE w == With(mapping, page, frame)
      <4>1. DOMAIN w = DOMAIN mapping \cup {page} /\ w[page] = frame /\ \A z \in DOMAIN mapping : w[z] = mapping[z]
        BY <2>2 DEF With
      <4>2. mapping' = w
        BY <2>1
      <4> HIDE DEF w
      <4>3. Uses(w) = Uses(mapping) \cup {frame}
        BY <4>1 DEF Uses
      <4> QED
        BY <4>1, <4>2, <4>3
    <3>2. Kept' = Uses(tables) \cup Uses(mapping')
      BY <1>1 DEF Kept
    <3> QED
      BY <3>1, <3>2 DEF Kept
  <2>4. Given' = Given
    <3>1. Given' = Kept'
      BY <2>1 DEF Given, Kept, Uses
    <3> QED
      BY <1>3, <2>3, <3>1
  <2>5. /\ Cardinality(DOMAIN mapping') = Cardinality(DOMAIN mapping) + 1
        /\ Cardinality(Kept') = Cardinality(Kept) + 1 /\ IsFiniteSet(Kept')
    <3>1. IsFiniteSet(Kept) /\ IsFiniteSet(DOMAIN mapping)
      BY <1>2, HeldIsPart DEF MInv, Owned
    <3>2. Cardinality(DOMAIN mapping \cup {page}) = Cardinality(DOMAIN mapping) + 1
      BY <2>2, <3>1, FS_AddElement
    <3>3. Cardinality(Kept \cup {frame}) = Cardinality(Kept) + 1 /\ IsFiniteSet(Kept \cup {frame})
      BY <1>3, <3>1, FS_AddElement
    <3> QED
      BY <2>3, <3>2, <3>3
  <2>6. Shape'
    BY <1>1, <1>2, <2>1 DEF MInv, Shape, HeapPages
  <2>7. start_page .. page' - 1 = (start_page .. page - 1) \cup {page}
    BY <1>2, <2>1
  <2>8. Passed' = Passed
    <3>1. Passed = {Table(l, p) : l \in Levels, p \in start_page .. page - 1}
                   \cup {Table(l, page) : l \in Levels}
      BY <1>1 DEF Passed, Levels
    <3>2. Passed' = {Table(l, p) : l \in Levels, p \in (start_page .. page - 1) \cup {page}}
      BY <2>1, <2>7 DEF Passed
    <3>3. ASSUME NEW t \in Passed PROVE t \in Passed'
      <4>1. \E l \in Levels, p \in (start_page .. page - 1) \cup {page} : t = Table(l, p)
        BY <3>1, <3>3
      <4> QED
        BY <3>2, <4>1
    <3>4. ASSUME NEW t \in Passed' PROVE t \in Passed
      <4>1. PICK l \in Levels, p \in (start_page .. page - 1) \cup {page} : t = Table(l, p)
        BY <3>2, <3>4
      <4> QED
        BY <3>1, <4>1
    <3> QED
      BY <3>3, <3>4
  <2>9. Built'
    BY <1>1, <1>4, <2>3, <2>7, <2>8 DEF MInv, Built
  <2>10. Drawn'
    BY <1>1, <2>4, DrawnKeeps
  <2>11. Owned'
    BY <1>1, <1>2, <2>1, <2>5, HeldIsPart DEF MInv, Owned
  <2>12. Spent'
    <3>1. Holders' = Cardinality(DOMAIN tables) + Cardinality(DOMAIN mapping') + 0
      BY <1>1, <2>1 DEF Holders
    <3>2. Holders' = Holders
      BY <1>1, <1>2, <2>5, <3>1, HeldIsPart DEF Holders
    <3> QED
      BY <1>1, <1>4, <3>2, SameMap DEF Spent
  <2> QED
    BY <2>1, <2>6, <2>9, <2>10, <2>11, <2>12 DEF MInv
<1> QED
  BY <1>5, <1>6

\* ALLOCATOR.init after the last page keeps the invariant.
LEMMA FinishOK ==
    ASSUME MInv, Finish PROVE MInv'
<1>1. /\ pc = "loop" /\ pc' = "done" /\ page \notin HeapPages
      /\ UNCHANGED <<memory_regions, next_frame, boot, tables, mapping, page, frame, level>>
  BY DEF Finish, frames
<1>2. page = end_page + 1
  BY <1>1, Pages DEF MInv, Shape, HeapPages
<1>3. Kept' = Kept /\ Given' = Given /\ Passed' = Passed /\ Holders' = Holders
  BY <1>1 DEF Kept, Given, Uses, Passed, Holders
<1>4. Shape'
  BY <1>1, <1>2 DEF MInv, Shape
<1>5. Drawn'
  BY <1>1, <1>3, DrawnKeeps
<1>6. Built' /\ Owned'
  BY <1>1, <1>3 DEF MInv, Built, Owned, Alive
<1>7. Spent'
  BY <1>1, <1>3, SameMap DEF MInv, Spent, Alive
<1> QED
  BY <1>1, <1>4, <1>5, <1>6, <1>7 DEF MInv

\* So does doing nothing.
LEMMA IdleOK ==
    ASSUME MInv, UNCHANGED vars PROVE MInv'
<1>1. UNCHANGED <<memory_regions, next_frame, boot, tables, mapping, pc, page, frame, level, ready>>
  BY DEF vars, frames
<1>2. Kept' = Kept /\ Given' = Given /\ Passed' = Passed /\ Holders' = Holders
  BY <1>1 DEF Kept, Given, Uses, Passed, Holders
<1>3. Shape' /\ Built' /\ Owned'
  BY <1>1, <1>2 DEF MInv, Shape, Built, Owned, Alive
<1>4. Drawn'
  BY <1>1, <1>2, DrawnKeeps
<1>5. Spent'
  BY <1>1, <1>2, SameMap DEF MInv, Spent, Alive
<1>6. pc' = "failed" => HeapCost'
  <2>1. Cost' = Cost
    BY <1>1 DEF Cost, MissingTables
  <2> QED
    BY <1>1, <2>1, SameMap DEF MInv, HeapCost
<1> QED
  BY <1>3, <1>4, <1>5, <1>6 DEF MInv

\* The inductive invariant of init_heap: the tables and pages it has made
\* are those on the way to the page it is at, each holds a frame that was
\* drawn from the map before, and as many were drawn as are held.
THEOREM HeapInvariance == Spec => []MInv
<1>1. Init => MInv
  BY InitOK
<1>2. MInv /\ [Next]_vars => MInv'
  BY TakeFrameOK, EnterTableOK, SetEntryOK, FinishOK, IdleOK DEF Next
<1> QED
  BY <1>1, <1>2, PTL DEF Spec

\* allocate_frame never hands the same frame to two pages or tables.
THEOREM NoFrameTwice == Spec => []FramesHaveOneOwner
<1>1. MInv => FramesHaveOneOwner
  <2> SUFFICES ASSUME MInv PROVE FramesHaveOneOwner
    OBVIOUS
  <2>1. IsFiniteSet(Kept) /\ Cardinality(Kept) = Cardinality(DOMAIN tables) + Cardinality(DOMAIN mapping)
    BY DEF MInv, Owned
  <2>2. CASE pc = "walk"
    <3>1. Given = Kept \cup {frame} /\ frame \notin Kept
      BY <2>2 DEF Kept, Given, Uses, MInv, Owned
    <3>2. Cardinality(Kept \cup {frame}) = Cardinality(Kept) + 1
      BY <2>1, <3>1, FS_AddElement
    <3> QED
      BY <2>1, <2>2, <3>1, <3>2 DEF FramesHaveOneOwner
  <2>3. CASE pc # "walk"
    <3>1. Given = Kept
      BY <2>3 DEF Kept, Given, Uses
    <3>2. Cardinality(Kept) \in Nat
      BY <2>1, FS_CardinalityType
    <3> QED
      BY <2>1, <2>3, <3>1, <3>2 DEF FramesHaveOneOwner
  <2> QED
    BY <2>2, <2>3
<1> QED
  BY <1>1, HeapInvariance, PTL

\* Every byte of a frame in use is the map's to give, for every map whose
\* regions do not overlap, aligned or not.
THEOREM OnlyUsableFrames == Spec => []FramesAreUsable
<1>1. MInv => FramesAreUsable
  <2> SUFFICES ASSUME MInv, NEW f \in Given
               PROVE  \E i \in DOMAIN memory_regions :
                          /\ memory_regions[i].usable
                          /\ memory_regions[i].start <= f /\ f + FRAME_SIZE <= memory_regions[i].end
    BY DEF FramesAreUsable
  <2>1. PICK k \in 0 .. next_frame - 1 : k < usable_frame_count /\ f = nth(k)[2]
    BY DEF MInv, Drawn
  <2>2. memory_regions \in MemoryMaps /\ k \in Nat
    BY DEF MInv, Shape
  <2> QED
    <3>1. nth(k) \in usable_frames
      BY <2>1, <2>2, NthIs
    <3>2. /\ nth(k)[1] \in UsableRegions /\ memory_regions[nth(k)[1]].start <= f
          /\ f + FRAME_SIZE <= memory_regions[nth(k)[1]].end
      BY <2>1, <2>2, <3>1, Yielded
    <3> QED
      BY <3>2 DEF UsableRegions
<1> QED
  BY <1>1, HeapInvariance, PTL

\* When the allocator is given the heap, every byte of it is mapped.
THEOREM HeapIsAllThere == Spec => []HeapIsBacked
<1>1. MInv => HeapIsBacked
  <2> SUFFICES ASSUME MInv, ready, NEW address \in HEAP_START .. HEAP_START + HEAP_SIZE - 1
               PROVE  /\ address \div FRAME_SIZE \in DOMAIN mapping
                      /\ \A l \in Levels : Table(l, address \div FRAME_SIZE) \in Present
    BY DEF HeapIsBacked
  <2>1. pc = "done" /\ page = end_page + 1
    BY DEF MInv, Shape
  <2>2. start_page .. page - 1 = HeapPages
    BY <2>1, Pages DEF HeapPages
  <2>3. address \div FRAME_SIZE \in HeapPages
    BY Pages
  <2>4. DOMAIN mapping = HeapPages /\ DOMAIN tables = Passed \ boot.tables
    BY <2>1, <2>2 DEF MInv, Built, Alive
  <2>5. \A l \in Levels : Table(l, address \div FRAME_SIZE) \in Passed
    <3> DEFINE way(S) == {Table(l, p) : l \in Levels, p \in S}
    <3>1. Passed = way(start_page .. page - 1)
      BY <2>1 DEF Passed
    <3> HIDE DEF way
    <3>2. Passed = way(HeapPages)
      BY <2>2, <3>1
    <3> QED
      BY <2>3, <3>2 DEF way
  <2> QED
    BY <2>3, <2>4, <2>5 DEF Present
<1> QED
  BY <1>1, HeapInvariance, PTL

\* init_heap draws exactly one frame for each page and each missing table,
\* and fails only for want of frames or because a page was mapped before.
THEOREM HeapCostsWhatItNeeds == Spec => []HeapCost
<1>1. MInv => HeapCost
  <2> SUFFICES ASSUME MInv, pc = "done" PROVE next_frame = Cost /\ next_frame <= usable_frame_count
    BY DEF MInv, HeapCost
  <2>1. page = end_page + 1 /\ Alive
    BY DEF MInv, Shape, Alive
  <2>2. start_page .. page - 1 = HeapPages
    BY <2>1, Pages DEF HeapPages
  <2>3. Passed = {Table(l, p) : l \in Levels, p \in HeapPages}
    <3> DEFINE way(S) == {Table(l, p) : l \in Levels, p \in S}
    <3>1. Passed = way(start_page .. page - 1)
      BY DEF Passed
    <3> HIDE DEF way
    <3>2. Passed = way(HeapPages)
      BY <2>2, <3>1
    <3> QED
      BY <3>2 DEF way
  <2>4. DOMAIN mapping = HeapPages /\ DOMAIN tables = MissingTables
    BY <2>1, <2>2, <2>3 DEF MInv, Built, MissingTables
  <2> QED
    BY <2>1, <2>4, HeldIsPart DEF MInv, Spent, Holders, Cost
<1> QED
  BY <1>1, HeapInvariance, PTL
=============================================================================
