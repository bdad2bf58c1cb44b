---------------------------- MODULE Keyboard_proofs ---------------------------
(***************************************************************************)
(* Proofs about keyboard.rs.  The input ring: for every capacity of at     *)
(* least two slots, every set of events and every width of the dropped     *)
(* counter.  The decoder: for every set of keys and every number of bytes  *)
(* waiting.                                                                *)
(***************************************************************************)
EXTENDS Keyboard, InputQueue, SequenceTheorems, TLAPS

\* The remainder of a number below twice the capacity.
LEMMA ModBelowTwice ==
    ASSUME NEW x \in Nat, x < 2 * INPUT_QUEUE_CAPACITY
    PROVE  x % INPUT_QUEUE_CAPACITY =
               IF x < INPUT_QUEUE_CAPACITY THEN x ELSE x - INPUT_QUEUE_CAPACITY
  BY CapacityAssumption

\* The index push and pop advance to: the next slot, or slot 0 at the end.
LEMMA SuccessorIs ==
    ASSUME NEW i \in Slots
    PROVE  /\ Successor(i) = IF i = INPUT_QUEUE_CAPACITY - 1 THEN 0 ELSE i + 1
           /\ Successor(i) \in Slots
  BY ModBelowTwice, CapacityAssumption DEF Successor, Slots

\* The wrapping counter stays in its range.
LEMMA WrapsInRange ==
    ASSUME NEW n \in 0 .. USIZE_MODULUS - 1
    PROVE  (n + 1) % USIZE_MODULUS \in 0 .. USIZE_MODULUS - 1
  BY ModulusAssumption

-----------------------------------------------------------------------------
(***************************************************************************)
(* Type correctness.                                                       *)
(***************************************************************************)

\* Every variable of the ring keeps its type.
THEOREM TypeCorrect == Spec => []TypeOK
<1>1. Init => TypeOK
  BY CapacityAssumption, EventAssumption, ModulusAssumption
  DEF Init, TypeOK, Slots
<1>2. TypeOK /\ [Next]_vars => TypeOK'
  <2> SUFFICES ASSUME TypeOK, [Next]_vars PROVE TypeOK'
    OBVIOUS
  <2> USE DEF TypeOK
  <2>1. ASSUME NEW e \in KeyEvent, PushBegin(e) PROVE TypeOK'
    BY <2>1 DEF PushBegin, consumer
  <2>2. CASE PushCheck
    BY <2>2 DEF PushCheck, consumer
  <2>3. CASE PushDrop
    BY <2>3, WrapsInRange DEF PushDrop, consumer
  <2>4. CASE PushWrite
    BY <2>4 DEF PushWrite, consumer
  <2>5. CASE PushPublish
    BY <2>5, SuccessorIs DEF PushPublish, consumer
  <2>6. CASE PopCheck
    BY <2>6 DEF PopCheck, producer
  <2>7. CASE PopRead
    BY <2>7 DEF PopRead, producer
  <2>8. CASE PopAdvance
    BY <2>8, SuccessorIs DEF PopAdvance, producer
  <2>9. CASE UNCHANGED vars
    BY <2>9 DEF vars
  <2> QED
    BY <2>1, <2>2, <2>3, <2>4, <2>5, <2>6, <2>7, <2>8, <2>9 DEF Next, Push, Pop
<1> QED
  BY <1>1, <1>2, PTL DEF Spec

-----------------------------------------------------------------------------
(***************************************************************************)
(* The two sides never meet.                                               *)
(***************************************************************************)

\* push, past its test, keeps one slot free between itself and tail; pop,
\* past its test, has at least one slot to read.
THEOREM SlotsStayApart == Spec => []RingInv
<1>1. Init => RingInv
  BY DEF Init, RingInv
<1>2. TypeOK /\ RingInv /\ [Next]_vars => RingInv'
  <2> SUFFICES ASSUME TypeOK, RingInv, [Next]_vars PROVE RingInv'
    OBVIOUS
  <2> USE DEF TypeOK, RingInv
  <2>1. ASSUME NEW e \in KeyEvent, PushBegin(e) PROVE RingInv'
    BY <2>1 DEF PushBegin, consumer
  <2>2. CASE PushCheck
    BY <2>2 DEF PushCheck, consumer
  <2>3. CASE PushDrop
    BY <2>3 DEF PushDrop, consumer
  <2>4. CASE PushWrite
    BY <2>4 DEF PushWrite, consumer
  <2>5. CASE PushPublish
    BY <2>5 DEF PushPublish, consumer
  <2>6. CASE PopCheck
    BY <2>6 DEF PopCheck, producer
  <2>7. CASE PopRead
    BY <2>7 DEF PopRead, producer
  <2>8. CASE PopAdvance
    <3>1. /\ UNCHANGED <<events, pop_event, head, push_pc, push_event>>
          /\ tail' = Successor(tail) /\ pop_pc' = "idle"
          /\ tail # head /\ head \in Slots /\ tail \in Slots
      BY <2>8 DEF PopAdvance, producer
    \* tail moves off a slot other than head, so it cannot land behind head.
    <3>2. Successor(head) # Successor(tail)
      <4>1. head \in Nat /\ tail \in Nat /\ tail # head
        BY <3>1, CapacityAssumption DEF Slots
      <4>2. /\ Successor(head) = IF head = INPUT_QUEUE_CAPACITY - 1 THEN 0 ELSE head + 1
            /\ Successor(tail) = IF tail = INPUT_QUEUE_CAPACITY - 1 THEN 0 ELSE tail + 1
        BY <3>1, SuccessorIs
      <4> QED
        BY <4>1, <4>2
    <3>3. Successor(head)' = Successor(head)
      BY <3>1 DEF Successor
    <3> QED
      BY <3>1, <3>2, <3>3
  <2>9. CASE UNCHANGED vars
    BY <2>9 DEF vars
  <2> QED
    BY <2>1, <2>2, <2>3, <2>4, <2>5, <2>6, <2>7, <2>8, <2>9 DEF Next, Push, Pop
<1> QED
  BY <1>1, <1>2, TypeCorrect, PTL DEF Spec

\* The interrupt is never about to write the slot the main loop is about to
\* read: the accesses to the UnsafeCell are free of races.
THEOREM NoRace == Spec => []NoSlotRace
<1>1. RingInv => NoSlotRace
  BY DEF RingInv, NoSlotRace
<1> QED
  BY <1>1, SlotsStayApart, PTL
-----------------------------------------------------------------------------
(***************************************************************************)
(* The ring implements the bounded queue.                                  *)
(***************************************************************************)

\* The slot b places after slot a.
LEMMA SlotAfter ==
    ASSUME NEW a \in Slots, NEW b \in 0 .. INPUT_QUEUE_CAPACITY
    PROVE  (a + b) % INPUT_QUEUE_CAPACITY =
               IF a + b < INPUT_QUEUE_CAPACITY THEN a + b
               ELSE (a + b) - INPUT_QUEUE_CAPACITY
<1>1. a + b \in Nat /\ a + b < 2 * INPUT_QUEUE_CAPACITY
  BY CapacityAssumption DEF Slots
<1> HIDE DEF Slots
<1> QED
  BY <1>1, ModBelowTwice

\* How many slots lie between tail and head, for any two slots.
LEMMA Distance ==
    ASSUME NEW h \in Slots, NEW t \in Slots
    PROVE  (h + INPUT_QUEUE_CAPACITY - t) % INPUT_QUEUE_CAPACITY =
               IF h >= t THEN h - t ELSE (h + INPUT_QUEUE_CAPACITY) - t
<1> DEFINE b == INPUT_QUEUE_CAPACITY - t
<1>1. b \in 0 .. INPUT_QUEUE_CAPACITY
  BY CapacityAssumption DEF Slots
<1>2. (h + b) % INPUT_QUEUE_CAPACITY =
        IF h + b < INPUT_QUEUE_CAPACITY THEN h + b
        ELSE (h + b) - INPUT_QUEUE_CAPACITY
  <2> HIDE DEF b
  <2> QED
    BY <1>1, SlotAfter
<1>3. (IF h + b < INPUT_QUEUE_CAPACITY THEN h + b ELSE (h + b) - INPUT_QUEUE_CAPACITY)
        = IF h >= t THEN h - t ELSE (h + INPUT_QUEUE_CAPACITY) - t
  BY CapacityAssumption DEF Slots
<1> QED
  BY <1>2, <1>3

\* How many events the ring holds.
LEMMA CountIs ==
    ASSUME TypeOK
    PROVE  /\ Count = IF head >= tail THEN head - tail
                       ELSE (head + INPUT_QUEUE_CAPACITY) - tail
           /\ Count \in 0 .. INPUT_QUEUE_CAPACITY - 1
<1>1. Count = IF head >= tail THEN head - tail
              ELSE (head + INPUT_QUEUE_CAPACITY) - tail
  BY Distance DEF TypeOK, Count
<1> QED
  BY <1>1, CapacityAssumption DEF TypeOK, Slots

\* The slot of the i-th event from a slot on.
LEMMA IthSlot ==
    ASSUME NEW t \in Slots, NEW i \in 1 .. INPUT_QUEUE_CAPACITY
    PROVE  (t + i - 1) % INPUT_QUEUE_CAPACITY =
               IF (t + i) - 1 < INPUT_QUEUE_CAPACITY THEN (t + i) - 1
               ELSE ((t + i) - 1) - INPUT_QUEUE_CAPACITY
<1> DEFINE b == i - 1
<1>1. b \in 0 .. INPUT_QUEUE_CAPACITY
  BY CapacityAssumption
<1>2. (t + b) % INPUT_QUEUE_CAPACITY =
        IF t + b < INPUT_QUEUE_CAPACITY THEN t + b
        ELSE (t + b) - INPUT_QUEUE_CAPACITY
  <2> HIDE DEF b
  <2> QED
    BY <1>1, SlotAfter
<1>3. (IF t + b < INPUT_QUEUE_CAPACITY THEN t + b ELSE (t + b) - INPUT_QUEUE_CAPACITY)
        = IF (t + i) - 1 < INPUT_QUEUE_CAPACITY THEN (t + i) - 1
          ELSE ((t + i) - 1) - INPUT_QUEUE_CAPACITY
  BY CapacityAssumption DEF Slots
<1> QED
  BY <1>2, <1>3

\* An event in the queue is in a slot the producer does not own.
LEMMA SlotIs ==
    ASSUME TypeOK, NEW i \in 1 .. Count
    PROVE  (tail + i - 1) % INPUT_QUEUE_CAPACITY \in Slots \ {head}
<1>1. i \in 1 .. INPUT_QUEUE_CAPACITY
  BY CountIs, CapacityAssumption
<1>2. (tail + i - 1) % INPUT_QUEUE_CAPACITY =
          IF (tail + i) - 1 < INPUT_QUEUE_CAPACITY THEN (tail + i) - 1
          ELSE ((tail + i) - 1) - INPUT_QUEUE_CAPACITY
  BY <1>1, IthSlot DEF TypeOK
<1>3. (IF (tail + i) - 1 < INPUT_QUEUE_CAPACITY THEN (tail + i) - 1
       ELSE ((tail + i) - 1) - INPUT_QUEUE_CAPACITY) \in Slots \ {head}
  BY <1>1, CountIs, CapacityAssumption DEF TypeOK, Slots
<1> QED
  BY <1>2, <1>3

\* The queue the ring stands for is a sequence of events.
LEMMA ContentsIsSeq ==
    ASSUME TypeOK
    PROVE  /\ Contents \in Seq(KeyEvent)
           /\ Len(Contents) = Count
           /\ \A i \in 1 .. Count :
                 Contents[i] = events[(tail + i - 1) % INPUT_QUEUE_CAPACITY]
<1>1. \A i \in 1 .. Count :
        events[(tail + i - 1) % INPUT_QUEUE_CAPACITY] \in KeyEvent
  BY SlotIs DEF TypeOK
<1>2. Count \in Nat
  BY CountIs
<1> QED
  BY <1>1, <1>2 DEF Contents

\* Publishing head appends the written event.
LEMMA PublishAppends ==
    ASSUME TypeOK, TypeOK', RingInv, PushPublish
    PROVE  /\ Len(Contents) < INPUT_QUEUE_CAPACITY - 1
           /\ Contents' = Append(Contents, push_event)
<1>1. Count + 1 < INPUT_QUEUE_CAPACITY /\ Count' = Count + 1
  <2>1. /\ tail' = tail
        /\ head' = IF head = INPUT_QUEUE_CAPACITY - 1 THEN 0 ELSE head + 1
        /\ head' # tail
    BY SuccessorIs DEF PushPublish, consumer, RingInv, TypeOK
  <2>2. Count' = IF head' >= tail' THEN head' - tail'
                 ELSE (head' + INPUT_QUEUE_CAPACITY) - tail'
    BY Distance DEF TypeOK, Count
  <2> QED
    BY <2>1, <2>2, CountIs, CapacityAssumption DEF TypeOK, Slots
<1>2. events' = events /\ tail' = tail /\ events[head] = push_event
  BY DEF PushPublish, consumer, RingInv
<1>3. head = (tail + (Count + 1) - 1) % INPUT_QUEUE_CAPACITY
  <2> DEFINE n == Count + 1
  <2>1. n \in 1 .. INPUT_QUEUE_CAPACITY
    BY CountIs, CapacityAssumption
  <2>2. n = 1 + IF head >= tail THEN head - tail
                ELSE (head + INPUT_QUEUE_CAPACITY) - tail
    BY CountIs, CapacityAssumption DEF TypeOK, Slots
  <2> HIDE DEF n
  <2>a. head = IF (tail + n) - 1 < INPUT_QUEUE_CAPACITY THEN (tail + n) - 1
               ELSE ((tail + n) - 1) - INPUT_QUEUE_CAPACITY
    BY <2>1, <2>2, CapacityAssumption DEF TypeOK, Slots
  <2>3. head = (tail + n - 1) % INPUT_QUEUE_CAPACITY
    BY <2>1, <2>a, IthSlot DEF TypeOK
  <2> QED
    BY <2>3 DEF n
<1>4. Contents' = [i \in 1 .. Count + 1 |-> events[(tail + i - 1) % INPUT_QUEUE_CAPACITY]]
  BY <1>1, <1>2 DEF Contents
<1>5. /\ Append(Contents, push_event) \in Seq(KeyEvent)
      /\ Len(Append(Contents, push_event)) = Count + 1
      /\ \A i \in 1 .. Count : Append(Contents, push_event)[i] = Contents[i]
      /\ Append(Contents, push_event)[Count + 1] = push_event
  BY ContentsIsSeq, CountIs, AppendProperties DEF TypeOK
<1>6. \A i \in 1 .. Count + 1 :
        events[(tail + i - 1) % INPUT_QUEUE_CAPACITY] = Append(Contents, push_event)[i]
  <2> TAKE i \in 1 .. Count + 1
  <2>1. CASE i = Count + 1
    BY <2>1, <1>2, <1>3, <1>5
  <2>2. CASE i # Count + 1
    <3>1. i \in 1 .. Count
      BY <2>2, CountIs
    <3> QED
      BY <3>1, <1>5, ContentsIsSeq
  <2> QED
    BY <2>1, <2>2
<1>7. Contents' = [i \in 1 .. Count + 1 |-> Append(Contents, push_event)[i]]
  BY <1>4, <1>6
<1>8. Append(Contents, push_event) = [i \in 1 .. Count + 1 |-> Append(Contents, push_event)[i]]
  <2> DEFINE q == Append(Contents, push_event)
  <2> HIDE DEF q
  <2>1. q \in Seq(KeyEvent) /\ Len(q) = Count + 1
    BY <1>5 DEF q
  <2>2. q = [i \in 1 .. Count + 1 |-> q[i]]
    BY <2>1, LenProperties
  <2> QED
    BY <2>2 DEF q
<1>9. Len(Contents) < INPUT_QUEUE_CAPACITY - 1
  BY <1>1, ContentsIsSeq, CountIs, CapacityAssumption
<1> QED
  BY <1>7, <1>8, <1>9

\* Writing a slot that is not published leaves the queue alone.
LEMMA WriteKeepsContents ==
    ASSUME TypeOK, PushWrite
    PROVE  Contents' = Contents
<1>1. Count' = Count /\ tail' = tail
  BY DEF Count, PushWrite, consumer
<1>2. \A i \in 1 .. Count :
        events'[(tail + i - 1) % INPUT_QUEUE_CAPACITY]
          = events[(tail + i - 1) % INPUT_QUEUE_CAPACITY]
  BY SlotIs DEF PushWrite, TypeOK
<1> QED
  BY <1>1, <1>2 DEF Contents

\* Publishing tail removes the oldest event, the one pop returns.
LEMMA AdvanceTakesHead ==
    ASSUME TypeOK, TypeOK', RingInv, PopAdvance
    PROVE  /\ Contents # <<>>
           /\ pop_event = Head(Contents)
           /\ Contents' = Tail(Contents)
<1>1. Count > 0 /\ Count' = Count - 1
  <2>1. /\ head' = head
        /\ tail' = IF tail = INPUT_QUEUE_CAPACITY - 1 THEN 0 ELSE tail + 1
        /\ tail # head
    BY SuccessorIs DEF PopAdvance, producer, RingInv, TypeOK
  <2>2. Count' = IF head' >= tail' THEN head' - tail'
                 ELSE (head' + INPUT_QUEUE_CAPACITY) - tail'
    BY Distance DEF TypeOK, Count
  <2> QED
    BY <2>1, <2>2, CountIs, CapacityAssumption DEF TypeOK, Slots
<1>2. events' = events /\ tail' = Successor(tail) /\ pop_event = events[tail]
  BY DEF PopAdvance, producer, RingInv
<1>3. tail = (tail + 1 - 1) % INPUT_QUEUE_CAPACITY
  <2>1. 1 \in 1 .. INPUT_QUEUE_CAPACITY
    BY CapacityAssumption
  <2>2. tail = IF (tail + 1) - 1 < INPUT_QUEUE_CAPACITY THEN (tail + 1) - 1
               ELSE ((tail + 1) - 1) - INPUT_QUEUE_CAPACITY
    BY CapacityAssumption DEF TypeOK, Slots
  <2> QED
    BY <2>1, <2>2, IthSlot DEF TypeOK
<1>4. Contents # <<>> /\ Head(Contents) = events[tail]
  BY <1>1, <1>3, ContentsIsSeq, CountIs
<1>5. Contents' = [i \in 1 .. Count - 1 |-> events[(Successor(tail) + i - 1) % INPUT_QUEUE_CAPACITY]]
  BY <1>1, <1>2 DEF Contents
<1>6. Tail(Contents) = [i \in 1 .. Count - 1 |-> Contents[i + 1]]
  <2>1. /\ Tail(Contents) \in Seq(KeyEvent)
        /\ Len(Tail(Contents)) = Count - 1
        /\ \A i \in 1 .. Count - 1 : Tail(Contents)[i] = Contents[i + 1]
    BY <1>4, ContentsIsSeq, HeadTailProperties
  <2> DEFINE q == Tail(Contents)
  <2>2. q = [i \in 1 .. Count - 1 |-> q[i]]
    <3> HIDE DEF q
    <3>1. q \in Seq(KeyEvent) /\ Len(q) = Count - 1
      BY <2>1 DEF q
    <3> QED
      BY <3>1, LenProperties
  <2> QED
    BY <2>1, <2>2
<1>7. \A i \in 1 .. Count - 1 :
        events[(Successor(tail) + i - 1) % INPUT_QUEUE_CAPACITY] = Contents[i + 1]
  <2> TAKE i \in 1 .. Count - 1
  <2>1. i + 1 \in 1 .. Count
    BY CountIs
  <2>2. Contents[i + 1] = events[(tail + (i + 1) - 1) % INPUT_QUEUE_CAPACITY]
    BY <2>1, ContentsIsSeq
  <2>3. (Successor(tail) + i - 1) % INPUT_QUEUE_CAPACITY
          = (tail + (i + 1) - 1) % INPUT_QUEUE_CAPACITY
    <3>1. i \in 1 .. INPUT_QUEUE_CAPACITY /\ i + 1 \in 1 .. INPUT_QUEUE_CAPACITY
      BY CountIs, CapacityAssumption
    <3> DEFINE s == Successor(tail)
               n == i + 1
    <3>2. s \in Slots /\ s = IF tail = INPUT_QUEUE_CAPACITY - 1 THEN 0 ELSE tail + 1
      BY SuccessorIs DEF TypeOK
    <3>3. (IF (s + i) - 1 < INPUT_QUEUE_CAPACITY THEN (s + i) - 1
           ELSE ((s + i) - 1) - INPUT_QUEUE_CAPACITY)
        = IF (tail + n) - 1 < INPUT_QUEUE_CAPACITY THEN (tail + n) - 1
          ELSE ((tail + n) - 1) - INPUT_QUEUE_CAPACITY
      <4> HIDE DEF s
      <4> QED
        BY <3>1, <3>2, CapacityAssumption DEF TypeOK, Slots
    <3> HIDE DEF s, n
    <3>4. n \in 1 .. INPUT_QUEUE_CAPACITY
      BY <3>1 DEF n
    <3>5. (s + i - 1) % INPUT_QUEUE_CAPACITY = (tail + n - 1) % INPUT_QUEUE_CAPACITY
      BY <3>1, <3>2, <3>3, <3>4, IthSlot DEF TypeOK
    <3> QED
      BY <3>5 DEF s, n
  <2> QED
    BY <2>2, <2>3
<1> QED
  BY <1>2, <1>4, <1>5, <1>6, <1>7

\* push and pop implement the first-in first-out queue of CAPACITY - 1
\* events: every step of theirs is one step of that queue or invisible to it.
THEOREM RingIsFifo == Spec => ImplementsFifo
<1>1. Init => Fifo!Init
  <2> SUFFICES ASSUME Init PROVE Fifo!Init
    OBVIOUS
  <2>1. TypeOK
    BY CapacityAssumption, EventAssumption, ModulusAssumption DEF Init, TypeOK, Slots
  <2>2. Count = 0
    BY <2>1, CountIs DEF Init
  <2>3. Contents = <<>>
    BY <2>1, <2>2, ContentsIsSeq, EmptySeq
  <2> QED
    BY <2>3 DEF Init, Fifo!Init
<1>2. TypeOK /\ TypeOK' /\ RingInv /\ [Next]_vars => [Fifo!Next]_(Fifo!vars)
  <2> SUFFICES ASSUME TypeOK, TypeOK', RingInv, [Next]_vars
               PROVE  [Fifo!Next]_(Fifo!vars)
    OBVIOUS
  <2>a. ASSUME events' = events, head' = head, tail' = tail PROVE Contents' = Contents
    BY <2>a DEF Contents, Count
  <2>1. ASSUME NEW e \in KeyEvent, PushBegin(e) PROVE Fifo!Next
    <3>1. Contents' = Contents
      BY <2>1, <2>a DEF PushBegin, consumer
    <3> QED
      BY <2>1, <3>1 DEF PushBegin, consumer, Fifo!Next, Fifo!Offer
  <2>2. CASE PushCheck
    <3>1. Contents' = Contents
      BY <2>2, <2>a DEF PushCheck, consumer
    <3>2. CASE Successor(head) = tail
      <4>1. Len(Contents) = INPUT_QUEUE_CAPACITY - 1
        <5>1. tail = IF head = INPUT_QUEUE_CAPACITY - 1 THEN 0 ELSE head + 1
          BY <3>2, SuccessorIs DEF TypeOK
        <5>2. Count = INPUT_QUEUE_CAPACITY - 1
          BY <5>1, CountIs, CapacityAssumption DEF TypeOK, Slots
        <5> QED
          BY <5>2, ContentsIsSeq
      <4>2. push_event # None
        BY EventAssumption DEF TypeOK
      <4>3. Fifo!Drop
        BY <2>2, <3>1, <3>2, <4>1, <4>2 DEF PushCheck, consumer, Fifo!Drop
      <4> QED
        BY <4>3 DEF Fifo!Next
    <3>3. CASE Successor(head) # tail
      BY <2>2, <3>1, <3>3 DEF PushCheck, consumer, Fifo!vars
    <3> QED
      BY <3>2, <3>3
  <2>3. CASE PushDrop
    <3>1. Contents' = Contents
      BY <2>3, <2>a DEF PushDrop, consumer
    <3> QED
      BY <2>3, <3>1 DEF PushDrop, consumer, Fifo!vars
  <2>4. CASE PushWrite
    BY <2>4, WriteKeepsContents DEF PushWrite, consumer, Fifo!vars
  <2>5. CASE PushPublish
    <3>1. push_event # None
      BY EventAssumption DEF TypeOK
    <3>2. Fifo!Accept
      BY <2>5, <3>1, PublishAppends DEF PushPublish, consumer, Fifo!Accept
    <3> QED
      BY <3>2 DEF Fifo!Next
  <2>6. CASE PopCheck
    <3>1. Contents' = Contents
      BY <2>6, <2>a DEF PopCheck, producer
    <3>2. CASE tail = head
      <4>1. Contents = <<>>
        BY <3>2, CountIs, ContentsIsSeq, EmptySeq DEF TypeOK, Slots
      <4>2. Fifo!FindEmpty
        BY <2>6, <3>1, <3>2, <4>1 DEF PopCheck, producer, Fifo!FindEmpty
      <4> QED
        BY <4>2 DEF Fifo!Next
    <3>3. CASE tail # head
      BY <2>6, <3>1, <3>3 DEF PopCheck, producer, Fifo!vars
    <3> QED
      BY <3>2, <3>3
  <2>7. CASE PopRead
    <3>1. Contents' = Contents
      BY <2>7, <2>a DEF PopRead, producer
    <3> QED
      BY <2>7, <3>1 DEF PopRead, producer, Fifo!vars
  <2>8. CASE PopAdvance
    <3>1. Fifo!Take
      BY <2>8, AdvanceTakesHead DEF PopAdvance, producer, Fifo!Take
    <3> QED
      BY <3>1 DEF Fifo!Next
  <2>9. CASE UNCHANGED vars
    <3>1. Contents' = Contents
      BY <2>9, <2>a DEF vars
    <3> QED
      BY <2>9, <3>1 DEF vars, Fifo!vars
  <2> QED
    BY <2>1, <2>2, <2>3, <2>4, <2>5, <2>6, <2>7, <2>8, <2>9 DEF Next, Push, Pop
<1> QED
  BY <1>1, <1>2, TypeCorrect, SlotsStayApart, PTL DEF Spec, ImplementsFifo, Fifo!Spec

-----------------------------------------------------------------------------
(***************************************************************************)
(* The decoder as a function of its three bits and a byte.                 *)
(***************************************************************************)
Decoders == [s : BOOLEAN, c : BOOLEAN, e : BOOLEAN]

Event(d, byte) ==
    IF byte = PREFIX THEN NoEvent
    ELSE IF d.e THEN IF byte < Break THEN extended_event_for_set_1(byte) ELSE NoEvent
    ELSE IF byte \in Shifts \cup {CapsLock} \/ byte >= Break THEN NoEvent
    ELSE ascii_for_set_1(byte, d.s, d.c)

Decoded(d, byte) ==
    [s |-> IF byte = PREFIX \/ d.e THEN d.s
           ELSE IF byte \in Shifts THEN TRUE
           ELSE IF byte \in {LeftShift + Break, RightShift + Break} THEN FALSE ELSE d.s,
     c |-> IF byte = PREFIX \/ d.e THEN d.c ELSE IF byte = CapsLock THEN ~ d.c ELSE d.c,
     e |-> byte = PREFIX]

Events == {Event(d, byte) : d \in Decoders, byte \in Nat}

\* What a byte pushes, as a sequence of at most one event.
Out(d, byte) == IF Event(d, byte) = NoEvent THEN <<>> ELSE <<Event(d, byte)>>

\* Decoding a byte gives a decoder and an event.
LEMMA DecodedIs ==
    ASSUME NEW d \in Decoders, NEW byte \in Nat
    PROVE  Decoded(d, byte) \in Decoders /\ Out(d, byte) \in Seq(Events) /\ Event(d, byte) \in Events
<1>1. Event(d, byte) \in Events
  BY DEF Events
<1>2. Out(d, byte) \in Seq(Events)
  BY <1>1 DEF Out
<1>3. Decoded(d, byte) \in Decoders
  BY Zenon DEF Decoded, Decoders
<1> QED
  BY <1>1, <1>2, <1>3

(***************************************************************************)
(* The decoder's course over the bytes w: t are its states and u what it   *)
(* has yet to push at each.  From d it pushes o and ends in z.             *)
(***************************************************************************)
Course(w, d, o, z, t, u) ==
    /\ t \in [1 .. Len(w) + 1 -> Decoders] /\ u \in [1 .. Len(w) + 1 -> Seq(Events)]
    /\ t[1] = d /\ u[1] = o /\ t[Len(w) + 1] = z /\ u[Len(w) + 1] = <<>>
    /\ \A i \in 1 .. Len(w) : t[i + 1] = Decoded(t[i], w[i]) /\ u[i] = Out(t[i], w[i]) \o u[i + 1]

Reaches(w, d, o, z) == \E t, u : Course(w, d, o, z, t, u)

\* Events made one after the other are made in that order.
LEMMA EventsInARow ==
    ASSUME NEW a \in Seq(Events), NEW b \in Seq(Events), NEW c \in Seq(Events)
    PROVE  (a \o b) \o c = a \o (b \o c)
  BY ConcatAssociative

\* No bytes change nothing.
LEMMA NothingSent ==
    ASSUME NEW d \in Decoders
    PROVE  Reaches(<<>>, d, <<>>, d)
<1> DEFINE t == [i \in 1 .. 1 |-> d]
           u == [i \in 1 .. 1 |-> <<>>]
<1>1. Len(<<>>) = 0 /\ <<>> \in Seq(Events)
  OBVIOUS
<1>2. Course(<<>>, d, <<>>, d, t, u)
  BY <1>1 DEF Course
<1> QED
  BY <1>2 DEF Reaches

\* And a course of no bytes has changed nothing.
LEMMA NothingLeft ==
    ASSUME NEW d, NEW o, NEW z, Reaches(<<>>, d, o, z)
    PROVE  d = z /\ o = <<>>
  BY DEF Reaches, Course

\* One more byte on the wire.
LEMMA ByteSent ==
    ASSUME NEW w \in Seq(Nat), NEW d \in Decoders, NEW o \in Seq(Events), NEW z \in Decoders,
           NEW byte \in Nat, Reaches(w, d, o, z)
    PROVE  Reaches(Append(w, byte), d, o \o Out(z, byte), Decoded(z, byte))
<1>1. PICK t, u : Course(w, d, o, z, t, u)
  BY DEF Reaches
<1> DEFINE n == Len(w)
           x == Out(z, byte)
           y == Decoded(z, byte)
           v == Append(w, byte)
           tt == [i \in 1 .. n + 2 |-> IF i = n + 2 THEN y ELSE t[i]]
           uu == [i \in 1 .. n + 2 |-> IF i = n + 2 THEN <<>> ELSE u[i] \o x]
<1>2. x \in Seq(Events) /\ y \in Decoders
  BY DecodedIs
<1>3. n \in Nat /\ Len(v) = n + 1 /\ v[n + 1] = byte /\ \A i \in 1 .. n : v[i] = w[i]
  OBVIOUS
<1>4. /\ t \in [1 .. n + 1 -> Decoders] /\ u \in [1 .. n + 1 -> Seq(Events)]
      /\ t[1] = d /\ u[1] = o /\ t[n + 1] = z /\ u[n + 1] = <<>>
      /\ \A i \in 1 .. n : t[i + 1] = Decoded(t[i], w[i]) /\ u[i] = Out(t[i], w[i]) \o u[i + 1]
  BY <1>1 DEF Course
<1> HIDE DEF n, v, x, y
<1>5. tt \in [1 .. n + 2 -> Decoders] /\ uu \in [1 .. n + 2 -> Seq(Events)]
  <2>1. ASSUME NEW i \in 1 .. n + 2 PROVE tt[i] \in Decoders /\ uu[i] \in Seq(Events)
    <3>1. CASE i = n + 2
      BY <1>2, <1>3, <3>1
    <3>2. CASE i # n + 2
      <4>1. i \in 1 .. n + 1 /\ t[i] \in Decoders /\ u[i] \in Seq(Events)
        BY <1>3, <1>4, <3>2
      <4>2. u[i] \o x \in Seq(Events)
        BY <1>2, <4>1
      <4> QED
        BY <3>2, <4>1, <4>2
    <3> QED
      BY <3>1, <3>2
  <2> QED
    BY <2>1
<1>6. /\ \A i \in 1 .. n + 1 : tt[i] = t[i] /\ uu[i] = u[i] \o x
      /\ tt[n + 2] = y /\ uu[n + 2] = <<>>
  BY <1>3
<1> HIDE DEF tt, uu
<1>7. tt[1] = d /\ uu[1] = o \o x
  <2>1. 1 \in 1 .. n + 1
    BY <1>3
  <2> QED
    BY <1>4, <1>6, <2>1
<1>8. ASSUME NEW i \in 1 .. n + 1
      PROVE  tt[i + 1] = Decoded(tt[i], v[i]) /\ uu[i] = Out(tt[i], v[i]) \o uu[i + 1]
  <2>1. CASE i = n + 1
    <3>1. i + 1 = n + 2 /\ tt[i] = z /\ v[i] = byte /\ uu[i] = <<>> \o x
      <4>1. n + 1 \in 1 .. n + 1 /\ i + 1 = n + 2 /\ v[i] = byte
        BY <1>3, <2>1
      <4>2. tt[n + 1] = t[n + 1] /\ uu[n + 1] = u[n + 1] \o x
        BY <1>6, <4>1
      <4> QED
        BY <1>4, <2>1, <4>1, <4>2
    <3>2. <<>> \o x = x \o <<>>
      BY <1>2
    <3> QED
      BY <1>6, <3>1, <3>2 DEF x, y
  <2>2. CASE i # n + 1
    <3>1. i \in 1 .. n /\ i \in 1 .. n + 1 /\ i + 1 \in 1 .. n + 1
      BY <1>3, <2>2
    <3>2. /\ tt[i] = t[i] /\ v[i] = w[i] /\ tt[i + 1] = t[i + 1]
          /\ uu[i] = u[i] \o x /\ uu[i + 1] = u[i + 1] \o x
      BY <1>3, <1>6, <3>1
    <3>3. w[i] \in Nat /\ t[i] \in Decoders /\ u[i + 1] \in Seq(Events)
      <4>1. w[i] \in Nat
        BY <3>1 DEF n
      <4> QED
        BY <1>4, <3>1, <4>1
    <3>4. Out(t[i], w[i]) \in Seq(Events)
      BY <3>3, DecodedIs
    <3>5. (Out(t[i], w[i]) \o u[i + 1]) \o x = Out(t[i], w[i]) \o (u[i + 1] \o x)
      <4> DEFINE g == Out(t[i], w[i])
                 h == u[i + 1]
      <4>1. g \in Seq(Events) /\ h \in Seq(Events) /\ x \in Seq(Events)
        BY <1>2, <3>3, <3>4
      <4> HIDE DEF g, h, x
      <4>2. (g \o h) \o x = g \o (h \o x)
        BY <4>1, EventsInARow
      <4> QED
        BY <4>2 DEF g, h
    <3> QED
      BY <1>4, <3>1, <3>2, <3>5
  <2> QED
    BY <2>1, <2>2
<1>9. Course(v, d, o \o x, y, tt, uu)
  <2>1. Len(v) = n + 1 /\ Len(v) + 1 = n + 2
    BY <1>3
  <2> QED
    BY <1>5, <1>6, <1>7, <1>8, <2>1, Zenon DEF Course
<1> QED
  BY <1>9 DEF Reaches, v, x, y

\* The oldest byte is decoded.
LEMMA ByteHandled ==
    ASSUME NEW w \in Seq(Nat), w # <<>>, NEW d, NEW o, NEW z, Reaches(w, d, o, z)
    PROVE  \E r \in Seq(Events) :
               o = Out(d, Head(w)) \o r /\ Reaches(Tail(w), Decoded(d, Head(w)), r, z)
<1>1. PICK t, u : Course(w, d, o, z, t, u)
  BY DEF Reaches
<1> DEFINE n == Len(w)
           v == Tail(w)
           tt == [i \in 1 .. n |-> t[i + 1]]
           uu == [i \in 1 .. n |-> u[i + 1]]
<1>2. /\ n \in Nat /\ n > 0 /\ Len(v) = n - 1 /\ Head(w) = w[1]
      /\ \A i \in 1 .. n - 1 : v[i] = w[i + 1]
  OBVIOUS
<1>3. /\ t \in [1 .. n + 1 -> Decoders] /\ u \in [1 .. n + 1 -> Seq(Events)]
      /\ t[1] = d /\ u[1] = o /\ t[n + 1] = z /\ u[n + 1] = <<>>
      /\ \A i \in 1 .. n : t[i + 1] = Decoded(t[i], w[i]) /\ u[i] = Out(t[i], w[i]) \o u[i + 1]
  BY <1>1 DEF Course
<1> HIDE DEF n, v
<1>4. Len(v) + 1 = n /\ 1 \in 1 .. n /\ n \in 1 .. n /\ 2 \in 1 .. n + 1
  BY <1>2
<1>5. tt \in [1 .. n -> Decoders] /\ uu \in [1 .. n -> Seq(Events)]
  <2>1. t \in [1 .. n + 1 -> Decoders] /\ u \in [1 .. n + 1 -> Seq(Events)]
    BY <1>3, Zenon
  <2>2. \A i \in 1 .. n : i + 1 \in 1 .. n + 1
    BY <1>2
  <2>3. \A i \in 1 .. n : t[i + 1] \in Decoders /\ u[i + 1] \in Seq(Events)
    BY <2>1, <2>2, Zenon
  <2> QED
    BY <2>3, Zenon
<1>6. tt[1] = Decoded(d, Head(w)) /\ o = Out(d, Head(w)) \o uu[1] /\ tt[n] = z /\ uu[n] = <<>>
  <2>1. tt[1] = t[2] /\ uu[1] = u[2] /\ tt[n] = t[n + 1] /\ uu[n] = u[n + 1]
    BY <1>4
  <2>2. t[1 + 1] = Decoded(t[1], w[1]) /\ u[1] = Out(t[1], w[1]) \o u[1 + 1]
    BY <1>3, <1>4, Zenon
  <2>3. t[2] = Decoded(t[1], w[1]) /\ u[1] = Out(t[1], w[1]) \o u[2]
    BY <2>2
  <2>4. Head(w) = w[1] /\ t[1] = d /\ u[1] = o /\ t[n + 1] = z /\ u[n + 1] = <<>>
    BY <1>2, <1>3, Zenon
  <2> QED
    BY <2>1, <2>3, <2>4, Zenon
<1>7. ASSUME NEW i \in 1 .. n - 1
      PROVE  tt[i + 1] = Decoded(tt[i], v[i]) /\ uu[i] = Out(tt[i], v[i]) \o uu[i + 1]
  <2>1. i + 1 \in 1 .. n /\ i \in 1 .. n /\ v[i] = w[i + 1]
    BY <1>2
  <2> QED
    BY <1>3, <2>1
<1>8. uu[1] \in Seq(Events)
  BY <1>4, <1>5
<1> HIDE DEF tt, uu
<1>9. Course(v, Decoded(d, Head(w)), uu[1], z, tt, uu)
  BY <1>2, <1>4, <1>5, <1>6, <1>7 DEF Course
<1> QED
  BY <1>6, <1>8, <1>9 DEF Reaches, v
(***************************************************************************)
(* What the keyboard sends for a key, and what the decoder makes of it     *)
(* when no prefix is waiting.                                              *)
(***************************************************************************)
LEMMA Codes ==
    /\ LeftShift = 42 /\ RightShift = 54 /\ CapsLock = 58 /\ PREFIX = 224 /\ Break = 128
    /\ MoveCodes = {71, 72, 75, 77, 79, 80, 83} /\ Shifts = {42, 54}
  BY DEF LeftShift, RightShift, CapsLock, PREFIX, Break, MoveCodes, Shifts

\* The event of a code behind a prefix, as a sequence.
Moved(byte) == IF byte < Break /\ byte \in MoveCodes THEN <<extended_event_for_set_1(byte)>> ELSE <<>>

\* A byte behind a prefix leaves the modifiers alone.
LEMMA PrefixedIs ==
    ASSUME NEW z \in Decoders, ~ z.e, NEW byte \in Nat, byte # PREFIX
    PROVE  /\ Decoded(Decoded(z, PREFIX), byte) = z
           /\ Out(z, PREFIX) = <<>>
           /\ Out(Decoded(z, PREFIX), byte) = Moved(byte)
<1> DEFINE y == Decoded(z, PREFIX)
<1>1. y = [s |-> z.s, c |-> z.c, e |-> TRUE]
  BY DEF Decoded
<1>2. Event(z, PREFIX) = NoEvent
  BY DEF Event
<1>3. y.s = z.s /\ y.c = z.c /\ y.e = TRUE
  BY <1>1
<1> HIDE DEF y
<1>4. Event(y, byte) = IF byte < Break THEN extended_event_for_set_1(byte) ELSE NoEvent
  BY <1>3 DEF Event
<1>5. Out(y, byte) = Moved(byte)
  <2>1. extended_event_for_set_1(byte) = NoEvent <=> byte \notin MoveCodes
    BY DEF extended_event_for_set_1, NoEvent
  <2> QED
    BY <1>4, <2>1 DEF Out, Moved
<1>6. Decoded(y, byte) = z
  <2>1. Decoded(y, byte) = [s |-> z.s, c |-> z.c, e |-> FALSE]
    BY <1>3 DEF Decoded
  <2>2. z = [s |-> z.s, c |-> z.c, e |-> z.e] /\ z.e = FALSE
    BY DEF Decoders
  <2> QED
    BY <2>1, <2>2, Zenon
<1> QED
  BY <1>2, <1>5, <1>6 DEF y, Out

\* A prefixed byte sent after w takes the decoder on by both its bytes.
LEMMA PairSent ==
    ASSUME NEW w \in Seq(Nat), NEW d \in Decoders, NEW o \in Seq(Events), NEW z \in Decoders,
           ~ z.e, NEW byte \in Nat, byte # PREFIX, Reaches(w, d, o, z)
    PROVE  /\ w \o <<PREFIX, byte>> \in Seq(Nat)
           /\ Moved(byte) \in Seq(Events) /\ o \o Moved(byte) \in Seq(Events)
           /\ Reaches(w \o <<PREFIX, byte>>, d, o \o Moved(byte), z)
<1>1. PREFIX \in Nat
  BY Codes
<1> DEFINE y == Decoded(z, PREFIX)
           v == Append(w, PREFIX)
<1>2. y \in Decoders /\ v \in Seq(Nat)
  BY <1>1, DecodedIs
<1>3. Reaches(v, d, o \o <<>>, y) /\ o \o <<>> = o
  <2>1. Reaches(v, d, o \o Out(z, PREFIX), y)
    BY <1>1, ByteSent
  <2> QED
    <3>1. Out(z, PREFIX) = <<>>
      BY PrefixedIs
    <3> QED
      BY <2>1, <3>1
<1>4. Decoded(y, byte) = z /\ Out(y, byte) = Moved(byte) /\ Out(y, byte) \in Seq(Events)
  BY <1>2, PrefixedIs, DecodedIs
<1>5. Append(v, byte) = w \o <<PREFIX, byte>>
  BY <1>1
<1> HIDE DEF y, v
<1>6. Reaches(Append(v, byte), d, o \o Out(y, byte), Decoded(y, byte))
  BY <1>2, <1>3, ByteSent
<1> QED
  BY <1>1, <1>4, <1>5, <1>6

\* Bytes sent one after the other are sent in that order.
LEMMA BytesInARow ==
    ASSUME NEW a \in Seq(Nat), NEW b \in Seq(Nat), NEW c \in Seq(Nat)
    PROVE  (a \o b) \o c = a \o (b \o c)
  BY ConcatAssociative

\* The bytes that hide a Shift, or show it again, make no event.
LEMMA HiddenSent ==
    ASSUME NEW w \in Seq(Nat), NEW d \in Decoders, NEW o \in Seq(Events), NEW z \in Decoders,
           ~ z.e, Reaches(w, d, o, z), NEW left \in {42, 170}, NEW right \in {54, 182}
    PROVE  /\ w \o ForHeldShifts(left, right) \in Seq(Nat)
           /\ Reaches(w \o ForHeldShifts(left, right), d, o, z)
<1> DEFINE l == IF LeftShift \in held THEN <<PREFIX, left>> ELSE <<>>
           r == IF RightShift \in held THEN <<PREFIX, right>> ELSE <<>>
<1>1. PREFIX \in Nat /\ left \in Nat /\ right \in Nat /\ left # PREFIX /\ right # PREFIX
  BY Codes
<1>2. Moved(left) = <<>> /\ Moved(right) = <<>> /\ o \o <<>> = o
  BY Codes DEF Moved
<1>3. l \in Seq(Nat) /\ r \in Seq(Nat)
  BY <1>1
<1>4. w \o l \in Seq(Nat) /\ Reaches(w \o l, d, o, z)
  <2>1. CASE LeftShift \in held
    <3>1. w \o <<PREFIX, left>> \in Seq(Nat) /\ Reaches(w \o <<PREFIX, left>>, d, o \o Moved(left), z)
      BY <1>1, PairSent
    <3> QED
      BY <1>2, <2>1, <3>1
  <2>2. CASE LeftShift \notin held
    BY <2>2
  <2> QED
    BY <2>1, <2>2
<1> HIDE DEF l
<1>5. (w \o l) \o r \in Seq(Nat) /\ Reaches((w \o l) \o r, d, o, z)
  <2> DEFINE v == w \o l
  <2>1. v \in Seq(Nat) /\ Reaches(v, d, o, z)
    BY <1>4
  <2> HIDE DEF v
  <2>2. CASE RightShift \in held
    <3>1. r = <<PREFIX, right>>
      BY <2>2
    <3> QED
      <4>1. v \o <<PREFIX, right>> \in Seq(Nat) /\ Reaches(v \o <<PREFIX, right>>, d, o \o Moved(right), z)
        BY <1>1, <2>1, PairSent
      <4> QED
        BY <1>2, <3>1, <4>1 DEF v
  <2>3. CASE RightShift \notin held
    <3>1. v \o r = v
      BY <2>1, <2>3
    <3> QED
      BY <2>1, <3>1 DEF v
  <2> QED
    BY <2>2, <2>3
<1> HIDE DEF r
<1>6. (w \o l) \o r = w \o (l \o r)
  BY <1>3, BytesInARow
<1> QED
  BY <1>5, <1>6 DEF ForHeldShifts, l, r

\* A plain byte: a Shift's, Caps Lock's, a release or a character's.
LEMMA PlainSent ==
    ASSUME NEW w \in Seq(Nat), NEW d \in Decoders, NEW o \in Seq(Events), NEW z \in Decoders,
           NEW byte \in Nat, Reaches(w, d, o, z)
    PROVE  /\ w \o <<byte>> \in Seq(Nat) /\ o \o Out(z, byte) \in Seq(Events)
           /\ Decoded(z, byte) \in Decoders
           /\ Reaches(w \o <<byte>>, d, o \o Out(z, byte), Decoded(z, byte))
<1>1. Append(w, byte) = w \o <<byte>> /\ w \o <<byte>> \in Seq(Nat)
  OBVIOUS
<1>2. Reaches(Append(w, byte), d, o \o Out(z, byte), Decoded(z, byte))
  BY ByteSent
<1>3. Out(z, byte) \in Seq(Events) /\ Decoded(z, byte) \in Decoders
  BY DecodedIs
<1> QED
  BY <1>1, <1>2, <1>3

Taken(z, byte, y) ==
    /\ ~ y.e
    /\ byte \in Shifts => y.s = TRUE /\ y.c = z.c /\ Out(z, byte) = <<>>
    /\ byte = CapsLock => y.s = z.s /\ y.c = ~ z.c /\ Out(z, byte) = <<>>
    /\ byte - Break \in Shifts => y.s = FALSE /\ y.c = z.c /\ Out(z, byte) = <<>>
    /\ byte >= Break /\ byte - Break \notin Shifts => y.s = z.s /\ y.c = z.c /\ Out(z, byte) = <<>>
    /\ byte < Break /\ byte \notin Shifts \cup {CapsLock} =>
          /\ y.s = z.s /\ y.c = z.c
          /\ Event(z, byte) = ascii_for_set_1(byte, z.s, z.c)

\* What a byte without a prefix does to a decoder.
LEMMA PlainIs ==
    ASSUME NEW z \in Decoders, ~ z.e, NEW byte \in 1 .. 216, byte # PREFIX
    PROVE  Taken(z, byte, Decoded(z, byte))
<1>1. byte \in {LeftShift + Break, RightShift + Break} <=> byte - Break \in Shifts
  BY Codes
<1>2. byte \in Shifts => byte # CapsLock /\ byte - Break \notin Shifts /\ byte < Break
  BY Codes
<1>3. byte = CapsLock => byte \notin Shifts /\ byte - Break \notin Shifts /\ byte < Break
  BY Codes
<1>4. byte >= Break => byte \notin Shifts /\ byte # CapsLock
  BY Codes
<1>5. byte - Break \in Shifts => byte >= Break
  BY Codes
<1>6. byte < Break <=> ~ (byte >= Break)
  BY Codes
<1> DEFINE y == Decoded(z, byte)
<1>7. /\ y.s = IF byte \in Shifts THEN TRUE ELSE IF byte - Break \in Shifts THEN FALSE ELSE z.s
      /\ y.c = IF byte = CapsLock THEN ~ z.c ELSE z.c
      /\ y.e = FALSE
  BY <1>1, Zenon DEF Decoded
<1>8. Event(z, byte) = IF byte \in Shifts \cup {CapsLock} \/ byte >= Break THEN NoEvent
                       ELSE ascii_for_set_1(byte, z.s, z.c)
  BY Zenon DEF Event
<1>9. byte \in Shifts \cup {CapsLock} \/ byte >= Break => Out(z, byte) = <<>>
  BY <1>8 DEF Out
<1> HIDE DEF y
<1> QED
  BY <1>2, <1>3, <1>4, <1>5, <1>6, <1>7, <1>8, <1>9, Zenon DEF y, Taken
(***************************************************************************)
(* The invariant of decoder, wire and keyboard: decoding what is on the    *)
(* wire makes the events that are owed and ends in the state the keys are  *)
(* in.                                                                     *)
(***************************************************************************)
Bits == [s |-> SHIFT, c |-> CAPS_LOCK, e |-> EXTENDED_PREFIX]

KeysOK ==
    /\ SHIFT \in BOOLEAN /\ CAPS_LOCK \in BOOLEAN /\ EXTENDED_PREFIX \in BOOLEAN
    /\ held \subseteq Key /\ lit \in BOOLEAN /\ repeats \in held \cup {NoKey}
    /\ wire \in Seq(Nat) /\ ambiguous \in BOOLEAN
    /\ ~ ambiguous => ~ (Shifts \subseteq held)

\* The state the keys are in, as the decoder should know it.
Settled(z) ==
    /\ ~ z.e
    /\ held \cap Shifts = {} => ~ z.s
    /\ ~ ambiguous => z.s = (held \cap Shifts # {}) /\ z.c = lit

Due(o, z) == Reaches(wire, Bits, o, z) /\ Settled(z) /\ (~ ambiguous => o = owed)

KInv == KeysOK /\ \E o \in Seq(Events), z \in Decoders : Due(o, z)

\* Where the codes of the keys are; no extended key is a shift or a lock.
LEMMA KeyIs ==
    ASSUME NEW key \in Key
    PROVE  /\ key \in Plain => key \in 1 .. 88
           /\ key \notin Plain => Code(key) \in 1 .. 88 /\ Code(key) \in Nat /\ key \notin Shifts \cup {CapsLock}
           /\ key # NoKey
<1>1. CASE key \in Plain
  BY <1>1, KeysAssumption DEF NoKey
<1>2. CASE key \notin Plain
  <2>1. PICK code \in Extended : key = code + 256
    BY <1>2 DEF Key, ExtendedKey
  <2>2. code \in 1 .. 88
    BY KeysAssumption
  <2> QED
    BY <1>2, <2>1, <2>2, Codes DEF Code, NoKey
<1> QED
  BY <1>1, <1>2

\* The three atomics of keyboard.rs are a decoder.
LEMMA BitsAre ==
    ASSUME KeysOK
    PROVE  Bits \in Decoders /\ Bits.s = SHIFT /\ Bits.c = CAPS_LOCK /\ Bits.e = EXTENDED_PREFIX
  BY DEF KeysOK, Bits, Decoders

\* handle_scancode is Decoded and Event.
LEMMA HandleIs ==
    ASSUME KeysOK, NEW byte \in Nat, handle_scancode(byte)
    PROVE  Bits' = Decoded(Bits, byte) /\ pushed' = Event(Bits, byte)
           /\ SHIFT' \in BOOLEAN /\ CAPS_LOCK' \in BOOLEAN /\ EXTENDED_PREFIX' \in BOOLEAN
<1>1. Bits' = [s |-> SHIFT', c |-> CAPS_LOCK', e |-> EXTENDED_PREFIX']
  BY DEF Bits
<1>2. /\ Bits.s = SHIFT /\ Bits.c = CAPS_LOCK /\ Bits.e = EXTENDED_PREFIX
      /\ SHIFT \in BOOLEAN /\ CAPS_LOCK \in BOOLEAN /\ EXTENDED_PREFIX \in BOOLEAN
  BY BitsAre DEF KeysOK
<1>3. CASE byte = PREFIX
  <2>1. /\ EXTENDED_PREFIX' = TRUE /\ pushed' = NoEvent /\ SHIFT' = SHIFT /\ CAPS_LOCK' = CAPS_LOCK
    BY <1>3 DEF handle_scancode
  <2>2. Decoded(Bits, byte) = [s |-> SHIFT, c |-> CAPS_LOCK, e |-> TRUE]
    BY <1>2, <1>3 DEF Decoded
  <2>3. Event(Bits, byte) = NoEvent
    BY <1>3 DEF Event
  <2> QED
    BY <1>1, <1>2, <2>1, <2>2, <2>3
<1>4. CASE byte # PREFIX /\ EXTENDED_PREFIX
  <2>1. /\ EXTENDED_PREFIX' = FALSE /\ SHIFT' = SHIFT /\ CAPS_LOCK' = CAPS_LOCK
        /\ pushed' = IF byte < Break THEN extended_event_for_set_1(byte) ELSE NoEvent
    BY <1>4 DEF handle_scancode
  <2>2. Decoded(Bits, byte) = [s |-> SHIFT, c |-> CAPS_LOCK, e |-> FALSE]
    BY <1>2, <1>4 DEF Decoded
  <2>3. Event(Bits, byte) = IF byte < Break THEN extended_event_for_set_1(byte) ELSE NoEvent
    BY <1>2, <1>4 DEF Event
  <2> QED
    BY <1>1, <1>2, <2>1, <2>2, <2>3
<1>5. CASE byte # PREFIX /\ ~ EXTENDED_PREFIX
  <2> DEFINE s == IF byte \in Shifts THEN TRUE
                  ELSE IF byte \in {LeftShift + Break, RightShift + Break} THEN FALSE
                  ELSE SHIFT
             c == IF byte = CapsLock THEN ~ CAPS_LOCK ELSE CAPS_LOCK
             p == IF byte \in Shifts \cup {CapsLock} \/ byte >= Break THEN NoEvent
                  ELSE ascii_for_set_1(byte, SHIFT, CAPS_LOCK)
  <2>1. EXTENDED_PREFIX' = EXTENDED_PREFIX /\ SHIFT' = s /\ CAPS_LOCK' = c /\ pushed' = p
    BY <1>5 DEF handle_scancode
  <2>2. Decoded(Bits, byte) = [s |-> s, c |-> c, e |-> FALSE]
    BY <1>2, <1>5, Zenon DEF Decoded
  <2>3. Event(Bits, byte) = p
    BY <1>2, <1>5, Zenon DEF Event
  <2>4. s \in BOOLEAN /\ c \in BOOLEAN /\ EXTENDED_PREFIX = FALSE
    BY <1>2, <1>5, Zenon
  <2> HIDE DEF s, c, p
  <2> QED
    BY <1>1, <1>2, <2>1, <2>2, <2>3, <2>4
<1> QED
  BY <1>3, <1>4, <1>5

\* What the keyboard sends is bytes.
LEMMA BytesAre ==
    ASSUME NEW key \in Key
    PROVE  /\ (IF key \in Plain THEN <<key>> ELSE FakeReleases \o <<PREFIX, Code(key)>>) \in Seq(Nat)
           /\ (IF key \in Plain THEN <<key + Break>>
               ELSE <<PREFIX, Code(key) + Break>> \o FakePresses) \in Seq(Nat)
           /\ (IF key \in Plain THEN <<key>> ELSE <<PREFIX, Code(key)>>) \in Seq(Nat)
<1>1. FakeReleases \in Seq(Nat) /\ FakePresses \in Seq(Nat) /\ PREFIX \in Nat /\ Break \in Nat
  BY Codes DEF FakeReleases, FakePresses, ForHeldShifts
<1>2. CASE key \in Plain
  <2>1. key \in Nat /\ key + Break \in Nat
    <3>1. key \in 1 .. 88
      BY <1>2, KeysAssumption
    <3> QED
      BY <1>1, <3>1
  <2> QED
    BY <1>2, <2>1
<1>3. CASE key \notin Plain
  <2>1. PICK c \in Nat : c = Code(key)
    BY <1>3, KeyIs
  <2>2. <<PREFIX, c>> \in Seq(Nat) /\ <<PREFIX, c + Break>> \in Seq(Nat)
    BY <1>1
  <2>3. FakeReleases \o <<PREFIX, c>> \in Seq(Nat) /\ <<PREFIX, c + Break>> \o FakePresses \in Seq(Nat)
    BY <1>1, <2>2, ConcatProperties
  <2> QED
    BY <1>3, <2>1, <2>2, <2>3
<1> QED
  BY <1>2, <1>3

\* Before the first key nothing is on the wire and nothing is owed.
LEMMA InitKInv ==
    ASSUME KeyboardInit PROVE KInv
<1>1. KeysOK
  <2>1. ~ (Shifts \subseteq held)
    BY Codes DEF KeyboardInit
  <2> QED
    <3>1. wire \in Seq(Nat)
      BY DEF KeyboardInit
    <3>2. held \subseteq Key /\ repeats \in held \cup {NoKey}
      BY DEF KeyboardInit, NoKey
    <3>3. SHIFT \in BOOLEAN /\ CAPS_LOCK \in BOOLEAN /\ EXTENDED_PREFIX \in BOOLEAN
          /\ lit \in BOOLEAN /\ ambiguous \in BOOLEAN
      BY DEF KeyboardInit
    <3> QED
      BY <2>1, <3>1, <3>2, <3>3 DEF KeysOK
<1>2. Bits \in Decoders /\ Bits.s = FALSE /\ Bits.c = FALSE /\ Bits.e = FALSE
  BY <1>1, BitsAre DEF KeyboardInit
<1>3. Reaches(wire, Bits, <<>>, Bits)
  BY <1>2, NothingSent DEF KeyboardInit
<1>4. Settled(Bits)
  BY <1>2 DEF Settled, KeyboardInit
<1>5. Due(<<>>, Bits) /\ <<>> \in Seq(Events)
  BY <1>3, <1>4 DEF Due, KeyboardInit
<1> QED
  BY <1>1, <1>2, <1>5 DEF KInv

\* The interrupt handler takes the decoder one byte on, and the event that
\* it pushes is the first that is owed.
LEMMA InterruptOK ==
    ASSUME KInv, Interrupt PROVE KInv' /\ (~ ambiguous /\ pushed' # NoEvent => owed # <<>> /\ pushed' = Head(owed))
<1>1. PICK o \in Seq(Events), z \in Decoders : Due(o, z)
  BY DEF KInv
<1>2. wire \in Seq(Nat) /\ wire # <<>> /\ Head(wire) \in Nat /\ Tail(wire) \in Seq(Nat) /\ KeysOK
  BY DEF KInv, KeysOK, Interrupt
<1>3. /\ Bits' = Decoded(Bits, Head(wire)) /\ pushed' = Event(Bits, Head(wire))
      /\ SHIFT' \in BOOLEAN /\ CAPS_LOCK' \in BOOLEAN /\ EXTENDED_PREFIX' \in BOOLEAN
  BY <1>2, HandleIs DEF Interrupt
<1>4. PICK r \in Seq(Events) : /\ o = Out(Bits, Head(wire)) \o r
                               /\ Reaches(Tail(wire), Decoded(Bits, Head(wire)), r, z)
  BY <1>1, <1>2, ByteHandled DEF Due
<1>5. /\ wire' = Tail(wire) /\ UNCHANGED <<held, lit, repeats, ambiguous>>
      /\ owed' = IF pushed' # NoEvent /\ owed # <<>> THEN Tail(owed) ELSE owed
  BY DEF Interrupt, keys
<1>6. KeysOK'
  BY <1>2, <1>3, <1>5 DEF KeysOK
<1>7. Reaches(wire', Bits', r, z) /\ Settled(z)'
  <2>1. Settled(z)
    BY <1>1 DEF Due
  <2> QED
    BY <1>3, <1>4, <1>5, <2>1 DEF Settled
<1>8. ASSUME ~ ambiguous
      PROVE  r = owed' /\ (pushed' # NoEvent => owed # <<>> /\ pushed' = Head(owed))
  <2>1. owed = Out(Bits, Head(wire)) \o r
    BY <1>1, <1>4, <1>8 DEF Due
  <2>2. CASE pushed' = NoEvent
    <3>1. owed = r
      BY <1>3, <2>1, <2>2 DEF Out
    <3> QED
      BY <1>5, <2>2, <3>1
  <2>3. CASE pushed' # NoEvent
    <3>1. owed = <<pushed'>> \o r
      BY <1>3, <2>1, <2>3 DEF Out
    <3>2. pushed' \in Events
      BY <1>2, <1>3, BitsAre, DecodedIs
    <3>3. owed # <<>> /\ Head(owed) = pushed' /\ Tail(owed) = r
      BY <3>1, <3>2
    <3> QED
      BY <1>5, <2>3, <3>3
  <2> QED
    BY <2>2, <2>3
<1>9. Due(r, z)'
  BY <1>5, <1>7, <1>8 DEF Due
<1> QED
  BY <1>6, <1>8, <1>9 DEF KInv
\* What is owed for a key is what its bytes will push.
LEMMA OweIs ==
    ASSUME NEW event, Owe(event), ~ ambiguous', NEW x \in Seq(Events), owed \in Seq(Events),
           event = NoEvent => x = <<>>, event # NoEvent => x = <<event>>
    PROVE  owed' = owed \o x
<1>1. CASE event = NoEvent
  BY <1>1 DEF Owe
<1>2. CASE event # NoEvent
  <2>1. x = <<event>> /\ event \in Events
    <3>1. x = <<event>> /\ Len(x) = 1 /\ x[1] = event
      BY <1>2
    <3> QED
      BY <3>1
  <2> QED
    BY <1>2, <2>1, AppendIsConcat DEF Owe
<1> QED
  BY <1>1, <1>2

\* What a plain key's press, sent once more or for the first time, makes.
LEMMA PlainTyped ==
    ASSUME KInv, NEW o \in Seq(Events), NEW z \in Decoders, Due(o, z), NEW key \in Plain,
           UNCHANGED decoder, wire' = wire \o <<key>>
    PROVE  /\ wire' \in Seq(Nat) /\ Bits' = Bits
           /\ o \o Out(z, key) \in Seq(Events) /\ Out(z, key) \in Seq(Events) /\ Decoded(z, key) \in Decoders
           /\ Reaches(wire', Bits', o \o Out(z, key), Decoded(z, key))
           /\ Taken(z, key, Decoded(z, key)) /\ key < Break
<1>1. key \in 1 .. 88 /\ key \in Nat /\ key \in 1 .. 216 /\ key # PREFIX /\ key < Break
  BY KeysAssumption, Codes
<1>2. wire \in Seq(Nat) /\ Bits \in Decoders /\ Reaches(wire, Bits, o, z) /\ ~ z.e
  BY BitsAre DEF KInv, KeysOK, Due, Settled
<1>3. Bits' = Bits
  BY DEF Bits, decoder
<1>4. /\ wire \o <<key>> \in Seq(Nat) /\ o \o Out(z, key) \in Seq(Events) /\ Decoded(z, key) \in Decoders
      /\ Reaches(wire \o <<key>>, Bits, o \o Out(z, key), Decoded(z, key))
  BY <1>1, <1>2, PlainSent
<1>5. Out(z, key) \in Seq(Events)
  BY <1>1, DecodedIs
<1>6. Taken(z, key, Decoded(z, key))
  BY <1>1, <1>2, PlainIs
<1> QED
  BY <1>1, <1>3, <1>4, <1>5, <1>6

\* A character's key, pressed or repeated: what it is meant to make it makes.
LEMMA CharacterTyped ==
    ASSUME KInv, NEW o \in Seq(Events), NEW z \in Decoders, Due(o, z), NEW key \in Plain,
           key \notin Shifts \cup {CapsLock}, UNCHANGED decoder, wire' = wire \o <<key>>,
           Owe(Meant(key)), ambiguous' = ambiguous, lit' = lit, held' \cap Shifts = held \cap Shifts
    PROVE  Due(o \o Out(z, key), Decoded(z, key))'
<1> DEFINE y == Decoded(z, key)
<1>0. /\ Reaches(wire', Bits', o \o Out(z, key), y) /\ Taken(z, key, y) /\ key < Break
      /\ Out(z, key) \in Seq(Events)
  BY PlainTyped
<1>1. /\ Reaches(wire', Bits', o \o Out(z, key), y) /\ ~ y.e /\ y.s = z.s /\ y.c = z.c
      /\ Event(z, key) = ascii_for_set_1(key, z.s, z.c) /\ Out(z, key) \in Seq(Events)
  BY <1>0, Zenon DEF Taken
<1>2. Settled(z) /\ (~ ambiguous => o = owed)
  BY DEF Due
<1> HIDE DEF y
<1>3. Settled(y)'
  BY <1>1, <1>2, Zenon DEF Settled
<1>4. ASSUME ~ ambiguous' PROVE o \o Out(z, key) = owed'
  <2>1. z.s = (held \cap Shifts # {}) /\ z.c = lit /\ o = owed
    BY <1>2, <1>4 DEF Settled
  <2>2. Meant(key) = ascii_for_set_1(key, held \cap Shifts # {}, lit)
    BY DEF Meant
  <2>3. Meant(key) = Event(z, key)
    BY <1>1, <2>1, <2>2, Zenon
  <2>4. /\ Meant(key) = NoEvent => Out(z, key) = <<>>
        /\ Meant(key) # NoEvent => Out(z, key) = <<Meant(key)>>
    BY <2>3 DEF Out
  <2> QED
    BY <1>1, <1>4, <2>1, <2>4, OweIs
<1> QED
  BY <1>1, <1>3, <1>4 DEF Due, y

\* An extended key's press behind what hides the Shifts, or alone.
LEMMA ExtendedTyped ==
    ASSUME KInv, NEW o \in Seq(Events), NEW z \in Decoders, Due(o, z), NEW key \in Key, key \notin Plain,
           NEW w \in Seq(Nat), Reaches(w, Bits, o, z),
           UNCHANGED decoder, wire' = w \o <<PREFIX, Code(key)>>,
           Owe(Meant(key)), ambiguous' = ambiguous, lit' = lit, held' \cap Shifts = held \cap Shifts
    PROVE  /\ wire' \in Seq(Nat)
           /\ \E x \in Seq(Events) : Due(x, z)'
<1> DEFINE code == Code(key)
<1>1. code \in 1 .. 88 /\ code \in Nat /\ code # PREFIX /\ code < Break /\ key \notin Shifts \cup {CapsLock}
  <2>1. code \in 1 .. 88 /\ key \notin Shifts \cup {CapsLock}
    BY KeyIs
  <2> HIDE DEF code
  <2> QED
    BY <2>1, Codes
<1>2. Bits \in Decoders /\ ~ z.e /\ Settled(z) /\ (~ ambiguous => o = owed)
  BY BitsAre DEF KInv, Due, Settled
<1>3. Bits' = Bits
  BY DEF Bits, decoder
<1>4. Meant(key) = extended_event_for_set_1(code)
  BY <1>1 DEF Meant
<1>5. wire' = w \o <<PREFIX, code>>
  OBVIOUS
<1> HIDE DEF code
<1>6. /\ w \o <<PREFIX, code>> \in Seq(Nat) /\ Moved(code) \in Seq(Events) /\ o \o Moved(code) \in Seq(Events)
      /\ Reaches(w \o <<PREFIX, code>>, Bits, o \o Moved(code), z)
  BY <1>1, <1>2, PairSent
<1>7. Settled(z)'
  BY <1>2, Zenon DEF Settled
<1>8. ASSUME ~ ambiguous' PROVE o \o Moved(code) = owed'
  <2>1. o = owed
    BY <1>2, <1>8
  <2>2. /\ Meant(key) = NoEvent => Moved(code) = <<>>
        /\ Meant(key) # NoEvent => Moved(code) = <<Meant(key)>>
    BY <1>1, <1>4 DEF Moved, extended_event_for_set_1, NoEvent
  <2> QED
    BY <1>6, <1>8, <2>1, <2>2, OweIs
<1>9. Due(o \o Moved(code), z)'
  BY <1>3, <1>5, <1>6, <1>7, <1>8 DEF Due
<1> QED
  BY <1>5, <1>6, <1>9

\* A key pressed owes the event of its byte, decoded when that arrives.
LEMMA PressOK ==
    ASSUME KInv, NEW key \in Key, Press(key) PROVE KInv'
<1>1. PICK o \in Seq(Events), z \in Decoders : Due(o, z)
  BY DEF KInv
<1>2. /\ key \notin held /\ held' = held \cup {key} /\ repeats' = key
      /\ lit' = IF key = CapsLock THEN ~ lit ELSE lit
      /\ ambiguous' = (ambiguous \/ Shifts \subseteq held') /\ Owe(Meant(key))
      /\ UNCHANGED decoder
      /\ wire' = wire \o (IF key \in Plain THEN <<key>> ELSE FakeReleases \o <<PREFIX, Code(key)>>)
  BY DEF Press, Send
<1>3. KeysOK /\ wire \in Seq(Nat) /\ Settled(z) /\ (~ ambiguous => o = owed)
  BY <1>1 DEF KInv, KeysOK, Due
<1>4. wire' \in Seq(Nat) => KeysOK'
  <2>1. lit' \in BOOLEAN /\ ambiguous' \in BOOLEAN /\ (~ ambiguous' => ~ (Shifts \subseteq held'))
    BY <1>2, <1>3, Zenon DEF KeysOK
  <2>2. held' \subseteq Key /\ repeats' \in held' \cup {NoKey}
    BY <1>2, <1>3 DEF KeysOK
  <2> QED
    BY <1>2, <1>3, <2>1, <2>2 DEF KeysOK, decoder
<1>5. CASE key \in Shifts /\ key \in Plain
  <2> DEFINE y == Decoded(z, key)
  <2>1. /\ wire' \in Seq(Nat) /\ o \o <<>> \in Seq(Events) /\ y \in Decoders
        /\ Reaches(wire', Bits', o \o <<>>, y) /\ ~ y.e /\ y.s = TRUE /\ y.c = z.c /\ key # CapsLock
    <3>1. wire' = wire \o <<key>>
      BY <1>2, <1>5
    <3>2. /\ wire' \in Seq(Nat) /\ o \o Out(z, key) \in Seq(Events) /\ y \in Decoders
          /\ Reaches(wire', Bits', o \o Out(z, key), y) /\ Taken(z, key, y)
      BY <1>1, <1>2, <1>5, <3>1, PlainTyped
    <3>3. key \in Shifts => key # CapsLock
      BY Codes
    <3> HIDE DEF y
    <3> QED
      BY <1>5, <3>2, <3>3, Zenon DEF Taken
  <2> HIDE DEF y
  <2>2. o \o <<>> = o /\ held' \cap Shifts # {} /\ lit' = lit /\ (~ ambiguous' => ~ ambiguous)
    <3>1. o \o <<>> = o
      OBVIOUS
    <3>2. held' \cap Shifts # {} /\ lit' = lit /\ (~ ambiguous' => ~ ambiguous)
      BY <1>2, <1>5, <2>1
    <3> QED
      BY <3>1, <3>2
  <2>3. Settled(y)'
    <3>1. ~ ambiguous' => y.c = lit'
      BY <1>3, <2>1, <2>2, Zenon DEF Settled
    <3>2. y.s = (held' \cap Shifts # {})
      BY <2>1, <2>2
    <3> QED
      BY <2>1, <2>2, <3>1, <3>2 DEF Settled
  <2>4. owed' = owed
    BY <1>2, <1>5 DEF Owe, Meant
  <2>5. Due(o, y)'
    BY <1>3, <2>1, <2>2, <2>3, <2>4 DEF Due
  <2> QED
    BY <1>4, <2>1, <2>5 DEF KInv
<1>6. CASE key = CapsLock /\ key \in Plain
  <2> DEFINE y == Decoded(z, key)
  <2>1. /\ wire' \in Seq(Nat) /\ o \o <<>> \in Seq(Events) /\ y \in Decoders
        /\ Reaches(wire', Bits', o \o <<>>, y) /\ ~ y.e /\ y.s = z.s /\ y.c = ~ z.c /\ key \notin Shifts
    <3>1. wire' = wire \o <<key>>
      BY <1>2, <1>6
    <3>2. /\ wire' \in Seq(Nat) /\ o \o Out(z, key) \in Seq(Events) /\ y \in Decoders
          /\ Reaches(wire', Bits', o \o Out(z, key), y) /\ Taken(z, key, y)
      BY <1>1, <1>2, <1>6, <3>1, PlainTyped
    <3>3. key \in Shifts => key # CapsLock
      BY Codes
    <3> HIDE DEF y
    <3> QED
      BY <1>6, <3>2, <3>3, Zenon DEF Taken
  <2> HIDE DEF y
  <2>2. o \o <<>> = o /\ held' \cap Shifts = held \cap Shifts /\ lit' = ~ lit /\ (~ ambiguous' => ~ ambiguous)
    <3>1. o \o <<>> = o
      OBVIOUS
    <3>2. held' \cap Shifts = held \cap Shifts /\ lit' = ~ lit /\ (~ ambiguous' => ~ ambiguous)
      BY <1>2, <1>6, <2>1
    <3> QED
      BY <3>1, <3>2
  <2>3. Settled(y)'
    BY <1>3, <2>1, <2>2, Zenon DEF Settled
  <2>4. owed' = owed
    BY <1>2, <1>6 DEF Owe, Meant
  <2>5. Due(o, y)'
    BY <1>3, <2>1, <2>2, <2>3, <2>4 DEF Due
  <2> QED
    BY <1>4, <2>1, <2>5 DEF KInv
<1>7. key \notin Shifts => ambiguous' = ambiguous /\ held' \cap Shifts = held \cap Shifts
  <2> SUFFICES ASSUME key \notin Shifts PROVE ambiguous' = ambiguous /\ held' \cap Shifts = held \cap Shifts
    OBVIOUS
  <2>1. held' \cap Shifts = held \cap Shifts /\ (Shifts \subseteq held' <=> Shifts \subseteq held)
    BY <1>2
  <2> QED
    BY <1>2, <1>3, <2>1, Zenon DEF KeysOK
<1>8. CASE key \in Plain /\ key \notin Shifts \cup {CapsLock}
  <2>1. wire' = wire \o <<key>> /\ lit' = lit
    BY <1>2, <1>8
  <2>2. /\ wire' \in Seq(Nat) /\ o \o Out(z, key) \in Seq(Events) /\ Decoded(z, key) \in Decoders
    BY <1>1, <1>2, <1>8, <2>1, PlainTyped
  <2>3. Due(o \o Out(z, key), Decoded(z, key))'
    BY <1>1, <1>2, <1>7, <1>8, <2>1, CharacterTyped
  <2> QED
    BY <1>4, <2>2, <2>3 DEF KInv
<1>9. CASE key \notin Plain
  <2>1. LeftShift + Break = 170 /\ RightShift + Break = 182
    BY Codes
  <2>2. ~ z.e /\ Bits \in Decoders /\ Reaches(wire, Bits, o, z)
    BY <1>1, <1>3, BitsAre DEF Due, Settled
  <2> DEFINE w == wire \o FakeReleases
  <2>3. w \in Seq(Nat) /\ Reaches(w, Bits, o, z)
    BY <1>3, <2>1, <2>2, HiddenSent DEF FakeReleases
  <2>4. wire' = w \o <<PREFIX, Code(key)>>
    <3>1. FakeReleases \in Seq(Nat)
      BY <2>1, Codes DEF FakeReleases, ForHeldShifts
    <3>2. <<PREFIX, Code(key)>> \in Seq(Nat)
      <4>1. Code(key) \in 1 .. 88 /\ PREFIX \in Nat
        BY <1>9, KeyIs, Codes
      <4>2. Code(key) \in Nat
        BY <1>9, KeyIs
      <4> HIDE DEF w
      <4> QED
        BY <4>1, <4>2
    <3>3. wire' = wire \o (FakeReleases \o <<PREFIX, Code(key)>>)
      BY <1>2, <1>9
    <3> DEFINE f == FakeReleases
               g == <<PREFIX, Code(key)>>
    <3> HIDE DEF f, g
    <3>4. (wire \o f) \o g = wire \o (f \o g)
      BY <1>3, <3>1, <3>2, BytesInARow DEF f, g
    <3> QED
      BY <3>3, <3>4 DEF f, g
  <2> HIDE DEF w
  <2>5. lit' = lit /\ key \notin Shifts
    BY <1>2, <1>9, KeyIs
  <2>6. wire' \in Seq(Nat) /\ \E x \in Seq(Events) : Due(x, z)'
    BY <1>1, <1>2, <1>7, <1>9, <2>3, <2>4, <2>5, ExtendedTyped
  <2> QED
    BY <1>4, <2>6 DEF KInv
<1> QED
  BY <1>5, <1>6, <1>8, <1>9, KeyIs
\* A key released owes nothing.
LEMMA ReleaseOK ==
    ASSUME KInv, NEW key \in Key, Release(key) PROVE KInv'
<1>1. PICK o \in Seq(Events), z \in Decoders : Due(o, z)
  BY DEF KInv
<1>2. /\ key \in held /\ held' = held \ {key} /\ repeats' = IF repeats = key THEN NoKey ELSE repeats
      /\ UNCHANGED <<decoder, lit, owed, ambiguous>>
      /\ wire' = wire \o (IF key \in Plain THEN <<key + Break>>
                          ELSE <<PREFIX, Code(key) + Break>> \o FakePresses)
  BY DEF Release, Send
<1>3. /\ KeysOK /\ wire \in Seq(Nat) /\ Settled(z) /\ ~ z.e /\ (~ ambiguous => o = owed)
      /\ Bits \in Decoders /\ Reaches(wire, Bits, o, z)
  BY <1>1, BitsAre DEF KInv, KeysOK, Due, Settled
<1>4. wire' \in Seq(Nat) => KeysOK'
  <2>1. held' \subseteq Key /\ repeats' \in held' \cup {NoKey} /\ (~ ambiguous' => ~ (Shifts \subseteq held'))
    BY <1>2, <1>3 DEF KeysOK
  <2> QED
    BY <1>2, <1>3, <2>1 DEF KeysOK, decoder
<1>5. Bits' = Bits
  BY <1>2 DEF Bits, decoder
<1>6. o \o <<>> = o
  OBVIOUS
<1>7. CASE key \in Plain
  <2> DEFINE byte == key + Break
             y == Decoded(z, byte)
  <2>1. /\ byte \in Nat /\ byte \in 1 .. 216 /\ byte # PREFIX /\ byte >= Break
        /\ (byte - Break \in Shifts <=> key \in Shifts)
    BY <1>7, KeysAssumption, Codes
  <2> HIDE DEF byte
  <2>2. /\ wire \o <<byte>> \in Seq(Nat) /\ y \in Decoders
        /\ Reaches(wire \o <<byte>>, Bits, o \o Out(z, byte), y)
    BY <1>3, <2>1, PlainSent
  <2>3. Taken(z, byte, y)
    BY <1>3, <2>1, PlainIs
  <2> HIDE DEF y
  <2>4. /\ Out(z, byte) = <<>> /\ ~ y.e /\ y.c = z.c
        /\ key \in Shifts => y.s = FALSE
        /\ key \notin Shifts => y.s = z.s
    BY <2>1, <2>3, Zenon DEF Taken
  <2>5. Settled(y)'
    <3>1. ~ ambiguous' => y.c = lit'
      BY <1>2, <1>3, <2>4 DEF Settled
    <3>2. CASE key \in Shifts
      <4>1. ~ ambiguous' => held' \cap Shifts = {}
        BY <1>2, <1>3, <3>2, Codes DEF KeysOK
      <4> QED
        BY <2>4, <3>1, <3>2, <4>1 DEF Settled
    <3>3. CASE key \notin Shifts
      <4>1. held' \cap Shifts = held \cap Shifts
        BY <1>2, <3>3
      <4> QED
        BY <1>2, <1>3, <2>4, <3>1, <3>3, <4>1, Zenon DEF Settled
    <3> QED
      BY <3>2, <3>3
  <2>6. wire' = wire \o <<byte>>
    BY <1>2, <1>7 DEF byte
  <2>7. Due(o, y)'
    BY <1>2, <1>3, <1>5, <1>6, <2>2, <2>4, <2>5, <2>6 DEF Due
  <2> QED
    BY <1>4, <2>2, <2>6, <2>7 DEF KInv
<1>8. CASE key \notin Plain
  <2> DEFINE byte == Code(key) + Break
             w == wire \o <<PREFIX, byte>>
  <2>1. /\ byte \in Nat /\ byte # PREFIX /\ ~ (byte < Break) /\ key \notin Shifts
    <3>1. Code(key) \in 1 .. 88 /\ Code(key) \in Nat /\ key \notin Shifts
      BY <1>8, KeyIs
    <3>2. PICK c \in 1 .. 88 : c = Code(key)
      BY <3>1
    <3>3. c + Break \in Nat /\ c + Break # PREFIX /\ ~ (c + Break < Break)
      BY Codes
    <3> QED
      BY <3>1, <3>2, <3>3
  <2>2. Moved(byte) = <<>>
    BY <2>1 DEF Moved
  <2> HIDE DEF byte
  <2>3. w \in Seq(Nat) /\ Reaches(w, Bits, o, z)
    <3>1. w \in Seq(Nat) /\ Reaches(w, Bits, o \o Moved(byte), z)
      BY <1>3, <2>1, PairSent
    <3> QED
      BY <1>6, <2>2, <3>1
  <2>4. w \o FakePresses \in Seq(Nat) /\ Reaches(w \o FakePresses, Bits, o, z)
    <3>1. LeftShift = 42 /\ RightShift = 54
      BY Codes
    <3> HIDE DEF w
    <3> QED
      BY <1>3, <2>3, <3>1, HiddenSent DEF FakePresses
  <2>5. wire' = w \o FakePresses
    <3>1. FakePresses \in Seq(Nat)
      BY Codes DEF FakePresses, ForHeldShifts
    <3>2. <<PREFIX, byte>> \in Seq(Nat)
      BY <2>1, Codes
    <3>3. wire' = wire \o (<<PREFIX, byte>> \o FakePresses)
      BY <1>2, <1>8 DEF byte
    <3> DEFINE f == FakePresses
               g == <<PREFIX, byte>>
    <3> HIDE DEF f, g
    <3>4. (wire \o g) \o f = wire \o (g \o f)
      BY <1>3, <3>1, <3>2, BytesInARow DEF f, g
    <3> QED
      BY <3>3, <3>4 DEF f, g, w
  <2>6. Settled(z)'
    <3>1. held' \cap Shifts = held \cap Shifts
      BY <1>2, <2>1
    <3> QED
      BY <1>2, <1>3, <3>1, Zenon DEF Settled
  <2> HIDE DEF w
  <2>7. Due(o, z)'
    BY <1>2, <1>3, <1>5, <2>4, <2>5, <2>6 DEF Due
  <2> QED
    BY <1>4, <2>4, <2>5, <2>7 DEF KInv
<1> QED
  BY <1>7, <1>8

\* A key that repeats owes its event again.
LEMMA RepeatOK ==
    ASSUME KInv, Repeat PROVE KInv'
<1>0. PICK key \in Key : key = repeats /\ key \in held
  BY DEF KInv, KeysOK, Repeat
<1>1. PICK o \in Seq(Events), z \in Decoders : Due(o, z)
  BY DEF KInv
<1>2. /\ ambiguous' = (ambiguous \/ key = CapsLock) /\ Owe(Meant(key))
      /\ UNCHANGED decoder /\ UNCHANGED <<held, lit, repeats>>
      /\ wire' = wire \o (IF key \in Plain THEN <<key>> ELSE <<PREFIX, Code(key)>>)
  BY <1>0 DEF Repeat, Send, keys
<1>3. /\ KeysOK /\ wire \in Seq(Nat) /\ Settled(z) /\ (~ ambiguous => o = owed)
      /\ Reaches(wire, Bits, o, z) /\ ambiguous \in BOOLEAN
  BY <1>1 DEF KInv, KeysOK, Due
<1>4. key \in held /\ key \in Key
  BY <1>0
<1>5. wire' \in Seq(Nat) => KeysOK'
  <2>1. ambiguous' \in BOOLEAN /\ (~ ambiguous' => ~ ambiguous)
    BY <1>2, <1>3, Zenon
  <2> QED
    BY <1>2, <1>3, <2>1 DEF KeysOK, decoder
<1>6. o \o <<>> = o
  OBVIOUS
<1>7. CASE key \in Plain /\ key \in Shifts \cup {CapsLock}
  <2> DEFINE y == Decoded(z, key)
  <2>1. /\ wire' \in Seq(Nat) /\ y \in Decoders
        /\ Reaches(wire', Bits', o \o Out(z, key), y) /\ Taken(z, key, y)
    <3>1. wire' = wire \o <<key>>
      BY <1>2, <1>7
    <3> QED
      BY <1>1, <1>2, <1>7, <3>1, PlainTyped
  <2> HIDE DEF y
  <2>2. Out(z, key) = <<>> /\ ~ y.e
    BY <1>7, <2>1, Zenon DEF Taken
  <2>3. owed' = owed
    BY <1>2, <1>7 DEF Owe, Meant
  <2>4. Settled(y)'
    <3>1. CASE key \in Shifts
      <4>1. y.s = TRUE /\ y.c = z.c
        BY <2>1, <3>1, Zenon DEF Taken
      <4>2. held' \cap Shifts # {} /\ lit' = lit /\ (~ ambiguous' => ~ ambiguous)
        BY <1>2, <1>4, <3>1
      <4>3. y.s = (held' \cap Shifts # {}) /\ (~ ambiguous' => y.c = lit')
        BY <1>3, <4>1, <4>2 DEF Settled
      <4> QED
        BY <2>2, <4>2, <4>3 DEF Settled
    <3>2. CASE key = CapsLock
      <4>1. y.s = z.s /\ ambiguous' /\ held' = held
        BY <1>2, <2>1, <3>2, Zenon DEF Taken
      <4> QED
        BY <1>3, <2>2, <4>1, Zenon DEF Settled
    <3> QED
      BY <1>7, <3>1, <3>2
  <2>5. ~ ambiguous' => o = owed
    BY <1>2, <1>3
  <2>6. Due(o, y)'
    BY <1>6, <2>1, <2>2, <2>3, <2>4, <2>5 DEF Due
  <2> QED
    BY <1>5, <2>1, <2>6 DEF KInv
<1>8. key # CapsLock => ambiguous' = ambiguous
  BY <1>2, <1>3, Zenon
<1>9. CASE key \in Plain /\ key \notin Shifts \cup {CapsLock}
  <2>1. wire' = wire \o <<key>> /\ lit' = lit /\ held' = held /\ ambiguous' = ambiguous
    BY <1>2, <1>8, <1>9
  <2>2. /\ wire' \in Seq(Nat) /\ o \o Out(z, key) \in Seq(Events) /\ Decoded(z, key) \in Decoders
    BY <1>1, <1>2, <1>9, <2>1, PlainTyped
  <2>3. Due(o \o Out(z, key), Decoded(z, key))'
    BY <1>1, <1>2, <1>9, <2>1, CharacterTyped
  <2> QED
    BY <1>5, <2>2, <2>3 DEF KInv
<1>10. CASE key \notin Plain
  <2>1. wire' = wire \o <<PREFIX, Code(key)>> /\ lit' = lit /\ held' = held /\ ambiguous' = ambiguous
    BY <1>2, <1>4, <1>8, <1>10, KeyIs
  <2>2. wire' \in Seq(Nat) /\ \E x \in Seq(Events) : Due(x, z)'
    BY <1>1, <1>2, <1>3, <1>4, <1>10, <2>1, ExtendedTyped
  <2> QED
    BY <1>5, <2>2 DEF KInv
<1> QED
  BY <1>7, <1>9, <1>10

\* Nothing happening changes nothing.
LEMMA StillOK ==
    ASSUME KInv, UNCHANGED keyboard PROVE KInv'
<1>1. UNCHANGED <<SHIFT, CAPS_LOCK, EXTENDED_PREFIX, held, lit, repeats, wire, owed, ambiguous>>
  BY DEF keyboard, decoder, keys
<1>2. PICK o \in Seq(Events), z \in Decoders : Due(o, z)
  BY DEF KInv
<1>3. KeysOK' /\ Bits' = Bits
  BY <1>1 DEF KInv, KeysOK, Bits
<1>4. Due(o, z)'
  BY <1>1, <1>2, <1>3, Zenon DEF Due, Settled
<1> QED
  BY <1>3, <1>4 DEF KInv

\* Every step keeps the invariant.
LEMMA NextKInv ==
    ASSUME KInv, [KeyboardNext]_keyboard PROVE KInv'
  BY InterruptOK, PressOK, ReleaseOK, RepeatOK, StillOK DEF KeyboardNext

\* Decoding what is on the wire ends in the state the keys are in and makes
\* the events owed for them, whatever keys the keyboard has and however
\* many bytes wait for the interrupt handler.
THEOREM KeyboardInvariance == KeyboardSpec => []KInv
<1>1. KeyboardInit => KInv
  BY InitKInv
<1>2. KInv /\ [KeyboardNext]_keyboard => KInv'
  BY NextKInv
<1> QED
  BY <1>1, <1>2, PTL DEF KeyboardSpec

\* With every byte handled, handle_scancode has pushed every event owed.
THEOREM EveryKeyMakesItsEvent == KeyboardSpec => []NothingIsOwed
<1>1. KInv => NothingIsOwed
  <2> SUFFICES ASSUME KInv, wire = <<>>, ~ ambiguous PROVE owed = <<>>
    BY DEF NothingIsOwed
  <2>1. PICK o \in Seq(Events), z \in Decoders : Due(o, z)
    BY DEF KInv
  <2>2. o = owed /\ Reaches(<<>>, Bits, o, z)
    BY <2>1 DEF Due
  <2> QED
    BY <2>2, NothingLeft
<1> QED
  BY <1>1, KeyboardInvariance, PTL

\* With every byte handled, the decoder's bits are those of the keys.
THEOREM DecoderAgrees == KeyboardSpec => []DecoderSettles
<1>1. KInv => DecoderSettles
  <2> SUFFICES ASSUME KInv, wire = <<>>
               PROVE  /\ ~ EXTENDED_PREFIX
                      /\ held \cap Shifts = {} => ~ SHIFT
                      /\ ~ ambiguous => SHIFT = (held \cap Shifts # {}) /\ CAPS_LOCK = lit
    BY DEF DecoderSettles
  <2>1. PICK o \in Seq(Events), z \in Decoders : Due(o, z)
    BY DEF KInv
  <2>2. Reaches(<<>>, Bits, o, z) /\ Settled(z)
    BY <2>1 DEF Due
  <2>3. Bits = z
    BY <2>2, NothingLeft
  <2>4. SHIFT = z.s /\ CAPS_LOCK = z.c /\ EXTENDED_PREFIX = z.e
    BY <2>3, BitsAre DEF KInv
  <2> QED
    BY <2>2, <2>4, Zenon DEF Settled
<1> QED
  BY <1>1, KeyboardInvariance, PTL

\* Every event handle_scancode pushes is the oldest that is owed.
THEOREM EventsInOrder == KeyboardSpec => DecodesWhatIsTyped
<1> DEFINE A == Len(wire') < Len(wire) /\ pushed' # NoEvent /\ ~ ambiguous
                  => owed # <<>> /\ pushed' = Head(owed)
<1>1. KInv /\ [KeyboardNext]_keyboard => [A]_keyboard
  <2> SUFFICES ASSUME KInv, [KeyboardNext]_keyboard, Len(wire') < Len(wire), pushed' # NoEvent, ~ ambiguous
               PROVE  owed # <<>> /\ pushed' = Head(owed)
    OBVIOUS
  <2>1. wire \in Seq(Nat) /\ wire' \in Seq(Nat)
    BY NextKInv DEF KInv, KeysOK
  <2>2. CASE Interrupt
    BY <2>2, InterruptOK
  <2>3. ASSUME NEW bytes \in Seq(Nat), Send(bytes) PROVE FALSE
    <3>1. Len(wire \o bytes) = Len(wire) + Len(bytes) /\ Len(bytes) \in Nat /\ Len(wire) \in Nat
      BY <2>1
    <3> QED
      BY <2>3, <3>1 DEF Send
  <2>4. \A key \in Key : ~ Press(key) /\ ~ Release(key)
    BY <2>3, BytesAre DEF Press, Release
  <2>5. ~ Repeat
    <3> SUFFICES ASSUME Repeat PROVE FALSE
      OBVIOUS
    <3>1. repeats \in Key
      BY DEF Repeat, KInv, KeysOK
    <3> QED
      BY <2>3, <3>1, BytesAre DEF Repeat
  <2>6. wire' # wire
    BY <2>1
  <2> QED
    BY <2>2, <2>4, <2>5, <2>6 DEF KeyboardNext, keyboard
<1>2. KeyboardSpec => [][A]_keyboard
  BY <1>1, KeyboardInvariance, PTL DEF KeyboardSpec
<1> QED
  BY <1>2 DEF DecodesWhatIsTyped
=============================================================================
