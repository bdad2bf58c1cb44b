---------------------------- MODULE InputQueue -----------------------------
(***************************************************************************)
(* The lock-free ring between the keyboard interrupt and the shell         *)
(* (kernel/src/keyboard.rs, struct InputQueue).                            *)
(*                                                                         *)
(* The keyboard interrupt is the only producer and the shell's main loop   *)
(* the only consumer; nothing but the two atomic indices keeps them apart. *)
(* Every atomic access of push and of pop is a step of its own, and the    *)
(* steps of the two interleave freely.  On the single core the kernel      *)
(* runs on, an interrupt preempts pop and runs to completion, so the       *)
(* kernel's interleavings are among those explored here; the others are    *)
(* the ones the Acquire and Release orderings of the code are there for.   *)
(***************************************************************************)
EXTENDS Naturals, Sequences

CONSTANTS
    INPUT_QUEUE_CAPACITY,   \* slots of the ring
    KeyEvent,               \* the values of enum KeyEvent
    Enter,                  \* KeyEvent::Enter, which the array starts with
    None,                   \* Option::None
    USIZE_MODULUS           \* 2^64 in the code: where fetch_add wraps

ASSUME CapacityAssumption == INPUT_QUEUE_CAPACITY \in Nat /\ INPUT_QUEUE_CAPACITY >= 2
ASSUME EventAssumption    == Enter \in KeyEvent /\ None \notin KeyEvent
ASSUME ModulusAssumption  == USIZE_MODULUS \in Nat \ {0}

VARIABLES
    events,      \* the ring's slots
    head,        \* the slot the producer fills next
    tail,        \* the slot the consumer reads next
    dropped,     \* pushes that found the ring full
    push_pc,     \* where the interrupt is in push
    push_event,  \* push's argument
    pop_pc,      \* where the main loop is in pop
    pop_event,   \* the slot pop has read and not returned yet
    popped       \* what the latest pop returned

producer == <<head, dropped, push_pc, push_event>>
consumer == <<tail, pop_pc, pop_event, popped>>
vars == <<events, head, tail, dropped, push_pc, push_event, pop_pc, pop_event, popped>>

Slots == 0 .. INPUT_QUEUE_CAPACITY - 1

Successor(i) == (i + 1) % INPUT_QUEUE_CAPACITY

(***************************************************************************)
(* InputQueue::new                                                         *)
(***************************************************************************)
Init ==
    /\ events = [i \in Slots |-> Enter]
    /\ head = 0
    /\ tail = 0
    /\ dropped = 0
    /\ push_pc = "idle"
    /\ push_event = Enter
    /\ pop_pc = "idle"
    /\ pop_event = Enter
    /\ popped = None

(***************************************************************************)
(* push.  head is written by push alone, so its relaxed load is folded     *)
(* into the step that enters the function.                                 *)
(***************************************************************************)
PushBegin(e) ==
    /\ push_pc = "idle"
    /\ push_event' = e
    /\ push_pc' = "check"
    /\ UNCHANGED <<events, head, dropped, consumer>>

\* Mutant: the test for a full ring is missing.
PushCheckUnguarded ==
    /\ push_pc = "check"
    /\ push_pc' = "write"
    /\ UNCHANGED <<events, head, dropped, push_event, consumer>>

\* The Acquire load of tail, and the test for a full ring.
PushCheck ==
    /\ push_pc = "check"
    /\ push_pc' = IF Successor(head) = tail THEN "drop" ELSE "write"
    /\ UNCHANGED <<events, head, dropped, push_event, consumer>>

PushDrop ==
    /\ push_pc = "drop"
    /\ dropped' = (dropped + 1) % USIZE_MODULUS
    /\ push_pc' = "idle"
    /\ UNCHANGED <<events, head, push_event, consumer>>

\* Mutant: the event is written to the slot after head.
PushWriteAhead ==
    /\ push_pc = "write"
    /\ events' = [events EXCEPT ![Successor(head)] = push_event]
    /\ push_pc' = "publish"
    /\ UNCHANGED <<head, dropped, push_event, consumer>>

PushWrite ==
    /\ push_pc = "write"
    /\ events' = [events EXCEPT ![head] = push_event]
    /\ push_pc' = "publish"
    /\ UNCHANGED <<head, dropped, push_event, consumer>>

\* The Release store that hands the written slot to the consumer.
PushPublish ==
    /\ push_pc = "publish"
    /\ head' = Successor(head)
    /\ push_pc' = "idle"
    /\ UNCHANGED <<events, dropped, push_event, consumer>>

(***************************************************************************)
(* pop.  tail is written by pop alone; its relaxed load is folded into the *)
(* Acquire load of head that decides whether there is anything to take.    *)
(***************************************************************************)
PopCheck ==
    /\ pop_pc = "idle"
    /\ \/ /\ tail = head
          /\ popped' = None
          /\ UNCHANGED pop_pc
       \/ /\ tail # head
          /\ pop_pc' = "read"
          /\ UNCHANGED popped
    /\ UNCHANGED <<events, tail, pop_event, producer>>

PopRead ==
    /\ pop_pc = "read"
    /\ pop_event' = events[tail]
    /\ pop_pc' = "advance"
    /\ UNCHANGED <<events, tail, popped, producer>>

\* Mutant: the event is returned and the slot is not given back.
PopAdvanceKeepsSlot ==
    /\ pop_pc = "advance"
    /\ popped' = pop_event
    /\ pop_pc' = "idle"
    /\ UNCHANGED <<events, tail, pop_event, producer>>

\* The Release store that gives the slot back, and the return of the event.
PopAdvance ==
    /\ pop_pc = "advance"
    /\ tail' = Successor(tail)
    /\ popped' = pop_event
    /\ pop_pc' = "idle"
    /\ UNCHANGED <<events, pop_event, producer>>

Push == PushCheck \/ PushDrop \/ PushWrite \/ PushPublish
Pop == PopCheck \/ PopRead \/ PopAdvance

Next ==
    \/ \E e \in KeyEvent : PushBegin(e)
    \/ Push
    \/ Pop

Spec == Init /\ [][Next]_vars

(***************************************************************************)
(* The handler runs to completion once entered and the main loop polls     *)
(* again after every event; nobody owes the kernel a key press.            *)
(***************************************************************************)
Fairness == WF_vars(Push) /\ WF_vars(Pop)

FairSpec == Spec /\ Fairness

-----------------------------------------------------------------------------
(***************************************************************************)
(* Properties.                                                             *)
(***************************************************************************)

\* Every variable keeps its type: the indices stay inside the array that
\* push and pop index without a bounds check of their own.
TypeOK ==
    /\ events \in [Slots -> KeyEvent]
    /\ head \in Slots
    /\ tail \in Slots
    /\ dropped \in 0 .. USIZE_MODULUS - 1
    /\ push_pc \in {"idle", "check", "drop", "write", "publish"}
    /\ push_event \in KeyEvent
    /\ pop_pc \in {"idle", "read", "advance"}
    /\ pop_event \in KeyEvent
    /\ popped \in KeyEvent \cup {None}

\* The SAFETY comments of push and pop: the interrupt owns the slot it
\* writes and the main loop the slot it reads.  The two are never about to
\* touch the same slot, so the unsynchronised accesses to the UnsafeCell
\* cannot race.
NoSlotRace ==
    ~ (push_pc = "write" /\ pop_pc = "read" /\ head = tail)

\* Why the slots stay apart.  Between its test and its publication, push
\* keeps a free slot in front of tail, although pop moves tail meanwhile;
\* between its test and its return, pop keeps a slot to read and holds the
\* event that is in it, although push moves head meanwhile.
RingInv ==
    /\ push_pc \in {"write", "publish"} => Successor(head) # tail
    /\ pop_pc \in {"read", "advance"} => tail # head
    /\ push_pc = "publish" => events[head] = push_event
    /\ pop_pc = "advance" => pop_event = events[tail]

(***************************************************************************)
(* The ring implements the bounded queue.  An event is accepted when head  *)
(* is published and given up when the ring is found full; it is taken when *)
(* tail is published.                                                      *)
(***************************************************************************)
Count == (head + INPUT_QUEUE_CAPACITY - tail) % INPUT_QUEUE_CAPACITY

Contents == [i \in 1 .. Count |-> events[(tail + i - 1) % INPUT_QUEUE_CAPACITY]]

Fifo == INSTANCE BoundedFifo WITH
    queue   <- Contents,
    offered <- IF push_pc \in {"idle", "drop"} THEN None ELSE push_event,
    dropped <- IF push_pc = "drop" THEN (dropped + 1) % USIZE_MODULUS ELSE dropped,
    taken   <- popped,
    Room    <- INPUT_QUEUE_CAPACITY - 1,
    Modulus <- USIZE_MODULUS

\* push and pop behave as a first-in first-out queue of CAPACITY - 1 events
\* for every interleaving of their atomic accesses: no event is lost,
\* duplicated, reordered or overwritten, pop returns None only when the
\* queue is empty, and dropped counts exactly the pushes that found it full.
ImplementsFifo == Fifo!Spec

\* A slot the interrupt publishes is read by the main loop: it does not stay
\* in the ring for ever, whatever the interrupt does meanwhile.
PublishedSlotIsRead ==
    \A i \in Slots : (tail = i /\ head # i) ~> (tail # i)
=============================================================================
