---------------------------- MODULE BoundedFifo ----------------------------
(***************************************************************************)
(* What the keyboard's InputQueue promises its two users.                  *)
(*                                                                         *)
(* A bounded queue of key events: the keyboard interrupt offers one event  *)
(* at a time, the queue accepts it when it has room and counts it as       *)
(* dropped when it has none, and the main loop takes events in the order   *)
(* they were accepted or learns that there are none.                       *)
(***************************************************************************)
EXTENDS Naturals, Sequences

CONSTANTS
    KeyEvent,    \* the events the keyboard can produce
    None,        \* Rust's Option::None: nothing offered, nothing taken
    Room,        \* how many events the queue holds
    Modulus      \* the dropped counter wraps here

VARIABLES
    queue,       \* accepted and not yet taken, oldest first
    offered,     \* the event the interrupt is pushing, or None
    dropped,     \* how many offers found the queue full
    taken        \* what the latest pop returned

vars == <<queue, offered, dropped, taken>>

Init ==
    /\ queue = <<>>
    /\ offered = None
    /\ dropped = 0
    /\ taken = None

Offer(e) ==
    /\ offered = None
    /\ offered' = e
    /\ UNCHANGED <<queue, dropped, taken>>

Accept ==
    /\ offered # None
    /\ Len(queue) < Room
    /\ queue' = Append(queue, offered)
    /\ offered' = None
    /\ UNCHANGED <<dropped, taken>>

Drop ==
    /\ offered # None
    /\ Len(queue) = Room
    /\ dropped' = (dropped + 1) % Modulus
    /\ offered' = None
    /\ UNCHANGED <<queue, taken>>

Take ==
    /\ queue # <<>>
    /\ taken' = Head(queue)
    /\ queue' = Tail(queue)
    /\ UNCHANGED <<offered, dropped>>

FindEmpty ==
    /\ queue = <<>>
    /\ taken' = None
    /\ UNCHANGED <<queue, offered, dropped>>

Next ==
    \/ \E e \in KeyEvent : Offer(e)
    \/ Accept
    \/ Drop
    \/ Take
    \/ FindEmpty

Spec == Init /\ [][Next]_vars
=============================================================================
