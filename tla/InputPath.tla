----------------------------- MODULE InputPath -----------------------------
(***************************************************************************)
(* From the key to the shell: the 8042 raises IRQ1, the interrupt handler  *)
(* pushes into the input queue, and the shell's loop pops, handles and     *)
(* halts (shell.rs run, interrupts.rs, timer.rs, pic.rs).                  *)
(*                                                                         *)
(* One processor runs three pieces of code: the shell's loop, the timer's  *)
(* handler and the keyboard's handler.  A handler preempts the loop        *)
(* wherever it is, runs with interrupts off and returns to where it left.  *)
(* The devices run beside the processor.  The queue is the one InputQueue  *)
(* implements, BoundedFifo.  A key is the number of the key press that     *)
(* made it, so that order and loss can be told.                            *)
(***************************************************************************)
EXTENDS Naturals, Sequences

CONSTANTS
    MaxKeys,        \* bound: key presses that reach the queue
    Room,           \* INPUT_QUEUE_CAPACITY - 1
    TICK_MODULUS    \* 2^64 in the code: where TICKS wraps

ASSUME BoundsAssumption ==
    /\ MaxKeys \in Nat /\ Room \in Nat \ {0}
    /\ TICK_MODULUS \in Nat /\ TICK_MODULUS >= 2

VARIABLES
    \* the processor
    context,     \* whose code runs: "main", "timer" or "keyboard"
    pc,          \* where the shell's loop is
    IF_flag,     \* the interrupt flag
    \* the devices
    irr,         \* the PIC's interrupt request register, a set of lines
    isr,         \* the PIC's in-service register
    output,      \* the 8042's output buffer: a key, Silent or None
    pressed,     \* keys pressed so far
    \* memory
    ticks,       \* TICKS
    queue, offered, dropped, taken,    \* INPUT_QUEUE
    handled      \* history: the keys the shell has handled, in order

None == 0
Key == 1 .. MaxKeys
Silent == MaxKeys + 1   \* a byte that decodes to no event: a release, a modifier

Q == INSTANCE BoundedFifo WITH KeyEvent <- Key, Modulus <- MaxKeys + 1

processor == <<context, pc, IF_flag>>
fifo == <<queue, offered, dropped, taken>>
vars == <<processor, irr, isr, output, pressed, ticks, fifo, handled>>

\* The lines of the PIC that are unmasked: IRQ0, the PIT, and IRQ1, the 8042.
Timer == 0
Keyboard == 1

\* shell::run is entered with interrupts on and nothing typed.
Init ==
    /\ context = "main" /\ pc = "poll" /\ IF_flag = TRUE
    /\ irr = {} /\ isr = {} /\ output = None /\ pressed = 0
    /\ ticks = 0
    /\ Q!Init
    /\ handled = <<>>

-----------------------------------------------------------------------------
(***************************************************************************)
(* The devices.                                                            *)
(***************************************************************************)

\* Channel 0 of the PIT fires; an edge on a line already requested is lost.
PitFires ==
    /\ irr' = irr \cup {Timer}
    /\ UNCHANGED <<processor, isr, output, pressed, ticks, fifo, handled>>

\* The keyboard's next byte reaches the 8042 once its buffer is free.
KeyArrives ==
    /\ output = None
    /\ \/ /\ pressed < MaxKeys
          /\ pressed' = pressed + 1
          /\ output' = pressed + 1
       \/ /\ output' = Silent
          /\ UNCHANGED pressed
    /\ irr' = irr \cup {Keyboard}
    /\ UNCHANGED <<processor, isr, ticks, fifo, handled>>

\* The PIC offers the processor the pending line of the highest priority
\* above every line in service; the processor takes it when IF is set, and
\* the interrupt gate clears IF.  hlt ends: the handler returns behind it.
Interrupt(line, handler) ==
    /\ context = "main" /\ IF_flag
    /\ line \in irr
    /\ \A other \in irr \cup isr : other >= line /\ (other \in isr => other > line)
    /\ irr' = irr \ {line}
    /\ isr' = isr \cup {line}
    /\ context' = handler
    /\ IF_flag' = FALSE
    /\ pc' = IF pc = "halted" THEN "poll" ELSE pc
    /\ UNCHANGED <<output, pressed, ticks, fifo, handled>>

TimerInterrupt == Interrupt(Timer, "timer")
KeyboardInterrupt == Interrupt(Keyboard, "keyboard")

-----------------------------------------------------------------------------
(***************************************************************************)
(* The handlers.                                                           *)
(***************************************************************************)

\* Mutant: the in-service line is not acknowledged.
NoEndOfInterrupt == isr' = isr

\* pic::end_of_interrupt: the in-service line of the highest priority is done.
EndOfInterrupt == isr' = isr \ {i \in isr : \A j \in isr : i <= j}

\* iret restores the interrupted loop and its interrupt flag.
Return ==
    /\ context' = "main"
    /\ IF_flag' = TRUE

timer_interrupt_handler ==
    /\ context = "timer"
    /\ ticks' = (ticks + 1) % TICK_MODULUS
    /\ EndOfInterrupt
    /\ Return
    /\ UNCHANGED <<pc, irr, output, pressed, fifo, handled>>

\* The handler reads port 0x60, which frees the buffer and gives
\* handle_scancode its byte; a byte that is no event is not pushed.
ReadScancode ==
    /\ context = "keyboard" /\ offered = None
    /\ output' = None
    /\ \/ /\ output \in Key
          /\ Q!Offer(output)
          /\ UNCHANGED <<context, IF_flag, isr>>
       \/ /\ output = Silent
          /\ EndOfInterrupt
          /\ Return
          /\ UNCHANGED fifo
    /\ UNCHANGED <<pc, irr, pressed, ticks, handled>>

\* INPUT_QUEUE.push, and the end of the handler.
PushAndReturn ==
    /\ context = "keyboard" /\ offered # None
    /\ Q!Accept \/ Q!Drop
    /\ EndOfInterrupt
    /\ Return
    /\ UNCHANGED <<pc, irr, output, pressed, ticks, handled>>

-----------------------------------------------------------------------------
(***************************************************************************)
(* The shell's loop.                                                       *)
(***************************************************************************)

\* while let Some(event) = next_event()
Poll ==
    /\ context = "main" /\ pc = "poll"
    /\ \/ Q!Take /\ pc' = "handle"
       \/ Q!FindEmpty /\ pc' = "hlt"
    /\ UNCHANGED <<context, IF_flag, irr, isr, output, pressed, ticks, handled>>

\* Mutant: an event found while the loop is busy is skipped.
HandleDiscards ==
    /\ context = "main" /\ pc = "handle"
    /\ handled' = IF queue = <<>> THEN Append(handled, taken) ELSE handled
    /\ pc' \in {"poll", "execute"}
    /\ UNCHANGED <<context, IF_flag, irr, isr, output, pressed, ticks, fifo>>

\* The event edits the line, or it is Enter and the line is executed.
Handle ==
    /\ context = "main" /\ pc = "handle"
    /\ handled' = Append(handled, taken)
    /\ pc' \in {"poll", "execute"}
    /\ UNCHANGED <<context, IF_flag, irr, isr, output, pressed, ticks, fifo>>

\* A command that comes back.  What it does to the screen and reads from the
\* disk is not of this module; interrupts arrive while it runs.
execute ==
    /\ context = "main" /\ pc = "execute"
    /\ pc' = "poll"
    /\ UNCHANGED <<context, IF_flag, irr, isr, output, pressed, ticks, fifo, handled>>

\* Mutant: interrupts stay on.
StopEnabled ==
    /\ context = "main" /\ pc = "execute"
    /\ pc' = "stopped"
    /\ UNCHANGED <<context, IF_flag, irr, isr, output, pressed, ticks, fifo, handled>>

\* The command is halt or reboot: cli, the reset pulse if there is an 8042
\* to take it, and hlt_loop.
Stop ==
    /\ context = "main" /\ pc = "execute"
    /\ IF_flag' = FALSE
    /\ pc' = "stopped"
    /\ UNCHANGED <<context, irr, isr, output, pressed, ticks, fifo, handled>>

\* Mutant: hlt with interrupts off.
HltDisabled ==
    /\ context = "main" /\ pc = "hlt"
    /\ IF_flag' = FALSE
    /\ pc' = "halted"
    /\ UNCHANGED <<context, irr, isr, output, pressed, ticks, fifo, handled>>

\* enable_and_hlt.  IF is already set, so sti opens no window of its own.
EnableAndHlt ==
    /\ context = "main" /\ pc = "hlt"
    /\ IF_flag' = TRUE
    /\ pc' = "halted"
    /\ UNCHANGED <<context, irr, isr, output, pressed, ticks, fifo, handled>>

Main == Poll \/ Handle \/ execute \/ Stop \/ EnableAndHlt
KeyboardHandler == ReadScancode \/ PushAndReturn

Next ==
    \/ PitFires
    \/ KeyArrives
    \/ TimerInterrupt
    \/ KeyboardInterrupt
    \/ timer_interrupt_handler
    \/ KeyboardHandler
    \/ Main

Spec == Init /\ [][Next]_vars

(***************************************************************************)
(* The PIT is periodic, and a handler that has started runs on.  A tick    *)
(* comes every 10 ms and a handler takes microseconds: unless a tick stays *)
(* pending for ever, the loop runs again and again with none pending, so   *)
(* that neither the loop nor a pending IRQ1 is held off for ever.  Nothing *)
(* is assumed of whoever types.                                            *)
(***************************************************************************)
TicksAreFarApart ==
    <>[](Timer \in irr) \/ []<>(Timer \notin irr /\ context = "main")

Fairness ==
    /\ WF_vars(PitFires)
    /\ WF_vars(timer_interrupt_handler)
    /\ WF_vars(KeyboardHandler)
    /\ SF_vars(TimerInterrupt)
    /\ SF_vars(KeyboardInterrupt)
    /\ SF_vars(Main)
    /\ TicksAreFarApart

FairSpec == Spec /\ Fairness

-----------------------------------------------------------------------------
(***************************************************************************)
(* Properties.                                                             *)
(***************************************************************************)

\* Keys between the wire and the shell, in the order they were pressed.
OnTheWay ==
    handled \o (IF pc = "handle" THEN <<taken>> ELSE <<>>) \o queue
        \o (IF offered # None THEN <<offered>> ELSE <<>>)
        \o (IF output \in Key THEN <<output>> ELSE <<>>)

\* After halt and after reboot the machine is still: no handler runs, no
\* tick is counted and no key moves.
StoppedStaysStopped ==
    [][pc = "stopped" => UNCHANGED <<context, pc, ticks, queue, handled>>]_vars

\* The clock never stands still while the machine runs, however much is typed.
TimerKeepsTicking ==
    \A n \in 0 .. TICK_MODULUS - 1 : (ticks = n) ~> (ticks # n \/ pc = "stopped")

\* shell.rs on enable_and_hlt: "avoiding the otherwise possible missed-key
\* race between checking the queue and halt" - the loop never sleeps on a
\* key that is already in the queue.
NoKeyMissedByHalt == pc = "halted" /\ context = "main" => queue = <<>>
=============================================================================
