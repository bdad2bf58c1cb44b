------------------------------ MODULE Console ------------------------------
(***************************************************************************)
(* Who gets a word out: the console's two locks, and the handlers that     *)
(* print - of exceptions and of panics - on the one processor              *)
(* (console.rs, serial.rs, the outer functions of framebuffer.rs, the      *)
(* handlers of interrupts.rs and panic of main.rs).                        *)
(*                                                                         *)
(* The processor's stack is a stack of frames: the kernel's own code at    *)
(* the bottom and, on top of it, the handlers that cut it.  Only the top   *)
(* frame runs.  A frame is a list of steps still to do:                    *)
(*     serial        serial::print, or init: SERIAL_LOCK.lock()            *)
(*     screen        framebuffer::print, clear, show_cursor: WRITER.lock() *)
(*     panic_screen  framebuffer::panic_print: WRITER.try_lock()           *)
(*     setup_screen  framebuffer::init: WRITER.lock()                      *)
(*     cli, sti, hlt, iret                                                 *)
(* The locks spin: lock() of a taken lock is a step that cannot be taken,  *)
(* and a frame below never runs to give it back.  What is printed is left  *)
(* out, except whether a handler has got its first line out.               *)
(***************************************************************************)
EXTENDS Naturals, Sequences

CONSTANT MaxDepth    \* bound: frames on the stack

ASSUME DepthAssumption == MaxDepth \in Nat /\ MaxDepth >= 3

VARIABLES
    stack,          \* frames, the kernel's first
    SERIAL_LOCK,    \* depth of the frame that holds it, or 0
    WRITER_LOCK,    \* depth of the frame that holds WRITER's lock, or 0
    WRITER,         \* framebuffer::init has been here
    IF_flag,        \* the interrupt flag
    phase           \* how far kernel_main is

console == <<stack, SERIAL_LOCK, WRITER_LOCK, WRITER, IF_flag, phase>>

Depth == Len(stack)
Top == stack[Depth]
Now == IF Top.todo = <<>> THEN "none" ELSE Head(Top.todo)

Frame(code, todo) == [code |-> code, todo |-> todo, said |-> FALSE, interruptible |-> IF_flag]

-----------------------------------------------------------------------------
(***************************************************************************)
(* What each handler does, from its entry to its end.                      *)
(***************************************************************************)
\* console::print, behind print! and println!.
Println == <<"serial", "screen">>

\* Mutant: the handler echoes the key it has read.
DeviceEchoes == Println \o <<"iret">>

\* The timer's and the keyboard's handler take no lock.
Device == <<"iret">>

breakpoint_handler == <<"serial", "iret">>

\* Mutant: the report goes to the screen first.
FaultOnScreen == <<"cli", "screen", "serial">> \o Println \o Println \o <<"hlt">>

general_protection_fault_handler ==
    <<"cli", "serial">> \o Println \o Println \o Println \o <<"hlt">>
page_fault_handler ==
    <<"cli", "serial">> \o Println \o Println \o Println \o Println \o <<"hlt">>
\* On a stack of its own, so that it can be entered whatever rsp is.
double_fault_handler ==
    <<"cli", "serial">> \o Println \o Println \o Println \o <<"hlt">>

\* Mutant: the panic is reported like a fault.
PanicLocks == <<"cli", "serial", "screen", "hlt">>

\* Mutant: interrupts are left on.
PanicInterruptible == <<"serial", "panic_screen", "hlt">>

panic == <<"cli", "serial", "panic_screen", "hlt">>

Reporters == {"fault", "panic"}

ConsoleInit ==
    /\ IF_flag = FALSE
    /\ stack = <<Frame("kernel", <<"serial">>)>>
    /\ SERIAL_LOCK = 0 /\ WRITER_LOCK = 0 /\ WRITER = FALSE
    /\ phase = "serial"

-----------------------------------------------------------------------------
(***************************************************************************)
(* The steps of the top frame.                                             *)
(***************************************************************************)
Done(frame) == [frame EXCEPT !.todo = Tail(@)]
Replace(frame) == stack' = [stack EXCEPT ![Depth] = frame]

LockSerial ==
    /\ Now = "serial" /\ SERIAL_LOCK = 0
    /\ SERIAL_LOCK' = Depth
    /\ UNCHANGED <<stack, WRITER_LOCK, WRITER, IF_flag, phase>>

\* Every byte is written or given up after a bounded wait; the guard drops.
WriteSerial ==
    /\ Now = "serial" /\ SERIAL_LOCK = Depth
    /\ SERIAL_LOCK' = 0
    /\ Replace([Done(Top) EXCEPT !.said = TRUE])
    /\ UNCHANGED <<WRITER_LOCK, WRITER, IF_flag, phase>>

LockWriter ==
    /\ Now \in {"screen", "setup_screen", "panic_screen"} /\ WRITER_LOCK = 0
    /\ WRITER_LOCK' = Depth
    /\ UNCHANGED <<stack, SERIAL_LOCK, WRITER, IF_flag, phase>>

\* try_lock fails, and panic_print leaves the screen alone.
SkipWriter ==
    /\ Now = "panic_screen" /\ WRITER_LOCK \notin {0, Depth}
    /\ Replace(Done(Top))
    /\ UNCHANGED <<SERIAL_LOCK, WRITER_LOCK, WRITER, IF_flag, phase>>

\* Something is drawn if there is a writer; the guard drops.
WriteScreen ==
    /\ Now \in {"screen", "setup_screen", "panic_screen"} /\ WRITER_LOCK = Depth
    /\ WRITER_LOCK' = 0
    /\ WRITER' = (WRITER \/ Now = "setup_screen")
    /\ Replace(Done(Top))
    /\ UNCHANGED <<SERIAL_LOCK, IF_flag, phase>>

SetInterrupts ==
    /\ Now \in {"cli", "sti"}
    /\ IF_flag' = (Now = "sti")
    /\ Replace(Done(Top))
    /\ UNCHANGED <<SERIAL_LOCK, WRITER_LOCK, WRITER, phase>>

\* A handler returns to the frame it cut, and to its interrupt flag.
Return ==
    /\ Now = "iret"
    /\ IF_flag' = Top.interruptible
    /\ stack' = SubSeq(stack, 1, Depth - 1)
    /\ UNCHANGED <<SERIAL_LOCK, WRITER_LOCK, WRITER, phase>>

Run == LockSerial \/ WriteSerial \/ LockWriter \/ SkipWriter \/ WriteScreen \/ SetInterrupts \/ Return

-----------------------------------------------------------------------------
(***************************************************************************)
(* The kernel's own code: bring-up, then a shell that prints.              *)
(***************************************************************************)
Idle == Depth = 1 /\ Now = "none"

Proceed(from, to, todo) ==
    /\ Idle /\ phase = from
    /\ phase' = to
    /\ Replace([Top EXCEPT !.todo = todo])
    /\ UNCHANGED <<SERIAL_LOCK, WRITER_LOCK, WRITER, IF_flag>>

\* framebuffer::init and clear; then print at will.
SetUpScreen == Proceed("serial", "screen", <<"setup_screen", "screen">>)

\* gdt::init, interrupts::init and the int3 that tries the handler.
SetUpTraps ==
    /\ Idle /\ phase = "screen"
    /\ phase' = "traps"
    /\ stack' = Append(stack, Frame("breakpoint", breakpoint_handler))
    /\ IF_flag' = FALSE
    /\ UNCHANGED <<SERIAL_LOCK, WRITER_LOCK, WRITER>>

\* interrupts::initialize_hardware, and on to shell::run.
EnableInterrupts == Proceed("traps", "shell", <<"sti">>)

\* print!, serial_print!, or framebuffer::clear or show_cursor alone.
KernelPrints ==
    /\ phase # "serial"
    /\ \E todo \in {Println, <<"serial">>, <<"screen">>} : Proceed(phase, phase, todo)

\* The shell's halt, and reboot when the reset does not come.
Halt == Proceed("shell", "halted", Println \o <<"cli", "hlt">>)

Kernel == SetUpScreen \/ SetUpTraps \/ EnableInterrupts \/ KernelPrints \/ Halt

-----------------------------------------------------------------------------
(***************************************************************************)
(* What cuts the top frame: between any two of its steps, but no longer    *)
(* once it has halted with interrupts off.                                 *)
(***************************************************************************)
Enter(frame) ==
    /\ Depth < MaxDepth
    /\ stack' = Append(stack, frame)
    /\ UNCHANGED <<SERIAL_LOCK, WRITER_LOCK, WRITER, phase>>

\* IRQ0 or IRQ1: the gate clears IF.
DeviceInterrupt ==
    /\ IF_flag
    /\ Enter(Frame("device", Device))
    /\ IF_flag' = FALSE

\* An exception, once there is an IDT: the gate clears IF.
Exception ==
    /\ phase \notin {"serial", "screen"} /\ Now # "hlt"
    /\ \E todo \in {general_protection_fault_handler, page_fault_handler, double_fault_handler} :
            Enter(Frame("fault", todo))
    /\ IF_flag' = FALSE

\* The running code panics: a failed expect, a bounds check, an overflow.
Panic ==
    /\ Now # "hlt"
    /\ Enter(Frame("panic", panic))
    /\ UNCHANGED IF_flag

Cut == DeviceInterrupt \/ Exception \/ Panic

ConsoleNext == Run \/ Kernel \/ Cut

ConsoleSpec == ConsoleInit /\ [][ConsoleNext]_console

\* The processor runs on.  Interrupts are far apart, so that a frame which
\* they keep cutting gets its turn; nothing makes faults or panics happen.
FairConsoleSpec == ConsoleSpec /\ \A d \in 1 .. MaxDepth : SF_console(Depth = d /\ Run)

-----------------------------------------------------------------------------
(***************************************************************************)
(* Properties.                                                             *)
(***************************************************************************)
Reporting(d) == Depth >= d /\ stack[d].code \in Reporters

\* Another fault or panic has hit the frame at depth d, or one above it.
Overtaken(d) == \E e \in 1 .. Depth : e > d /\ Reporting(e)

\* The report at depth d has begun, and nobody below holds the serial line.
BeginsFreely(d, codes) ==
    Depth = d /\ Top.code \in codes /\ Now = "cli" /\ SERIAL_LOCK = 0

\* A fault or panic that does not hit the holder of the serial line gets its
\* first line out there, whoever holds the screen, unless another one hits
\* on the way.
ReportComesOut ==
    \A d \in 2 .. MaxDepth :
        BeginsFreely(d, Reporters) ~> ((Depth >= d /\ stack[d].said) \/ Overtaken(d))

\* Such a panic also comes to its end, the halted processor, although it may
\* have hit the holder of the screen's lock; a fault may wait there for ever.
PanicComesToRest ==
    \A d \in 2 .. MaxDepth :
        BeginsFreely(d, {"panic"}) ~> ((Depth = d /\ Now = "hlt") \/ Overtaken(d))

\* Once a report has turned interrupts off, no device handler runs again.
ReportIsNotInterrupted ==
    [][(\E d \in 1 .. Depth : Reporting(d) /\ Head(stack[d].todo) # "cli")
         => (Depth' > Depth => stack'[Depth'].code # "device")]_console

\* A device interrupt may cut any code, holders of both locks included, and
\* always returns to it: "Device handlers never allocate or print".
DeviceHandlersReturn ==
    \A d \in 2 .. MaxDepth :
        (Depth = d /\ Top.code = "device")
            ~> (Depth < d \/ stack[d].code # "device" \/ Overtaken(d))
=============================================================================
