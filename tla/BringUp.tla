------------------------------ MODULE BringUp ------------------------------
(***************************************************************************)
(* The input path from the moment kernel_main turns to it: the set-up of   *)
(* the 8042 (keyboard.rs initialize_controller), of the PIC and of the PIT *)
(* (interrupts.rs initialize_hardware), and then the shell (InputPath).    *)
(*                                                                         *)
(* The 8042 takes its commands in its own time, or is not there at all;    *)
(* every wait of the set-up is bounded, so it may give up at any moment    *)
(* at which what it waits for has not happened.  Keys may be pressed at    *)
(* any time.  The processor has interrupts off until the set-up is over.   *)
(***************************************************************************)
EXTENDS InputPath

CONSTANT DRAIN      \* how many bytes drain_output reads at most, 32

ASSUME DrainAssumption == DRAIN \in Nat

VARIABLES
    input,          \* the 8042's input buffer, a tuple; <<>> when it is empty
    config,         \* the 8042's command byte: its bits 0, 4 and 6
    owes,           \* the 8042 has yet to answer 0x20
    reads,          \* local: bytes that drain_output has read
    command_byte,   \* local: what was read for the command byte
    ready,          \* what initialize_controller returned, FALSE before
    programmed,     \* the PIT counts as the kernel asked
    discarded,      \* history: keys the set-up threw away
    misread,        \* history: a key was taken for the command byte
    missed          \* history: IRQ1 was high when the PIC was reset, unseen

controller == <<input, config, owes>>
setup == <<reads, command_byte, ready, programmed, misread, missed>>
bringUpVars == <<vars, controller, setup, discarded>>

Reply == MaxKeys + 2    \* the answer to 0x20, in the output buffer

Config == [irq : BOOLEAN, off : BOOLEAN, set1 : BOOLEAN]
Unset == [irq |-> FALSE, off |-> FALSE, set1 |-> FALSE]
Absent == <<"absent">>  \* no 8042: its status reads as all ones

\* What the firmware may have left: any configuration, a byte in the output
\* buffer, or a machine without an 8042.
BootInit ==
    /\ context = "main" /\ pc = "disable" /\ IF_flag = FALSE
    /\ irr = {} /\ isr = {} /\ output \in {None, Silent} /\ pressed = 0
    /\ ticks = 0
    /\ Q!Init
    /\ handled = <<>>
    /\ input \in {<<>>, Absent} /\ config \in Config /\ owes = FALSE
    /\ reads = 0 /\ command_byte = Unset /\ ready = FALSE
    /\ programmed = FALSE /\ discarded = 0 /\ misread = FALSE /\ missed = FALSE

-----------------------------------------------------------------------------
(***************************************************************************)
(* The devices.                                                            *)
(***************************************************************************)

\* IRQ1 is high while there is a byte to read and interrupts are enabled.
\* The PIC latches the line when it rises.
Irq1(byte, bits) == byte # None /\ bits.irq
LatchIrq1 == irr' = IF Irq1(output', config') /\ ~ Irq1(output, config) THEN irr \cup {Keyboard} ELSE irr

\* A byte of the keyboard, if its port is not turned off.
ByteArrives ==
    /\ input # Absent /\ ~ config.off
    /\ output = None
    /\ \/ /\ pressed < MaxKeys
          /\ pressed' = pressed + 1 /\ output' = pressed + 1
       \/ /\ output' = Silent
          /\ UNCHANGED pressed
    /\ UNCHANGED <<processor, isr, ticks, fifo, handled, controller, setup, discarded>>
    /\ LatchIrq1

\* Mutant: the command byte is written back as it was read.
ConfiguredUntranslated == [command_byte EXCEPT !.irq = TRUE, !.off = FALSE]

\* (command_byte | 0x01 | 0x40) & !0x10
Configured == [command_byte EXCEPT !.irq = TRUE, !.set1 = TRUE, !.off = FALSE]

\* The 8042 takes what is in its input buffer, one thing after the other.
ControllerTakes ==
    /\ ~ owes
    /\ \/ input = <<"0xad">> /\ config' = [config EXCEPT !.off = TRUE] /\ UNCHANGED owes
       \/ input = <<"0x20">> /\ owes' = TRUE /\ UNCHANGED config
       \/ input = <<"0x60">> /\ UNCHANGED <<config, owes>>
       \/ /\ \E bits \in Config : input = <<"data", bits>> /\ config' = bits
          /\ UNCHANGED owes
       \/ input = <<"0xae">> /\ config' = [config EXCEPT !.off = FALSE] /\ UNCHANGED owes
    /\ input' = <<>>
    /\ UNCHANGED <<processor, isr, output, pressed, ticks, fifo, handled, setup, discarded>>
    /\ LatchIrq1

ControllerAnswers ==
    /\ owes /\ output = None
    /\ owes' = FALSE /\ output' = Reply
    /\ UNCHANGED <<processor, isr, pressed, ticks, fifo, handled, input, config, setup, discarded>>
    /\ LatchIrq1

-----------------------------------------------------------------------------
(***************************************************************************)
(* initialize_controller.                                                  *)
(***************************************************************************)
GiveUp == pc' = "pic" /\ ready' = FALSE

\* Mutant: waits as long as it takes.
WriteWhenEmptyPatient(from, value, to) ==
    /\ pc = from
    /\ input = <<>> /\ input' = value /\ pc' = to /\ ready' = (to = "pic")
    /\ UNCHANGED <<context, IF_flag, irr, isr, output, pressed, ticks, fifo, handled>>
    /\ UNCHANGED <<config, owes, reads, command_byte, programmed, misread, missed, discarded>>

\* wait_for_input_empty and a write, or return false.  With the last write
\* the 8042 is ready.
WriteWhenEmpty(from, value, to) ==
    /\ pc = from
    /\ \/ input = <<>> /\ input' = value /\ pc' = to /\ ready' = (to = "pic")
       \/ input # <<>> /\ GiveUp /\ UNCHANGED input
    /\ UNCHANGED <<context, IF_flag, irr, isr, output, pressed, ticks, fifo, handled>>
    /\ UNCHANGED <<config, owes, reads, command_byte, programmed, misread, missed, discarded>>

\* read_data by the set-up: the byte is not a key for the shell any more.
Discard ==
    /\ output' = None
    /\ discarded' = IF output \in Key THEN discarded + 1 ELSE discarded

drain_output ==
    /\ pc = "drain"
    /\ \/ /\ output = None \/ reads = DRAIN
          /\ pc' = "ask" /\ UNCHANGED <<output, reads, discarded>>
       \/ /\ output # None /\ reads < DRAIN
          /\ Discard /\ reads' = reads + 1 /\ UNCHANGED pc
    /\ UNCHANGED <<context, IF_flag, irr, isr, pressed, ticks, fifo, handled>>
    /\ UNCHANGED <<controller, command_byte, ready, programmed, misread, missed>>

\* Mutant: the answer is read without waiting for it.
ReadCommandByteAtOnce ==
    /\ pc = "answer" /\ pc' = "announce"
    /\ Discard
    /\ command_byte' \in IF output = Reply THEN {config} ELSE Config
    /\ misread' = (output \notin {None, Reply})
    /\ UNCHANGED <<context, IF_flag, irr, isr, pressed, ticks, fifo, handled>>
    /\ UNCHANGED <<controller, reads, ready, programmed, missed>>

\* wait_for_output_full and read_data.  A byte of the keyboard that came
\* behind drain_output is taken for the command byte, whatever its bits.
ReadCommandByte ==
    /\ pc = "answer"
    /\ \/ /\ output # None
          /\ Discard /\ pc' = "announce" /\ UNCHANGED ready
          /\ command_byte' \in IF output = Reply THEN {config} ELSE Config
          /\ misread' = (output # Reply)
       \/ /\ output = None
          /\ GiveUp /\ UNCHANGED <<output, command_byte, misread, discarded>>
    /\ UNCHANGED <<context, IF_flag, irr, isr, pressed, ticks, fifo, handled>>
    /\ UNCHANGED <<controller, reads, programmed, missed>>

initialize_controller ==
    \/ WriteWhenEmpty("disable", <<"0xad">>, "drain")
    \/ drain_output
    \/ WriteWhenEmpty("ask", <<"0x20">>, "answer")
    \/ ReadCommandByte
    \/ WriteWhenEmpty("announce", <<"0x60">>, "configure")
    \/ WriteWhenEmpty("configure", <<"data", Configured>>, "enable")
    \/ WriteWhenEmpty("enable", <<"0xae">>, "pic")

(***************************************************************************)
(* initialize_hardware.                                                    *)
(***************************************************************************)

\* The first initialization word forgets requests, lines in service and the
\* edges seen so far; the masks for all but IRQ0 and IRQ1 follow.  A line that
\* is high already has to rise again on an 8259; some stand-ins see it at
\* once.  The locals of initialize_controller are gone by now.
pic_initialize ==
    /\ pc = "pic" /\ pc' = "pit"
    /\ irr' \in IF Irq1(output, config) THEN {{}, {Keyboard}} ELSE {{}}
    /\ isr' = {}
    /\ missed' = (Irq1(output, config) /\ irr' = {})
    /\ reads' = 0 /\ command_byte' = Unset
    /\ UNCHANGED <<context, IF_flag, output, pressed, ticks, fifo, handled>>
    /\ UNCHANGED <<controller, ready, programmed, misread, discarded>>

timer_initialize ==
    /\ pc = "pit" /\ pc' = "enable_interrupts"
    /\ programmed' = TRUE
    /\ UNCHANGED <<context, IF_flag, irr, isr, output, pressed, ticks, fifo, handled>>
    /\ UNCHANGED <<controller, reads, command_byte, ready, misread, missed, discarded>>

EnableInterrupts ==
    /\ pc = "enable_interrupts" /\ pc' = "poll"
    /\ IF_flag' = TRUE
    /\ UNCHANGED <<context, irr, isr, output, pressed, ticks, fifo, handled>>
    /\ UNCHANGED <<controller, setup, discarded>>

SetUp == initialize_controller \/ pic_initialize \/ timer_initialize \/ EnableInterrupts

-----------------------------------------------------------------------------
\* The handler reads an answer that came too late.  It decodes it like any
\* byte: to nothing, or to an event nobody typed, which then counts as the
\* next key.
ReadLateAnswer ==
    /\ context = "keyboard" /\ offered = None
    /\ output = Reply /\ output' = None
    /\ \/ /\ pressed < MaxKeys /\ pressed' = pressed + 1
          /\ Q!Offer(pressed + 1)
          /\ UNCHANGED <<context, IF_flag, isr>>
       \/ /\ EndOfInterrupt /\ Return
          /\ UNCHANGED <<fifo, pressed>>
    /\ UNCHANGED <<pc, irr, ticks, handled, controller, setup, discarded>>

\* The steps of InputPath, which leave the set-up alone.
Unaffected == UNCHANGED <<controller, setup, discarded>>
Pit == PitFires /\ Unaffected
DeliverTimer == TimerInterrupt /\ Unaffected
DeliverKeyboard == KeyboardInterrupt /\ Unaffected
Tick == timer_interrupt_handler /\ Unaffected
Scancode == ReadLateAnswer \/ (KeyboardHandler /\ Unaffected)
Shell == Main /\ Unaffected

BootNext ==
    \/ Pit \/ ByteArrives \/ ControllerTakes \/ ControllerAnswers
    \/ SetUp
    \/ DeliverTimer \/ DeliverKeyboard \/ Tick \/ Scancode \/ Shell

\* As in InputPath; the set-up runs on, the programmed PIT fires, and
\* nothing is assumed of the 8042.
BootFairness ==
    /\ WF_bringUpVars(SetUp)
    /\ WF_bringUpVars(programmed /\ Pit)
    /\ WF_bringUpVars(Tick)
    /\ WF_bringUpVars(Scancode)
    /\ SF_bringUpVars(DeliverTimer)
    /\ SF_bringUpVars(DeliverKeyboard)
    /\ SF_bringUpVars(Shell)
    /\ TicksAreFarApart

BootSpec == BootInit /\ [][BootNext]_bringUpVars
FairBootSpec == BootSpec /\ BootFairness

-----------------------------------------------------------------------------
(***************************************************************************)
(* Properties.                                                             *)
(***************************************************************************)

\* From the first instruction of the set-up on, and wherever interrupts cut
\* the loop: keys are handled in the order they were pressed, none twice,
\* and every key that is missing was thrown away by the set-up or counted in
\* dropped.
KeysAccountedFor ==
    /\ \A i, j \in 1 .. Len(OnTheWay) : i < j => OnTheWay[i] < OnTheWay[j]
    /\ Len(OnTheWay) + dropped + discarded = pressed

\* If initialize_controller returns true, the port is on, its bytes are
\* translated to set 1 and interrupt, although the 8042 takes its commands
\* late and a key may have been read in place of the command byte.
ReadyMeansReady == ready => config = [irq |-> TRUE, off |-> FALSE, set1 |-> TRUE]

\* The interrupt handler takes the 8042's answer for a key only if
\* initialize_controller gave up waiting for it, or had itself taken a key
\* for the answer.
AnswerIsNotAKey == context = "keyboard" /\ output = Reply => ~ ready \/ misread

\* initialize_controller's comment: false "rather than spinning forever on a
\* USB-only laptop".  The shell is reached, whatever the 8042 does.
ShellIsReached == <>(pc = "poll")

\* The keyboard interrupts nobody: its interrupt is off, or a byte already
\* waited in the output buffer when the 8259 was reset, and the line cannot
\* rise again before somebody reads it.
Deaf == missed \/ ~ config.irq

\* Every key press is handled, dropped or thrown away by the set-up, also one
\* between the last poll and hlt, unless the machine stops or the keyboard
\* was left deaf.
KeyIsSettled ==
    \A k \in Key :
        (pressed = k) ~> \/ \A i \in 1 .. Len(OnTheWay) : OnTheWay[i] = k => i <= Len(handled)
                         \/ pc = "stopped" \/ Deaf
=============================================================================
