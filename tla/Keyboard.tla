----------------------------- MODULE Keyboard ------------------------------
(***************************************************************************)
(* Decoding the keyboard's bytes (keyboard.rs handle_scancode and its      *)
(* tables), one byte per IRQ1, beside the keyboard that sends them.        *)
(*                                                                         *)
(* The decoder sees bytes and remembers three bits between interrupts.     *)
(* The person typing sees keys going down and up.  A key is the scancode   *)
(* of its press; an extended key is that code behind an E0 prefix.  What   *)
(* a table maps a code to is one to one, so a character is named by its    *)
(* code and by whether it is the shifted or the upper-case one.            *)
(***************************************************************************)
EXTENDS Naturals, Sequences

CONSTANTS
    Plain,       \* plain keys of the keyboard, by scancode
    Extended,    \* keys with an E0 prefix, by scancode
    WireBound    \* bytes waiting before the keyboard stops scanning keys

LeftShift == \h2a
RightShift == \h36
CapsLock == \h3a
PREFIX == \he0
Break == \h80      \* the bit a release adds to a code
Shifts == {LeftShift, RightShift}

ASSUME KeysAssumption ==
    /\ Plain \subseteq 1 .. \h58 /\ Extended \subseteq 1 .. \h58
    /\ Extended \cap Shifts = {}
    /\ WireBound \in Nat

VARIABLES
    SHIFT, CAPS_LOCK,     \* MODIFIERS
    EXTENDED_PREFIX,
    pushed,               \* the event the latest byte pushed, or NoEvent
    \* the keyboard and the 8042
    held,                 \* keys that are down
    lit,                  \* Caps Lock, counted in presses of its key
    repeats,              \* the key that repeats while it is held, or 0
    wire,                 \* bytes sent and not handled yet
    \* history
    owed,                 \* events of the keys typed whose bytes are on the wire
    ambiguous             \* both Shifts were held at once, or Caps Lock repeated

decoder == <<SHIFT, CAPS_LOCK, EXTENDED_PREFIX, pushed>>
keys == <<held, lit, repeats>>
keyboard == <<decoder, keys, wire, owed, ambiguous>>

NoEvent == <<>>

KeyboardInit ==
    /\ SHIFT = FALSE /\ CAPS_LOCK = FALSE /\ EXTENDED_PREFIX = FALSE
    /\ pushed = NoEvent
    /\ held = {} /\ lit = FALSE /\ repeats = 0
    /\ wire = <<>> /\ owed = <<>> /\ ambiguous = FALSE

-----------------------------------------------------------------------------
(***************************************************************************)
(* The tables.                                                             *)
(***************************************************************************)
SymbolCodes == \h02 .. \h0d \cup {\h1a, \h1b, \h2b} \cup \h27 .. \h29 \cup \h33 .. \h35
EditCodes == {\h0e, \h0f, \h1c, \h39}    \* Backspace, Tab, Enter, space
LetterCodes == \h10 .. \h19 \cup \h1e .. \h26 \cup \h2c .. \h32
MoveCodes == {\h47, \h48, \h4b, \h4d, \h4f, \h50, \h53}

extended_event_for_set_1(code) ==
    IF code \in MoveCodes THEN <<"move", code>> ELSE NoEvent

letter_for_set_1(code, uppercase) ==
    IF code \in LetterCodes THEN <<"letter", code, uppercase>> ELSE NoEvent

ascii_for_set_1(code, shift, caps_lock) ==
    CASE code \in SymbolCodes -> <<"symbol", code, shift>>
      [] code \in EditCodes -> <<"edit", code>>
      [] OTHER -> letter_for_set_1(code, shift # caps_lock)

-----------------------------------------------------------------------------
(***************************************************************************)
(* The decoder: handle_scancode for one byte.                              *)
(***************************************************************************)

\* Mutant: modifiers are matched before the prefix is looked at.
HandleModifiersFirst(byte) ==
    /\ SHIFT' = IF byte \in Shifts THEN TRUE
                ELSE IF byte - Break \in Shifts THEN FALSE ELSE SHIFT
    /\ CAPS_LOCK' = IF byte = CapsLock THEN ~ CAPS_LOCK ELSE CAPS_LOCK
    /\ EXTENDED_PREFIX' = (byte = PREFIX)
    /\ pushed' = IF byte >= Break THEN NoEvent
                 ELSE IF EXTENDED_PREFIX THEN extended_event_for_set_1(byte)
                 ELSE ascii_for_set_1(byte, SHIFT, CAPS_LOCK)

\* Mutant: the prefix is read and not cleared.
HandleKeepsPrefix(byte) ==
    /\ EXTENDED_PREFIX' = (EXTENDED_PREFIX \/ byte = PREFIX)
    /\ SHIFT' = IF EXTENDED_PREFIX THEN SHIFT
                ELSE IF byte \in Shifts THEN TRUE
                ELSE IF byte - Break \in Shifts THEN FALSE ELSE SHIFT
    /\ CAPS_LOCK' = IF ~ EXTENDED_PREFIX /\ byte = CapsLock THEN ~ CAPS_LOCK ELSE CAPS_LOCK
    /\ pushed' = IF byte >= Break THEN NoEvent
                 ELSE IF EXTENDED_PREFIX THEN extended_event_for_set_1(byte)
                 ELSE ascii_for_set_1(byte, SHIFT, CAPS_LOCK)

\* Mutant: only the left Shift's release is known.
HandleLeftReleaseOnly(byte) ==
    /\ EXTENDED_PREFIX' = (byte = PREFIX)
    /\ SHIFT' = IF EXTENDED_PREFIX THEN SHIFT
                ELSE IF byte \in Shifts THEN TRUE
                ELSE IF byte = LeftShift + Break THEN FALSE ELSE SHIFT
    /\ CAPS_LOCK' = IF ~ EXTENDED_PREFIX /\ byte = CapsLock THEN ~ CAPS_LOCK ELSE CAPS_LOCK
    /\ pushed' = IF byte >= Break THEN NoEvent
                 ELSE IF EXTENDED_PREFIX THEN extended_event_for_set_1(byte)
                 ELSE ascii_for_set_1(byte, SHIFT, CAPS_LOCK)

handle_scancode(byte) ==
    \/ /\ byte = PREFIX
       /\ EXTENDED_PREFIX' = TRUE
       /\ pushed' = NoEvent
       /\ UNCHANGED <<SHIFT, CAPS_LOCK>>
    \/ /\ byte # PREFIX /\ EXTENDED_PREFIX
       /\ EXTENDED_PREFIX' = FALSE
       /\ pushed' = IF byte < Break THEN extended_event_for_set_1(byte) ELSE NoEvent
       /\ UNCHANGED <<SHIFT, CAPS_LOCK>>
    \/ /\ byte # PREFIX /\ ~ EXTENDED_PREFIX
       /\ SHIFT' = IF byte \in Shifts THEN TRUE
                   ELSE IF byte \in {LeftShift + Break, RightShift + Break} THEN FALSE
                   ELSE SHIFT
       /\ CAPS_LOCK' = IF byte = CapsLock THEN ~ CAPS_LOCK ELSE CAPS_LOCK
       /\ pushed' = IF byte \in Shifts \cup {CapsLock} \/ byte >= Break THEN NoEvent
                    ELSE ascii_for_set_1(byte, SHIFT, CAPS_LOCK)
       /\ UNCHANGED EXTENDED_PREFIX

\* IRQ1: the oldest byte is decoded; the event it makes is no longer owed.
Interrupt ==
    /\ wire # <<>>
    /\ handle_scancode(Head(wire))
    /\ wire' = Tail(wire)
    /\ owed' = IF pushed' # NoEvent /\ owed # <<>> THEN Tail(owed) ELSE owed
    /\ UNCHANGED <<keys, ambiguous>>

-----------------------------------------------------------------------------
(***************************************************************************)
(* The keyboard, which is not part of the repository.  While an extended   *)
(* key is down it hides a held Shift, with a release before the key and a  *)
(* press behind its release, each after a prefix.                          *)
(***************************************************************************)
ExtendedKey(code) == code + 256     \* an extended key, told from the plain one
Code(key) == key - 256
Key == Plain \cup {ExtendedKey(code) : code \in Extended}
NoKey == 0

\* What is sent for each Shift that is down, the left one first.
ForHeldShifts(left, right) ==
    (IF LeftShift \in held THEN <<PREFIX, left>> ELSE <<>>)
    \o (IF RightShift \in held THEN <<PREFIX, right>> ELSE <<>>)

FakeReleases == ForHeldShifts(LeftShift + Break, RightShift + Break)
FakePresses == ForHeldShifts(LeftShift, RightShift)

Send(bytes) ==
    /\ Len(wire) <= WireBound
    /\ wire' = wire \o bytes

\* What the person means by a key: its event under the Shift keys that are
\* down and Caps Lock as often as it was pressed.
Meant(key) ==
    IF key \in Shifts \cup {CapsLock} THEN NoEvent
    ELSE IF key \in Plain THEN ascii_for_set_1(key, held \cap Shifts # {}, lit)
    ELSE extended_event_for_set_1(Code(key))

Owe(event) == owed' = IF event = NoEvent \/ ambiguous' THEN owed ELSE Append(owed, event)

Press(key) ==
    /\ key \notin held
    /\ held' = held \cup {key}
    /\ lit' = IF key = CapsLock THEN ~ lit ELSE lit
    /\ repeats' = key
    /\ ambiguous' = (ambiguous \/ Shifts \subseteq held')
    /\ Send(IF key \in Plain THEN <<key>> ELSE FakeReleases \o <<PREFIX, Code(key)>>)
    /\ Owe(Meant(key))
    /\ UNCHANGED decoder

Release(key) ==
    /\ key \in held
    /\ held' = held \ {key}
    /\ repeats' = IF repeats = key THEN NoKey ELSE repeats
    /\ Send(IF key \in Plain THEN <<key + Break>>
            ELSE <<PREFIX, Code(key) + Break>> \o FakePresses)
    /\ UNCHANGED <<decoder, lit, owed, ambiguous>>

\* The key pressed last repeats until it is released or another is pressed.
Repeat ==
    /\ repeats # NoKey
    /\ ambiguous' = (ambiguous \/ repeats = CapsLock)
    /\ Send(IF repeats \in Plain THEN <<repeats>> ELSE <<PREFIX, Code(repeats)>>)
    /\ Owe(Meant(repeats))
    /\ UNCHANGED <<decoder, keys>>

KeyboardNext ==
    \/ Interrupt
    \/ \E key \in Key : Press(key) \/ Release(key)
    \/ Repeat

KeyboardSpec == KeyboardInit /\ [][KeyboardNext]_keyboard

-----------------------------------------------------------------------------
(***************************************************************************)
(* Properties.                                                             *)
(***************************************************************************)

\* handle_scancode pushes what was typed, in the order it was typed, however
\* far the interrupts lag behind the keys: Shift and Caps Lock as they were
\* when the key went down, hidden Shifts around extended keys ignored.  Two
\* Shifts at once and a repeating Caps Lock are the exceptions.
DecodesWhatIsTyped ==
    [][Len(wire') < Len(wire) /\ pushed' # NoEvent /\ ~ ambiguous
         => owed # <<>> /\ pushed' = Head(owed)]_keyboard

\* Once every byte is handled, every key typed has made its event.
NothingIsOwed == wire = <<>> /\ ~ ambiguous => owed = <<>>

\* Once every byte is handled, the decoder remembers nothing it should not:
\* no prefix waits for a code, SHIFT is off when no Shift is down - both
\* Shifts at once included - and, as long as nothing was ambiguous, it is on
\* when one is and CAPS_LOCK is what the key presses made it.
DecoderSettles ==
    wire = <<>> =>
        /\ ~ EXTENDED_PREFIX
        /\ held \cap Shifts = {} => ~ SHIFT
        /\ ~ ambiguous => SHIFT = (held \cap Shifts # {}) /\ CAPS_LOCK = lit
=============================================================================
