---------------------------- MODULE LineEditor -----------------------------
(***************************************************************************)
(* The shell's line editor and command history (shell.rs run, redraw and   *)
(* CommandHistory), on the fixed arrays the code uses: bytes beyond a      *)
(* length are left over from earlier lines, and the history is a ring.     *)
(* What redraw leaves on the screen's row is modelled beside them.         *)
(***************************************************************************)
EXTENDS Naturals, Sequences

CONSTANTS
    Char,               \* bytes KeyEvent::Character carries
    Space,              \* b' '
    Zero,               \* the byte 0 the arrays start with
    None,               \* Option::None of a history position
    LINE_CAPACITY,
    HISTORY_CAPACITY,
    TabWidth            \* 4 in the code

ASSUME EditorAssumption ==
    /\ Space \in Char /\ Zero \notin Char /\ None \notin Nat
    /\ LINE_CAPACITY \in Nat \ {0} /\ HISTORY_CAPACITY \in Nat \ {0}
    /\ TabWidth \in Nat \ {0}

VARIABLES
    line, length, cursor,            \* the line being edited
    displayed_length,                \* how much of the row redraw has filled
    entries, lengths, count, next,   \* CommandHistory
    history_position,                \* Some(position), or None
    draft, draft_length,             \* the line a walk through history left
    executed,                        \* history: the latest line given to execute
    row, column                      \* the screen: the row after "sol> ", the cursor

Columns == 0 .. LINE_CAPACITY - 1
Line == [Columns -> Char \cup {Zero}]
Ring == 0 .. HISTORY_CAPACITY - 1

history == <<entries, lengths, count, next>>
drafted == <<draft, draft_length>>
screen == <<displayed_length, row, column>>
vars == <<line, length, cursor, history, history_position, drafted, executed, screen>>

Init ==
    /\ line = [i \in Columns |-> Zero] /\ length = 0 /\ cursor = 0
    /\ entries = [n \in Ring |-> [i \in Columns |-> Zero]]
    /\ lengths = [n \in Ring |-> 0] /\ count = 0 /\ next = 0
    /\ history_position = None
    /\ draft = [i \in Columns |-> Zero] /\ draft_length = 0
    /\ executed = <<>>
    /\ displayed_length = 0 /\ row = [i \in Columns |-> Space] /\ column = 0

-----------------------------------------------------------------------------
\* a.copy_within(from .. to, dest)
copy_within(a, from, to, dest) ==
    [i \in Columns |-> IF i >= dest /\ i < dest + to - from THEN a[i + from - dest] ELSE a[i]]

\* a[.. n].copy_from_slice(&b[.. n])
copy_prefix(a, b, n) == [i \in Columns |-> IF i < n THEN b[i] ELSE a[i]]

\* &a[.. n]
slice(a, n) == [i \in 1 .. n |-> a[i - 1]]

\* Mutant: what the row still shows beyond the new line is not blanked.
redraw_short ==
    /\ row' = [i \in Columns |-> IF i < length' THEN line'[i] ELSE row[i]]
    /\ column' = cursor'
    /\ displayed_length' = length'

\* redraw: the line from the prompt on, blanks over what was longer before,
\* and the line again up to the cursor.
redraw ==
    /\ row' = [i \in Columns |-> IF i < length' THEN line'[i]
                                 ELSE IF i < displayed_length THEN Space ELSE row[i]]
    /\ column' = cursor'
    /\ displayed_length' = length'

leave_history == history_position' = None

(***************************************************************************)
(* CommandHistory                                                          *)
(***************************************************************************)
newest == (next + HISTORY_CAPACITY - 1) % HISTORY_CAPACITY

Index(position) == (next + HISTORY_CAPACITY - 1 - position) % HISTORY_CAPACITY

\* push: blank lines and a repetition of the newest line are not stored.
push(input, n) ==
    IF \/ \A i \in 0 .. n - 1 : input[i] = Space
       \/ count > 0 /\ lengths[newest] = n /\ slice(entries[newest], n) = slice(input, n)
    THEN UNCHANGED history
    ELSE /\ entries' = [entries EXCEPT ![next] = copy_prefix(entries[next], input, n)]
         /\ lengths' = [lengths EXCEPT ![next] = n]
         /\ next' = (next + 1) % HISTORY_CAPACITY
         /\ count' = IF count < HISTORY_CAPACITY THEN count + 1 ELSE count

\* copy_into: the entry over the line, whose rest stays.
copy_into(position) ==
    /\ length' = lengths[Index(position)]
    /\ line' = copy_prefix(line, entries[Index(position)], lengths[Index(position)])

-----------------------------------------------------------------------------
(***************************************************************************)
(* The events of the shell's loop.                                         *)
(***************************************************************************)

\* println, history.push, execute, and a prompt on a fresh row.
Enter ==
    /\ push(line, length)
    /\ executed' = slice(line, length)
    /\ length' = 0 /\ cursor' = 0
    /\ displayed_length' = 0
    /\ row' = [i \in Columns |-> Space] /\ column' = 0
    /\ leave_history
    /\ UNCHANGED <<line, drafted>>

Backspace ==
    /\ cursor > 0
    /\ line' = copy_within(line, cursor, length, cursor - 1)
    /\ length' = length - 1
    /\ cursor' = cursor - 1
    /\ leave_history /\ redraw
    /\ UNCHANGED <<history, drafted, executed>>

Delete ==
    /\ cursor < length
    /\ line' = copy_within(line, cursor + 1, length, cursor)
    /\ length' = length - 1
    /\ cursor' = cursor
    /\ leave_history /\ redraw
    /\ UNCHANGED <<history, drafted, executed>>

\* Tab and Character: n copies of a byte before the cursor.
Insert(byte, n) ==
    /\ length + n <= LINE_CAPACITY
    /\ line' = [i \in Columns |-> IF i >= cursor /\ i < cursor + n THEN byte
                                  ELSE copy_within(line, cursor, length, cursor + n)[i]]
    /\ length' = length + n
    /\ cursor' = cursor + n
    /\ leave_history /\ redraw
    /\ UNCHANGED <<history, drafted, executed>>

Tab == Insert(Space, TabWidth)
Character(byte) == Insert(byte, 1)

MoveTo(position) ==
    /\ cursor' = position
    /\ UNCHANGED <<line, length, history, history_position, drafted, executed>>
    /\ redraw

Left == cursor > 0 /\ MoveTo(cursor - 1)
Right == cursor < length /\ MoveTo(cursor + 1)
Home == MoveTo(0)
End == MoveTo(length)

\* Mutant: every step back saves the line, not only the first.
UpSavesAlways ==
    /\ count > 0
    /\ draft' = copy_prefix(draft, line, length)
    /\ draft_length' = length
    /\ history_position' = IF history_position = None THEN 0
                           ELSE IF history_position + 1 < count
                           THEN history_position + 1 ELSE history_position
    /\ copy_into(history_position')
    /\ cursor' = length'
    /\ redraw
    /\ UNCHANGED <<history, executed>>

\* history.previous: one entry further back, or the oldest again; leaving
\* the line being edited saves it in draft.
Up ==
    /\ count > 0
    /\ \/ /\ history_position = None
          /\ draft' = copy_prefix(draft, line, length)
          /\ draft_length' = length
          /\ history_position' = 0
       \/ /\ history_position # None
          /\ history_position' = IF history_position + 1 < count
                                 THEN history_position + 1 ELSE history_position
          /\ UNCHANGED drafted
    /\ copy_into(history_position')
    /\ cursor' = length'
    /\ redraw
    /\ UNCHANGED <<history, executed>>

\* history.next: one entry forward, or back to the draft.
Down ==
    /\ history_position # None
    /\ \/ /\ history_position > 0
          /\ history_position' = history_position - 1
          /\ copy_into(history_position - 1)
       \/ /\ history_position = 0
          /\ history_position' = None
          /\ line' = copy_prefix(line, draft, draft_length)
          /\ length' = draft_length
    /\ cursor' = length'
    /\ redraw
    /\ UNCHANGED <<history, drafted, executed>>

Next ==
    \/ Enter \/ Backspace \/ Delete \/ Tab
    \/ \E byte \in Char : Character(byte)
    \/ Left \/ Right \/ Home \/ End
    \/ Up \/ Down

Spec == Init /\ [][Next]_vars

-----------------------------------------------------------------------------
(***************************************************************************)
(* Properties.                                                             *)
(***************************************************************************)

\* Every variable keeps its type: no index the editor or the history uses
\* leaves its array, and a position points at a stored entry.
TypeOK ==
    /\ line \in Line /\ length \in 0 .. LINE_CAPACITY /\ cursor \in 0 .. length
    /\ entries \in [Ring -> Line] /\ lengths \in [Ring -> 0 .. LINE_CAPACITY]
    /\ count \in 0 .. HISTORY_CAPACITY /\ next \in Ring
    /\ history_position \in {None} \cup 0 .. count - 1
    /\ draft \in Line /\ draft_length \in 0 .. LINE_CAPACITY
    /\ executed \in Seq(Char)
    /\ displayed_length \in 0 .. LINE_CAPACITY
    /\ row \in [Columns -> Char] /\ column \in 0 .. LINE_CAPACITY

\* What is on the screen is what Enter will run: after every event the row
\* shows the line and blanks behind it, with the cursor at its place,
\* whatever longer lines were shown on it before.
ScreenShowsLine ==
    /\ row = [i \in Columns |-> IF i < length THEN line[i] ELSE Space]
    /\ column = cursor

(***************************************************************************)
(* The editor implements EditSession.  A draft counts while an entry is    *)
(* visited; the bytes behind every length are invisible.                   *)
(***************************************************************************)
Session == INSTANCE EditSession WITH
    text       <- slice(line, length),
    caret      <- cursor,
    past       <- [p \in 1 .. count |-> slice(entries[Index(p - 1)], lengths[Index(p - 1)])],
    visiting   <- IF history_position = None THEN 0 ELSE history_position + 1,
    kept       <- IF history_position = None THEN <<>> ELSE slice(draft, draft_length),
    command    <- executed,
    Capacity   <- LINE_CAPACITY,
    Remembered <- HISTORY_CAPACITY

\* Editing in place, stale bytes and the wrapping history ring never show:
\* the shell behaves as an editor of plain texts with a list of past lines.
ImplementsEditSession == Session!Spec
=============================================================================
