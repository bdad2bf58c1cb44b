------------------------- MODULE LineEditor_proofs -------------------------
(***************************************************************************)
(* Proofs about the line editor, for every capacity of the line and of the *)
(* history, every width of a tab and every set of characters.              *)
(***************************************************************************)
EXTENDS LineEditor, SequenceTheorems, TLAPS

(***************************************************************************)
(* Arrays.                                                                 *)
(***************************************************************************)

\* The first n bytes of array a have been typed; the others may be left
\* over, or zero.
Clean(a, n) ==
    /\ a \in Line /\ n \in 0 .. LINE_CAPACITY
    /\ \A i \in Columns : i < n => a[i] \in Char

\* copy_from_slice over the beginning.
LEMMA CleanPrefix ==
    ASSUME NEW a \in Line, NEW b, NEW n, Clean(b, n)
    PROVE  Clean(copy_prefix(a, b, n), n)
  BY EditorAssumption DEF Clean, copy_prefix, Line, Columns

\* copy_within takes a byte out of the line.
LEMMA CleanRemove ==
    ASSUME NEW a, NEW n, Clean(a, n), NEW from \in 1 .. n
    PROVE  Clean(copy_within(a, from, n, from - 1), n - 1)
  BY EditorAssumption DEF Clean, copy_within, Line, Columns

\* copy_within makes room and the bytes are filled in.
LEMMA CleanInsert ==
    ASSUME NEW a, NEW n, Clean(a, n), NEW at \in 0 .. n, NEW k \in Nat, n + k <= LINE_CAPACITY,
           NEW byte \in Char
    PROVE  Clean([i \in Columns |-> IF i >= at /\ i < at + k THEN byte
                                    ELSE copy_within(a, at, n, at + k)[i]], n + k)
<1> DEFINE w == copy_within(a, at, n, at + k)
           f == [i \in Columns |-> IF i >= at /\ i < at + k THEN byte ELSE w[i]]
<1>1. n \in Nat /\ LINE_CAPACITY \in Nat /\ n <= LINE_CAPACITY /\ a \in [Columns -> Char \cup {Zero}]
  BY EditorAssumption DEF Clean, Line
<1>2. ASSUME NEW i \in Columns
      PROVE  /\ w[i] \in Char \cup {Zero}
             /\ i < n + k /\ ~ (i >= at /\ i < at + k) => w[i] \in Char
  <2>1. w[i] = IF i >= at + k /\ i < at + k + n - at THEN a[i + at - (at + k)] ELSE a[i]
    BY DEF copy_within
  <2>2. CASE i >= at + k /\ i < at + k + n - at
    <3>1. i + at - (at + k) \in Columns /\ i + at - (at + k) < n
      BY <1>1, <2>2 DEF Columns
    <3> QED
      BY <2>1, <2>2, <3>1 DEF Clean, Line
  <2>3. CASE ~ (i >= at + k /\ i < at + k + n - at)
    <3>1. i < n + k /\ ~ (i >= at /\ i < at + k) => i < n
      BY <1>1, <2>3 DEF Columns
    <3> QED
      BY <2>1, <2>3, <3>1 DEF Clean, Line
  <2> QED
    BY <2>2, <2>3
<1> HIDE DEF w
<1>3. f \in Line
  BY <1>2 DEF Line
<1>4. \A i \in Columns : i < n + k => f[i] \in Char
  BY <1>2
<1>5. n + k \in 0 .. LINE_CAPACITY
  BY <1>1
<1> QED
  BY <1>3, <1>4, <1>5 DEF Clean, w

\* A slice of what has been typed is a text.
LEMMA CleanSlice ==
    ASSUME NEW a, NEW n, Clean(a, n)
    PROVE  slice(a, n) \in Seq(Char)
<1>1. n \in Nat /\ \A i \in 1 .. n : a[i - 1] \in Char
  BY EditorAssumption DEF Clean, Columns
<1>2. slice(a, n) \in [1 .. n -> Char]
  BY <1>1 DEF slice
<1> QED
  BY <1>1, <1>2

(***************************************************************************)
(* The inductive invariant.                                                *)
(***************************************************************************)
EInv ==
    /\ Clean(line, length) /\ cursor \in 0 .. length
    /\ entries \in [Ring -> Line] /\ lengths \in [Ring -> 0 .. LINE_CAPACITY]
    /\ \A n \in Ring : Clean(entries[n], lengths[n])
    /\ count \in 0 .. HISTORY_CAPACITY /\ next \in Ring
    /\ history_position \in {None} \cup 0 .. count - 1
    /\ Clean(draft, draft_length)
    /\ executed \in Seq(Char)
    /\ displayed_length = length /\ ScreenShowsLine

\* redraw puts the new line on the screen, whatever was there before.
LEMMA RedrawShows ==
    ASSUME EInv, redraw, Clean(line', length')
    PROVE  displayed_length' = length' /\ ScreenShowsLine'
<1>1. /\ length \in Nat /\ length' \in Nat
      /\ row = [i \in Columns |-> IF i < length THEN line[i] ELSE Space] /\ displayed_length = length
  BY EditorAssumption DEF EInv, Clean, ScreenShowsLine
<1>2. /\ column' = cursor' /\ displayed_length' = length'
      /\ row' = [i \in Columns |-> IF i < length' THEN line'[i]
                                   ELSE IF i < displayed_length THEN Space ELSE row[i]]
  BY DEF redraw
<1>3. row' = [i \in Columns |-> IF i < length' THEN line'[i] ELSE Space]
  BY <1>1, <1>2
<1> QED
  BY <1>2, <1>3 DEF ScreenShowsLine

\* An editing step that leaves history alone.
LEMMA EditingKeeps ==
    ASSUME EInv, redraw, Clean(line', length'), cursor' \in 0 .. length',
           UNCHANGED <<history, drafted, executed>>,
           history_position' \in {None, history_position}
    PROVE  EInv'
<1>1. /\ entries' = entries /\ lengths' = lengths /\ count' = count /\ next' = next
      /\ draft' = draft /\ draft_length' = draft_length /\ executed' = executed
  BY DEF history, drafted
<1>2. displayed_length' = length' /\ ScreenShowsLine'
  BY RedrawShows
<1> QED
  BY <1>1, <1>2 DEF EInv, Clean

(***************************************************************************)
(* The ring of the history.                                                *)
(***************************************************************************)

\* A remainder without division.
LEMMA Wrapped ==
    ASSUME NEW m \in Nat \ {0}, NEW x \in 0 .. 2 * m - 1
    PROVE  x % m = IF x < m THEN x ELSE x - m
<1>1. CASE x < m
  BY <1>1
<1>2. CASE ~ (x < m)
  <2>1. x - m \in 0 .. m - 1 /\ x = m + (x - m)
    BY <1>2
  <2> DEFINE y == x - m
  <2>2. y \in 0 .. m - 1 /\ x = m + y
    BY <2>1
  <2> HIDE DEF y
  <2>3. (m + y) % m = y
    BY <2>2
  <2> QED
    BY <1>2, <2>2, <2>3 DEF y
<1> QED
  BY <1>1, <1>2

\* Index, for any value of next.
IndexOf(to, position) == (to + HISTORY_CAPACITY - 1 - position) % HISTORY_CAPACITY

\* A position counts backwards from next.
LEMMA IndexOfIs ==
    ASSUME NEW to \in Ring, NEW position \in Ring
    PROVE  /\ IndexOf(to, position) = IF to > position THEN to - 1 - position
                                      ELSE to + HISTORY_CAPACITY - 1 - position
           /\ IndexOf(to, position) \in Ring
<1> DEFINE H == HISTORY_CAPACITY
           x == to + H - 1 - position
<1>1. H \in Nat \ {0} /\ to \in 0 .. H - 1 /\ position \in 0 .. H - 1
  BY EditorAssumption DEF Ring
<1>2. x \in 0 .. 2 * H - 1
  BY <1>1
<1>3. x % H = IF x < H THEN x ELSE x - H
  <2> HIDE DEF x, H
  <2> QED BY <1>1, <1>2, Wrapped
<1>4. IndexOf(to, position) = x % H
  BY DEF IndexOf
<1> QED
  BY <1>1, <1>3, <1>4 DEF Ring

\* The entry of a position is in the ring.
LEMMA IndexIs ==
    ASSUME next \in Ring, NEW position \in Ring
    PROVE  Index(position) = IndexOf(next, position) /\ Index(position) \in Ring
  BY IndexOfIs DEF Index, IndexOf

\* next goes round.
LEMMA NextIs ==
    ASSUME NEW to \in Ring
    PROVE  /\ (to + 1) % HISTORY_CAPACITY = IF to + 1 < HISTORY_CAPACITY THEN to + 1 ELSE 0
           /\ (to + 1) % HISTORY_CAPACITY \in Ring
<1> DEFINE H == HISTORY_CAPACITY
           x == to + 1
<1>1. H \in Nat \ {0} /\ to \in 0 .. H - 1
  BY EditorAssumption DEF Ring
<1>2. x \in 0 .. 2 * H - 1
  BY <1>1
<1>3. x % H = IF x < H THEN x ELSE x - H
  <2> HIDE DEF x, H
  <2> QED BY <1>1, <1>2, Wrapped
<1> QED
  BY <1>1, <1>3 DEF Ring

(***************************************************************************)
(* The steps.                                                              *)
(***************************************************************************)

\* push: what is stored has been typed.
LEMMA EnterKeeps == ASSUME EInv, Enter PROVE EInv'
<1>1. /\ executed' = slice(line, length) /\ length' = 0 /\ cursor' = 0 /\ displayed_length' = 0
      /\ row' = [i \in Columns |-> Space] /\ column' = 0 /\ history_position' = None
      /\ line' = line /\ draft' = draft /\ draft_length' = draft_length /\ push(line, length)
  BY DEF Enter, leave_history, drafted
<1>2. executed' \in Seq(Char)
  BY <1>1, CleanSlice DEF EInv
<1>3. Clean(line', length') /\ cursor' \in 0 .. length'
  BY <1>1, EditorAssumption DEF EInv, Clean, Columns
<1>4. ScreenShowsLine'
  BY <1>1 DEF ScreenShowsLine, Columns
<1>5. /\ entries' \in [Ring -> Line] /\ lengths' \in [Ring -> 0 .. LINE_CAPACITY]
      /\ \A n \in Ring : Clean(entries'[n], lengths'[n])
      /\ count' \in 0 .. HISTORY_CAPACITY /\ next' \in Ring
  <2>1. CASE UNCHANGED history
    BY <2>1 DEF EInv, history
  <2>2. CASE /\ entries' = [entries EXCEPT ![next] = copy_prefix(entries[next], line, length)]
             /\ lengths' = [lengths EXCEPT ![next] = length]
             /\ next' = (next + 1) % HISTORY_CAPACITY
             /\ count' = IF count < HISTORY_CAPACITY THEN count + 1 ELSE count
    <3>1. Clean(copy_prefix(entries[next], line, length), length)
      BY CleanPrefix DEF EInv
    <3>2. copy_prefix(entries[next], line, length) \in Line /\ length \in 0 .. LINE_CAPACITY
      BY <3>1 DEF Clean
    <3>3. next' \in Ring
      BY <2>2, NextIs DEF EInv
    <3>4. count' \in 0 .. HISTORY_CAPACITY
      BY <2>2, EditorAssumption DEF EInv
    <3> QED
      BY <2>2, <3>1, <3>2, <3>3, <3>4 DEF EInv
  <2> QED
    BY <1>1, <2>1, <2>2 DEF push
<1> QED
  BY <1>1, <1>2, <1>3, <1>4, <1>5 DEF EInv

\* Backspace and Delete take a byte out.
LEMMA RemoveKeeps == ASSUME EInv, Backspace \/ Delete PROVE EInv'
<1>1. length \in Nat /\ cursor \in 0 .. length
  BY EditorAssumption DEF EInv, Clean
<1>2. CASE Backspace
  <2>1. /\ cursor > 0 /\ line' = copy_within(line, cursor, length, cursor - 1) /\ length' = length - 1
        /\ cursor' = cursor - 1 /\ history_position' = None /\ redraw
        /\ UNCHANGED <<history, drafted, executed>>
    BY <1>2 DEF Backspace, leave_history
  <2>2. cursor \in 1 .. length
    BY <1>1, <2>1
  <2>3. Clean(line', length')
    BY <2>1, <2>2, CleanRemove DEF EInv
  <2> QED
    BY <1>1, <2>1, <2>3, EditingKeeps
<1>3. CASE Delete
  <2>1. /\ cursor < length /\ line' = copy_within(line, cursor + 1, length, cursor) /\ length' = length - 1
        /\ cursor' = cursor /\ history_position' = None /\ redraw
        /\ UNCHANGED <<history, drafted, executed>>
    BY <1>3 DEF Delete, leave_history
  <2>2. cursor + 1 \in 1 .. length /\ (cursor + 1) - 1 = cursor
    BY <1>1, <2>1
  <2>3. Clean(copy_within(line, cursor + 1, length, (cursor + 1) - 1), length - 1)
    BY <2>2, CleanRemove DEF EInv
  <2> QED
    BY <1>1, <2>1, <2>2, <2>3, EditingKeeps
<1> QED
  BY <1>2, <1>3

\* Tab and Character put bytes in.
LEMMA InsertKeeps ==
    ASSUME EInv, NEW byte \in Char, NEW n \in Nat, Insert(byte, n) PROVE EInv'
<1>1. length \in Nat /\ cursor \in 0 .. length
  BY EditorAssumption DEF EInv, Clean
<1>2. /\ length + n <= LINE_CAPACITY /\ length' = length + n /\ cursor' = cursor + n
      /\ history_position' = None /\ redraw /\ UNCHANGED <<history, drafted, executed>>
      /\ line' = [i \in Columns |-> IF i >= cursor /\ i < cursor + n THEN byte
                                     ELSE copy_within(line, cursor, length, cursor + n)[i]]
  BY DEF Insert, leave_history
<1>3. Clean(line', length')
  BY <1>1, <1>2, CleanInsert DEF EInv
<1> QED
  BY <1>1, <1>2, <1>3, EditingKeeps

\* The cursor moves within the line.
LEMMA MoveKeeps == ASSUME EInv, Left \/ Right \/ Home \/ End PROVE EInv'
<1>1. length \in Nat /\ cursor \in 0 .. length
  BY EditorAssumption DEF EInv, Clean
<1>2. PICK position \in 0 .. length : MoveTo(position)
  BY <1>1 DEF Left, Right, Home, End
<1>3. /\ line' = line /\ length' = length /\ cursor' \in 0 .. length' /\ redraw
      /\ history_position' = history_position /\ UNCHANGED <<history, drafted, executed>>
  BY <1>2 DEF MoveTo
<1> QED
  BY <1>3, EditingKeeps DEF EInv

\* A position of the history is one of the ring.
LEMMA PositionInRing ==
    ASSUME EInv, NEW position \in 0 .. count - 1 PROVE position \in Ring
  BY EditorAssumption DEF EInv, Ring

\* A walk through the history ends on a stored entry or on the draft.
LEMMA WalkKeeps ==
    ASSUME EInv, redraw, UNCHANGED <<history, executed>>, cursor' = length', Clean(draft', draft_length'),
           history_position' \in {None} \cup 0 .. count - 1,
           \/ \E position \in 0 .. count - 1 : copy_into(position)
           \/ line' = copy_prefix(line, draft, draft_length) /\ length' = draft_length
    PROVE  EInv'
<1>1. line \in Line /\ entries' = entries /\ lengths' = lengths /\ count' = count /\ next' = next
      /\ executed' = executed
  BY DEF EInv, Clean, history
<1>2. Clean(line', length')
  <2>1. ASSUME NEW position \in 0 .. count - 1, copy_into(position) PROVE Clean(line', length')
    <3>1. Index(position) \in Ring
      BY PositionInRing, IndexIs DEF EInv
    <3>2. Clean(entries[Index(position)], lengths[Index(position)])
      BY <3>1 DEF EInv
    <3> QED
      BY <1>1, <2>1, <3>2, CleanPrefix DEF copy_into
  <2>2. ASSUME line' = copy_prefix(line, draft, draft_length), length' = draft_length
        PROVE  Clean(line', length')
    BY <1>1, <2>2, CleanPrefix DEF EInv
  <2> QED
    BY <2>1, <2>2
<1>3. displayed_length' = length' /\ ScreenShowsLine'
  BY <1>2, RedrawShows
<1>4. cursor' \in 0 .. length'
  BY <1>2, EditorAssumption DEF Clean
<1> QED
  BY <1>1, <1>2, <1>3, <1>4 DEF EInv

\* Up saves the line in draft the first time, and walks back.
LEMMA UpKeeps == ASSUME EInv, Up PROVE EInv'
<1>1. /\ count > 0 /\ count \in Nat /\ copy_into(history_position') /\ cursor' = length' /\ redraw
      /\ UNCHANGED <<history, executed>>
  BY EditorAssumption DEF EInv, Up
<1>2. /\ history_position' \in 0 .. count - 1
      /\ Clean(draft', draft_length')
  <2>1. CASE /\ history_position = None /\ draft' = copy_prefix(draft, line, length) /\ draft_length' = length
             /\ history_position' = 0
    <3>1. draft \in Line
      BY DEF EInv, Clean
    <3> QED
      BY <1>1, <2>1, <3>1, CleanPrefix DEF EInv
  <2>2. CASE /\ history_position # None /\ UNCHANGED drafted
             /\ history_position' = IF history_position + 1 < count
                                    THEN history_position + 1 ELSE history_position
    BY <1>1, <2>2 DEF EInv, drafted, Clean
  <2> QED
    BY <2>1, <2>2 DEF Up
<1> QED
  BY <1>1, <1>2, WalkKeeps

\* Down walks forward, and ends on the draft.
LEMMA DownKeeps == ASSUME EInv, Down PROVE EInv'
<1>1. /\ history_position # None /\ cursor' = length' /\ redraw
      /\ UNCHANGED <<history, executed>> /\ UNCHANGED drafted
      /\ history_position \in 0 .. count - 1 /\ count \in Nat
  BY EditorAssumption DEF EInv, Down
<1>2. Clean(draft', draft_length')
  BY <1>1 DEF EInv, drafted, Clean
<1>3. CASE /\ history_position > 0 /\ history_position' = history_position - 1
           /\ copy_into(history_position - 1)
  <2>1. history_position - 1 \in 0 .. count - 1
    BY <1>1, <1>3
  <2> QED
    BY <1>1, <1>2, <1>3, <2>1, WalkKeeps
<1>4. CASE /\ history_position' = None /\ line' = copy_prefix(line, draft, draft_length)
           /\ length' = draft_length
  BY <1>1, <1>2, <1>4, WalkKeeps
<1> QED
  BY <1>3, <1>4 DEF Down

(***************************************************************************)
(* The theorems.                                                           *)
(***************************************************************************)

\* The shell starts with an empty line and an empty history.
LEMMA InitKeeps == ASSUME Init PROVE EInv
<1>1. Columns = 0 .. LINE_CAPACITY - 1 /\ LINE_CAPACITY \in Nat \ {0} /\ HISTORY_CAPACITY \in Nat \ {0}
  BY EditorAssumption DEF Columns
<1>2. Clean([i \in Columns |-> Zero], 0)
  BY <1>1 DEF Clean, Line
<1>3. /\ entries \in [Ring -> Line] /\ lengths \in [Ring -> 0 .. LINE_CAPACITY]
      /\ \A n \in Ring : Clean(entries[n], lengths[n])
  BY <1>1, <1>2 DEF Init, Clean
<1>4. ScreenShowsLine
  BY <1>1 DEF Init, ScreenShowsLine
<1>5. Clean(line, length) /\ Clean(draft, draft_length) /\ cursor \in 0 .. length /\ displayed_length = length
  BY <1>2 DEF Init
<1>6. /\ count \in 0 .. HISTORY_CAPACITY /\ next \in Ring
      /\ history_position \in {None} \cup 0 .. count - 1 /\ executed \in Seq(Char)
  BY <1>1 DEF Init, Ring
<1> QED
  BY <1>3, <1>4, <1>5, <1>6 DEF EInv

\* Every event keeps the invariant.
LEMMA NextKeeps == ASSUME EInv, [Next]_vars PROVE EInv'
<1>1. CASE Next
  <2>1. ASSUME Tab \/ \E byte \in Char : Character(byte) PROVE EInv'
    BY <2>1, InsertKeeps, EditorAssumption DEF Tab, Character
  <2> QED
    BY <1>1, <2>1, EnterKeeps, RemoveKeeps, MoveKeeps, UpKeeps, DownKeeps DEF Next
<1>2. CASE UNCHANGED vars
  BY <1>2 DEF vars, history, drafted, screen, EInv, Clean, ScreenShowsLine
<1> QED
  BY <1>1, <1>2

\* The invariant holds in every state of the editor.
THEOREM EditorInvariance == Spec => []EInv
  BY InitKeeps, NextKeeps, PTL DEF Spec

\* No index the editor or the history uses leaves its array, whatever is
\* typed: run's copy_within, push and copy_into never panic.
THEOREM TypeCorrect == Spec => []TypeOK
<1>1. ASSUME EInv PROVE TypeOK
  <2>1. Clean(line, length) /\ ScreenShowsLine /\ cursor \in 0 .. length /\ displayed_length = length
    BY <1>1 DEF EInv
  <2>2. row \in [Columns -> Char]
    BY <2>1, EditorAssumption DEF Clean, ScreenShowsLine
  <2>3. column \in 0 .. LINE_CAPACITY /\ displayed_length \in 0 .. LINE_CAPACITY
    BY <2>1, EditorAssumption DEF Clean, ScreenShowsLine
  <2> QED
    BY <1>1, <2>2, <2>3 DEF EInv, Clean, TypeOK
<1> QED
  BY <1>1, EditorInvariance, PTL

\* redraw keeps the row the image of the line, however long the lines were
\* that were edited and recalled on it before.
THEOREM RowShowsLine == Spec => []ScreenShowsLine
  BY EditorInvariance, PTL DEF EInv

(***************************************************************************)
(* Texts.                                                                  *)
(***************************************************************************)

\* A slice, element by element.
LEMMA SliceIs ==
    ASSUME NEW a, NEW n, Clean(a, n)
    PROVE  /\ slice(a, n) \in Seq(Char) /\ Len(slice(a, n)) = n /\ n \in Nat
           /\ \A i \in 1 .. n : slice(a, n)[i] = a[i - 1] /\ a[i - 1] \in Char /\ i - 1 \in Columns
<1>1. n \in Nat /\ \A i \in 1 .. n : a[i - 1] \in Char /\ i - 1 \in Columns
  BY EditorAssumption DEF Clean, Columns
<1>2. slice(a, n) \in [1 .. n -> Char]
  BY <1>1 DEF slice
<1> QED
  BY <1>1, <1>2 DEF slice

\* The entry copied over the line is what the line shows.
LEMMA SlicePrefix ==
    ASSUME NEW a \in Line, NEW b, NEW n, Clean(b, n)
    PROVE  slice(copy_prefix(a, b, n), n) = slice(b, n)
<1>1. Clean(copy_prefix(a, b, n), n)
  BY CleanPrefix
<1>2. \A i \in 1 .. n : copy_prefix(a, b, n)[i - 1] = b[i - 1]
  BY SliceIs DEF copy_prefix
<1> QED
  BY <1>2 DEF slice

\* A text without one of its characters.
LEMMA Without ==
    ASSUME NEW t \in Seq(Char), NEW from \in 1 .. Len(t)
    PROVE  LET u == SubSeq(t, 1, from - 1) \o SubSeq(t, from + 1, Len(t))
           IN  /\ u \in Seq(Char) /\ Len(u) = Len(t) - 1
               /\ \A i \in 1 .. Len(t) - 1 : u[i] = IF i < from THEN t[i] ELSE t[i + 1]
<1> DEFINE l == SubSeq(t, 1, from - 1)
           r == SubSeq(t, from + 1, Len(t))
<1>1. Len(t) \in Nat /\ from \in Nat
  OBVIOUS
<1>2. l \in Seq(Char) /\ Len(l) = from - 1 /\ \A i \in 1 .. from - 1 : l[i] = t[i]
  BY <1>1
<1>3. r \in Seq(Char) /\ Len(r) = Len(t) - from /\ \A i \in 1 .. Len(t) - from : r[i] = t[i + from]
  <2>1. CASE from = Len(t)
    BY <1>1, <2>1
  <2>2. CASE from < Len(t)
    BY <1>1, <2>2
  <2> QED
    BY <1>1, <2>1, <2>2
<1> HIDE DEF l, r
<1>4. /\ l \o r \in Seq(Char) /\ Len(l \o r) = Len(t) - 1
      /\ \A i \in 1 .. Len(t) - 1 : (l \o r)[i] = IF i <= from - 1 THEN l[i] ELSE r[i - (from - 1)]
  <2>1. /\ l \o r \in Seq(Char) /\ Len(l \o r) = Len(l) + Len(r)
        /\ \A i \in 1 .. Len(l) + Len(r) : (l \o r)[i] = IF i <= Len(l) THEN l[i] ELSE r[i - Len(l)]
    BY <1>2, <1>3, ConcatProperties
  <2>2. Len(l) + Len(r) = Len(t) - 1
    BY <1>1, <1>2, <1>3
  <2> QED
    BY <1>2, <2>1, <2>2
<1>5. ASSUME NEW i \in 1 .. Len(t) - 1 PROVE (l \o r)[i] = IF i < from THEN t[i] ELSE t[i + 1]
  <2>1. CASE i < from
    BY <1>1, <1>2, <1>4, <2>1
  <2>2. CASE ~ (i < from)
    <3>1. i - (from - 1) \in 1 .. Len(t) - from /\ (i - (from - 1)) + from = i + 1
      BY <1>1, <2>2
    <3>2. (l \o r)[i] = r[i - (from - 1)]
      BY <1>1, <1>4, <2>2
    <3> QED
      BY <1>3, <2>2, <3>1, <3>2
  <2> QED
    BY <2>1, <2>2
<1> QED
  BY <1>4, <1>5 DEF l, r

\* copy_within takes the character out of the text.
LEMMA SliceRemove ==
    ASSUME NEW a, NEW n, Clean(a, n), NEW from \in 1 .. n
    PROVE  slice(copy_within(a, from, n, from - 1), n - 1) =
               SubSeq(slice(a, n), 1, from - 1) \o SubSeq(slice(a, n), from + 1, Len(slice(a, n)))
<1> DEFINE t == slice(a, n)
           w == copy_within(a, from, n, from - 1)
           u == SubSeq(t, 1, from - 1) \o SubSeq(t, from + 1, Len(t))
           v == slice(w, n - 1)
<1>1. /\ t \in Seq(Char) /\ Len(t) = n /\ n \in Nat
      /\ \A i \in 1 .. n : t[i] = a[i - 1] /\ i - 1 \in Columns
  BY SliceIs
<1>2. v \in Seq(Char) /\ Len(v) = n - 1 /\ \A i \in 1 .. n - 1 : v[i] = w[i - 1]
  BY CleanRemove, SliceIs
<1>3. u \in Seq(Char) /\ Len(u) = n - 1 /\ \A i \in 1 .. n - 1 : u[i] = IF i < from THEN t[i] ELSE t[i + 1]
  <2> HIDE DEF t
  <2> QED BY <1>1, Without
<1>4. ASSUME NEW i \in 1 .. n - 1 PROVE v[i] = u[i]
  <2>1. i - 1 \in Columns /\ (i - 1) + from - (from - 1) = i
    <3>1. i \in 1 .. n
      BY <1>1
    <3>2. i - 1 \in Columns
      BY <1>1, <3>1
    <3>3. n \in Nat
      BY <1>1
    <3> QED
      BY <3>2, <3>3
  <2>2. w[i - 1] = IF i - 1 >= from - 1 /\ i - 1 < (from - 1) + n - from THEN a[i] ELSE a[i - 1]
    BY <2>1 DEF copy_within
  <2>3. CASE i < from
    BY <1>1, <1>2, <1>3, <2>2, <2>3
  <2>4. CASE ~ (i < from)
    <3>1. i + 1 \in 1 .. n /\ (i + 1) - 1 = i
      BY <1>1
    <3>2. t[i + 1] = a[i]
      <4> HIDE DEF t
      <4> QED BY <1>1, <3>1
    <3>3. w[i - 1] = a[i]
      BY <1>1, <2>2, <2>4
    <3> QED
      BY <1>2, <1>3, <2>4, <3>2, <3>3
  <2> QED
    BY <2>3, <2>4
<1> HIDE DEF u, v
<1>5. v = u
  BY <1>2, <1>3, <1>4, SeqEqual
<1> QED
  BY <1>5 DEF u, v

\* A text with others put in.
LEMMA With ==
    ASSUME NEW t \in Seq(Char), NEW at \in 0 .. Len(t), NEW s \in Seq(Char)
    PROVE  LET u == SubSeq(t, 1, at) \o s \o SubSeq(t, at + 1, Len(t))
           IN  /\ u \in Seq(Char) /\ Len(u) = Len(t) + Len(s)
               /\ \A i \in 1 .. Len(t) + Len(s) :
                     u[i] = IF i <= at THEN t[i] ELSE IF i <= at + Len(s) THEN s[i - at] ELSE t[i - Len(s)]
<1> DEFINE l == SubSeq(t, 1, at)
           r == SubSeq(t, at + 1, Len(t))
           m == l \o s
           u == m \o r
<1>1. Len(t) \in Nat /\ at \in Nat /\ Len(s) \in Nat
  OBVIOUS
<1>2. l \in Seq(Char) /\ Len(l) = at /\ \A i \in 1 .. at : l[i] = t[i]
  BY <1>1
<1>3. r \in Seq(Char) /\ Len(r) = Len(t) - at /\ \A i \in 1 .. Len(t) - at : r[i] = t[i + at]
  <2>1. CASE at = Len(t)
    BY <1>1, <2>1
  <2>2. CASE at < Len(t)
    BY <1>1, <2>2
  <2> QED
    BY <1>1, <2>1, <2>2
<1> HIDE DEF l, r
<1>4. /\ m \in Seq(Char) /\ Len(m) = at + Len(s)
      /\ \A i \in 1 .. at + Len(s) : m[i] = IF i <= at THEN l[i] ELSE s[i - at]
  BY <1>2, ConcatProperties
<1> HIDE DEF m
<1>5. /\ u \in Seq(Char) /\ Len(u) = Len(m) + Len(r)
      /\ \A i \in 1 .. Len(m) + Len(r) : u[i] = IF i <= Len(m) THEN m[i] ELSE r[i - Len(m)]
  BY <1>3, <1>4, ConcatProperties
<1>6. Len(m) + Len(r) = Len(t) + Len(s)
  BY <1>1, <1>3, <1>4
<1> HIDE DEF u
<1>7. ASSUME NEW i \in 1 .. Len(t) + Len(s)
      PROVE  u[i] = IF i <= at THEN t[i] ELSE IF i <= at + Len(s) THEN s[i - at] ELSE t[i - Len(s)]
  <2>1. CASE i <= at
    <3>1. i \in 1 .. at /\ i \in 1 .. at + Len(s) /\ i \in 1 .. Len(m) + Len(r) /\ i <= Len(m)
      BY <1>1, <1>4, <1>6, <2>1
    <3> QED
      BY <1>2, <1>4, <1>5, <2>1, <3>1
  <2>2. CASE ~ (i <= at) /\ i <= at + Len(s)
    BY <1>1, <1>4, <1>5, <1>6, <2>2
  <2>3. CASE ~ (i <= at + Len(s))
    <3>1. i - Len(m) \in 1 .. Len(t) - at /\ (i - Len(m)) + at = i - Len(s) /\ ~ (i <= Len(m)) /\ ~ (i <= at)
      BY <1>1, <1>4, <2>3
    <3>2. u[i] = r[i - Len(m)]
      BY <1>5, <1>6, <3>1
    <3>3. r[i - Len(m)] = t[i - Len(s)]
      BY <1>3, <3>1
    <3> QED
      BY <2>3, <3>1, <3>2, <3>3
  <2> QED
    BY <1>1, <2>1, <2>2, <2>3
<1> QED
  BY <1>5, <1>6, <1>7 DEF l, r, m, u

\* copy_within and the bytes filled in put characters into the text.
LEMMA SliceInsert ==
    ASSUME NEW a, NEW n, Clean(a, n), NEW at \in 0 .. n, NEW k \in Nat, n + k <= LINE_CAPACITY,
           NEW byte \in Char, NEW s \in Seq(Char), Len(s) = k, \A i \in 1 .. k : s[i] = byte
    PROVE  slice([i \in Columns |-> IF i >= at /\ i < at + k THEN byte
                                    ELSE copy_within(a, at, n, at + k)[i]], n + k) =
               SubSeq(slice(a, n), 1, at) \o s \o SubSeq(slice(a, n), at + 1, Len(slice(a, n)))
<1> DEFINE t == slice(a, n)
           f == [i \in Columns |-> IF i >= at /\ i < at + k THEN byte ELSE copy_within(a, at, n, at + k)[i]]
           u == SubSeq(t, 1, at) \o s \o SubSeq(t, at + 1, Len(t))
           v == slice(f, n + k)
<1>1. /\ t \in Seq(Char) /\ Len(t) = n /\ n \in Nat
      /\ \A i \in 1 .. n : t[i] = a[i - 1] /\ i - 1 \in Columns
  BY SliceIs
<1>2. Clean(f, n + k)
  BY CleanInsert
<1>3. /\ v \in Seq(Char) /\ Len(v) = n + k
      /\ \A i \in 1 .. n + k : v[i] = f[i - 1] /\ i - 1 \in Columns
  <2> HIDE DEF f
  <2> QED BY <1>2, SliceIs
<1>4. /\ u \in Seq(Char) /\ Len(u) = n + k
      /\ \A i \in 1 .. n + k :
            u[i] = IF i <= at THEN t[i] ELSE IF i <= at + k THEN s[i - at] ELSE t[i - k]
  <2> HIDE DEF t
  <2>1. at \in 0 .. Len(t)
    BY <1>1
  <2>2. /\ u \in Seq(Char) /\ Len(u) = Len(t) + Len(s)
        /\ \A i \in 1 .. Len(t) + Len(s) :
              u[i] = IF i <= at THEN t[i] ELSE IF i <= at + Len(s) THEN s[i - at] ELSE t[i - Len(s)]
    BY <1>1, <2>1, With
  <2> HIDE DEF u
  <2> QED BY <1>1, <2>2
<1>5. ASSUME NEW i \in 1 .. n + k PROVE v[i] = u[i]
  <2>1. i - 1 \in Columns /\ v[i] = f[i - 1] /\ at \in Nat
    BY <1>1, <1>3
  <2>2. f[i - 1] = IF i - 1 >= at /\ i - 1 < at + k THEN byte
                   ELSE IF i - 1 >= at + k /\ i - 1 < (at + k) + n - at
                        THEN a[(i - 1) + at - (at + k)] ELSE a[i - 1]
    BY <2>1 DEF copy_within
  <2> HIDE DEF f, u, v, t
  <2>3. CASE i <= at
    <3>1. i \in 1 .. n /\ ~ (i - 1 >= at) /\ ~ (i - 1 >= at + k)
      BY <1>1, <2>1, <2>3
    <3>2. f[i - 1] = a[i - 1]
      BY <2>2, <3>1
    <3>3. t[i] = a[i - 1] /\ u[i] = t[i]
      BY <1>1, <1>4, <2>3, <3>1
    <3> QED
      BY <2>1, <3>2, <3>3
  <2>4. CASE ~ (i <= at) /\ i <= at + k
    <3>1. i - at \in 1 .. k /\ i - 1 >= at /\ i - 1 < at + k
      BY <1>1, <2>1, <2>4
    <3>2. f[i - 1] = byte
      BY <2>2, <3>1
    <3>3. u[i] = s[i - at]
      BY <1>4, <2>4
    <3> QED
      BY <2>1, <3>1, <3>2, <3>3
  <2>5. CASE ~ (i <= at + k)
    <3>1. /\ i - k \in 1 .. n /\ (i - 1) + at - (at + k) = (i - k) - 1 /\ ~ (i <= at)
          /\ ~ (i - 1 < at + k) /\ i - 1 >= at + k /\ i - 1 < (at + k) + n - at
      BY <1>1, <2>1, <2>5
    <3>2. f[i - 1] = a[(i - k) - 1]
      BY <2>2, <3>1
    <3>3. t[i - k] = a[(i - k) - 1]
      BY <1>1, <3>1
    <3>4. u[i] = t[i - k]
      BY <1>4, <2>5, <3>1
    <3> QED
      BY <2>1, <3>2, <3>3, <3>4
  <2> QED
    BY <2>3, <2>4, <2>5
<1> HIDE DEF u, v
<1>6. v = u
  BY <1>3, <1>4, <1>5, SeqEqual
<1> QED
  BY <1>6 DEF u, v

(***************************************************************************)
(* The history as a list.                                                  *)
(***************************************************************************)
EntryOf(es, ls, to, p) == slice(es[IndexOf(to, p - 1)], ls[IndexOf(to, p - 1)])
ListOf(es, ls, to, n) == [p \in 1 .. n |-> EntryOf(es, ls, to, p)]

\* Every entry that counts is a text.
LEMMA ListIs ==
    ASSUME NEW es, NEW ls, NEW to \in Ring, NEW n \in 0 .. HISTORY_CAPACITY,
           \A r \in Ring : Clean(es[r], ls[r])
    PROVE  /\ ListOf(es, ls, to, n) \in Seq(Seq(Char)) /\ Len(ListOf(es, ls, to, n)) = n
           /\ \A p \in 1 .. n : ListOf(es, ls, to, n)[p] = EntryOf(es, ls, to, p)
<1>1. n \in Nat
  BY EditorAssumption
<1>2. ASSUME NEW p \in 1 .. n PROVE EntryOf(es, ls, to, p) \in Seq(Char)
  <2>1. p - 1 \in Ring
    BY EditorAssumption DEF Ring
  <2>2. IndexOf(to, p - 1) \in Ring
    BY <2>1, IndexOfIs
  <2> QED
    BY <2>2, CleanSlice DEF EntryOf
<1>3. ListOf(es, ls, to, n) \in [1 .. n -> Seq(Char)]
  BY <1>2 DEF ListOf
<1> QED
  BY <1>1, <1>3 DEF ListOf

\* A list with a new first element.
LEMMA Fronted ==
    ASSUME NEW S, NEW t \in S, NEW list \in Seq(S)
    PROVE  /\ <<t>> \o list \in Seq(S) /\ Len(<<t>> \o list) = Len(list) + 1
           /\ \A i \in 1 .. Len(list) + 1 : (<<t>> \o list)[i] = IF i = 1 THEN t ELSE list[i - 1]
<1> DEFINE one == <<t>>
<1>1. one \in Seq(S) /\ Len(one) = 1 /\ one[1] = t
  OBVIOUS
<1> HIDE DEF one
<1>2. /\ one \o list \in Seq(S) /\ Len(one \o list) = Len(one) + Len(list)
      /\ \A i \in 1 .. Len(one) + Len(list) : (one \o list)[i] = IF i <= Len(one) THEN one[i] ELSE list[i - Len(one)]
  BY <1>1, ConcatProperties
<1>3. Len(one) + Len(list) = Len(list) + 1
  BY <1>1
<1>4. ASSUME NEW i \in 1 .. Len(list) + 1 PROVE (one \o list)[i] = IF i = 1 THEN t ELSE list[i - 1]
  BY <1>1, <1>2, <1>3
<1> QED
  BY <1>2, <1>3, <1>4 DEF one

\* The ring's list after a push, and a list with a new first element and no
\* more elements than the history holds.
Pushed(es, ls, to, n, a, len) ==
    ListOf([es EXCEPT ![to] = copy_prefix(es[to], a, len)], [ls EXCEPT ![to] = len],
           (to + 1) % HISTORY_CAPACITY, IF n < HISTORY_CAPACITY THEN n + 1 ELSE n)
Remembered(t, list) ==
    SubSeq(<<t>> \o list, 1, IF Len(list) < HISTORY_CAPACITY THEN Len(list) + 1 ELSE HISTORY_CAPACITY)

\* The list a push makes: the line in front, and the oldest entry gone if
\* the ring was full.
LEMMA PushedIs ==
    ASSUME NEW es \in [Ring -> Line], NEW ls \in [Ring -> 0 .. LINE_CAPACITY], NEW to \in Ring,
           NEW n \in 0 .. HISTORY_CAPACITY, \A r \in Ring : Clean(es[r], ls[r]),
           NEW a, NEW len, Clean(a, len)
    PROVE  Pushed(es, ls, to, n, a, len) = Remembered(slice(a, len), ListOf(es, ls, to, n))
<1> DEFINE H == HISTORY_CAPACITY
           t == slice(a, len)
           list == ListOf(es, ls, to, n)
           all == <<t>> \o list
           m == IF n < H THEN n + 1 ELSE n
           es2 == [es EXCEPT ![to] = copy_prefix(es[to], a, len)]
           ls2 == [ls EXCEPT ![to] = len]
           to2 == (to + 1) % H
           cut == SubSeq(all, 1, m)
           new == ListOf(es2, ls2, to2, m)
<1>1. /\ H \in Nat \ {0} /\ n \in 0 .. H /\ to \in 0 .. H - 1 /\ m \in 1 .. n + 1 /\ m \in 1 .. H
  BY EditorAssumption DEF Ring
<1>2. /\ list \in Seq(Seq(Char)) /\ Len(list) = n
      /\ \A p \in 1 .. n : list[p] = EntryOf(es, ls, to, p)
  BY ListIs
<1>3. t \in Seq(Char)
  BY CleanSlice
<1>4. /\ to2 = IF to + 1 < H THEN to + 1 ELSE 0
      /\ to2 \in Ring
  BY NextIs
<1>5. \A r \in Ring : Clean(es2[r], ls2[r])
  <2>1. Clean(copy_prefix(es[to], a, len), len)
    BY CleanPrefix
  <2> QED
    BY <2>1
<1> HIDE DEF list, t
<1>6. /\ all \in Seq(Seq(Char)) /\ Len(all) = n + 1
      /\ \A i \in 1 .. n + 1 : all[i] = IF i = 1 THEN t ELSE list[i - 1]
  BY <1>2, <1>3, Fronted
<1> HIDE DEF all, m
<1>7. cut \in Seq(Seq(Char)) /\ Len(cut) = m /\ \A i \in 1 .. m : cut[i] = all[i]
  BY <1>1, <1>6
<1>8. /\ new \in Seq(Seq(Char)) /\ Len(new) = m
      /\ \A p \in 1 .. m : new[p] = EntryOf(es2, ls2, to2, p)
  <2>1. m \in 0 .. HISTORY_CAPACITY
    BY <1>1
  <2> HIDE DEF es2, ls2, to2
  <2> QED BY <1>4, <1>5, <2>1, ListIs
<1>9. ASSUME NEW p \in 1 .. m PROVE new[p] = cut[p]
  <2>1. p - 1 \in Ring /\ p \in 1 .. n + 1
    BY <1>1 DEF Ring
  <2>2. IndexOf(to2, p - 1) = IF to2 > p - 1 THEN to2 - 1 - (p - 1) ELSE to2 + H - 1 - (p - 1)
    BY <1>4, <2>1, IndexOfIs
  <2>3. CASE p = 1
    <3>1. IndexOf(to2, p - 1) = to
      BY <1>1, <1>4, <2>2, <2>3
    <3>2. EntryOf(es2, ls2, to2, p) = slice(copy_prefix(es[to], a, len), len)
      BY <3>1 DEF EntryOf
    <3>3. slice(copy_prefix(es[to], a, len), len) = t
      BY SlicePrefix DEF t
    <3> QED
      BY <1>1, <1>6, <1>7, <1>8, <2>1, <2>3, <3>2, <3>3
  <2>4. CASE p # 1
    <3>1. /\ p - 1 \in 1 .. n /\ (p - 1) - 1 \in Ring
      BY <1>1, <2>1, <2>4 DEF Ring
    <3>2. IndexOf(to, (p - 1) - 1) = IF to > (p - 1) - 1 THEN to - 1 - ((p - 1) - 1)
                                     ELSE to + H - 1 - ((p - 1) - 1)
      BY <3>1, IndexOfIs
    <3>3. IndexOf(to2, p - 1) = IndexOf(to, (p - 1) - 1) /\ IndexOf(to2, p - 1) # to
      BY <1>1, <1>4, <2>1, <2>2, <2>4, <3>2
    <3>4. IndexOf(to2, p - 1) \in Ring
      BY <1>4, <2>1, IndexOfIs
    <3>5. EntryOf(es2, ls2, to2, p) = EntryOf(es, ls, to, p - 1)
      BY <3>3, <3>4 DEF EntryOf
    <3> QED
      BY <1>2, <1>6, <1>7, <1>8, <2>1, <2>4, <3>1, <3>5
  <2> QED
    BY <2>3, <2>4
<1> HIDE DEF new, cut
<1>10. new = cut
  BY <1>7, <1>8, <1>9, SeqEqual
<1>11. m = IF Len(list) < H THEN Len(list) + 1 ELSE H
  BY <1>1, <1>2 DEF m
<1> QED
  BY <1>10, <1>11 DEF new, cut, all, list, t, m, Pushed, Remembered

(***************************************************************************)
(* The steps of the session.                                               *)
(***************************************************************************)
Text == slice(line, length)
Past == [p \in 1 .. count |-> slice(entries[Index(p - 1)], lengths[Index(p - 1)])]
Visiting == IF history_position = None THEN 0 ELSE history_position + 1
Kept == IF history_position = None THEN <<>> ELSE slice(draft, draft_length)

\* An edit that leaves the history is one of the session's.
LEMMA EditIs ==
    ASSUME NEW u, NEW c, slice(line', length') = u, cursor' = c, leave_history,
           UNCHANGED <<history, executed>>
    PROVE  Session!Edit(u, c)
  BY DEF Session!Edit, leave_history, history, Index

\* What the session sees of a type-correct state.
LEMMA TextIs ==
    ASSUME EInv
    PROVE  /\ Text \in Seq(Char) /\ Len(Text) = length /\ length \in Nat
           /\ cursor \in 0 .. length /\ line \in Line
  BY SliceIs DEF EInv, Text, Clean

\* Backspace and Delete.
LEMMA RemoveIs == ASSUME EInv, Backspace \/ Delete PROVE Session!Backspace \/ Session!Delete
<1>1. CASE Backspace
  <2>1. /\ cursor > 0 /\ line' = copy_within(line, cursor, length, cursor - 1) /\ length' = length - 1
        /\ cursor' = cursor - 1 /\ leave_history /\ UNCHANGED <<history, executed>>
    BY <1>1 DEF Backspace
  <2>2. cursor \in 1 .. length
    BY <2>1, TextIs
  <2>3. slice(line', length') = SubSeq(Text, 1, cursor - 1) \o SubSeq(Text, cursor + 1, Len(Text))
    BY <2>1, <2>2, SliceRemove DEF EInv, Text
  <2>4. Session!Edit(SubSeq(Text, 1, cursor - 1) \o SubSeq(Text, cursor + 1, Len(Text)), cursor - 1)
    BY <2>1, <2>3, EditIs
  <2> QED
    BY <2>1, <2>4 DEF Session!Backspace, Session!Left, Session!Right, Text
<1>2. CASE Delete
  <2>1. /\ cursor < length /\ line' = copy_within(line, cursor + 1, length, cursor) /\ length' = length - 1
        /\ cursor' = cursor /\ leave_history /\ UNCHANGED <<history, executed>>
    BY <1>2 DEF Delete
  <2>2. cursor + 1 \in 1 .. length /\ (cursor + 1) - 1 = cursor
    BY <2>1, TextIs
  <2>3. slice(copy_within(line, cursor + 1, length, (cursor + 1) - 1), length - 1) =
            SubSeq(Text, 1, (cursor + 1) - 1) \o SubSeq(Text, (cursor + 1) + 1, Len(Text))
    BY <2>2, SliceRemove DEF EInv, Text
  <2>4. slice(line', length') = SubSeq(Text, 1, cursor) \o SubSeq(Text, (cursor + 1) + 1, Len(Text))
    BY <2>1, <2>2, <2>3
  <2>5. Session!Edit(SubSeq(Text, 1, cursor) \o SubSeq(Text, (cursor + 1) + 1, Len(Text)), cursor)
    BY <2>1, <2>4, EditIs
  <2>6. cursor < Len(Text)
    BY <2>1, TextIs
  <2> QED
    BY <2>5, <2>6 DEF Session!Delete, Session!Left, Session!Right, Text
<1> QED
  BY <1>1, <1>2

\* Tab and Character.
LEMMA InsertIs ==
    ASSUME EInv, NEW byte \in Char, NEW n \in Nat, Insert(byte, n),
           NEW s \in Seq(Char), Len(s) = n, \A i \in 1 .. n : s[i] = byte
    PROVE  Session!Insert(s)
<1>1. /\ length + n <= LINE_CAPACITY /\ length' = length + n /\ cursor' = cursor + n
      /\ leave_history /\ UNCHANGED <<history, executed>>
      /\ line' = [i \in Columns |-> IF i >= cursor /\ i < cursor + n THEN byte
                                     ELSE copy_within(line, cursor, length, cursor + n)[i]]
  BY DEF Insert
<1>2. slice(line', length') = SubSeq(Text, 1, cursor) \o s \o SubSeq(Text, cursor + 1, Len(Text))
  <2>1. Clean(line, length) /\ cursor \in 0 .. length
    BY DEF EInv
  <2>2. slice([i \in Columns |-> IF i >= cursor /\ i < cursor + n THEN byte
                                 ELSE copy_within(line, cursor, length, cursor + n)[i]], length + n) =
            SubSeq(slice(line, length), 1, cursor) \o s
                \o SubSeq(slice(line, length), cursor + 1, Len(slice(line, length)))
    BY <1>1, <2>1, SliceInsert
  <2> QED
    BY <1>1, <2>2 DEF Text
<1>3. Session!Edit(SubSeq(Text, 1, cursor) \o s \o SubSeq(Text, cursor + 1, Len(Text)), cursor + n)
  BY <1>1, <1>2, EditIs
<1>4. Len(Text) + Len(s) <= LINE_CAPACITY
  BY <1>1, TextIs
<1> QED
  BY <1>3, <1>4 DEF Session!Insert, Session!Left, Session!Right, Text

\* A Tab is blanks, a Character is one.
LEMMA TypingIs ==
    ASSUME EInv, Tab \/ \E byte \in Char : Character(byte) PROVE Session!Tab \/ Session!Type
<1>1. CASE Tab
  <2> DEFINE s == [i \in 1 .. TabWidth |-> Space]
  <2>1. TabWidth \in Nat /\ Space \in Char
    BY EditorAssumption
  <2>2. s \in Seq(Char) /\ Len(s) = TabWidth /\ \A i \in 1 .. TabWidth : s[i] = Space
    BY <2>1
  <2>3. Insert(Space, TabWidth)
    BY <1>1 DEF Tab
  <2> HIDE DEF s
  <2>4. Session!Insert(s)
    BY <2>1, <2>2, <2>3, InsertIs
  <2> QED
    BY <2>4 DEF Session!Tab, s
<1>2. ASSUME NEW byte \in Char, Character(byte) PROVE Session!Type
  <2> DEFINE s == <<byte>>
  <2>1. s \in Seq(Char) /\ Len(s) = 1 /\ (\A i \in 1 .. 1 : s[i] = byte) /\ 1 \in Nat
    OBVIOUS
  <2>2. Insert(byte, 1)
    BY <1>2 DEF Character
  <2> HIDE DEF s
  <2>3. Session!Insert(s)
    BY <2>1, <2>2, InsertIs
  <2> QED
    BY <2>3 DEF Session!Type, s
<1> QED
  BY <1>1, <1>2

\* Left, Right, Home and End.
LEMMA MoveIs == ASSUME EInv, Left \/ Right \/ Home \/ End PROVE Session!MoveCaret
<1>1. /\ line' = line /\ length' = length /\ UNCHANGED <<history, history_position, drafted, executed>>
      /\ \/ cursor > 0 /\ cursor' = cursor - 1
         \/ cursor < length /\ cursor' = cursor + 1
         \/ cursor' = 0 \/ cursor' = length
  BY DEF Left, Right, Home, End, MoveTo
<1>2. Len(Text) = length
  BY TextIs
<1> QED
  BY <1>1, <1>2 DEF Session!MoveCaret, history, drafted, Index, Text

\* The list of past lines is the ring's.
LEMMA PastIs ==
    ASSUME EInv
    PROVE  /\ Past = ListOf(entries, lengths, next, count)
           /\ Past \in Seq(Seq(Char)) /\ Len(Past) = count /\ count \in Nat
           /\ \A p \in 1 .. count : Past[p] = slice(entries[Index(p - 1)], lengths[Index(p - 1)])
<1>1. Past = ListOf(entries, lengths, next, count)
  BY DEF Past, ListOf, EntryOf, Index, IndexOf
<1>2. ListOf(entries, lengths, next, count) \in Seq(Seq(Char)) /\ Len(ListOf(entries, lengths, next, count)) = count
  BY ListIs DEF EInv
<1> QED
  <2>1. count \in Nat
    BY EditorAssumption DEF EInv
  <2>2. \A p \in 1 .. count : Past[p] = slice(entries[Index(p - 1)], lengths[Index(p - 1)])
    BY DEF Past
  <2> QED
    BY <1>1, <1>2, <2>1, <2>2

\* Up and Down show an entry, or the draft.
LEMMA WalkIs == ASSUME EInv, Up \/ Down PROVE Session!Older \/ Session!Newer
<1>1. /\ UNCHANGED <<history, executed>> /\ cursor' = length' /\ line \in Line /\ count \in Nat
      /\ history_position \in {None} \cup 0 .. count - 1 /\ None \notin Nat
  BY TextIs, PastIs, EditorAssumption DEF EInv, Up, Down
<1>2. ASSUME NEW position \in 0 .. count - 1, copy_into(position)
      PROVE  slice(line', length') = Past[position + 1] /\ Len(slice(line', length')) = length'
  <2>1. Index(position) \in Ring
    BY PositionInRing, IndexIs DEF EInv
  <2>2. Clean(entries[Index(position)], lengths[Index(position)])
    BY <2>1 DEF EInv
  <2>3. slice(line', length') = slice(entries[Index(position)], lengths[Index(position)])
        /\ length' = lengths[Index(position)]
    BY <1>1, <1>2, <2>2, SlicePrefix DEF copy_into
  <2>4. position + 1 \in 1 .. count /\ (position + 1) - 1 = position
    BY <1>1
  <2>5. Len(slice(line', length')) = length'
    BY <2>2, <2>3, SliceIs
  <2> QED
    BY <2>3, <2>4, <2>5, PastIs
<1>3. ASSUME NEW n, Visiting' = n,
             Kept' = IF n = 0 THEN <<>> ELSE IF Visiting = 0 THEN Text ELSE Kept,
             slice(line', length') = IF n = 0 THEN Kept ELSE Past[n],
             Len(slice(line', length')) = length'
      PROVE  Session!Visit(n)
  BY <1>1, <1>3 DEF Session!Visit, Visiting, Kept, Text, Past, history, Index
<1>4. ASSUME Up PROVE Session!Older
  <2>1. count > 0 /\ copy_into(history_position')
    BY <1>4 DEF Up
  <2> DEFINE n == IF Visiting < Len(Past) THEN Visiting + 1 ELSE Visiting
  <2>2. history_position' \in 0 .. count - 1 /\ n = history_position' + 1 /\ n # 0
    BY <1>1, <1>4, <2>1, PastIs DEF Up, Visiting
  <2>3. Visiting' = n
    BY <1>1, <2>2 DEF Visiting
  <2>4. Kept' = IF Visiting = 0 THEN Text ELSE Kept
    <3>1. CASE history_position = None
      <4>1. draft' = copy_prefix(draft, line, length) /\ draft_length' = length
        BY <1>4, <3>1 DEF Up
      <4>2. slice(draft', draft_length') = Text
        BY <4>1, SlicePrefix DEF EInv, Clean, Text
      <4> QED
        BY <1>1, <2>2, <3>1, <4>2 DEF Kept, Visiting
    <3>2. CASE history_position # None
      BY <1>1, <1>4, <2>2, <3>2 DEF Up, Kept, Visiting, drafted
    <3> QED
      BY <3>1, <3>2
  <2>5. slice(line', length') = Past[n] /\ Len(slice(line', length')) = length'
    BY <1>2, <2>1, <2>2
  <2> HIDE DEF n
  <2>6. Session!Visit(n)
    BY <1>3, <2>2, <2>3, <2>4, <2>5
  <2>7. Past # <<>>
    BY <2>1, PastIs
  <2> QED
    BY <2>6, <2>7 DEF Session!Older, n, Visiting, Past
<1>5. ASSUME Down PROVE Session!Newer
  <2>1. history_position \in 0 .. count - 1 /\ UNCHANGED drafted
    BY <1>1, <1>5 DEF Down
  <2>2. Visiting = history_position + 1 /\ Visiting > 0 /\ Kept = slice(draft, draft_length)
        /\ Visiting - 1 = history_position
    BY <1>1, <2>1 DEF Visiting, Kept
  <2>3. CASE history_position > 0 /\ history_position' = history_position - 1 /\ copy_into(history_position - 1)
    <3>1. history_position - 1 \in 0 .. count - 1 /\ (history_position - 1) + 1 = history_position
          /\ history_position # 0
      BY <1>1, <2>1, <2>3
    <3>2. Visiting' = history_position /\ Kept' = Kept
      BY <1>1, <2>1, <2>2, <2>3, <3>1 DEF Visiting, Kept, drafted
    <3>3. slice(line', length') = Past[history_position] /\ Len(slice(line', length')) = length'
      BY <1>2, <2>3, <3>1
    <3>4. Session!Visit(history_position)
      BY <1>3, <2>2, <3>1, <3>2, <3>3
    <3> QED
      BY <2>2, <3>4 DEF Session!Newer, Visiting
  <2>4. CASE /\ history_position = 0 /\ history_position' = None
             /\ line' = copy_prefix(line, draft, draft_length) /\ length' = draft_length
    <3>1. slice(line', length') = Kept /\ Len(slice(line', length')) = length'
      BY <1>1, <2>2, <2>4, SlicePrefix, SliceIs DEF EInv
    <3>2. Visiting' = 0 /\ Kept' = <<>>
      BY <2>4 DEF Visiting, Kept
    <3>3. Session!Visit(0)
      BY <1>3, <3>1, <3>2
    <3> QED
      BY <2>2, <2>4, <3>3 DEF Session!Newer, Visiting
  <2> QED
    BY <1>5, <2>3, <2>4 DEF Down
<1> QED
  BY <1>4, <1>5

\* Enter: the ring of entries takes the line as a list would.
LEMMA SubmitIs == ASSUME EInv, Enter PROVE Session!Submit
<1>1. /\ executed' = Text /\ length' = 0 /\ cursor' = 0 /\ history_position' = None /\ push(line, length)
  BY DEF Enter, leave_history, Text
<1>2. slice(line', length') = <<>>
  <2>1. slice(line', 0) \in Seq({}) /\ Len(slice(line', 0)) = 0
    BY DEF slice
  <2> QED
    BY <1>1, <2>1
<1>3. (\A i \in 0 .. length - 1 : line[i] = Space) <=> Session!Blank(Text)
  <2>1. Len(Text) = length /\ length \in Nat /\ \A i \in 1 .. length : Text[i] = line[i - 1]
    BY SliceIs DEF EInv, Text
  <2>2. ASSUME \A i \in 0 .. length - 1 : line[i] = Space, NEW i \in 1 .. length PROVE Text[i] = Space
    <3>1. i - 1 \in 0 .. length - 1
      BY <2>1
    <3> QED
      BY <2>1, <2>2, <3>1
  <2>3. ASSUME \A i \in 1 .. length : Text[i] = Space, NEW i \in 0 .. length - 1 PROVE line[i] = Space
    <3>1. i + 1 \in 1 .. length /\ (i + 1) - 1 = i
      BY <2>1
    <3> QED
      BY <2>1, <2>3, <3>1
  <2> QED
    BY <2>1, <2>2, <2>3 DEF Session!Blank
<1>4. (count > 0 /\ lengths[newest] = length /\ slice(entries[newest], length) = slice(line, length))
          <=> (Past # <<>> /\ Past[1] = Text)
  <2>1. Past # <<>> <=> count > 0
    BY PastIs
  <2>2. ASSUME count > 0
        PROVE  Past[1] = Text <=> lengths[newest] = length /\ slice(entries[newest], length) = Text
    <3>1. 1 \in 1 .. count /\ 0 \in 0 .. count - 1 /\ 1 - 1 = 0
      BY <2>2, PastIs
    <3>2. newest = Index(0)
      <4>1. next + HISTORY_CAPACITY - 1 - 0 = next + HISTORY_CAPACITY - 1
        BY EditorAssumption DEF EInv, Ring
      <4> QED
        BY <4>1 DEF newest, Index
    <3>3. newest \in Ring
      BY <3>1, <3>2, PositionInRing, IndexIs DEF EInv
    <3>4. Clean(entries[newest], lengths[newest]) /\ Clean(line, length)
      BY <3>3 DEF EInv
    <3>5. Past[1] = slice(entries[newest], lengths[newest])
      BY <3>1, <3>2, PastIs
    <3>6. Len(slice(entries[newest], lengths[newest])) = lengths[newest] /\ Len(Text) = length
      BY <3>4, SliceIs DEF Text
    <3> QED
      BY <3>5, <3>6
  <2> QED
    BY <2>1, <2>2 DEF Text
<1>5. Past' = Session!Remember(Text)
  <2>1. CASE \/ \A i \in 0 .. length - 1 : line[i] = Space
             \/ count > 0 /\ lengths[newest] = length /\ slice(entries[newest], length) = slice(line, length)
    <3>1. UNCHANGED history
      BY <1>1, <2>1 DEF push
    <3>2. Past' = Past
      BY <3>1 DEF Past, history, Index
    <3>3. Session!Blank(Text) \/ (Past # <<>> /\ Past[1] = Text)
      BY <1>3, <1>4, <2>1
    <3> QED
      BY <3>2, <3>3, Zenon DEF Session!Remember, Past
  <2>2. CASE ~ \/ \A i \in 0 .. length - 1 : line[i] = Space
               \/ count > 0 /\ lengths[newest] = length /\ slice(entries[newest], length) = slice(line, length)
    <3>1. /\ entries' = [entries EXCEPT ![next] = copy_prefix(entries[next], line, length)]
          /\ lengths' = [lengths EXCEPT ![next] = length]
          /\ next' = (next + 1) % HISTORY_CAPACITY
          /\ count' = IF count < HISTORY_CAPACITY THEN count + 1 ELSE count
      BY <1>1, <2>2 DEF push
    <3>2. Past' = ListOf(entries', lengths', next', count')
      BY DEF Past, ListOf, EntryOf, Index, IndexOf
    <3>3. Past = ListOf(entries, lengths, next, count)
      BY PastIs
    <3>4. Pushed(entries, lengths, next, count, line, length) = Remembered(Text, Past)
      BY <3>3, PushedIs DEF EInv, Text
    <3>5. Past' = Pushed(entries, lengths, next, count, line, length)
      BY <3>1, <3>2 DEF Pushed
    <3>6. ~ (Session!Blank(Text) \/ (Past # <<>> /\ Past[1] = Text))
      BY <1>3, <1>4, <2>2
    <3> QED
      BY <3>4, <3>5, <3>6 DEF Session!Remember, Past, Remembered
  <2> QED
    BY <2>1, <2>2
<1> QED
  BY <1>1, <1>2, <1>5 DEF Session!Submit, Text, Past

\* An empty editor is an empty session.
LEMMA SessionStarts == ASSUME Init PROVE Session!Init
<1>1. slice(line, 0) \in Seq({}) /\ Len(slice(line, 0)) = 0
  BY DEF slice
<1>2. Past \in Seq({}) /\ Len(Past) = 0
  BY DEF Init, Past
<1>3. slice(line, 0) = <<>> /\ Past = <<>>
  BY <1>1, <1>2
<1> QED
  BY <1>3 DEF Init, Session!Init, Past

\* Every event is a step of the session.
LEMMA SessionSteps == ASSUME EInv, [Next]_vars PROVE [Session!Next]_(Session!vars)
<1>1. CASE Next
  BY <1>1, SubmitIs, RemoveIs, TypingIs, MoveIs, WalkIs DEF Next, Session!Next
<1>2. CASE UNCHANGED vars
  BY <1>2 DEF vars, history, drafted, screen, Session!vars, Index
<1> QED
  BY <1>1, <1>2

\* The arrays with their stale bytes, the ring and the draft implement an
\* editor of plain texts with a list of past lines, for every capacity.
THEOREM EditorIsSession == Spec => ImplementsEditSession
<1>1. Spec => Session!Spec
  BY EditorInvariance, SessionStarts, SessionSteps, PTL DEF Spec, Session!Spec
<1> QED
  BY <1>1 DEF ImplementsEditSession
=============================================================================
