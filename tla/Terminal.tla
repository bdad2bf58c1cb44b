------------------------------ MODULE Terminal -----------------------------
(***************************************************************************)
(* What the framebuffer console promises: a grid of characters that is     *)
(* filled from the top and scrolls, and a cursor mark that is taken away   *)
(* before anything is printed.  Positions count characters; a full row is  *)
(* left only when another character comes.                                 *)
(***************************************************************************)
EXTENDS Naturals

CONSTANTS
    Rows, Cols,         \* the size of the grid
    Glyphs,             \* characters of the font
    Space,              \* the glyph that shows nothing
    Unknown,            \* the glyph '?' shown for any other character
    Strange             \* characters the font does not have

VARIABLES
    cells,              \* the characters shown
    line, position,     \* where the next one goes
    marked              \* the cursor is shown there

vars == <<cells, line, position, marked>>

BlankLine == [c \in 0 .. Cols - 1 |-> Space]

\* The console as a value, for the steps that print several characters.
Shown == [cells |-> cells, line |-> line, position |-> position]
Show(t) == cells' = t.cells /\ line' = t.line /\ position' = t.position

Init ==
    /\ cells = [r \in 0 .. Rows - 1 |-> BlankLine]
    /\ line = 0 /\ position = 0 /\ marked = FALSE

Feed(t) ==
    IF t.line + 1 < Rows THEN [t EXCEPT !.line = @ + 1, !.position = 0]
    ELSE [t EXCEPT !.position = 0,
                   !.cells = [r \in 0 .. Rows - 1 |->
                                 IF r + 1 < Rows THEN t.cells[r + 1] ELSE BlankLine]]

Put(t, glyph) ==
    LET u == IF t.position = Cols THEN Feed(t) ELSE t
    IN [u EXCEPT !.cells[u.line][u.position] = glyph, !.position = @ + 1]

\* Erases to the left, never beyond the row.
Rub(t) ==
    IF t.position = 0 THEN t
    ELSE [t EXCEPT !.cells[t.line][t.position - 1] = Space, !.position = @ - 1]

Unmark == marked' = FALSE

PrintGlyph == Unmark /\ \E glyph \in Glyphs : Show(Put(Shown, glyph))
PrintStrange == Unmark /\ Strange # {} /\ Show(Put(Shown, Unknown))
PrintTab == Unmark /\ Show(Put(Put(Put(Put(Shown, Space), Space), Space), Space))
PrintNewLine == Unmark /\ Show(Feed(Shown))
PrintReturn == Unmark /\ Show([Shown EXCEPT !.position = 0])
PrintBackspace == Unmark /\ Show(Rub(Shown))

Mark == marked' = TRUE /\ UNCHANGED <<cells, line, position>>

Clear ==
    /\ cells' = [r \in 0 .. Rows - 1 |-> BlankLine]
    /\ line' = 0 /\ position' = 0 /\ marked' = FALSE

Next ==
    \/ PrintGlyph \/ PrintStrange \/ PrintTab \/ PrintNewLine
    \/ PrintReturn \/ PrintBackspace \/ Mark \/ Clear

Spec == Init /\ [][Next]_vars
=============================================================================
