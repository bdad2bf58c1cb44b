---------------------------- MODULE Framebuffer ----------------------------
(***************************************************************************)
(* The framebuffer console (framebuffer.rs) in pixels: glyphs are drawn at *)
(* a pixel column and row, scrolling moves the buffer, and the cursor is   *)
(* a rectangle of inverted pixels that is inverted again to hide it.       *)
(* A pixel is the ink it was last written with, and whether it has been    *)
(* inverted since.  The formats of a pixel in bytes are left out.          *)
(***************************************************************************)
EXTENDS Integers, FiniteSets

CONSTANTS
    WIDTH, HEIGHT,                 \* FrameBufferInfo
    FONT_WIDTH, FONT_HEIGHT,       \* of every glyph: the font is monospaced
    LETTER_SPACING, LINE_SPACING, BORDER, CURSOR_WIDTH,
    Glyphs, Space, Unknown, Strange,
    Background,                    \* the ink of cleared pixels
    Leftover                       \* what the firmware left on the screen

Advance == FONT_WIDTH + LETTER_SPACING
PixelRows == FONT_HEIGHT + LINE_SPACING

\* At least one glyph fits between the borders; the boot configuration asks
\* for 1024 by 768.  The pixels of a glyph are told from the background.
ASSUME ScreenAssumption ==
    /\ {WIDTH, HEIGHT, FONT_WIDTH, FONT_HEIGHT, LETTER_SPACING, LINE_SPACING, BORDER,
        CURSOR_WIDTH} \subseteq Nat
    /\ FONT_WIDTH > 0 /\ FONT_HEIGHT > 0
    /\ 2 * BORDER + Advance <= WIDTH
    /\ 2 * BORDER + FONT_HEIGHT <= HEIGHT /\ PixelRows <= HEIGHT
    /\ Space \in Glyphs /\ Unknown \in Glyphs /\ Strange \cap Glyphs = {}
    /\ \A glyph \in Glyphs : Background # <<glyph, 0, 0>>

VARIABLE writer      \* FramebufferWriter: ink and inverted stand for its buffer

Xs == 0 .. WIDTH - 1
Ys == 0 .. HEIGHT - 1
Pixels == Xs \X Ys

\* A glyph's pixels: blend gives the background where its intensity is 0.
Ink(glyph, x, y) == IF glyph = Space THEN Background ELSE <<glyph, x, y>>

(***************************************************************************)
(* FramebufferWriter                                                       *)
(***************************************************************************)
new == [ink |-> [p \in Pixels |-> Leftover], inverted |-> {},
        column |-> BORDER, row |-> BORDER, cursor_visible |-> FALSE]

\* write_pixel on every pixel of a rectangle that is on the screen: those of
\* a glyph at the writer's position, or of a space, the background anywhere.
Fill(w, xs, ys, glyph) ==
    [w EXCEPT !.ink = [p \in Pixels |->
                          IF p[1] \in xs /\ p[2] \in ys THEN Ink(glyph, p[1] - w.column, p[2] - w.row)
                          ELSE w.ink[p]],
              !.inverted = @ \ (xs \X ys)]

\* Mutant: the last column is missed.
clear_short(w) ==
    [Fill(w, Xs \ {WIDTH - 1}, Ys, Space)
        EXCEPT !.column = BORDER, !.row = BORDER, !.cursor_visible = FALSE]

clear(w) ==
    [Fill(w, Xs, Ys, Space) EXCEPT !.column = BORDER, !.row = BORDER, !.cursor_visible = FALSE]

\* Mutant: the rows that scrolling frees keep what they showed.
scroll_dirty(w) ==
    [w EXCEPT !.ink = [p \in Pixels |-> w.ink[<<p[1], IF p[2] + PixelRows \in Ys THEN p[2] + PixelRows ELSE p[2]>>]],
              !.row = IF @ >= PixelRows THEN @ - PixelRows ELSE 0]

\* copy_within by whole rows, then the bottom rows are cleared.
scroll(w) ==
    LET From(y) == IF y + PixelRows \in Ys THEN y + PixelRows ELSE y
        moved == [w EXCEPT !.ink = [p \in Pixels |-> w.ink[<<p[1], From(p[2])>>]],
                           !.inverted = {p \in Pixels : <<p[1], From(p[2])>> \in w.inverted}]
    IN [Fill(moved, Xs, {y \in Ys : y >= HEIGHT - PixelRows}, Space)
            EXCEPT !.row = IF @ >= PixelRows THEN @ - PixelRows ELSE 0]

\* Mutant: the screen scrolls only when the row has left it altogether.
new_line_late(w) ==
    LET down == [w EXCEPT !.column = BORDER, !.row = @ + PixelRows]
    IN IF down.row >= HEIGHT THEN scroll(down) ELSE down

new_line(w) ==
    LET down == [w EXCEPT !.column = BORDER, !.row = @ + PixelRows]
    IN IF down.row + FONT_HEIGHT + BORDER > HEIGHT THEN scroll(down) ELSE down

\* write_character for a glyph of the font.
Draw(w, glyph) ==
    LET at == IF w.column + Advance + BORDER > WIDTH THEN new_line(w) ELSE w
    IN [Fill(at, at.column .. at.column + FONT_WIDTH - 1, at.row .. at.row + FONT_HEIGHT - 1, glyph)
            EXCEPT !.column = @ + Advance]

write_character(w, character) ==
    Draw(w, IF character \in Glyphs THEN character ELSE Unknown)

backspace(w) ==
    IF w.column <= BORDER THEN w
    ELSE LET column == IF w.column - Advance > BORDER THEN w.column - Advance ELSE BORDER
         IN Fill([w EXCEPT !.column = column],
                 column .. column + Advance - 1, w.row .. w.row + FONT_HEIGHT - 1, Space)

\* The cursor's rectangle, as far as it is on the screen.
CursorAt(w) ==
    {p \in Pixels : p[1] - w.column \in 0 .. CURSOR_WIDTH - 1 /\ p[2] - w.row \in 0 .. FONT_HEIGHT - 1}

\* Inverting twice gives the pixel back.
toggle_cursor(w) ==
    [w EXCEPT !.inverted = (@ \ CursorAt(w)) \cup (CursorAt(w) \ @)]

show_cursor(w) ==
    IF w.cursor_visible THEN w ELSE [toggle_cursor(w) EXCEPT !.cursor_visible = TRUE]

\* Mutant: the mark is taken off, its flag is not.
hide_cursor_flagged(w) == IF w.cursor_visible THEN toggle_cursor(w) ELSE w

hide_cursor(w) ==
    IF w.cursor_visible THEN [toggle_cursor(w) EXCEPT !.cursor_visible = FALSE] ELSE w

-----------------------------------------------------------------------------
(***************************************************************************)
(* The calls the kernel makes.  print hides the cursor and writes its text *)
(* under one lock; since hiding a hidden cursor does nothing, a text of    *)
(* several characters is as many steps of one.                             *)
(***************************************************************************)

\* kernel_main: init, and clear before anything is printed.
Init == writer = clear(new)

PrintCharacter(character) == writer' = write_character(hide_cursor(writer), character)

PrintTab ==
    LET tab == write_character(write_character(hide_cursor(writer), Space), Space)
    IN writer' = write_character(write_character(tab, Space), Space)

PrintNewLine == writer' = new_line(hide_cursor(writer))

PrintReturn == writer' = [hide_cursor(writer) EXCEPT !.column = BORDER]

PrintBackspace == writer' = backspace(hide_cursor(writer))

ShowCursor == writer' = show_cursor(writer)

Clear == writer' = clear(writer)

Next ==
    \/ \E character \in Glyphs \cup Strange : PrintCharacter(character)
    \/ PrintTab \/ PrintNewLine \/ PrintReturn \/ PrintBackspace
    \/ ShowCursor \/ Clear

Spec == Init /\ [][Next]_writer

-----------------------------------------------------------------------------
(***************************************************************************)
(* Properties.                                                             *)
(***************************************************************************)

\* The writer keeps its type, and its position is one from which a glyph
\* can be drawn whole, between the borders, after at most one new line.
TypeOK ==
    /\ DOMAIN writer.ink = Pixels /\ writer.inverted \subseteq Pixels
    /\ writer.cursor_visible \in BOOLEAN
    /\ writer.column \in BORDER .. WIDTH - BORDER
    /\ writer.row \in BORDER .. HEIGHT - BORDER - FONT_HEIGHT

\* Inversion is undone before the cursor moves: the inverted pixels are
\* those of a visible cursor at its present place, and none when it is
\* hidden, through scrolling, clearing and printing over it.
CursorLeavesNoTrace ==
    writer.inverted = IF writer.cursor_visible THEN CursorAt(writer) ELSE {}

(***************************************************************************)
(* The picture as text.  A cell shows a glyph when its pixels are that     *)
(* glyph's and the spacing around it is clear; anything else is Garbage.   *)
(***************************************************************************)
Cols == (WIDTH - 2 * BORDER) \div Advance
Rows == (HEIGHT - 2 * BORDER - FONT_HEIGHT) \div PixelRows + 1

CellShows(w, r, c, glyph) ==
    \A x \in 0 .. Advance - 1, y \in 0 .. PixelRows - 1 :
        BORDER + r * PixelRows + y \in Ys =>
            w.ink[<<BORDER + c * Advance + x, BORDER + r * PixelRows + y>>] =
                IF x < FONT_WIDTH /\ y < FONT_HEIGHT THEN Ink(glyph, x, y) ELSE Background

Garbage == "garbage"

Cell(w, r, c) ==
    IF \E glyph \in Glyphs : CellShows(w, r, c, glyph)
    THEN CHOOSE glyph \in Glyphs : CellShows(w, r, c, glyph) ELSE Garbage

Picture(w) == [r \in 0 .. Rows - 1 |-> [c \in 0 .. Cols - 1 |-> Cell(w, r, c)]]
LineOf(w) == (w.row - BORDER) \div PixelRows
PositionOf(w) == (w.column - BORDER) \div Advance

Text == INSTANCE Terminal WITH
    cells    <- Picture(writer),
    line     <- LineOf(writer),
    position <- PositionOf(writer),
    marked   <- writer.cursor_visible

\* Pixels, wrapping, scrolling and erasing add up to a terminal: every cell
\* of the picture shows the character the terminal has there.
ImplementsTerminal == Text!Spec

\* Nothing is ever drawn beside or below the cells.  Above them scrolling
\* leaves the foot of the line that went, since it moves the border along
\* with the text and BORDER is larger than LINE_SPACING.
SidesStayClear ==
    \A p \in Pixels :
        \/ writer.ink[p] = Background
        \/ /\ p[1] \in BORDER .. BORDER + Cols * Advance - 1
           /\ p[2] < BORDER + Rows * PixelRows
=============================================================================
