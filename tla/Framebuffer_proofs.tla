------------------------- MODULE Framebuffer_proofs -------------------------
(***************************************************************************)
(* Proofs about the framebuffer console, for every size of screen, font,   *)
(* spacing, border and cursor.  Every property is a property of one record *)
(* of the writer, so the lemmas say what each method does to a good        *)
(* writer, and the induction over steps only composes them.                *)
(* The last part is about the reports that Console models: a fault or a    *)
(* panic that has turned interrupts off is not interrupted any more.       *)
(***************************************************************************)
EXTENDS Framebuffer, Console, TLAPS

Inks == {Background, Leftover} \cup (Glyphs \X Int \X Int)

Writers == [ink : [Pixels -> Inks], inverted : SUBSET Pixels,
            column : Nat, row : Nat, cursor_visible : BOOLEAN]

\* The columns and rows that a glyph is drawn at, and one column more, where
\* the next glyph wraps.
Columns == {BORDER + c * Advance : c \in 0 .. Cols}
Lines == {BORDER + r * PixelRows : r \in 0 .. Rows - 1}

\* Where a glyph may leave ink.
Inside(p) ==
    /\ p[1] \in BORDER .. BORDER + Cols * Advance - 1
    /\ p[2] < BORDER + Rows * PixelRows

Clean(w) == \A p \in Pixels : w.ink[p] = Background \/ Inside(p)

Good(w) == w \in Writers /\ w.column \in Columns /\ w.row \in Lines /\ Clean(w)

\* A good writer with its cursor off, as every print leaves it.
Unmarked(w) == Good(w) /\ w.inverted = {} /\ w.cursor_visible = FALSE

Marked(w) == w.inverted = IF w.cursor_visible THEN CursorAt(w) ELSE {}

-----------------------------------------------------------------------------
(***************************************************************************)
(* Arithmetic of the cells.                                                *)
(***************************************************************************)

\* The sizes are numbers, and the steps from cell to cell are positive.
LEMMA Sizes ==
    /\ WIDTH \in Nat /\ HEIGHT \in Nat /\ FONT_WIDTH \in Nat /\ FONT_HEIGHT \in Nat
    /\ LETTER_SPACING \in Nat /\ LINE_SPACING \in Nat /\ BORDER \in Nat /\ CURSOR_WIDTH \in Nat
    /\ Advance \in Nat /\ Advance >= FONT_WIDTH /\ FONT_WIDTH > 0
    /\ PixelRows \in Nat /\ PixelRows >= FONT_HEIGHT /\ FONT_HEIGHT > 0
    /\ 2 * BORDER + Advance <= WIDTH
    /\ 2 * BORDER + FONT_HEIGHT <= HEIGHT /\ PixelRows <= HEIGHT
    /\ Space \in Glyphs /\ Unknown \in Glyphs
BY ScreenAssumption DEF ScreenAssumption, Advance, PixelRows

\* k steps fit into a room exactly when k is at most the quotient.
LEMMA StepsThatFit ==
    ASSUME NEW a \in Nat, a > 0, NEW room \in Nat, NEW k \in Nat
    PROVE  /\ room \div a \in Nat
           /\ (room \div a) * a <= room
           /\ k * a <= room => k <= room \div a
<1> DEFINE q == room \div a
<1>1. q \in Nat
  BY SMT
<1>2. q * a <= room
  BY SMT
<1>3. room < q * a + a
  BY SMT
<1> HIDE DEF q
<1>4. ASSUME k * a <= room, k > q PROVE FALSE
  <2> DEFINE d == k - (q + 1)
  <2>1. d \in Nat /\ k = q + 1 + d
    BY <1>1, <1>4
  <2> HIDE DEF d
  <2>2. k * a = q * a + a + d * a
    BY <2>1, <1>1, SMT
  <2>3. d * a \in Nat /\ q * a \in Nat
    BY <2>1, <1>1, SMT
  <2> QED BY <2>2, <2>3, <1>3, <1>4
<1> QED BY <1>1, <1>2, <1>4 DEF q

\* There is at least one column of cells, and the cells end at the border.
LEMMA CellColumns ==
    /\ Cols \in Nat /\ Cols >= 1
    /\ Cols * Advance \in Nat /\ BORDER + Cols * Advance <= WIDTH - BORDER
<1> DEFINE room == WIDTH - 2 * BORDER
<1>1. room \in Nat /\ Advance \in Nat /\ Advance > 0 /\ 1 * Advance <= room
  BY Sizes
<1>2. Cols = room \div Advance
  BY DEF Cols
<1> HIDE DEF room
<1>3. Cols \in Nat /\ Cols * Advance <= room /\ 1 <= Cols
  BY <1>1, <1>2, StepsThatFit
<1>4. Cols * Advance \in Nat
  BY <1>3, <1>1, SMT
<1> QED BY <1>3, <1>4, Sizes DEF room

\* There is at least one row of cells, and its glyph ends above the border.
LEMMA CellRows ==
    /\ Rows \in Nat /\ Rows >= 1
    /\ (Rows - 1) * PixelRows \in Nat
    /\ BORDER + (Rows - 1) * PixelRows + FONT_HEIGHT + BORDER <= HEIGHT
    /\ Rows * PixelRows = (Rows - 1) * PixelRows + PixelRows
<1> DEFINE room == HEIGHT - 2 * BORDER - FONT_HEIGHT
           q == room \div PixelRows
<1>1. room \in Nat /\ PixelRows \in Nat /\ PixelRows > 0
  BY Sizes
<1>2. Rows = q + 1
  BY DEF Rows
<1> HIDE DEF room
<1>3. q \in Nat /\ q * PixelRows <= room
  BY <1>1, StepsThatFit, 0 \in Nat
<1> HIDE DEF q
<1>4. q * PixelRows \in Nat
  BY <1>3, <1>1, SMT
<1>5. (q + 1) * PixelRows = q * PixelRows + PixelRows
  BY <1>3, <1>1, SMT
<1>6. Rows - 1 = q
  BY <1>2, <1>3
<1> QED BY <1>2, <1>3, <1>4, <1>5, <1>6, Sizes DEF room

\* k steps are a natural number of pixels, and the next step adds one.
LEMMA Step ==
    ASSUME NEW a \in Nat, NEW k \in Nat
    PROVE  k * a \in Nat /\ (k + 1) * a = k * a + a
BY SMT

\* k steps are no more than n of them if k is at most n.
LEMMA StepsMonotone ==
    ASSUME NEW a \in Nat, NEW k \in Nat, NEW n \in Nat, k <= n
    PROVE  k * a <= n * a
<1> DEFINE d == n - k
<1>1. d \in Nat /\ n = k + d
  OBVIOUS
<1> HIDE DEF d
<1>2. n * a = k * a + d * a /\ d * a \in Nat /\ k * a \in Nat
  BY <1>1, SMT
<1> QED BY <1>2

\* A column of the writer: where it is, and what follows when a glyph fits.
LEMMA ColumnFacts ==
    ASSUME NEW column \in Columns
    PROVE  /\ column \in Nat /\ column >= BORDER /\ column <= BORDER + Cols * Advance
           /\ column + Advance + BORDER <= WIDTH =>
                  /\ column + Advance \in Columns
                  /\ column + Advance <= BORDER + Cols * Advance
           /\ column > BORDER => column - Advance \in Columns
<1>1. PICK c \in 0 .. Cols : column = BORDER + c * Advance
  BY DEF Columns
<1>2. c \in Nat /\ c <= Cols /\ Cols \in Nat /\ Advance \in Nat /\ Advance > 0 /\ BORDER \in Nat /\ WIDTH \in Nat
  BY CellColumns, Sizes
<1>3. c * Advance \in Nat /\ (c + 1) * Advance = c * Advance + Advance
  BY <1>2, Step
<1>4. c * Advance <= Cols * Advance
  BY <1>2, StepsMonotone
<1>5. ASSUME column + Advance + BORDER <= WIDTH
      PROVE  column + Advance \in Columns /\ column + Advance <= BORDER + Cols * Advance
  <2> DEFINE room == WIDTH - 2 * BORDER
  <2>1. (c + 1) * Advance <= room /\ room \in Nat
    BY <1>1, <1>2, <1>3, <1>5
  <2>2. Cols = room \div Advance
    BY DEF Cols
  <2> HIDE DEF room
  <2>3. c + 1 <= Cols
    BY <2>1, <2>2, <1>2, StepsThatFit, c + 1 \in Nat
  <2>4. column + Advance = BORDER + (c + 1) * Advance /\ c + 1 \in 0 .. Cols
    BY <1>1, <1>2, <1>3, <2>3
  <2>5. (c + 1) * Advance <= Cols * Advance
    BY <2>3, <1>2, StepsMonotone, c + 1 \in Nat
  <2>6. column + Advance \in Columns
    BY <2>4 DEF Columns
  <2> QED BY <2>4, <2>5, <2>6, <1>2, <1>3, CellColumns
<1>6. ASSUME column > BORDER PROVE column - Advance \in Columns
  <2>1. c # 0
    <3>1. SUFFICES ASSUME c = 0 PROVE FALSE
      OBVIOUS
    <3>2. c * Advance = 0
      BY <3>1, <1>2, SMT
    <3> QED BY <3>2, <1>1, <1>6, <1>2
  <2> DEFINE k == c - 1
  <2>2. k \in Nat /\ c = k + 1 /\ k \in 0 .. Cols
    BY <1>2, <2>1
  <2> HIDE DEF k
  <2>3. k * Advance \in Nat /\ (k + 1) * Advance = k * Advance + Advance
    BY <2>2, <1>2, Step
  <2>4. column - Advance = BORDER + k * Advance
    BY <2>2, <2>3, <1>1, <1>2
  <2> QED BY <2>2, <2>4 DEF Columns
<1> QED BY <1>1, <1>2, <1>3, <1>4, <1>5, <1>6, CellColumns

\* A row of the writer: its glyphs end above the border, and either the next
\* row is one too or the screen is full.
LEMMA LineFacts ==
    ASSUME NEW row \in Lines
    PROVE  /\ row \in Nat /\ row >= BORDER /\ row + FONT_HEIGHT + BORDER <= HEIGHT
           /\ row + PixelRows <= BORDER + Rows * PixelRows
           /\ row + PixelRows + FONT_HEIGHT + BORDER <= HEIGHT => row + PixelRows \in Lines
<1>1. PICK r \in 0 .. Rows - 1 : row = BORDER + r * PixelRows
  BY DEF Lines
<1>2. r \in Nat /\ r <= Rows - 1 /\ Rows - 1 \in Nat /\ Rows \in Nat
      /\ PixelRows \in Nat /\ PixelRows > 0 /\ BORDER \in Nat /\ HEIGHT \in Nat /\ FONT_HEIGHT \in Nat
  BY CellRows, Sizes
<1>3. r * PixelRows \in Nat /\ (r + 1) * PixelRows = r * PixelRows + PixelRows
  BY <1>2, Step
<1>4. r * PixelRows <= (Rows - 1) * PixelRows
  BY <1>2, StepsMonotone
<1>5. ASSUME row + PixelRows + FONT_HEIGHT + BORDER <= HEIGHT
      PROVE  row + PixelRows \in Lines
  <2> DEFINE room == HEIGHT - 2 * BORDER - FONT_HEIGHT
  <2>1. (r + 1) * PixelRows <= room /\ room \in Nat
    BY <1>1, <1>2, <1>3, <1>5
  <2>2. Rows = room \div PixelRows + 1
    BY DEF Rows
  <2> HIDE DEF room
  <2>3. r + 1 <= room \div PixelRows /\ room \div PixelRows \in Nat
    BY <2>1, <1>2, StepsThatFit, r + 1 \in Nat
  <2>4. r + 1 \in 0 .. Rows - 1
    BY <2>2, <2>3, <1>2
  <2>5. row + PixelRows = BORDER + (r + 1) * PixelRows
    BY <1>1, <1>2, <1>3
  <2> QED BY <2>4, <2>5 DEF Lines
<1> QED BY <1>1, <1>2, <1>3, <1>4, <1>5, CellRows

\* The writer starts at a cell.
LEMMA FirstCell == BORDER \in Columns /\ BORDER \in Lines
<1>1. BORDER \in Columns
  <2>1. 0 \in 0 .. Cols /\ BORDER = BORDER + 0 * Advance
    BY CellColumns, Sizes
  <2> QED BY <2>1 DEF Columns
<1>2. BORDER \in Lines
  <2>1. 0 \in 0 .. Rows - 1 /\ BORDER = BORDER + 0 * PixelRows
    BY CellRows, Sizes
  <2> QED BY <2>1 DEF Lines
<1> QED BY <1>1, <1>2

-----------------------------------------------------------------------------
(***************************************************************************)
(* What the methods do to a writer.                                        *)
(***************************************************************************)

\* write_pixel over a rectangle changes the pixels in it and nothing else.
LEMMA FillFacts ==
    ASSUME NEW w \in Writers, NEW xs, NEW ys, NEW glyph \in Glyphs
    PROVE  /\ Fill(w, xs, ys, glyph) \in Writers
           /\ Fill(w, xs, ys, glyph).column = w.column
           /\ Fill(w, xs, ys, glyph).row = w.row
           /\ Fill(w, xs, ys, glyph).cursor_visible = w.cursor_visible
           /\ Fill(w, xs, ys, glyph).inverted = w.inverted \ (xs \X ys)
           /\ \A p \in Pixels : Fill(w, xs, ys, glyph).ink[p] =
                  IF p[1] \in xs /\ p[2] \in ys THEN Ink(glyph, p[1] - w.column, p[2] - w.row)
                  ELSE w.ink[p]
<1> DEFINE ink == [p \in Pixels |->
                      IF p[1] \in xs /\ p[2] \in ys THEN Ink(glyph, p[1] - w.column, p[2] - w.row)
                      ELSE w.ink[p]]
<1>1. ASSUME NEW p \in Pixels PROVE ink[p] \in Inks
  <2>1. p[1] \in Int /\ p[2] \in Int /\ w.column \in Int /\ w.row \in Int /\ w.ink[p] \in Inks
    BY Sizes DEF Pixels, Xs, Ys, Writers
  <2>2. Ink(glyph, p[1] - w.column, p[2] - w.row) \in Inks
    BY <2>1 DEF Ink, Inks
  <2> QED BY <2>1, <2>2
<1>2. ink \in [Pixels -> Inks]
  BY <1>1
<1>3. Fill(w, xs, ys, glyph) = [w EXCEPT !.ink = ink, !.inverted = w.inverted \ (xs \X ys)]
  BY DEF Fill, Writers
<1>4. \A p \in Pixels : ink[p] =
          IF p[1] \in xs /\ p[2] \in ys THEN Ink(glyph, p[1] - w.column, p[2] - w.row) ELSE w.ink[p]
  OBVIOUS
<1> HIDE DEF ink
<1>5. w.inverted \ (xs \X ys) \in SUBSET Pixels
  BY DEF Writers
<1> QED BY <1>2, <1>3, <1>4, <1>5 DEF Writers

\* The background may be written anywhere, a glyph inside the cells.
LEMMA FillKeepsClean ==
    ASSUME NEW w \in Writers, Clean(w), NEW xs, NEW ys, NEW glyph \in Glyphs,
           \/ glyph = Space
           \/ \A p \in Pixels : p[1] \in xs /\ p[2] \in ys => Inside(p)
    PROVE  Clean(Fill(w, xs, ys, glyph))
<1> DEFINE f == Fill(w, xs, ys, glyph)
<1> SUFFICES ASSUME NEW p \in Pixels PROVE f.ink[p] = Background \/ Inside(p)
  BY DEF Clean
<1>1. f.ink[p] = IF p[1] \in xs /\ p[2] \in ys THEN Ink(glyph, p[1] - w.column, p[2] - w.row)
                 ELSE w.ink[p]
  BY FillFacts
<1> HIDE DEF f
<1>2. w.ink[p] = Background \/ Inside(p)
  BY DEF Clean
<1> QED BY <1>1, <1>2 DEF Ink

\* clear makes a good writer of any, and no pixel is left inverted.
LEMMA ClearFacts ==
    ASSUME NEW w \in Writers
    PROVE  Unmarked(clear(w))
<1> DEFINE f == Fill(w, Xs, Ys, Space)
<1>1. /\ f \in Writers /\ f.inverted = w.inverted \ Pixels
      /\ \A p \in Pixels : f.ink[p] = Background
  BY FillFacts, Sizes DEF Ink, Pixels
<1>2. f.inverted = {}
  BY <1>1 DEF Writers
<1>3. clear(w) = [f EXCEPT !.column = BORDER, !.row = BORDER, !.cursor_visible = FALSE]
  BY DEF clear
<1> HIDE DEF f
<1>4. /\ clear(w) \in Writers /\ clear(w).column = BORDER /\ clear(w).row = BORDER
      /\ clear(w).ink = f.ink /\ clear(w).inverted = {} /\ clear(w).cursor_visible = FALSE
  BY <1>1, <1>2, <1>3, Sizes DEF Writers
<1> QED BY <1>1, <1>4, FirstCell DEF Unmarked, Good, Clean

\* The screen moves up a row: the writer too, and nothing comes to lie beside
\* or below the cells.
LEMMA ScrollFacts ==
    ASSUME NEW w \in Writers, Clean(w), w.inverted = {}, w.row >= PixelRows
    PROVE  /\ scroll(w) \in Writers /\ Clean(scroll(w)) /\ scroll(w).inverted = {}
           /\ scroll(w).column = w.column /\ scroll(w).row = w.row - PixelRows
           /\ scroll(w).cursor_visible = w.cursor_visible
           /\ \A p \in Pixels : scroll(w).ink[p] =
                  IF p[2] + PixelRows \in Ys THEN w.ink[<<p[1], p[2] + PixelRows>>] ELSE Background
<1> DEFINE From(y) == IF y + PixelRows \in Ys THEN y + PixelRows ELSE y
           ink == [p \in Pixels |-> w.ink[<<p[1], From(p[2])>>]]
           inverted == {p \in Pixels : <<p[1], From(p[2])>> \in w.inverted}
           moved == [w EXCEPT !.ink = ink, !.inverted = inverted]
           bottom == {y \in Ys : y >= HEIGHT - PixelRows}
           f == Fill(moved, Xs, bottom, Space)
<1>1. ASSUME NEW p \in Pixels PROVE <<p[1], From(p[2])>> \in Pixels /\ p[2] \in Ys /\ From(p[2]) \in Ys
  BY DEF Pixels
<1>2. ink \in [Pixels -> Inks]
  BY <1>1 DEF Writers
<1>3. inverted = {}
  OBVIOUS
<1>4. \A p \in Pixels : ink[p] = w.ink[<<p[1], From(p[2])>>]
  OBVIOUS
<1>5. scroll(w) = [f EXCEPT !.row = IF f.row >= PixelRows THEN f.row - PixelRows ELSE 0]
  BY DEF scroll
<1> HIDE DEF ink, inverted
<1>6. /\ moved \in Writers /\ moved.ink = ink /\ moved.inverted = {} /\ moved.row = w.row
      /\ moved.column = w.column /\ moved.cursor_visible = w.cursor_visible
  BY <1>2, <1>3 DEF Writers
<1> HIDE DEF moved
<1>7. /\ f \in Writers /\ f.column = w.column /\ f.row = w.row /\ f.cursor_visible = w.cursor_visible
      /\ f.inverted = {}
      /\ \A p \in Pixels : f.ink[p] = IF p[2] \in bottom THEN Background ELSE ink[p]
  <2>1. /\ f \in Writers /\ f.column = w.column /\ f.row = w.row /\ f.cursor_visible = w.cursor_visible
        /\ f.inverted = {}
    BY <1>6, FillFacts, Sizes
  <2>2. ASSUME NEW p \in Pixels PROVE f.ink[p] = IF p[2] \in bottom THEN Background ELSE ink[p]
    <3>1. f.ink[p] = IF p[1] \in Xs /\ p[2] \in bottom
                     THEN Ink(Space, p[1] - moved.column, p[2] - moved.row) ELSE moved.ink[p]
      BY <1>6, FillFacts, Sizes
    <3>2. p[1] \in Xs
      BY DEF Pixels
    <3> HIDE DEF f, bottom
    <3> QED BY <3>1, <3>2, <1>6 DEF Ink
  <2> QED BY <2>1, <2>2
<1> HIDE DEF f
<1>8. ASSUME NEW p \in Pixels PROVE f.ink[p] = Background \/ Inside(p)
  <2>1. CASE p[2] \in bottom
    BY <2>1, <1>7
  <2>2. CASE p[2] \notin bottom
    <3>0. \A y \in Ys : y \notin bottom => y \in Nat /\ PixelRows \in Nat /\ y + PixelRows \in Ys
      BY Sizes DEF Ys
    <3>1. p[2] \in Nat /\ PixelRows \in Nat /\ p[2] + PixelRows \in Ys
      BY <3>0, <2>2, <1>1
    <3> DEFINE q == <<p[1], p[2] + PixelRows>>
    <3>2. f.ink[p] = w.ink[q] /\ q \in Pixels
      BY <3>1, <2>2, <1>1, <1>4, <1>7
    <3>3. Inside(q) => Inside(p)
      BY <3>1, CellRows, Sizes DEF Inside
    <3> QED BY <3>2, <3>3 DEF Clean
  <2> QED BY <2>1, <2>2
<1>9. /\ scroll(w) \in Writers /\ scroll(w).ink = f.ink /\ scroll(w).inverted = {}
      /\ scroll(w).column = w.column /\ scroll(w).row = w.row - PixelRows
      /\ scroll(w).cursor_visible = w.cursor_visible
  BY <1>5, <1>7, Sizes DEF Writers
<1>10. ASSUME NEW p \in Pixels
       PROVE  f.ink[p] = IF p[2] + PixelRows \in Ys THEN w.ink[<<p[1], p[2] + PixelRows>>] ELSE Background
  <2>1. \A y \in Ys : y \in bottom <=> y + PixelRows \notin Ys
    BY Sizes DEF Ys
  <2> HIDE DEF bottom
  <2> QED BY <2>1, <1>1, <1>4, <1>7
<1> QED BY <1>8, <1>9, <1>10 DEF Clean

\* new_line leads to the first column of a row of cells, scrolling if it has
\* to.
LEMMA NewLineFacts ==
    ASSUME NEW w, Unmarked(w)
    PROVE  Unmarked(new_line(w)) /\ new_line(w).column = BORDER
<1> DEFINE down == [w EXCEPT !.column = BORDER, !.row = w.row + PixelRows]
<1>1. w \in Writers /\ w.column \in Columns /\ w.row \in Lines /\ Clean(w)
      /\ w.inverted = {} /\ w.cursor_visible = FALSE
  BY DEF Unmarked, Good
<1>2. /\ w.row \in Nat /\ PixelRows \in Nat /\ FONT_HEIGHT \in Nat /\ BORDER \in Nat /\ HEIGHT \in Nat
      /\ w.row + PixelRows + FONT_HEIGHT + BORDER <= HEIGHT => w.row + PixelRows \in Lines
  BY <1>1, LineFacts, Sizes
<1>3. new_line(w) = IF down.row + FONT_HEIGHT + BORDER > HEIGHT THEN scroll(down) ELSE down
  BY DEF new_line
<1>4. /\ down \in Writers /\ down.ink = w.ink /\ down.inverted = {} /\ down.column = BORDER
      /\ down.row = w.row + PixelRows /\ down.cursor_visible = FALSE
  <2> DEFINE row == w.row + PixelRows
  <2>1. row \in Nat /\ down = [w EXCEPT !.column = BORDER, !.row = row]
    BY <1>2
  <2> HIDE DEF row, down
  <2>2. /\ down \in Writers /\ down.ink = w.ink /\ down.inverted = {} /\ down.column = BORDER
        /\ down.row = row /\ down.cursor_visible = FALSE
    BY <2>1, <1>1, Sizes DEF Writers
  <2> QED BY <2>2 DEF row
<1> HIDE DEF down
<1>5. Clean(down)
  BY <1>1, <1>4 DEF Clean
<1>6. CASE down.row + FONT_HEIGHT + BORDER > HEIGHT
  <2>1. /\ scroll(down) \in Writers /\ Clean(scroll(down)) /\ scroll(down).inverted = {}
        /\ scroll(down).column = BORDER /\ scroll(down).row = down.row - PixelRows
        /\ scroll(down).cursor_visible = FALSE
    BY <1>2, <1>4, <1>5, ScrollFacts
  <2>2. scroll(down).row = w.row
    BY <2>1, <1>2, <1>4
  <2> QED BY <2>1, <2>2, <1>1, <1>3, <1>6, FirstCell DEF Unmarked, Good
<1>7. CASE ~ (down.row + FONT_HEIGHT + BORDER > HEIGHT)
  <2>1. w.row + PixelRows + FONT_HEIGHT + BORDER <= HEIGHT
    BY <1>2, <1>4, <1>7
  <2> QED BY <2>1, <1>2, <1>3, <1>4, <1>5, <1>7, FirstCell DEF Unmarked, Good
<1> QED BY <1>6, <1>7

\* A glyph is drawn whole inside the cells, and the writer moves on by one.
LEMMA DrawFacts ==
    ASSUME NEW w, Unmarked(w), NEW glyph \in Glyphs
    PROVE  Unmarked(Draw(w, glyph))
<1> DEFINE at == IF w.column + Advance + BORDER > WIDTH THEN new_line(w) ELSE w
           xs == at.column .. at.column + FONT_WIDTH - 1
           ys == at.row .. at.row + FONT_HEIGHT - 1
           f == Fill(at, xs, ys, glyph)
<1>1. w.column \in Columns
  BY DEF Unmarked, Good
<1>2. Unmarked(at) /\ at.column + Advance + BORDER <= WIDTH
  <2>1. CASE w.column + Advance + BORDER > WIDTH
    BY <2>1, NewLineFacts, Sizes
  <2>2. CASE ~ (w.column + Advance + BORDER > WIDTH)
    BY <2>2, <1>1, ColumnFacts, Sizes
  <2> QED BY <2>1, <2>2
<1>3. Draw(w, glyph) = [f EXCEPT !.column = f.column + Advance]
  BY DEF Draw
<1> HIDE DEF at
<1>4. at \in Writers /\ at.column \in Columns /\ at.row \in Lines /\ Clean(at)
      /\ at.inverted = {} /\ at.cursor_visible = FALSE
  BY <1>2 DEF Unmarked, Good
<1>5. /\ at.column \in Nat /\ at.column >= BORDER /\ at.column + Advance \in Columns
      /\ at.column + Advance <= BORDER + Cols * Advance
      /\ at.row \in Nat /\ at.row + PixelRows <= BORDER + Rows * PixelRows
  BY <1>2, <1>4, ColumnFacts, LineFacts
<1>6. ASSUME NEW p \in Pixels, p[1] \in xs, p[2] \in ys PROVE Inside(p)
  BY <1>5, <1>6, Sizes, CellColumns, CellRows DEF Inside
<1>7. Clean(f)
  BY <1>4, <1>6, FillKeepsClean
<1>8. /\ f \in Writers /\ f.column = at.column /\ f.row = at.row
      /\ f.cursor_visible = FALSE /\ f.inverted = {}
  BY <1>4, FillFacts
<1> HIDE DEF f
<1>9. /\ Draw(w, glyph) \in Writers /\ Draw(w, glyph).ink = f.ink /\ Draw(w, glyph).inverted = {}
      /\ Draw(w, glyph).column = at.column + Advance /\ Draw(w, glyph).row = at.row
      /\ Draw(w, glyph).cursor_visible = FALSE
  BY <1>3, <1>5, <1>8, Sizes DEF Writers
<1> QED BY <1>4, <1>5, <1>7, <1>9 DEF Unmarked, Good, Clean

\* A character that the font lacks is drawn as the unknown one.
LEMMA WriteCharacterFacts ==
    ASSUME NEW w, Unmarked(w), NEW character
    PROVE  Unmarked(write_character(w, character))
<1>1. (IF character \in Glyphs THEN character ELSE Unknown) \in Glyphs
  BY Sizes
<1> QED BY <1>1, DrawFacts DEF write_character

\* backspace goes back a cell, never past the first one.
LEMMA BackspaceFacts ==
    ASSUME NEW w, Unmarked(w)
    PROVE  Unmarked(backspace(w))
<1>1. w \in Writers /\ w.column \in Columns /\ w.row \in Lines /\ Clean(w)
      /\ w.inverted = {} /\ w.cursor_visible = FALSE
  BY DEF Unmarked, Good
<1>2. CASE w.column <= BORDER
  BY <1>2 DEF backspace
<1>3. CASE ~ (w.column <= BORDER)
  <2> DEFINE column == IF w.column - Advance > BORDER THEN w.column - Advance ELSE BORDER
             at == [w EXCEPT !.column = column]
             xs == column .. column + Advance - 1
             ys == w.row .. w.row + FONT_HEIGHT - 1
             f == Fill(at, xs, ys, Space)
  <2>1. column \in Columns
    BY <1>1, <1>3, ColumnFacts, FirstCell, Sizes
  <2>2. backspace(w) = f
    BY <1>3 DEF backspace
  <2> HIDE DEF column
  <2>3. /\ at \in Writers /\ at.ink = w.ink /\ at.inverted = {} /\ at.column = column
        /\ at.row = w.row /\ at.cursor_visible = FALSE
    BY <1>1, <2>1, ColumnFacts DEF Writers
  <2> HIDE DEF at, xs, ys
  <2>4. Clean(at)
    BY <1>1, <2>3 DEF Clean
  <2>5. Clean(f)
    BY <2>3, <2>4, FillKeepsClean, Sizes
  <2>6. /\ f \in Writers /\ f.column = column /\ f.row = w.row
        /\ f.cursor_visible = FALSE /\ f.inverted = {}
    BY <2>3, FillFacts, Sizes
  <2> QED BY <1>1, <2>1, <2>2, <2>5, <2>6 DEF Unmarked, Good
<1> QED BY <1>2, <1>3

\* Hiding a cursor whose mark is where it is takes all of the mark away.
LEMMA HideFacts ==
    ASSUME NEW w, Good(w), Marked(w)
    PROVE  Unmarked(hide_cursor(w))
<1>1. w \in Writers
  BY DEF Good
<1>2. CASE w.cursor_visible
  <2>1. w.inverted = CursorAt(w)
    BY <1>2 DEF Marked
  <2>2. (w.inverted \ CursorAt(w)) \cup (CursorAt(w) \ w.inverted) = {}
    BY <2>1
  <2>3. hide_cursor(w) = [[w EXCEPT !.inverted = {}] EXCEPT !.cursor_visible = FALSE]
    BY <1>2, <2>2 DEF hide_cursor, toggle_cursor
  <2> QED BY <1>1, <2>3 DEF Unmarked, Good, Clean, Writers
<1>3. CASE ~ w.cursor_visible
  BY <1>1, <1>3 DEF hide_cursor, Unmarked, Marked, Good, Writers
<1> QED BY <1>2, <1>3

\* Showing the cursor marks its place.
LEMMA ShowFacts ==
    ASSUME NEW w, Good(w), Marked(w)
    PROVE  Good(show_cursor(w)) /\ Marked(show_cursor(w))
<1>1. w \in Writers
  BY DEF Good
<1>2. CASE w.cursor_visible
  BY <1>2 DEF show_cursor
<1>3. CASE ~ w.cursor_visible
  <2>1. w.inverted = {} /\ CursorAt(w) \subseteq Pixels
    BY <1>3 DEF Marked, CursorAt
  <2>2. (w.inverted \ CursorAt(w)) \cup (CursorAt(w) \ w.inverted) = CursorAt(w)
    BY <2>1
  <2>3. show_cursor(w) = [[w EXCEPT !.inverted = CursorAt(w)] EXCEPT !.cursor_visible = TRUE]
    BY <1>3, <2>2 DEF show_cursor, toggle_cursor
  <2> DEFINE v == show_cursor(w)
             mark == CursorAt(w)
  <2>4. mark \in SUBSET Pixels
    BY <2>1
  <2>5. v = [[w EXCEPT !.inverted = mark] EXCEPT !.cursor_visible = TRUE]
    BY <2>3
  <2> HIDE DEF v, mark
  <2>6. /\ v \in Writers /\ v.ink = w.ink /\ v.inverted = mark /\ v.column = w.column
        /\ v.row = w.row /\ v.cursor_visible = TRUE
    BY <1>1, <2>4, <2>5 DEF Writers
  <2>7. CursorAt(v) = mark
    BY <2>6 DEF CursorAt, mark
  <2>8. Good(v) /\ Marked(v)
    BY <2>6, <2>7 DEF Good, Clean, Marked
  <2> QED BY <2>8 DEF v
<1> QED BY <1>2, <1>3

-----------------------------------------------------------------------------
(***************************************************************************)
(* The invariant: the writer is good, and its inverted pixels are those of *)
(* a visible cursor.  TypeOK alone is inductive; what is drawn stays       *)
(* inside the cells only because the writer's columns and rows are those   *)
(* of cells, which TypeOK does not say.                                    *)
(***************************************************************************)
FInv == Good(writer) /\ Marked(writer)

\* A writer with its cursor off satisfies the invariant.
LEMMA UnmarkedIsMarked ==
    ASSUME NEW w, Unmarked(w)
    PROVE  Good(w) /\ Marked(w)
BY DEF Unmarked, Marked

\* clear before the first print establishes the invariant.
LEMMA InitFInv == Init => FInv
<1>1. new \in Writers
  BY Sizes DEF new, Writers, Inks
<1>2. Unmarked(clear(new))
  BY <1>1, ClearFacts
<1> QED BY <1>2, UnmarkedIsMarked DEF Init, FInv

\* Every call keeps the invariant.
LEMMA NextFInv == FInv /\ [Next]_writer => FInv'
<1> SUFFICES ASSUME FInv, [Next]_writer PROVE FInv'
  OBVIOUS
<1> DEFINE hidden == hide_cursor(writer)
<1>1. Good(writer) /\ Marked(writer) /\ Unmarked(hidden)
  BY HideFacts DEF FInv
<1> HIDE DEF hidden
<1>2. ASSUME Unmarked(writer') PROVE FInv'
  BY <1>2, UnmarkedIsMarked DEF FInv
<1>3. ASSUME NEW character, PrintCharacter(character) PROVE FInv'
  BY <1>1, <1>2, <1>3, WriteCharacterFacts DEF PrintCharacter, hidden
<1>4. CASE PrintTab
  <2>1. Unmarked(write_character(hidden, Space))
    BY <1>1, WriteCharacterFacts
  <2> QED BY <1>2, <1>4, <2>1, WriteCharacterFacts DEF PrintTab, hidden
<1>5. CASE PrintNewLine
  BY <1>1, <1>2, <1>5, NewLineFacts DEF PrintNewLine, hidden
<1>6. CASE PrintReturn
  <2>1. writer' = [hidden EXCEPT !.column = BORDER]
    BY <1>6 DEF PrintReturn, hidden
  <2>2. Unmarked(writer')
    BY <2>1, <1>1, FirstCell, Sizes DEF Unmarked, Good, Clean, Writers
  <2> QED BY <2>2, <1>2
<1>7. CASE PrintBackspace
  BY <1>1, <1>2, <1>7, BackspaceFacts DEF PrintBackspace, hidden
<1>8. CASE ShowCursor
  <2>1. Good(writer') /\ Marked(writer')
    BY <1>1, <1>8, ShowFacts DEF ShowCursor
  <2> QED BY <2>1 DEF FInv
<1>9. CASE Clear
  <2>1. Unmarked(writer')
    BY <1>1, <1>9, ClearFacts DEF Clear, Good
  <2> QED BY <2>1, <1>2
<1>10. CASE UNCHANGED writer
  BY <1>1, <1>10 DEF FInv
<1> QED BY <1>3, <1>4, <1>5, <1>6, <1>7, <1>8, <1>9, <1>10 DEF Next

\* Whatever is printed, in whatever order, the writer of framebuffer.rs stays
\* a good one and its mark is where the cursor is.
THEOREM WriterInvariance == Spec => []FInv
<1> QED BY InitFInv, NextFInv, PTL DEF Spec

\* On every screen the next glyph fits between the borders, after at most one
\* new line: write_pixel is never asked for a pixel of a glyph off the screen.
THEOREM PositionFits == Spec => []TypeOK
<1>1. FInv => TypeOK
  <2> SUFFICES ASSUME FInv PROVE TypeOK
    OBVIOUS
  <2>1. writer \in Writers /\ writer.column \in Columns /\ writer.row \in Lines
    BY DEF FInv, Good
  <2>2. writer.column \in BORDER .. WIDTH - BORDER
    BY <2>1, ColumnFacts, CellColumns, Sizes
  <2>3. writer.row \in BORDER .. HEIGHT - BORDER - FONT_HEIGHT
    <3> DEFINE row == writer.row
    <3>1. row \in Nat /\ row >= BORDER /\ row + FONT_HEIGHT + BORDER <= HEIGHT
      BY <2>1, LineFacts
    <3> HIDE DEF row
    <3>2. row \in BORDER .. HEIGHT - BORDER - FONT_HEIGHT
      BY <3>1, Sizes
    <3> QED BY <3>2 DEF row
  <2> QED BY <2>1, <2>2, <2>3 DEF TypeOK, Writers
<1> QED BY <1>1, WriterInvariance, PTL

\* Inverting the rectangle a second time always meets the rectangle of the
\* first time: the cursor of show_cursor and hide_cursor leaves no trace.
THEOREM NoTraceOfTheCursor == Spec => []CursorLeavesNoTrace
<1>1. FInv => CursorLeavesNoTrace
  BY DEF FInv, Marked, CursorLeavesNoTrace
<1> QED BY <1>1, WriterInvariance, PTL

\* Wrapping, scrolling and erasing never leave ink beside or below the cells.
THEOREM InkStaysInside == Spec => []SidesStayClear
<1>1. FInv => SidesStayClear
  BY DEF FInv, Good, Clean, Inside, SidesStayClear
<1> QED BY <1>1, WriterInvariance, PTL

-----------------------------------------------------------------------------
(***************************************************************************)
(* The picture as text: the framebuffer implements the terminal.           *)
(***************************************************************************)
Grids == [0 .. Rows - 1 -> [0 .. Cols - 1 -> Glyphs]]

Terminals == [cells : Grids, line : 0 .. Rows - 1, position : 0 .. Cols]

\* Every cell of the picture shows its glyph of the grid.
Legible(w, cells) ==
    \A r \in 0 .. Rows - 1, c \in 0 .. Cols - 1 : CellShows(w, r, c, cells[r][c])

\* The writer shows what the terminal t has, at its position.
Shows(w, t) ==
    /\ Good(w) /\ t \in Terminals
    /\ w.row = BORDER + t.line * PixelRows
    /\ w.column = BORDER + t.position * Advance
    /\ Legible(w, t.cells)

\* A number of pixels is a number of steps and a rest in one way only.
LEMMA Apart ==
    ASSUME NEW a \in Nat, NEW c \in Nat, NEW k \in Nat,
           NEW x \in 0 .. a - 1, NEW z \in 0 .. a - 1, c * a + x = k * a + z
    PROVE  c = k /\ x = z
<1>1. c * a \in Nat /\ k * a \in Nat /\ (c + 1) * a = c * a + a /\ (k + 1) * a = k * a + a
  BY Step
<1>2. c < k => (c + 1) * a <= k * a
  <2>1. c + 1 \in Nat
    OBVIOUS
  <2> HAVE c < k
  <2>2. c + 1 <= k
    OBVIOUS
  <2> QED BY <2>1, <2>2, StepsMonotone
<1>3. k < c => (k + 1) * a <= c * a
  <2>1. k + 1 \in Nat
    OBVIOUS
  <2> HAVE k < c
  <2>2. k + 1 <= c
    OBVIOUS
  <2> QED BY <2>1, <2>2, StepsMonotone
<1> DEFINE ca == c * a  ka == k * a
<1>4. ca \in Nat /\ ka \in Nat /\ ca + x = ka + z /\ (c < k => ca + a <= ka) /\ (k < c => ka + a <= ca)
  BY <1>1, <1>2, <1>3
<1> HIDE DEF ca, ka
<1>5. ~ (c < k) /\ ~ (k < c)
  BY <1>4
<1>6. c = k
  BY <1>5
<1>7. ca = ka
  BY <1>6 DEF ca, ka
<1> QED BY <1>4, <1>6, <1>7

\* k whole steps are k steps.
LEMMA WholeSteps ==
    ASSUME NEW a \in Nat, a > 0, NEW k \in Nat
    PROVE  (k * a) \div a = k
<1> DEFINE room == k * a
           q == room \div a
<1>1. room \in Nat /\ k * a <= room
  BY Step
<1> HIDE DEF room
<1>2. q \in Nat /\ q * a <= room /\ k <= q
  BY <1>1, StepsThatFit
<1> HIDE DEF q
<1>3. q * a \in Nat /\ (k + 1) * a = k * a + a
  BY <1>2, Step
<1>4. ~ (k < q)
  <2> SUFFICES ASSUME k < q PROVE FALSE
    OBVIOUS
  <2>1. k + 1 \in Nat /\ k + 1 <= q
    BY <1>2
  <2>2. (k + 1) * a <= q * a
    BY <2>1, <1>2, StepsMonotone
  <2> QED BY <2>2, <1>1, <1>2, <1>3 DEF room
<1> QED BY <1>2, <1>4 DEF q, room

\* Where the pixels of a cell are: all on the screen's columns, and those of
\* its glyph on the screen's rows.
LEMMA CellPixels ==
    ASSUME NEW r \in 0 .. Rows - 1, NEW c \in 0 .. Cols - 1,
           NEW x \in 0 .. Advance - 1, NEW y \in 0 .. PixelRows - 1
    PROVE  /\ r \in Nat /\ c \in Nat /\ r * PixelRows \in Nat /\ c * Advance \in Nat
           /\ BORDER + c * Advance + x \in Xs
           /\ BORDER + r * PixelRows + y \in Nat
           /\ y < FONT_HEIGHT => BORDER + r * PixelRows + y \in Ys
<1>1. r \in Nat /\ c \in Nat /\ Rows \in Nat /\ Cols \in Nat /\ c + 1 <= Cols /\ r <= Rows - 1 /\ Rows - 1 \in Nat
  BY CellRows, CellColumns
<1>2. r * PixelRows \in Nat /\ c * Advance \in Nat /\ (c + 1) * Advance = c * Advance + Advance
  BY <1>1, Sizes, Step
<1>3. (c + 1) * Advance <= Cols * Advance
  <2>1. c + 1 \in Nat
    BY <1>1
  <2> QED BY <2>1, <1>1, Sizes, StepsMonotone
<1>4. r * PixelRows <= (Rows - 1) * PixelRows
  BY <1>1, Sizes, StepsMonotone
<1> DEFINE ra == r * PixelRows  ca == c * Advance  rr == (Rows - 1) * PixelRows  cc == Cols * Advance
<1>5. /\ ra \in Nat /\ ca \in Nat /\ ca + Advance <= cc /\ cc \in Nat /\ BORDER + cc <= WIDTH - BORDER
      /\ ra <= rr /\ rr \in Nat /\ BORDER + rr + FONT_HEIGHT + BORDER <= HEIGHT
  BY <1>2, <1>3, <1>4, CellColumns, CellRows
<1> HIDE DEF ra, ca, rr, cc
<1>6. BORDER + ca + x \in Xs
  BY <1>5, Sizes DEF Xs
<1>7. BORDER + ra + y \in Nat
  BY <1>5, Sizes
<1>8. y < FONT_HEIGHT => BORDER + ra + y \in Ys
  BY <1>5, Sizes DEF Ys
<1> QED BY <1>1, <1>2, <1>6, <1>7, <1>8 DEF ra, ca

\* What a picture shows depends on its ink alone.
LEMMA LegibleInk ==
    ASSUME NEW w, NEW v, NEW cells, w.ink = v.ink, Legible(w, cells)
    PROVE  Legible(v, cells)
BY DEF Legible, CellShows

\* A rectangle written over a glyph's place changes that cell alone: with a
\* glyph as wide as the font, or with a space that covers the spacing too.
LEMMA FillOneCell ==
    ASSUME NEW w \in Writers, NEW cells \in Grids, Legible(w, cells),
           NEW l \in 0 .. Rows - 1, NEW k \in 0 .. Cols - 1,
           w.row = BORDER + l * PixelRows, w.column = BORDER + k * Advance,
           NEW glyph \in Glyphs, NEW n \in FONT_WIDTH .. Advance, n = FONT_WIDTH \/ glyph = Space
    PROVE  Legible(Fill(w, w.column .. w.column + n - 1, w.row .. w.row + FONT_HEIGHT - 1, glyph),
                   [cells EXCEPT ![l][k] = glyph])
<1> DEFINE xs == w.column .. w.column + n - 1
           ys == w.row .. w.row + FONT_HEIGHT - 1
           f == Fill(w, xs, ys, glyph)
           g == [cells EXCEPT ![l][k] = glyph]
<1> SUFFICES Legible(f, g)
  OBVIOUS
<1> SUFFICES ASSUME NEW r \in 0 .. Rows - 1, NEW c \in 0 .. Cols - 1,
                    NEW x \in 0 .. Advance - 1, NEW y \in 0 .. PixelRows - 1,
                    BORDER + r * PixelRows + y \in Ys
             PROVE  f.ink[<<BORDER + c * Advance + x, BORDER + r * PixelRows + y>>] =
                       IF x < FONT_WIDTH /\ y < FONT_HEIGHT THEN Ink(g[r][c], x, y) ELSE Background
  BY DEF Legible, CellShows
<1> DEFINE X == BORDER + c * Advance + x
           Y == BORDER + r * PixelRows + y
           p == <<X, Y>>
<1>1. X \in Xs /\ Y \in Ys /\ p \in Pixels /\ p[1] = X /\ p[2] = Y
  BY CellPixels DEF Pixels
<1>2. f.ink[p] = IF X \in xs /\ Y \in ys THEN Ink(glyph, X - w.column, Y - w.row) ELSE w.ink[p]
  <2> HIDE DEF X, Y, xs, ys
  <2>1. \A q \in Pixels : f.ink[q] =
            IF q[1] \in xs /\ q[2] \in ys THEN Ink(glyph, q[1] - w.column, q[2] - w.row) ELSE w.ink[q]
    BY FillFacts
  <2> HIDE DEF f
  <2> QED BY <1>1, <2>1
<1>3. w.ink[p] = IF x < FONT_WIDTH /\ y < FONT_HEIGHT THEN Ink(cells[r][c], x, y) ELSE Background
  BY DEF Legible, CellShows
<1>4. g[r][c] = IF r = l /\ c = k THEN glyph ELSE cells[r][c]
  BY DEF Grids
<1>5. /\ r \in Nat /\ c \in Nat /\ l \in Nat /\ k \in Nat /\ r * PixelRows \in Nat /\ c * Advance \in Nat
      /\ l * PixelRows \in Nat /\ k * Advance \in Nat
  BY CellPixels
<1>6. x \in Nat /\ y \in Nat /\ n \in Nat /\ n <= Advance /\ n >= FONT_WIDTH /\ BORDER \in Nat /\ FONT_HEIGHT \in Nat
      /\ FONT_HEIGHT <= PixelRows /\ PixelRows \in Nat /\ Advance \in Nat /\ FONT_WIDTH \in Nat
  BY Sizes
<1>7. CASE r = l /\ c = k
  <2>1. X - w.column = x /\ Y - w.row = y /\ (X \in xs <=> x < n) /\ (Y \in ys <=> y < FONT_HEIGHT)
    <3> DEFINE ra == r * PixelRows  ca == c * Advance
    <3>1. w.column = BORDER + ca /\ w.row = BORDER + ra /\ ra \in Nat /\ ca \in Nat /\ X = BORDER + ca + x /\ Y = BORDER + ra + y
      BY <1>5, <1>7
    <3> HIDE DEF ra, ca, X, Y
    <3> QED BY <3>1, <1>6
  <2> HIDE DEF f, g, X, Y, xs, ys
  <2>2. f.ink[p] = IF x < FONT_WIDTH /\ y < FONT_HEIGHT THEN Ink(glyph, x, y) ELSE Background
    <3>1. CASE x < FONT_WIDTH /\ y < FONT_HEIGHT
      BY <3>1, <2>1, <1>2, <1>6
    <3>2. CASE ~ (x < FONT_WIDTH /\ y < FONT_HEIGHT) /\ x < n /\ y < FONT_HEIGHT
      BY <3>2, <2>1, <1>2, <1>6 DEF Ink
    <3>3. CASE ~ (x < n /\ y < FONT_HEIGHT)
      BY <3>3, <2>1, <1>2, <1>3, <1>6
    <3> QED BY <3>1, <3>2, <3>3
  <2> QED BY <2>2, <1>4, <1>7 DEF X, Y
<1>8. CASE ~ (r = l /\ c = k)
  <2>1. ~ (X \in xs /\ Y \in ys)
    <3> SUFFICES ASSUME X \in xs, Y \in ys PROVE r = l /\ c = k
      BY <1>8
    <3> DEFINE ra == r * PixelRows  ca == c * Advance  la == l * PixelRows  ka == k * Advance
               dx == X - w.column  dy == Y - w.row
    <3>1. dx \in 0 .. Advance - 1 /\ dy \in 0 .. PixelRows - 1 /\ ca + x = ka + dx /\ ra + y = la + dy
      <4>1. w.column = BORDER + ka /\ w.row = BORDER + la /\ ra \in Nat /\ ca \in Nat /\ X = BORDER + ca + x /\ Y = BORDER + ra + y
            /\ la \in Nat /\ ka \in Nat
        BY <1>5
      <4> HIDE DEF ra, ca, la, ka, X, Y
      <4> QED BY <4>1, <1>6
    <3> HIDE DEF dx, dy, X, Y, xs, ys
    <3>2. c = k
      BY <3>1, <1>5, <1>6, Apart
    <3>3. r = l
      BY <3>1, <1>5, <1>6, Apart
    <3> QED BY <3>2, <3>3
  <2> HIDE DEF f, g, X, Y, xs, ys
  <2> QED BY <2>1, <1>2, <1>3, <1>4, <1>8 DEF X, Y
<1> QED BY <1>7, <1>8

\* A screen cleared from edge to edge is a grid of spaces.
LEMMA BlankIsLegible ==
    ASSUME NEW w, \A p \in Pixels : w.ink[p] = Background
    PROVE  Legible(w, [r \in 0 .. Rows - 1 |-> Text!BlankLine])
<1> DEFINE g == [r \in 0 .. Rows - 1 |-> Text!BlankLine]
<1> SUFFICES ASSUME NEW r \in 0 .. Rows - 1, NEW c \in 0 .. Cols - 1,
                    NEW x \in 0 .. Advance - 1, NEW y \in 0 .. PixelRows - 1,
                    BORDER + r * PixelRows + y \in Ys
             PROVE  w.ink[<<BORDER + c * Advance + x, BORDER + r * PixelRows + y>>] =
                       IF x < FONT_WIDTH /\ y < FONT_HEIGHT THEN Ink(g[r][c], x, y) ELSE Background
  BY DEF Legible, CellShows
<1>1. g[r][c] = Space
  BY DEF Text!BlankLine
<1>2. <<BORDER + c * Advance + x, BORDER + r * PixelRows + y>> \in Pixels
  BY CellPixels DEF Pixels
<1> QED BY <1>1, <1>2 DEF Ink

\* Scrolling moves every row of the text up by one and blanks the last.
LEMMA ScrollIsFeed ==
    ASSUME NEW w \in Writers, Clean(w), w.inverted = {}, w.row >= PixelRows,
           NEW cells \in Grids, Legible(w, cells)
    PROVE  Legible(scroll(w), [r \in 0 .. Rows - 1 |-> IF r + 1 < Rows THEN cells[r + 1] ELSE Text!BlankLine])
<1> DEFINE g == [r \in 0 .. Rows - 1 |-> IF r + 1 < Rows THEN cells[r + 1] ELSE Text!BlankLine]
           s == scroll(w)
<1>1. \A p \in Pixels : s.ink[p] =
          IF p[2] + PixelRows \in Ys THEN w.ink[<<p[1], p[2] + PixelRows>>] ELSE Background
  BY ScrollFacts
<1> HIDE DEF s
<1> SUFFICES ASSUME NEW r \in 0 .. Rows - 1, NEW c \in 0 .. Cols - 1,
                    NEW x \in 0 .. Advance - 1, NEW y \in 0 .. PixelRows - 1,
                    BORDER + r * PixelRows + y \in Ys
             PROVE  s.ink[<<BORDER + c * Advance + x, BORDER + r * PixelRows + y>>] =
                       IF x < FONT_WIDTH /\ y < FONT_HEIGHT THEN Ink(g[r][c], x, y) ELSE Background
  BY DEF Legible, CellShows, s
<1> DEFINE X == BORDER + c * Advance + x
           Y == BORDER + r * PixelRows + y
           Z == BORDER + (r + 1) * PixelRows + y
<1>2. X \in Xs /\ Y \in Ys /\ r \in Nat /\ Rows \in Nat /\ PixelRows \in Nat
  BY CellPixels, CellRows, Sizes
<1>3. Y + PixelRows = Z
  <2> DEFINE ra == r * PixelRows
  <2>1. ra \in Nat /\ (r + 1) * PixelRows = ra + PixelRows /\ y \in Nat /\ BORDER \in Nat
    BY <1>2, Step, Sizes
  <2> HIDE DEF ra
  <2>2. Y = BORDER + ra + y /\ Z = BORDER + (ra + PixelRows) + y
    BY <2>1 DEF ra
  <2> HIDE DEF Y, Z
  <2> QED BY <2>1, <2>2, <1>2
<1>4. s.ink[<<X, Y>>] = IF Z \in Ys THEN w.ink[<<X, Z>>] ELSE Background
  <2>1. <<X, Y>> \in Pixels
    BY <1>2 DEF Pixels
  <2> HIDE DEF X, Y, Z
  <2> QED BY <2>1, <1>1, <1>3
<1>5. CASE r + 1 < Rows
  <2>1. r + 1 \in 0 .. Rows - 1
    BY <1>2, <1>5
  <2>2. g[r][c] = cells[r + 1][c]
    BY <1>5
  <2>3. y < FONT_HEIGHT => Z \in Ys
    BY <2>1, CellPixels
  <2>4. Z \in Ys => w.ink[<<X, Z>>] =
            IF x < FONT_WIDTH /\ y < FONT_HEIGHT THEN Ink(cells[r + 1][c], x, y) ELSE Background
    BY <2>1 DEF Legible, CellShows
  <2> HIDE DEF X, Y, Z, g
  <2>5. s.ink[<<X, Y>>] = IF x < FONT_WIDTH /\ y < FONT_HEIGHT THEN Ink(g[r][c], x, y) ELSE Background
    BY <2>2, <2>3, <2>4, <1>4
  <2> QED BY <2>5 DEF X, Y
<1>6. CASE ~ (r + 1 < Rows)
  <2>1. r + 1 = Rows
    BY <1>2, <1>6
  <2>2. g[r][c] = Space
    BY <1>6 DEF Text!BlankLine
  <2>3. Z \in Ys => w.ink[<<X, Z>>] = Background
    <3>1. ~ Inside(<<X, Z>>)
      <4> DEFINE rr == Rows * PixelRows
      <4>1. Z = BORDER + rr + y /\ rr \in Nat /\ BORDER \in Nat /\ y \in Nat
        BY <2>1, Sizes, CellRows, Step
      <4> HIDE DEF rr, Z, X
      <4>2. ~ (Z < BORDER + rr)
        BY <4>1
      <4> QED BY <4>2 DEF Inside, rr
    <3>2. Z \in Ys => <<X, Z>> \in Pixels
      BY <1>2 DEF Pixels
    <3> HIDE DEF X, Z
    <3> QED BY <3>1, <3>2 DEF Clean
  <2> HIDE DEF X, Y, Z, g
  <2>4. s.ink[<<X, Y>>] = Background
    BY <2>3, <1>4
  <2> QED BY <2>2, <2>4 DEF X, Y, Ink
<1> QED BY <1>5, <1>6

\* A cell shows one glyph at most: the first pixel tells glyphs apart.
LEMMA OneGlyph ==
    ASSUME NEW w, NEW r \in 0 .. Rows - 1, NEW c \in 0 .. Cols - 1,
           NEW g \in Glyphs, NEW h \in Glyphs, CellShows(w, r, c, g), CellShows(w, r, c, h)
    PROVE  g = h
<1>1. 0 \in 0 .. Advance - 1 /\ 0 \in 0 .. PixelRows - 1 /\ 0 < FONT_HEIGHT /\ 0 < FONT_WIDTH
  BY Sizes
<1>2. BORDER + r * PixelRows + 0 \in Ys
  BY <1>1, CellPixels
<1> DEFINE p == <<BORDER + c * Advance + 0, BORDER + r * PixelRows + 0>>
<1>3. w.ink[p] = Ink(g, 0, 0) /\ w.ink[p] = Ink(h, 0, 0)
  BY <1>1, <1>2 DEF CellShows
<1> HIDE DEF p
<1>4. Background # <<g, 0, 0>> /\ Background # <<h, 0, 0>>
  BY ScreenAssumption DEF ScreenAssumption
<1> QED BY <1>3, <1>4 DEF Ink

\* The picture, read as text, is the terminal that the writer shows.
LEMMA PictureIs ==
    ASSUME NEW w, NEW t, Shows(w, t)
    PROVE  Picture(w) = t.cells /\ LineOf(w) = t.line /\ PositionOf(w) = t.position
<1>1. /\ t \in Terminals /\ w.row = BORDER + t.line * PixelRows /\ w.column = BORDER + t.position * Advance
      /\ Legible(w, t.cells)
  BY DEF Shows
<1>2. t.cells \in Grids /\ t.line \in Nat /\ t.position \in Nat
  BY <1>1, CellRows, CellColumns DEF Terminals
<1>3. ASSUME NEW r \in 0 .. Rows - 1, NEW c \in 0 .. Cols - 1
      PROVE  Cell(w, r, c) = t.cells[r][c]
  <2>1. t.cells[r][c] \in Glyphs /\ CellShows(w, r, c, t.cells[r][c])
    BY <1>1, <1>2 DEF Grids, Legible
  <2>2. Cell(w, r, c) \in Glyphs /\ CellShows(w, r, c, Cell(w, r, c))
    BY <2>1 DEF Cell
  <2> QED BY <2>1, <2>2, OneGlyph
<1>4. Picture(w) = t.cells
  BY <1>2, <1>3 DEF Picture, Grids
<1>5. LineOf(w) = t.line
  <2> DEFINE k == t.line  m == k * PixelRows
  <2>1. m \in Nat /\ m \div PixelRows = k /\ w.row - BORDER = m
    <3>1. m \in Nat /\ w.row = BORDER + m /\ BORDER \in Nat
      BY <1>1, <1>2, Sizes, Step
    <3>2. m \div PixelRows = k
      BY <1>2, Sizes, WholeSteps
    <3> HIDE DEF m
    <3> QED BY <3>1, <3>2
  <2> HIDE DEF m
  <2> QED BY <2>1 DEF LineOf
<1>6. PositionOf(w) = t.position
  <2> DEFINE k == t.position  m == k * Advance
  <2>1. m \in Nat /\ m \div Advance = k /\ w.column - BORDER = m
    <3>1. m \in Nat /\ w.column = BORDER + m /\ BORDER \in Nat
      BY <1>1, <1>2, Sizes, Step
    <3>2. m \div Advance = k
      BY <1>2, Sizes, WholeSteps
    <3> HIDE DEF m
    <3> QED BY <3>1, <3>2
  <2> HIDE DEF m
  <2> QED BY <2>1 DEF PositionOf
<1> QED BY <1>4, <1>5, <1>6

\* A terminal's parts, and where the writer that shows it stands.
LEMMA ShowsFacts ==
    ASSUME NEW w, NEW t, Shows(w, t)
    PROVE  /\ Good(w) /\ w \in Writers /\ Clean(w) /\ w.column \in Columns /\ w.row \in Lines
           /\ t \in Terminals /\ t.cells \in Grids /\ t.line \in 0 .. Rows - 1 /\ t.line \in Nat
           /\ t.position \in 0 .. Cols /\ t.position \in Nat
           /\ w.row = BORDER + t.line * PixelRows /\ w.column = BORDER + t.position * Advance
           /\ t.line * PixelRows \in Nat /\ t.position * Advance \in Nat
           /\ (t.line + 1) * PixelRows = t.line * PixelRows + PixelRows
           /\ (t.position + 1) * Advance = t.position * Advance + Advance
           /\ Legible(w, t.cells)
<1>1. /\ Good(w) /\ t \in Terminals /\ w.row = BORDER + t.line * PixelRows
      /\ w.column = BORDER + t.position * Advance /\ Legible(w, t.cells)
  BY DEF Shows
<1>2. t.cells \in Grids /\ t.line \in 0 .. Rows - 1 /\ t.position \in 0 .. Cols
  BY <1>1 DEF Terminals
<1>3. t.line \in Nat /\ t.position \in Nat
  BY <1>2, CellRows, CellColumns
<1> DEFINE l == t.line  k == t.position
<1>4. /\ l * PixelRows \in Nat /\ k * Advance \in Nat
      /\ (l + 1) * PixelRows = l * PixelRows + PixelRows
      /\ (k + 1) * Advance = k * Advance + Advance
  <2> HIDE DEF l, k
  <2> QED BY <1>3, Sizes, Step DEF l, k
<1> QED BY <1>1, <1>2, <1>3, <1>4 DEF Good

\* The writer scrolls exactly when the terminal is on its last line.
LEMMA LastLine ==
    ASSUME NEW w, NEW t, Shows(w, t)
    PROVE  w.row + PixelRows + FONT_HEIGHT + BORDER <= HEIGHT <=> t.line + 1 < Rows
<1> DEFINE l == t.line
<1>1. w.row \in Lines /\ l \in Nat /\ l <= Rows - 1 /\ w.row = BORDER + l * PixelRows /\ l * PixelRows \in Nat
      /\ (l + 1) * PixelRows = l * PixelRows + PixelRows
  BY ShowsFacts, CellRows
<1> HIDE DEF l
<1>2. /\ Rows \in Nat /\ PixelRows \in Nat /\ PixelRows > 0 /\ BORDER \in Nat /\ HEIGHT \in Nat
      /\ FONT_HEIGHT \in Nat
  BY CellRows, Sizes
<1> DEFINE down == BORDER + (l + 1) * PixelRows
<1>3. w.row + PixelRows = down /\ l + 1 \in Nat
  BY <1>1, <1>2
<1>4. ASSUME l + 1 < Rows PROVE down + FONT_HEIGHT + BORDER <= HEIGHT
  <2>1. l + 1 \in 0 .. Rows - 1
    BY <1>1, <1>2, <1>4
  <2>2. down \in Lines
    BY <2>1 DEF Lines
  <2> HIDE DEF down
  <2> QED BY <2>2, LineFacts
<1>5. ASSUME down + FONT_HEIGHT + BORDER <= HEIGHT PROVE l + 1 < Rows
  <2>1. down \in Lines
    BY <1>1, <1>3, <1>5, LineFacts
  <2>2. PICK k \in 0 .. Rows - 1 : down = BORDER + k * PixelRows
    BY <2>1 DEF Lines
  <2>3. k \in Nat /\ k * PixelRows \in Nat
    BY <1>2, <2>2, Step
  <2>4. (l + 1) * PixelRows + 0 = k * PixelRows + 0
    BY <2>2, <2>3, <1>1, <1>2
  <2>5. 0 \in 0 .. PixelRows - 1
    BY <1>2
  <2>6. l + 1 = k
    <3> DEFINE m == l + 1
    <3>1. m \in Nat /\ m * PixelRows + 0 = k * PixelRows + 0
      BY <2>4, <1>3
    <3> HIDE DEF m
    <3>2. m = k
      BY <3>1, <2>3, <2>5, <1>2, Apart
    <3> QED BY <3>2 DEF m
  <2> QED BY <2>2, <2>6, <1>2
<1>6. down + FONT_HEIGHT + BORDER <= HEIGHT <=> l + 1 < Rows
  BY <1>4, <1>5
<1> HIDE DEF down
<1> QED BY <1>3, <1>6 DEF l

\* A glyph fits on the row exactly when the terminal's line is not full.
LEMMA FullLine ==
    ASSUME NEW w, NEW t, Shows(w, t)
    PROVE  w.column + Advance + BORDER > WIDTH <=> t.position = Cols
<1> DEFINE k == t.position
<1>1. w.column \in Columns /\ k \in Nat /\ k <= Cols /\ w.column = BORDER + k * Advance
      /\ k * Advance \in Nat /\ (k + 1) * Advance = k * Advance + Advance
  BY ShowsFacts, CellColumns
<1> HIDE DEF k
<1>2. /\ Cols \in Nat /\ Cols * Advance \in Nat /\ BORDER + Cols * Advance <= WIDTH - BORDER
      /\ Advance \in Nat /\ Advance > 0 /\ BORDER \in Nat /\ WIDTH \in Nat
  BY CellColumns, Sizes
<1>3. ASSUME k # Cols PROVE w.column + Advance + BORDER <= WIDTH
  <2>1. k + 1 \in Nat /\ k + 1 <= Cols
    BY <1>1, <1>2, <1>3
  <2>2. (k + 1) * Advance <= Cols * Advance
    BY <2>1, <1>2, StepsMonotone
  <2> QED BY <2>2, <1>1, <1>2
<1>4. ASSUME k = Cols, w.column + Advance + BORDER <= WIDTH PROVE FALSE
  <2>1. w.column + Advance <= BORDER + Cols * Advance
    BY <1>1, <1>4, ColumnFacts
  <2> QED BY <2>1, <1>1, <1>2, <1>4
<1>5. w.column \in Nat
  BY <1>1, <1>2
<1> QED BY <1>2, <1>3, <1>4, <1>5 DEF k

\* new_line feeds a line.
LEMMA NewLineIsFeed ==
    ASSUME NEW w, NEW t, Unmarked(w), Shows(w, t)
    PROVE  Shows(new_line(w), Text!Feed(t))
<1> DEFINE down == [w EXCEPT !.column = BORDER, !.row = w.row + PixelRows]
           n == new_line(w)
           u == Text!Feed(t)
<1>1. Good(n) /\ n.column = BORDER /\ w.inverted = {}
  BY NewLineFacts DEF Unmarked
<1>2. n = IF down.row + FONT_HEIGHT + BORDER > HEIGHT THEN scroll(down) ELSE down
  BY DEF new_line
<1>3. /\ w \in Writers /\ Clean(w) /\ t \in Terminals /\ t.cells \in Grids /\ t.line \in 0 .. Rows - 1 /\ t.line \in Nat
      /\ w.row = BORDER + t.line * PixelRows /\ t.line * PixelRows \in Nat
      /\ (t.line + 1) * PixelRows = t.line * PixelRows + PixelRows /\ Legible(w, t.cells)
  BY ShowsFacts
<1>4. PixelRows \in Nat /\ FONT_HEIGHT \in Nat /\ BORDER \in Nat /\ HEIGHT \in Nat /\ Rows \in Nat /\ Cols \in Nat
      /\ w.row \in Nat
  BY CellRows, CellColumns, Sizes, <1>3 DEF Writers
<1>5. /\ down \in Writers /\ down.ink = w.ink /\ down.inverted = {} /\ down.row = w.row + PixelRows
  <2> DEFINE row == w.row + PixelRows
  <2>1. row \in Nat /\ down = [w EXCEPT !.column = BORDER, !.row = row]
    BY <1>4
  <2> HIDE DEF row, down
  <2>2. down \in Writers /\ down.ink = w.ink /\ down.inverted = {} /\ down.row = row
    BY <2>1, <1>1, <1>3, <1>4 DEF Writers
  <2> QED BY <2>2 DEF row
<1> HIDE DEF down, n
<1>6. 0 \in 0 .. Cols /\ 0 * Advance = 0 /\ BORDER + 0 = BORDER
  BY <1>4, Sizes
<1>7. down.row + FONT_HEIGHT + BORDER > HEIGHT <=> ~ (t.line + 1 < Rows)
  <2> DEFINE row == w.row  fits == t.line + 1 < Rows
  <2>1. (row + PixelRows + FONT_HEIGHT + BORDER <= HEIGHT <=> fits) /\ row \in Nat /\ down.row = row + PixelRows
    BY LastLine, <1>4, <1>5
  <2> HIDE DEF row, fits
  <2>2. row + PixelRows + FONT_HEIGHT + BORDER <= HEIGHT <=> ~ (down.row + FONT_HEIGHT + BORDER > HEIGHT)
    BY <2>1, <1>4
  <2> QED BY <2>1, <2>2 DEF fits
<1>8. CASE t.line + 1 < Rows
  <2>1. n = down
    BY <1>2, <1>7, <1>8
  <2>2. u = [t EXCEPT !.line = t.line + 1, !.position = 0]
    BY <1>8 DEF Text!Feed
  <2>3. u \in Terminals /\ u.cells = t.cells /\ u.line = t.line + 1 /\ u.position = 0
    <3> DEFINE m == t.line + 1
    <3>1. m \in 0 .. Rows - 1 /\ u = [t EXCEPT !.line = m, !.position = 0]
      BY <2>2, <1>3, <1>4, <1>8
    <3> HIDE DEF m, u
    <3>2. u \in Terminals /\ u.cells = t.cells /\ u.line = m /\ u.position = 0
      BY <3>1, <1>3, <1>6 DEF Terminals
    <3> QED BY <3>2 DEF m
  <2>4. n.row = BORDER + (t.line + 1) * PixelRows
    BY <2>1, <1>3, <1>4, <1>5
  <2>5. Legible(n, t.cells)
    BY <2>1, <1>3, <1>5, LegibleInk
  <2> HIDE DEF u
  <2>6. Shows(n, u)
    BY <2>3, <2>4, <2>5, <1>1, <1>6 DEF Shows
  <2> QED BY <2>6 DEF n, u
<1>9. CASE ~ (t.line + 1 < Rows)
  <2> DEFINE g == [r \in 0 .. Rows - 1 |-> IF r + 1 < Rows THEN t.cells[r + 1] ELSE Text!BlankLine]
  <2>1. n = scroll(down)
    BY <1>2, <1>7, <1>9
  <2>2. u = [t EXCEPT !.position = 0, !.cells = g]
    BY <1>9 DEF Text!Feed
  <2>3. g \in Grids
    <3>1. ASSUME NEW r \in 0 .. Rows - 1
          PROVE  (IF r + 1 < Rows THEN t.cells[r + 1] ELSE Text!BlankLine) \in [0 .. Cols - 1 -> Glyphs]
      <4>1. CASE r + 1 < Rows
        BY <4>1, <1>3, <1>4 DEF Grids
      <4>2. CASE ~ (r + 1 < Rows)
        BY <4>2, Sizes DEF Text!BlankLine
      <4> QED BY <4>1, <4>2
    <3> QED BY <3>1 DEF Grids
  <2>4. Clean(down) /\ Legible(down, t.cells)
    BY <1>3, <1>5, LegibleInk DEF Clean
  <2>5. down.row >= PixelRows
    BY <1>4, <1>5
  <2>6. Legible(n, g) /\ n.row = down.row - PixelRows
    BY <2>1, <2>4, <2>5, <1>3, <1>5, ScrollIsFeed, ScrollFacts
  <2> HIDE DEF g
  <2>7. u \in Terminals /\ u.cells = g /\ u.line = t.line /\ u.position = 0
    BY <2>2, <2>3, <1>3, <1>6 DEF Terminals
  <2>8. n.row = BORDER + t.line * PixelRows
    BY <2>6, <1>3, <1>4, <1>5, SMTT(30)
  <2> HIDE DEF u
  <2>9. Shows(n, u)
    BY <2>6, <2>7, <2>8, <1>1, <1>6 DEF Shows
  <2> QED BY <2>9 DEF n, u
<1> QED BY <1>8, <1>9

\* A glyph drawn is a glyph put: on the next line if this one is full.
LEMMA DrawIsPut ==
    ASSUME NEW w, NEW t, Unmarked(w), Shows(w, t), NEW glyph \in Glyphs
    PROVE  Shows(Draw(w, glyph), Text!Put(t, glyph))
<1> DEFINE at == IF w.column + Advance + BORDER > WIDTH THEN new_line(w) ELSE w
           u == IF t.position = Cols THEN Text!Feed(t) ELSE t
           f == Fill(at, at.column .. at.column + FONT_WIDTH - 1, at.row .. at.row + FONT_HEIGHT - 1, glyph)
           d == Draw(w, glyph)
           v == Text!Put(t, glyph)
<1>1. d = [f EXCEPT !.column = f.column + Advance]
  BY DEF Draw
<1>2. v = [u EXCEPT !.cells[u.line][u.position] = glyph, !.position = u.position + 1]
  BY DEF Text!Put
<1>3. Good(d)
  BY DrawFacts DEF Unmarked
<1>4. Shows(at, u) /\ u.position # Cols
  <2>1. CASE t.position = Cols
    <3>1. at = new_line(w) /\ u = Text!Feed(t)
      BY <2>1, FullLine
    <3>2. Text!Feed(t).position = 0
      BY ShowsFacts DEF Text!Feed, Terminals
    <3> HIDE DEF at, u
    <3> QED BY <3>1, <3>2, NewLineIsFeed, CellColumns
  <2>2. CASE t.position # Cols
    BY <2>2, FullLine
  <2> QED BY <2>1, <2>2
<1> HIDE DEF at, u, d, v
<1> DEFINE l == u.line  k == u.position
<1>5. /\ at \in Writers /\ u \in Terminals /\ u.cells \in Grids /\ l \in 0 .. Rows - 1 /\ k \in Nat /\ k \in 0 .. Cols - 1
      /\ at.row = BORDER + l * PixelRows /\ at.column = BORDER + k * Advance
      /\ k * Advance \in Nat /\ (k + 1) * Advance = k * Advance + Advance /\ Legible(at, u.cells)
  BY <1>4, ShowsFacts, CellColumns
<1> DEFINE g == [u.cells EXCEPT ![l][k] = glyph]
<1>6. Legible(f, g)
  <2>1. FONT_WIDTH \in FONT_WIDTH .. Advance
    BY Sizes
  <2> HIDE DEF l, k
  <2> QED BY <2>1, <1>5, FillOneCell
<1>7. f \in Writers /\ f.column = at.column /\ f.row = at.row
  BY <1>5, FillFacts
<1> HIDE DEF f
<1>8. g \in Grids
  BY <1>5 DEF Grids
<1>9. v \in Terminals /\ v.cells = g /\ v.line = l /\ v.position = k + 1
  <2> DEFINE m == k + 1
  <2>1. m \in 0 .. Cols /\ v = [u EXCEPT !.cells = g, !.position = m]
    BY <1>2, <1>5, CellColumns DEF Terminals
  <2> HIDE DEF m, g
  <2>2. v \in Terminals /\ v.cells = g /\ v.line = u.line /\ v.position = m
    BY <2>1, <1>5, <1>8 DEF Terminals
  <2> QED BY <2>2 DEF m
<1>10. d.ink = f.ink /\ d.row = at.row /\ d.column = at.column + Advance
  BY <1>1, <1>7 DEF Writers
<1>11. d.column = BORDER + (k + 1) * Advance
  <2> DEFINE ka == k * Advance  kb == (k + 1) * Advance
  <2>1. ka \in Nat /\ kb = ka + Advance /\ at.column = BORDER + ka /\ BORDER \in Nat /\ Advance \in Nat
    BY <1>5, Sizes
  <2> HIDE DEF ka, kb
  <2>2. d.column = BORDER + kb
    BY <2>1, <1>10
  <2> QED BY <2>2 DEF kb
<1>12. Legible(d, g)
  BY <1>6, <1>10, LegibleInk
<1> HIDE DEF g
<1>13. Shows(d, v)
  BY <1>3, <1>5, <1>9, <1>10, <1>11, <1>12 DEF Shows
<1> QED BY <1>13 DEF d, v

\* backspace rubs out: nothing at the start of a row, else a whole cell.
LEMMA BackspaceIsRub ==
    ASSUME NEW w, NEW t, Unmarked(w), Shows(w, t)
    PROVE  Shows(backspace(w), Text!Rub(t))
<1> DEFINE l == t.line  k == t.position
<1>1. /\ w \in Writers /\ t \in Terminals /\ t.cells \in Grids /\ l \in 0 .. Rows - 1 /\ k \in Nat /\ k \in 0 .. Cols
      /\ w.row = BORDER + l * PixelRows /\ w.column = BORDER + k * Advance
      /\ k * Advance \in Nat /\ Legible(w, t.cells)
  BY ShowsFacts
<1>2. BORDER \in Nat /\ Advance \in Nat /\ Advance > 0 /\ Advance >= FONT_WIDTH /\ FONT_WIDTH \in Nat /\ Space \in Glyphs
  BY Sizes
<1>3. CASE k = 0
  <2>1. w.column <= BORDER
    <3>1. 0 * Advance = 0
      BY <1>2
    <3> HIDE DEF k
    <3> QED BY <3>1, <1>1, <1>2, <1>3
  <2> QED BY <2>1, <1>3 DEF backspace, Text!Rub
<1>4. CASE k # 0
  <2> DEFINE j == k - 1
             column == BORDER + j * Advance
             at == [w EXCEPT !.column = column]
             f == Fill(at, column .. column + Advance - 1, w.row .. w.row + FONT_HEIGHT - 1, Space)
             g == [t.cells EXCEPT ![l][j] = Space]
             v == Text!Rub(t)
  <2>1. j \in Nat /\ k = j + 1 /\ j \in 0 .. Cols - 1 /\ j \in 0 .. Cols
    BY <1>1, <1>4, CellColumns
  <2>2. v = [t EXCEPT !.cells = g, !.position = j]
    BY <1>1, <1>4 DEF Text!Rub, Terminals
  <2>3. /\ j * Advance \in Nat /\ k * Advance = j * Advance + Advance
    <3> HIDE DEF j
    <3>1. j * Advance \in Nat /\ (j + 1) * Advance = j * Advance + Advance
      BY <2>1, <1>2, Step
    <3> QED BY <3>1, <2>1
  <2>4. ~ (w.column <= BORDER) /\ column \in Nat
        /\ (IF w.column - Advance > BORDER THEN w.column - Advance ELSE BORDER) = column
    <3> DEFINE ja == j * Advance  ka == k * Advance
    <3>1. ja \in Nat /\ ka = ja + Advance /\ w.column = BORDER + ka /\ column = BORDER + ja
      BY <1>1, <2>3
    <3> HIDE DEF ja, ka, column
    <3> QED BY <3>1, <1>2
  <2>5. backspace(w) = f
    <3> HIDE DEF column
    <3> QED BY <2>4 DEF backspace
  <2>6. at \in Writers /\ at.ink = w.ink /\ at.column = column /\ at.row = w.row
    <3> HIDE DEF column
    <3> QED BY <1>1, <2>4 DEF Writers
  <2> HIDE DEF at, j
  <2>7. Legible(at, t.cells)
    BY <1>1, <2>6, LegibleInk
  <2>8. Legible(f, g)
    <3>1. Advance \in FONT_WIDTH .. Advance
      BY <1>2
    <3>2. at.row = BORDER + l * PixelRows /\ at.column = BORDER + j * Advance
      BY <1>1, <2>6
    <3>3. f = Fill(at, at.column .. at.column + Advance - 1, at.row .. at.row + FONT_HEIGHT - 1, Space)
      BY <2>6
    <3> HIDE DEF l, column, f
    <3> QED BY <3>1, <3>2, <3>3, <1>1, <1>2, <2>1, <2>6, <2>7, FillOneCell
  <2>9. f.column = column /\ f.row = w.row
    <3> HIDE DEF column
    <3> QED BY <2>6, <1>2, FillFacts
  <2>10. Good(f)
    BY <2>5, BackspaceFacts DEF Unmarked
  <2> HIDE DEF f, v
  <2>11. g \in Grids
    BY <1>1, <1>2, <2>1 DEF Grids
  <2> HIDE DEF g
  <2>12. v \in Terminals /\ v.cells = g /\ v.line = l /\ v.position = j
    BY <2>1, <2>2, <2>11, <1>1 DEF Terminals
  <2>13. Shows(f, v)
    BY <1>1, <2>8, <2>9, <2>10, <2>12 DEF Shows
  <2> QED BY <2>13, <2>5 DEF v
<1> QED BY <1>3, <1>4

\* The blank terminal, which clear leaves.
Blank == [cells |-> [r \in 0 .. Rows - 1 |-> Text!BlankLine], line |-> 0, position |-> 0]

\* A cleared screen shows the blank terminal, without a cursor.
LEMMA ClearIsBlank ==
    ASSUME NEW w \in Writers
    PROVE  Shows(clear(w), Blank) /\ clear(w).cursor_visible = FALSE
<1> DEFINE f == Fill(w, Xs, Ys, Space)
           v == clear(w)
<1>1. f \in Writers /\ \A p \in Pixels : f.ink[p] = Background
  BY FillFacts, Sizes DEF Ink, Pixels
<1>2. v = [f EXCEPT !.column = BORDER, !.row = BORDER, !.cursor_visible = FALSE]
  BY DEF clear
<1> HIDE DEF f
<1>3. v.ink = f.ink /\ v.column = BORDER /\ v.row = BORDER /\ v.cursor_visible = FALSE
  BY <1>1, <1>2 DEF Writers
<1>4. Good(v)
  BY ClearFacts DEF Unmarked
<1> HIDE DEF v
<1>5. Legible(v, Blank.cells)
  BY <1>1, <1>3, BlankIsLegible DEF Blank
<1>6. Blank \in Terminals /\ Blank.line = 0 /\ Blank.position = 0
  BY Sizes, CellRows, CellColumns DEF Blank, Terminals, Grids, Text!BlankLine
<1>7. v.row = BORDER + Blank.line * PixelRows /\ v.column = BORDER + Blank.position * Advance
  BY <1>3, <1>6, Sizes
<1> QED BY <1>3, <1>4, <1>5, <1>6, <1>7 DEF Shows, v

\* The cursor changes no ink: hiding and showing it leave the text alone.
LEMMA CursorShowsTheSame ==
    ASSUME NEW w, NEW t, Shows(w, t), Marked(w)
    PROVE  Shows(hide_cursor(w), t) /\ Shows(show_cursor(w), t)
           /\ hide_cursor(w).cursor_visible = FALSE /\ show_cursor(w).cursor_visible = TRUE
<1>1. Good(w) /\ w \in Writers /\ Unmarked(hide_cursor(w)) /\ Good(show_cursor(w))
  BY HideFacts, ShowFacts DEF Shows, Good
<1>2. /\ hide_cursor(w).ink = w.ink /\ hide_cursor(w).row = w.row /\ hide_cursor(w).column = w.column
      /\ show_cursor(w).ink = w.ink /\ show_cursor(w).row = w.row /\ show_cursor(w).column = w.column
      /\ show_cursor(w).cursor_visible = TRUE
  BY <1>1 DEF hide_cursor, show_cursor, toggle_cursor, Writers
<1>3. hide_cursor(w).cursor_visible = FALSE
  BY <1>1 DEF Unmarked
<1>4. Legible(hide_cursor(w), t.cells) /\ Legible(show_cursor(w), t.cells)
  BY <1>2, LegibleInk DEF Shows
<1> QED BY <1>1, <1>2, <1>3, <1>4 DEF Shows, Unmarked

\* A carriage return goes to the first position of the line.
LEMMA ReturnIsReturn ==
    ASSUME NEW w, NEW t, Unmarked(w), Shows(w, t)
    PROVE  Shows([w EXCEPT !.column = BORDER], [t EXCEPT !.position = 0])
<1> DEFINE v == [w EXCEPT !.column = BORDER]
           u == [t EXCEPT !.position = 0]
<1>1. Good(w) /\ w \in Writers /\ t \in Terminals /\ w.row = BORDER + t.line * PixelRows /\ Legible(w, t.cells)
  BY ShowsFacts
<1>2. /\ v \in Writers /\ v.ink = w.ink /\ v.row = w.row /\ v.column = BORDER
  BY <1>1, Sizes DEF Writers
<1>3. u \in Terminals /\ u.cells = t.cells /\ u.line = t.line /\ u.position = 0
  BY <1>1, CellColumns DEF Terminals
<1> HIDE DEF v, u
<1>4. Good(v)
  BY <1>1, <1>2, FirstCell DEF Good, Clean
<1>5. Legible(v, t.cells)
  BY <1>1, <1>2, LegibleInk
<1>6. BORDER = BORDER + 0 * Advance
  BY Sizes
<1>7. Shows(v, u)
  BY <1>1, <1>2, <1>3, <1>4, <1>5, <1>6 DEF Shows
<1> QED BY <1>7 DEF v, u

\* The picture can be read as the text of some terminal.
Readable == \E t : Shows(writer, t)

\* Every call is a step of the terminal or leaves its text alone.
LEMMA CallsAreTerminalSteps ==
    ASSUME FInv, Readable, [Next]_writer
    PROVE  Readable' /\ [Text!Next]_(Text!vars)
<1>1. PICK t : Shows(writer, t)
  BY DEF Readable
<1>2. PICK v : v = writer'
  OBVIOUS
<1> DEFINE h == hide_cursor(writer)
<1>3. Good(writer) /\ writer \in Writers /\ Marked(writer) /\ Unmarked(h)
  BY HideFacts DEF FInv, Good
<1>4. Shows(h, t) /\ h.cursor_visible = FALSE
  BY <1>1, <1>3, CursorShowsTheSame
<1>5. Picture(writer) = t.cells /\ LineOf(writer) = t.line /\ PositionOf(writer) = t.position /\ t \in Terminals
  BY <1>1, PictureIs DEF Shows
<1>6. Text!Shown = t
  BY <1>5 DEF Text!Shown, Terminals
<1>7. ASSUME NEW u, Shows(v, u)
      PROVE  Readable' /\ Text!Show(u)
  <2>1. Picture(v) = u.cells /\ LineOf(v) = u.line /\ PositionOf(v) = u.position
    BY <1>7, PictureIs
  <2>2. Text!Show(u)
    BY <1>2, <2>1 DEF Text!Show
  <2>3. Readable'
    <3>1. \E s : Shows(v, s)
      BY <1>7
    <3> QED BY <1>2, <3>1 DEF Readable
  <2> QED BY <2>2, <2>3
<1>8. ASSUME Unmarked(v) PROVE Text!Unmark
  BY <1>2, <1>8 DEF Text!Unmark, Unmarked
<1> HIDE DEF h
<1>9. CASE \E character \in Glyphs \cup Strange : PrintCharacter(character)
  <2>1. PICK character \in Glyphs \cup Strange : PrintCharacter(character)
    BY <1>9
  <2> DEFINE glyph == IF character \in Glyphs THEN character ELSE Unknown
  <2>2. glyph \in Glyphs
    BY Sizes
  <2>3. v = Draw(h, glyph)
    BY <2>1, <1>2 DEF PrintCharacter, write_character, h
  <2> HIDE DEF glyph
  <2>4. Shows(v, Text!Put(t, glyph)) /\ Unmarked(v)
    BY <2>2, <2>3, <1>3, <1>4, DrawIsPut, DrawFacts
  <2>5. Readable' /\ Text!Show(Text!Put(Text!Shown, glyph)) /\ Text!Unmark
    BY <2>4, <1>6, <1>7, <1>8
  <2>6. CASE character \in Glyphs
    BY <2>2, <2>5 DEF Text!Next, Text!PrintGlyph
  <2>7. CASE character \notin Glyphs
    <3>1. glyph = Unknown /\ Strange # {}
      BY <2>1, <2>7 DEF glyph
    <3> QED BY <2>5, <3>1 DEF Text!Next, Text!PrintStrange
  <2> QED BY <2>6, <2>7
<1>10. CASE PrintTab
  <2> DEFINE w1 == Draw(h, Space)   w2 == Draw(w1, Space)   w3 == Draw(w2, Space)   w4 == Draw(w3, Space)
             t1 == Text!Put(t, Space)   t2 == Text!Put(t1, Space)   t3 == Text!Put(t2, Space)   t4 == Text!Put(t3, Space)
  <2>1. v = w4 /\ Space \in Glyphs
    BY <1>2, <1>10, Sizes DEF PrintTab, write_character, h
  <2>2. Unmarked(w1) /\ Shows(w1, t1)
    BY <2>1, <1>3, <1>4, DrawIsPut, DrawFacts
  <2> HIDE DEF w1, t1
  <2>3. Unmarked(w2) /\ Shows(w2, t2)
    BY <2>1, <2>2, DrawIsPut, DrawFacts
  <2> HIDE DEF w2, t2
  <2>4. Unmarked(w3) /\ Shows(w3, t3)
    BY <2>1, <2>3, DrawIsPut, DrawFacts
  <2> HIDE DEF w3, t3
  <2>5. Unmarked(w4) /\ Shows(w4, t4)
    BY <2>1, <2>4, DrawIsPut, DrawFacts
  <2> HIDE DEF w4, t4
  <2>6. Readable' /\ Text!Show(t4) /\ Text!Unmark
    BY <2>1, <2>5, <1>7, <1>8
  <2>7. t4 = Text!Put(Text!Put(Text!Put(Text!Put(Text!Shown, Space), Space), Space), Space)
    BY <1>6 DEF t4, t3, t2, t1
  <2> QED BY <2>6, <2>7 DEF Text!Next, Text!PrintTab
<1>11. CASE PrintNewLine
  <2>1. v = new_line(h)
    BY <1>2, <1>11 DEF PrintNewLine, h
  <2>2. Shows(v, Text!Feed(t)) /\ Unmarked(v)
    BY <2>1, <1>3, <1>4, NewLineIsFeed, NewLineFacts
  <2> QED BY <2>2, <1>6, <1>7, <1>8 DEF Text!Next, Text!PrintNewLine
<1>12. CASE PrintReturn
  <2>1. v = [h EXCEPT !.column = BORDER]
    BY <1>2, <1>12 DEF PrintReturn, h
  <2>2. Shows(v, [t EXCEPT !.position = 0])
    BY <2>1, <1>3, <1>4, ReturnIsReturn
  <2>3. v.cursor_visible = FALSE
    BY <2>1, <1>4, <1>3 DEF Unmarked, Good, Writers
  <2>4. Text!Unmark
    BY <2>3, <1>2 DEF Text!Unmark
  <2> QED BY <2>2, <2>4, <1>6, <1>7 DEF Text!Next, Text!PrintReturn
<1>13. CASE PrintBackspace
  <2>1. v = backspace(h)
    BY <1>2, <1>13 DEF PrintBackspace, h
  <2>2. Shows(v, Text!Rub(t)) /\ Unmarked(v)
    BY <2>1, <1>3, <1>4, BackspaceIsRub, BackspaceFacts
  <2> QED BY <2>2, <1>6, <1>7, <1>8 DEF Text!Next, Text!PrintBackspace
<1>14. CASE ShowCursor
  <2>1. v = show_cursor(writer)
    BY <1>2, <1>14 DEF ShowCursor
  <2>2. Shows(v, t) /\ v.cursor_visible = TRUE
    BY <2>1, <1>1, <1>3, CursorShowsTheSame
  <2>3. Readable' /\ Text!Show(t)
    BY <2>2, <1>7
  <2>4. Text!Mark
    BY <2>2, <2>3, <1>2, <1>5 DEF Text!Mark, Text!Show
  <2> QED BY <2>3, <2>4 DEF Text!Next
<1>15. CASE Clear
  <2>1. v = clear(writer)
    BY <1>2, <1>15 DEF Clear
  <2>2. Shows(v, Blank) /\ v.cursor_visible = FALSE
    BY <2>1, <1>3, ClearIsBlank
  <2>3. Readable' /\ Text!Show(Blank)
    BY <2>2, <1>7
  <2>4. Text!Clear
    BY <2>2, <2>3, <1>2 DEF Text!Clear, Text!Show, Blank
  <2> QED BY <2>3, <2>4 DEF Text!Next
<1>16. CASE UNCHANGED writer
  <2>1. v = writer
    BY <1>2, <1>16
  <2>2. Readable'
    BY <2>1, <1>1, <1>7
  <2>3. UNCHANGED Text!vars
    BY <1>16 DEF Text!vars
  <2> QED BY <2>2, <2>3
<1> QED BY <1>9, <1>10, <1>11, <1>12, <1>13, <1>14, <1>15, <1>16 DEF Next

\* The cleared screen is the blank terminal.
LEMMA InitIsTerminalInit == Init => Readable /\ Text!Init
<1> SUFFICES ASSUME Init PROVE Readable /\ Text!Init
  OBVIOUS
<1>1. new \in Writers
  BY Sizes DEF new, Writers, Inks
<1>2. Shows(writer, Blank) /\ writer.cursor_visible = FALSE
  BY <1>1, ClearIsBlank DEF Init
<1>3. Picture(writer) = Blank.cells /\ LineOf(writer) = Blank.line /\ PositionOf(writer) = Blank.position
  BY <1>2, PictureIs
<1>4. Text!Init
  BY <1>2, <1>3 DEF Text!Init, Blank
<1> QED BY <1>2, <1>4 DEF Readable

\* Pixels, wrapping, scrolling and erasing add up to a terminal, on every
\* screen and with every font: what framebuffer.rs draws can be read back,
\* cell by cell, as the text that a terminal has after the same calls.
THEOREM ScreenIsATerminal == Spec => ImplementsTerminal
<1>1. Init => FInv /\ Readable /\ Text!Init
  BY InitFInv, InitIsTerminalInit
<1>2. FInv /\ Readable /\ [Next]_writer => FInv' /\ Readable' /\ [Text!Next]_(Text!vars)
  BY NextFInv, CallsAreTerminalSteps
<1> QED BY <1>1, <1>2, PTL DEF Spec, ImplementsTerminal, Text!Spec

-----------------------------------------------------------------------------
(***************************************************************************)
(* Reports and interrupts (Console).                                       *)
(***************************************************************************)
\* What a report does, what other handlers do, what the kernel does.
ReportSteps == {"serial", "screen", "panic_screen", "cli", "hlt"}
HandlerSteps == ReportSteps \cup {"iret"}
KernelSteps == ReportSteps \cup {"setup_screen", "sti"}

Frames == [code : {"kernel", "breakpoint", "device", "fault", "panic"}, todo : Seq(HandlerSteps \cup KernelSteps),
           said : BOOLEAN, interruptible : BOOLEAN]

\* Only the kernel's own code turns interrupts on; a report never returns.
Behaves(frame, d) ==
    /\ frame.code = "kernel" <=> d = 1
    /\ d = 1 => frame.todo \in Seq(KernelSteps)
    /\ d > 1 => frame.todo \in Seq(HandlerSteps)
    /\ frame.code \in Reporters => frame.todo \in Seq(ReportSteps)

\* The report at depth d has turned interrupts off.
Under(d) == stack[d].code \in Reporters /\ Head(stack[d].todo) # "cli"

CInv ==
    /\ stack \in Seq(Frames) /\ Len(stack) > 0 /\ IF_flag \in BOOLEAN
    /\ \A d \in 1 .. Len(stack) : Behaves(stack[d], d)
    /\ \A d \in 1 .. Len(stack) : Under(d) =>
          IF_flag = FALSE /\ \A e \in d + 1 .. Len(stack) : stack[e].interruptible = FALSE

\* Two sequences over a set, joined.
LEMMA Joined ==
    ASSUME NEW S, NEW s \in Seq(S), NEW t \in Seq(S)
    PROVE  /\ s \o t \in Seq(S) /\ Len(s \o t) = Len(s) + Len(t)
           /\ Len(s) > 0 => (s \o t)[1] = s[1]
  OBVIOUS

\* The head and the tail of a sequence over a set.
LEMMA TakenApart ==
    ASSUME NEW S, NEW s \in Seq(S), s # <<>>
    PROVE  Head(s) \in S /\ Tail(s) \in Seq(S)
  OBVIOUS

\* A sequence over a set is one over every larger set.
LEMMA Widened ==
    ASSUME NEW S, NEW T, S \subseteq T, NEW s \in Seq(S)
    PROVE  s \in Seq(T)
  OBVIOUS

\* Every report begins by turning interrupts off.
BeginsOff(s) == s \in Seq(ReportSteps) /\ Len(s) > 0 /\ s[1] = "cli"

\* A report goes on as it began.
LEMMA StaysOff ==
    ASSUME NEW s, NEW t \in Seq(ReportSteps), BeginsOff(s)
    PROVE  BeginsOff(s \o t)
<1>1. s \in Seq(ReportSteps) /\ Len(s) > 0 /\ Len(s) \in Nat /\ Len(t) \in Nat /\ s[1] = "cli"
  BY DEF BeginsOff
<1>2. s \o t \in Seq(ReportSteps) /\ Len(s \o t) = Len(s) + Len(t) /\ (s \o t)[1] = s[1]
  BY <1>1, Joined
<1> QED
  BY <1>1, <1>2 DEF BeginsOff

\* The handlers of faults and panic turn interrupts off first.
LEMMA ReportsBeginOff ==
    /\ BeginsOff(general_protection_fault_handler) /\ BeginsOff(page_fault_handler)
    /\ BeginsOff(double_fault_handler) /\ BeginsOff(panic)
<1>1. Println \in Seq(ReportSteps) /\ <<"hlt">> \in Seq(ReportSteps)
  BY DEF Println, ReportSteps
<1>2. BeginsOff(<<"cli", "serial">>) /\ BeginsOff(panic)
  BY DEF BeginsOff, ReportSteps, panic
<1> DEFINE p0 == <<"cli", "serial">>
           p3 == ((p0 \o Println) \o Println) \o Println
<1>3. BeginsOff(p3)
  <2> HIDE DEF p0
  <2> QED BY <1>1, <1>2, StaysOff DEF p0
<1> HIDE DEF p3
<1>4. BeginsOff(p3 \o <<"hlt">>) /\ BeginsOff((p3 \o Println) \o <<"hlt">>)
  BY <1>1, <1>3, StaysOff
<1> QED
  BY <1>2, <1>4 DEF p3, general_protection_fault_handler, page_fault_handler, double_fault_handler

\* A frame is put on top.
LEMMA Pushed ==
    ASSUME CInv, NEW frame \in Frames, Behaves(frame, Len(stack) + 1),
           frame.code \in Reporters => Head(frame.todo) = "cli",
           frame.interruptible = IF_flag, stack' = Append(stack, frame),
           IF_flag' \in BOOLEAN, IF_flag' => IF_flag
    PROVE  CInv'
<1>1. stack \in Seq(Frames) /\ Len(stack) > 0 /\ Len(stack) \in Nat
  BY DEF CInv
<1>2. /\ stack' \in Seq(Frames) /\ Len(stack') = Len(stack) + 1 /\ stack'[Len(stack) + 1] = frame
      /\ \A d \in 1 .. Len(stack) : stack'[d] = stack[d]
  BY <1>1
<1>3. ASSUME NEW d \in 1 .. Len(stack') PROVE Behaves(stack'[d], d)
  <2>1. d = Len(stack) + 1 \/ d \in 1 .. Len(stack)
    BY <1>1, <1>2
  <2> QED
    BY <1>2, <2>1 DEF CInv
<1>4. ASSUME NEW d \in 1 .. Len(stack'), Under(d)'
      PROVE  IF_flag' = FALSE /\ \A e \in d + 1 .. Len(stack') : stack'[e].interruptible = FALSE
  <2>1. d \in 1 .. Len(stack)
    BY <1>1, <1>2, <1>4 DEF Under
  <2>2. Under(d)
    BY <1>2, <1>4, <2>1 DEF Under
  <2>3. IF_flag = FALSE /\ \A e \in d + 1 .. Len(stack) : stack[e].interruptible = FALSE
    BY <2>1, <2>2 DEF CInv
  <2>4. ASSUME NEW e \in d + 1 .. Len(stack') PROVE stack'[e].interruptible = FALSE
    <3>1. e = Len(stack) + 1 \/ (e \in d + 1 .. Len(stack) /\ e \in 1 .. Len(stack))
      BY <1>1, <1>2, <2>1
    <3> QED
      BY <1>2, <2>3, <3>1
  <2> QED
    BY <2>3, <2>4
<1>5. Len(stack') > 0 /\ stack' \in Seq(Frames)
  BY <1>1, <1>2
<1> QED
  BY <1>3, <1>4, <1>5 DEF CInv

\* The top frame goes on to another list of steps; a report is not moved
\* past its cli but by turning interrupts off.
LEMMA Replaced ==
    ASSUME CInv, NEW frame \in Frames, Behaves(frame, Len(stack)), frame.code = Top.code,
           frame.interruptible = Top.interruptible, Replace(frame),
           IF_flag' \in BOOLEAN,
           \A d \in 1 .. Len(stack) : Under(d) => IF_flag' = FALSE,
           frame.code \in Reporters => Under(Len(stack)) \/ IF_flag' = FALSE
    PROVE  CInv'
<1>1. stack \in Seq(Frames) /\ Len(stack) > 0 /\ Len(stack) \in Nat
  BY DEF CInv
<1>2. /\ stack' \in Seq(Frames) /\ Len(stack') = Len(stack) /\ stack'[Len(stack)] = frame
      /\ \A d \in 1 .. Len(stack) : d # Len(stack) => stack'[d] = stack[d]
  BY <1>1 DEF Replace, Depth
<1>3. ASSUME NEW d \in 1 .. Len(stack') PROVE Behaves(stack'[d], d)
  BY <1>2 DEF CInv
<1>4. ASSUME NEW d \in 1 .. Len(stack'), Under(d)'
      PROVE  IF_flag' = FALSE /\ \A e \in d + 1 .. Len(stack') : stack'[e].interruptible = FALSE
  <2>1. CASE d = Len(stack)
    <3>1. frame.code \in Reporters
      BY <1>2, <1>4, <2>1 DEF Under
    <3>2. IF_flag' = FALSE
      BY <1>1, <3>1
    <3> QED
      BY <1>1, <1>2, <2>1, <3>2
  <2>2. CASE d # Len(stack)
    <3>1. d \in 1 .. Len(stack) /\ stack'[d] = stack[d]
      BY <1>2, <2>2
    <3>2. Under(d)
      BY <1>4, <3>1 DEF Under
    <3>3. IF_flag' = FALSE /\ \A e \in d + 1 .. Len(stack) : stack[e].interruptible = FALSE
      BY <3>1, <3>2 DEF CInv
    <3>4. ASSUME NEW e \in d + 1 .. Len(stack') PROVE stack'[e].interruptible = FALSE
      <4>1. e \in d + 1 .. Len(stack) /\ e \in 1 .. Len(stack)
        BY <1>1, <1>2, <3>1
      <4>2. stack'[e].interruptible = stack[e].interruptible
        BY <1>2, <4>1 DEF Top, Depth
      <4> QED
        BY <3>3, <4>1, <4>2
    <3> QED
      BY <3>3, <3>4
  <2> QED
    BY <2>1, <2>2
<1> QED
  BY <1>1, <1>2, <1>3, <1>4 DEF CInv
\* The top frame and what it is at.
LEMMA TopIs ==
    ASSUME CInv
    PROVE  /\ Depth = Len(stack) /\ Depth \in 1 .. Len(stack) /\ Top = stack[Len(stack)] /\ Top \in Frames
           /\ Behaves(Top, Len(stack)) /\ Len(stack) \in Nat
           /\ Now # "none" => Now = Head(Top.todo) /\ Top.todo # <<>> /\ Done(Top) \in Frames
                              /\ Behaves(Done(Top), Len(stack))
                              /\ Done(Top).code = Top.code /\ Done(Top).interruptible = Top.interruptible
<1>1. stack \in Seq(Frames) /\ Len(stack) \in Nat /\ Len(stack) > 0
  BY DEF CInv
<1>2. Depth = Len(stack) /\ Depth \in 1 .. Len(stack) /\ Top = stack[Len(stack)] /\ Top \in Frames
  BY <1>1 DEF Depth, Top
<1>3. Behaves(Top, Len(stack))
  BY <1>2 DEF CInv
<1>4. ASSUME Now # "none"
      PROVE  /\ Now = Head(Top.todo) /\ Top.todo # <<>> /\ Done(Top) \in Frames
             /\ Behaves(Done(Top), Len(stack))
             /\ Done(Top).code = Top.code /\ Done(Top).interruptible = Top.interruptible
  <2>1. Top.todo # <<>> /\ Now = Head(Top.todo)
    BY <1>4 DEF Now
  <2>2. /\ Done(Top).code = Top.code /\ Done(Top).interruptible = Top.interruptible
        /\ Done(Top).said = Top.said /\ Done(Top).todo = Tail(Top.todo)
        /\ Done(Top) = [Top EXCEPT !.todo = Tail(Top.todo)]
    BY <1>2 DEF Done, Frames
  <2>3. Tail(Top.todo) \in Seq(HandlerSteps \cup KernelSteps)
    <3>1. Top.todo \in Seq(HandlerSteps \cup KernelSteps)
      BY <1>2 DEF Frames
    <3> QED
      BY <2>1, <3>1
  <2>4. Done(Top) \in Frames
    BY <1>2, <2>2, <2>3 DEF Frames
  <2>5. \A S : Top.todo \in Seq(S) => Tail(Top.todo) \in Seq(S)
    BY <2>1, TakenApart
  <2>6. Behaves(Done(Top), Len(stack))
    BY <1>3, <2>2, <2>5 DEF Behaves
  <2> QED
    BY <2>1, <2>2, <2>4, <2>6
<1> QED
  BY <1>1, <1>2, <1>3, <1>4

\* The step at hand is one of those that its frame's code has.
LEMMA StepIs ==
    ASSUME CInv, Now # "none"
    PROVE  /\ Now \in HandlerSteps \cup KernelSteps
           /\ Len(stack) = 1 => Now \in KernelSteps
           /\ Len(stack) > 1 => Now \in HandlerSteps
           /\ Top.code \in Reporters => Now \in ReportSteps /\ (Now # "cli" => Under(Len(stack)))
<1>1. \A S : Top.todo \in Seq(S) => Head(Top.todo) \in S
  BY TopIs, TakenApart
<1>2. Top.todo \in Seq(HandlerSteps \cup KernelSteps)
  BY TopIs DEF Frames
<1>3. Top.code \in Reporters => Top.todo \in Seq(ReportSteps)
  BY TopIs DEF Behaves
<1>4. /\ Len(stack) = 1 => Top.todo \in Seq(KernelSteps)
      /\ Len(stack) > 1 => Top.todo \in Seq(HandlerSteps)
  BY TopIs DEF Behaves
<1> QED
  BY <1>1, <1>2, <1>3, <1>4, TopIs DEF Under

\* While a report is under way interrupts are off.
LEMMA UnderOff ==
    ASSUME CInv, NEW d \in 1 .. Len(stack), Under(d)
    PROVE  IF_flag = FALSE
  BY DEF CInv

\* A step that leaves the interrupt flag alone and is not a cli.
LEMMA OnOK ==
    ASSUME CInv, Now \notin {"none", "cli"}, Replace(Done(Top)), UNCHANGED IF_flag
    PROVE  CInv'
<1>1. IF_flag' \in BOOLEAN
  BY DEF CInv
<1>2. \A d \in 1 .. Len(stack) : Under(d) => IF_flag' = FALSE
  BY UnderOff
<1>3. Top.code \in Reporters => Under(Len(stack))
  BY StepIs
<1> QED
  BY <1>1, <1>2, <1>3, TopIs, Replaced

\* Writing to the serial line keeps the invariant.
LEMMA WriteSerialOK ==
    ASSUME CInv, WriteSerial PROVE CInv'
<1> DEFINE f == [Done(Top) EXCEPT !.said = TRUE]
<1>1. Now = "serial" /\ Replace(f) /\ IF_flag' = IF_flag
  BY DEF WriteSerial
<1>2. Done(Top) \in Frames /\ Behaves(Done(Top), Len(stack))
  BY <1>1, TopIs
<1>3. /\ f \in Frames /\ f.code = Done(Top).code /\ f.todo = Done(Top).todo
      /\ f.interruptible = Done(Top).interruptible
  BY <1>2 DEF Frames
<1>4. Behaves(f, Len(stack)) /\ f.code = Top.code /\ f.interruptible = Top.interruptible
  BY <1>1, <1>2, <1>3, TopIs DEF Behaves
<1> HIDE DEF f
<1>5. IF_flag' \in BOOLEAN
  BY <1>1 DEF CInv
<1>6. \A d \in 1 .. Len(stack) : Under(d) => IF_flag' = FALSE
  BY <1>1, UnderOff
<1>7. Top.code \in Reporters => Under(Len(stack))
  BY <1>1, StepIs
<1> QED
  BY <1>1, <1>3, <1>4, <1>5, <1>6, <1>7, Replaced

\* cli keeps it, and sti, which no handler has: the kernel's own code runs
\* it when nothing else is on the stack.
LEMMA SetInterruptsOK ==
    ASSUME CInv, SetInterrupts PROVE CInv'
<1>1. Now \in {"cli", "sti"} /\ Replace(Done(Top)) /\ IF_flag' = (Now = "sti") /\ Now # "none"
  BY DEF SetInterrupts
<1>2. IF_flag' \in BOOLEAN
  BY <1>1
<1>3. CASE Now = "cli"
  <2>1. IF_flag' = FALSE
    BY <1>1, <1>3
  <2> QED
    BY <1>1, <1>2, <2>1, TopIs, Replaced
<1>4. CASE Now = "sti"
  <2>1. Len(stack) = 1
    BY <1>1, <1>4, StepIs, TopIs DEF HandlerSteps, ReportSteps
  <2>2. Top.code = "kernel" /\ stack[1].code = "kernel"
    BY <2>1, TopIs DEF Behaves
  <2>3. \A d \in 1 .. Len(stack) : ~ Under(d)
    BY <2>1, <2>2 DEF Under, Reporters
  <2> QED
    BY <1>1, <1>2, <2>2, <2>3, TopIs, Replaced DEF Reporters
<1> QED
  BY <1>1, <1>3, <1>4

\* iret keeps it: a report never returns, and a handler above one brings
\* back a flag that was off.
LEMMA ReturnOK ==
    ASSUME CInv, Return PROVE CInv'
<1> DEFINE n == Len(stack)
<1>1. Now = "iret" /\ IF_flag' = Top.interruptible /\ stack' = SubSeq(stack, 1, n - 1) /\ Now # "none"
  BY DEF Return, Depth
<1>2. n \in Nat /\ n > 1 /\ stack \in Seq(Frames) /\ Top = stack[n] /\ Top \in Frames
  <2>1. n # 1
    BY <1>1, StepIs DEF KernelSteps, ReportSteps
  <2>2. n \in Nat /\ n > 0 /\ stack \in Seq(Frames)
    BY DEF CInv
  <2>3. Top = stack[n] /\ Top \in Frames
    BY TopIs
  <2>4. n > 1
    BY <2>1, <2>2
  <2> QED
    BY <2>2, <2>3, <2>4, Zenon
<1>3. Top.code \notin Reporters
  BY <1>1, StepIs DEF ReportSteps
<1> HIDE DEF n
<1>4. /\ stack' \in Seq(Frames) /\ Len(stack') = n - 1
      /\ \A d \in 1 .. n - 1 : stack'[d] = stack[d]
  BY <1>1, <1>2 DEF n
<1>5. ASSUME NEW d \in 1 .. Len(stack') PROVE Behaves(stack'[d], d)
  <2>1. d \in 1 .. n - 1 /\ d \in 1 .. n
    BY <1>2, <1>4
  <2> QED
    BY <1>4, <2>1 DEF CInv, n
<1>6. ASSUME NEW d \in 1 .. Len(stack'), Under(d)'
      PROVE  IF_flag' = FALSE /\ \A e \in d + 1 .. Len(stack') : stack'[e].interruptible = FALSE
  <2>1. d \in 1 .. n - 1 /\ d \in 1 .. n /\ n \in d + 1 .. n
    BY <1>2, <1>4
  <2>2. Under(d)
    BY <1>4, <1>6, <2>1 DEF Under
  <2>3. \A e \in d + 1 .. n : stack[e].interruptible = FALSE
    BY <2>1, <2>2 DEF CInv, n
  <2>4. ASSUME NEW e \in d + 1 .. Len(stack') PROVE stack'[e].interruptible = FALSE
    <3>1. e \in d + 1 .. n /\ e \in 1 .. n - 1
      BY <1>2, <1>4, <2>1
    <3> QED
      BY <1>4, <2>3, <3>1
  <2>5. IF_flag' = FALSE
    BY <1>1, <1>2, <2>1, <2>3
  <2> QED
    BY <2>4, <2>5
<1>7. Len(stack') > 0 /\ IF_flag' \in BOOLEAN
  BY <1>1, <1>2, <1>4 DEF Frames
<1> QED
  BY <1>4, <1>5, <1>6, <1>7 DEF CInv

\* Every step of the top frame keeps the invariant.
LEMMA RunOK ==
    ASSUME CInv, Run PROVE CInv'
<1>1. CASE LockSerial \/ LockWriter
  <2>1. UNCHANGED <<stack, IF_flag>>
    BY <1>1 DEF LockSerial, LockWriter
  <2> QED
    BY <2>1 DEF CInv, Under
<1>2. CASE SkipWriter \/ WriteScreen
  <2>1. Now \notin {"none", "cli"} /\ Replace(Done(Top)) /\ UNCHANGED IF_flag
    BY <1>2 DEF SkipWriter, WriteScreen
  <2> QED
    BY <2>1, OnOK
<1> QED
  BY <1>1, <1>2, WriteSerialOK, SetInterruptsOK, ReturnOK DEF Run

\* So does every turn of the kernel's own code.
LEMMA ProceedOK ==
    ASSUME CInv, NEW from, NEW to, NEW todo \in Seq(KernelSteps), Proceed(from, to, todo)
    PROVE  CInv'
<1> DEFINE f == [Top EXCEPT !.todo = todo]
<1>1. Len(stack) = 1 /\ Replace(f) /\ IF_flag' = IF_flag
  BY TopIs DEF Proceed, Idle
<1>2. Top \in Frames /\ Behaves(Top, 1) /\ Top.code = "kernel" /\ stack[1].code = "kernel"
  BY <1>1, TopIs DEF Behaves
<1>3. todo \in Seq(HandlerSteps \cup KernelSteps)
  BY Widened
<1>4. f \in Frames /\ f.code = Top.code /\ f.interruptible = Top.interruptible /\ f.todo = todo
  BY <1>2, <1>3 DEF Frames
<1>5. Behaves(f, 1)
  BY <1>2, <1>4 DEF Behaves, Reporters
<1> HIDE DEF f
<1>6. \A d \in 1 .. Len(stack) : ~ Under(d)
  BY <1>1, <1>2 DEF Under, Reporters
<1>7. IF_flag' \in BOOLEAN
  BY <1>1 DEF CInv
<1> QED
  BY <1>1, <1>2, <1>4, <1>5, <1>6, <1>7, Replaced DEF Reporters

\* A new frame starts with the flag it was entered under.
LEMMA FrameIs ==
    ASSUME IF_flag \in BOOLEAN, NEW n \in Nat, n > 1,
           NEW code \in {"breakpoint", "device", "fault", "panic"}, NEW todo \in Seq(HandlerSteps),
           code \in Reporters => BeginsOff(todo)
    PROVE  /\ Frame(code, todo) \in Frames /\ Behaves(Frame(code, todo), n)
           /\ Frame(code, todo).interruptible = IF_flag
           /\ Frame(code, todo).code \in Reporters => Head(Frame(code, todo).todo) = "cli"
<1> DEFINE f == Frame(code, todo)
<1>1. f.code = code /\ f.todo = todo /\ f.interruptible = IF_flag
  BY DEF Frame
<1>2. todo \in Seq(HandlerSteps \cup KernelSteps)
  BY Widened
<1>3. f \in Frames
  BY <1>2 DEF Frame, Frames
<1> HIDE DEF f
<1>4. code \in Reporters => todo \in Seq(ReportSteps) /\ Head(todo) = "cli"
  BY DEF BeginsOff
<1>5. Behaves(f, n)
  BY <1>1, <1>4 DEF Behaves
<1> QED
  BY <1>1, <1>3, <1>4, <1>5 DEF f

\* Cutting the running frame.
LEMMA CutOK ==
    ASSUME CInv, NEW code \in {"breakpoint", "device", "fault", "panic"}, NEW todo \in Seq(HandlerSteps),
           code \in Reporters => BeginsOff(todo), stack' = Append(stack, Frame(code, todo)),
           IF_flag' \in {FALSE, IF_flag}
    PROVE  CInv'
<1>1. IF_flag \in BOOLEAN /\ Len(stack) + 1 \in Nat /\ Len(stack) + 1 > 1
  BY TopIs DEF CInv
<1>2. IF_flag' \in BOOLEAN /\ (IF_flag' => IF_flag)
  <2>1. CASE IF_flag' = FALSE
    BY <2>1
  <2>2. CASE IF_flag' = IF_flag
    BY <1>1, <2>2
  <2> QED
    BY <2>1, <2>2
<1> DEFINE f == Frame(code, todo)
<1>3. /\ f \in Frames /\ Behaves(f, Len(stack) + 1) /\ f.interruptible = IF_flag
      /\ f.code \in Reporters => Head(f.todo) = "cli"
  BY <1>1, FrameIs
<1> HIDE DEF f
<1> QED
  BY <1>2, <1>3, Pushed DEF f

\* What each handler and each call of the kernel does.
LEMMA Handlers ==
    /\ breakpoint_handler \in Seq(HandlerSteps) /\ Device \in Seq(HandlerSteps)
    /\ \A todo \in {general_protection_fault_handler, page_fault_handler, double_fault_handler, panic} :
          BeginsOff(todo) /\ todo \in Seq(HandlerSteps)
    /\ Println \in Seq(KernelSteps) /\ <<"serial">> \in Seq(KernelSteps) /\ <<"screen">> \in Seq(KernelSteps)
    /\ <<"setup_screen", "screen">> \in Seq(KernelSteps) /\ <<"sti">> \in Seq(KernelSteps)
    /\ Println \o <<"cli", "hlt">> \in Seq(KernelSteps)
<1>1. breakpoint_handler \in Seq(HandlerSteps) /\ Device \in Seq(HandlerSteps)
  BY DEF breakpoint_handler, Device, HandlerSteps, ReportSteps
<1>2. \A todo : BeginsOff(todo) => todo \in Seq(HandlerSteps)
  BY Widened DEF BeginsOff, HandlerSteps
<1>3. /\ Println \in Seq(KernelSteps) /\ <<"serial">> \in Seq(KernelSteps) /\ <<"screen">> \in Seq(KernelSteps)
      /\ <<"setup_screen", "screen">> \in Seq(KernelSteps) /\ <<"sti">> \in Seq(KernelSteps)
      /\ <<"cli", "hlt">> \in Seq(KernelSteps)
  BY DEF Println, KernelSteps, ReportSteps
<1>4. Println \o <<"cli", "hlt">> \in Seq(KernelSteps)
  BY <1>3, Joined
<1> QED
  BY <1>1, <1>2, <1>3, <1>4, ReportsBeginOff

\* Every step keeps the invariant.
LEMMA ConsoleNextOK ==
    ASSUME CInv, ConsoleNext PROVE CInv'
<1>1. CASE Run
  BY <1>1, RunOK
<1>2. CASE SetUpScreen \/ EnableInterrupts \/ Halt \/ KernelPrints
  <2>1. CASE SetUpScreen
    <3>1. Proceed("serial", "screen", <<"setup_screen", "screen">>)
      BY <2>1 DEF SetUpScreen
    <3> QED
      BY <3>1, Handlers, ProceedOK, Zenon
  <2>2. CASE EnableInterrupts
    <3>1. Proceed("traps", "shell", <<"sti">>)
      BY <2>2 DEF EnableInterrupts
    <3> QED
      BY <3>1, Handlers, ProceedOK, Zenon
  <2>3. CASE Halt
    <3>1. Proceed("shell", "halted", Println \o <<"cli", "hlt">>)
      BY <2>3 DEF Halt
    <3> QED
      BY <3>1, Handlers, ProceedOK, Zenon
  <2>4. CASE KernelPrints
    <3>1. PICK todo \in {Println, <<"serial">>, <<"screen">>} : Proceed(phase, phase, todo)
      BY <2>4 DEF KernelPrints
    <3>2. todo \in Seq(KernelSteps)
      BY Handlers, Zenon
    <3> QED
      BY <3>1, <3>2, ProceedOK
  <2> QED
    BY <1>2, <2>1, <2>2, <2>3, <2>4
<1>3. CASE SetUpTraps
  BY <1>3, Handlers, CutOK DEF SetUpTraps, Reporters
<1>4. CASE DeviceInterrupt
  BY <1>4, Handlers, CutOK DEF DeviceInterrupt, Enter, Reporters
<1>5. CASE Exception
  BY <1>5, Handlers, CutOK DEF Exception, Enter, Reporters
<1>6. CASE Panic
  BY <1>6, Handlers, CutOK DEF Panic, Enter, Reporters
<1> QED
  BY <1>1, <1>2, <1>3, <1>4, <1>5, <1>6 DEF ConsoleNext, Kernel, Cut

\* The kernel starts alone on the stack.
LEMMA ConsoleInitOK ==
    ASSUME ConsoleInit PROVE CInv
<1> DEFINE f == Frame("kernel", <<"serial">>)
<1>1. <<"serial">> \in Seq(KernelSteps) /\ <<"serial">> \in Seq(HandlerSteps \cup KernelSteps)
  BY DEF KernelSteps, ReportSteps
<1>2. f \in Frames /\ f.code = "kernel" /\ f.todo = <<"serial">>
  BY <1>1 DEF Frame, Frames, ConsoleInit
<1>3. Behaves(f, 1)
  <2>1. f.todo \in Seq(KernelSteps)
    BY <1>1, <1>2
  <2> HIDE DEF f
  <2> QED
    BY <1>2, <2>1 DEF Behaves, Reporters
<1> HIDE DEF f
<1>4. stack = <<f>> /\ stack \in Seq(Frames) /\ Len(stack) = 1 /\ stack[1] = f
  BY <1>2 DEF ConsoleInit, f
<1>5. \A d \in 1 .. Len(stack) : ~ Under(d)
  BY <1>2, <1>4 DEF Under, Reporters
<1>6. \A d \in 1 .. Len(stack) : Behaves(stack[d], d)
  BY <1>3, <1>4
<1>7. IF_flag \in BOOLEAN
  BY DEF ConsoleInit
<1>8. Len(stack) > 0
  BY <1>4
<1> QED
  BY <1>4, <1>5, <1>6, <1>7, <1>8 DEF CInv

\* Below a fault's or panic's report that has turned interrupts off they
\* stay off: no frame above it returns to where they were on, and nothing
\* but the kernel's own code, which never runs again, turns them on.
THEOREM ReportsKeepInterruptsOff == ConsoleSpec => []CInv
<1>1. ConsoleInit => CInv
  BY ConsoleInitOK
<1>2. CInv /\ [ConsoleNext]_console => CInv'
  <2>1. CInv /\ UNCHANGED console => CInv'
    BY DEF CInv, Under, console
  <2> QED
    BY <2>1, ConsoleNextOK
<1> QED
  BY <1>1, <1>2, PTL DEF ConsoleSpec

\* No device handler cuts a report that has turned interrupts off, however
\* deep the handlers are nested.
THEOREM NoInterruptOfAReport == ConsoleSpec => ReportIsNotInterrupted
<1> DEFINE A == (\E d \in 1 .. Depth : Reporting(d) /\ Head(stack[d].todo) # "cli")
                  => (Depth' > Depth => stack'[Depth'].code # "device")
<1>1. CInv /\ [ConsoleNext]_console => [A]_console
  <2> SUFFICES ASSUME CInv, ConsoleNext, NEW d \in 1 .. Depth, Reporting(d), Head(stack[d].todo) # "cli",
                      Depth' > Depth, stack'[Depth'].code = "device"
               PROVE  FALSE
    OBVIOUS
  <2>1. d \in 1 .. Len(stack) /\ Under(d) /\ Depth = Len(stack) /\ Depth' = Len(stack') /\ Len(stack) \in Nat
    BY TopIs DEF Under, Reporting, Depth
  <2>2. IF_flag = FALSE
    BY <2>1, UnderOff
  <2>3. ~ Run
    <3>1. stack \in Seq(Frames) /\ Len(stack) > 0
      BY DEF CInv
    <3>2. \A f : Replace(f) => Len(stack') = Len(stack)
      BY <3>1 DEF Replace
    <3>3. ~ Return
      BY <2>1, <3>1 DEF Return, Depth
    <3> QED
      BY <2>1, <3>2, <3>3 DEF Run, LockSerial, WriteSerial, LockWriter, SkipWriter, WriteScreen, SetInterrupts
  <2>4. ASSUME Kernel PROVE FALSE
    <3>1. Len(stack) = 1
      BY <2>1, <2>4 DEF Kernel, SetUpScreen, SetUpTraps, EnableInterrupts, KernelPrints, Halt, Proceed, Idle
    <3>2. stack[1].code = "kernel"
      BY <3>1, TopIs DEF Behaves
    <3> QED
      BY <2>1, <3>1, <3>2 DEF Under, Reporters
  <2>5. ASSUME NEW code, NEW todo, Enter(Frame(code, todo)) PROVE code = "device"
    <3>1. stack' = Append(stack, Frame(code, todo)) /\ stack \in Seq(Frames)
      BY <2>5 DEF Enter, CInv
    <3>2. Len(stack') = Len(stack) + 1 /\ stack'[Len(stack) + 1] = Frame(code, todo)
      BY <3>1
    <3> QED
      BY <2>1, <3>2 DEF Frame
  <2>6. ~ Exception /\ ~ Panic
    BY <2>5 DEF Exception, Panic
  <2> QED
    BY <2>2, <2>3, <2>4, <2>6 DEF ConsoleNext, Cut, DeviceInterrupt
<1>2. ConsoleSpec => [][A]_console
  BY <1>1, ReportsKeepInterruptsOff, PTL DEF ConsoleSpec
<1> QED
  BY <1>2 DEF ReportIsNotInterrupted
=============================================================================
