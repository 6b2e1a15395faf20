------------------------------- MODULE Screen -------------------------------
(***************************************************************************)
(* The terminal service and the display driver behind it, as operators on  *)
(* their joint state.  All drawing is in character cells, so a line of     *)
(* cells stands for FONT_HEIGHT lines of pixels, and a drawn cell for its  *)
(* character and whether its colours are inverted.                         *)
(***************************************************************************)
EXTENDS Integers, Sequences

CONSTANTS Cols, Rows

ASSUME ScreenAssumption == Cols \in Nat \ {0} /\ Rows \in Nat \ {0}

(* Lines and columns count from 0.  x, y, pendingScroll and cells belong   *)
(* to the terminal; data, offset, dirty and front to the driver.           *)
LF == "LF"
BS == "BS"
Blank == [ch |-> " ", inverted |-> FALSE]
Filled(v) == [row \in 0 .. Rows - 1 |-> [col \in 0 .. Cols - 1 |-> v]]
Dark ==
    [x |-> 0, y |-> 0, pendingScroll |-> 0, cells |-> Filled(" "),
     data |-> Filled(Blank), offset |-> 0, dirty |-> FALSE, front |-> Filled(Blank)]

-----------------------------------------------------------------------------
(* The driver: a back buffer whose lines are a ring.                       *)

(* Mutation: drawing ignores how far the ring has turned. *)
Unwrapped(s, row) == row
Wrapped(s, row) == (row + s.offset) % Rows

Draw(s, col, row, ch, inverted) ==
    [s EXCEPT !.dirty = TRUE,
              !.data[Wrapped(s, row)][col] = [ch |-> ch, inverted |-> inverted]]

(* PixelBuffer::scroll, by n lines of cells. *)
ScrollData(s, n) ==
    IF n >= Rows THEN [s EXCEPT !.dirty = TRUE, !.offset = 0, !.data = Filled(Blank)]
    ELSE [s EXCEPT !.dirty = TRUE, !.offset = (@ + n) % Rows,
                   !.data = [row \in 0 .. Rows - 1 |->
                               IF (row - s.offset) % Rows < n
                               THEN [col \in 0 .. Cols - 1 |-> Blank] ELSE @[row]]]

(* Display::flush. *)
FlushDisplay(s) ==
    IF ~s.dirty THEN s
    ELSE [s EXCEPT !.dirty = FALSE,
                   !.front = [row \in 0 .. Rows - 1 |-> s.data[(row + s.offset) % Rows]]]

-----------------------------------------------------------------------------
(* The terminal.                                                           *)

CellsUp(cells, n) ==
    [row \in 0 .. Rows - 1 |->
       IF row + n < Rows THEN cells[row + n] ELSE [col \in 0 .. Cols - 1 |-> " "]]

FlushScroll(s) ==
    IF s.pendingScroll = 0 THEN s
    ELSE [ScrollData(s, s.pendingScroll) EXCEPT
            !.cells = CellsUp(@, s.pendingScroll), !.pendingScroll = 0]

(* drawGlyph, and clearCell with a blank. *)
DrawGlyph(s, ch) ==
    LET t == FlushScroll(s)
    IN Draw([t EXCEPT !.cells[t.y][t.x] = ch], t.x, t.y, ch, FALSE)

(* The end of putchar: wrap at the last column, scroll at the last line. *)
Settled(s) ==
    LET t == IF s.x >= Cols THEN [s EXCEPT !.x = 0, !.y = @ + 1] ELSE s
    IN IF t.y < Rows THEN t
       ELSE [t EXCEPT !.pendingScroll = @ + (t.y - Rows + 1), !.y = Rows - 1]

(* Backspace moves back, to the line above at the first column, and erases. *)
BackOne(s) ==
    IF s.x > 0 THEN [s EXCEPT !.x = @ - 1]
    ELSE IF s.y > 0 THEN [s EXCEPT !.y = @ - 1, !.x = Cols - 1]
    ELSE s

(* Tabs and other control characters do not occur in the texts. *)
Putchar(s, ch) ==
    Settled(CASE ch = LF -> [s EXCEPT !.x = 0, !.y = @ + 1]
              [] ch = BS -> DrawGlyph(BackOne(s), " ")
              [] OTHER     -> [DrawGlyph(s, ch) EXCEPT !.x = @ + 1])

PutText(s, text) ==
    LET after[i \in 0 .. Len(text)] ==
            IF i = 0 THEN s ELSE Putchar(after[i - 1], text[i])
    IN after[Len(text)]

Clear(s) ==
    [s EXCEPT !.pendingScroll = 0, !.cells = Filled(" "), !.dirty = TRUE,
              !.data = Filled(Blank), !.x = 0, !.y = 0]

SetCursor(s, col, row) == [s EXCEPT !.x = col, !.y = row]

(* drawCursor and eraseCursor. *)
DrawCursor(s, inverted) ==
    LET t == FlushScroll(s) IN Draw(t, t.x, t.y, t.cells[t.y][t.x], inverted)

(* TerminalFlush: the cursor is drawn for the flush only. *)
Flush(s) == DrawCursor(FlushDisplay(DrawCursor(s, TRUE)), FALSE)

(* The terminal starts with a line of welcome. *)
Welcome(text) == FlushDisplay(DrawCursor(PutText(Dark, text \o <<LF>>), TRUE))

-----------------------------------------------------------------------------
(* What the framebuffer shows after a flush: every cell, and the cursor    *)
(* inverted.                                                               *)
ShowsCells(s) ==
    \A row \in 0 .. Rows - 1, col \in 0 .. Cols - 1 :
        s.front[row][col] = [ch |-> s.cells[row][col],
                             inverted |-> row = s.y /\ col = s.x]
=============================================================================
