---------------------------- MODULE ScreenProofs ----------------------------
(***************************************************************************)
(* The cursor of module Screen stays on the screen and where the hardware  *)
(* shows it, and the screen with its history implements module Paper, for  *)
(* a screen of any size.  In the second half, the line editor of module    *)
(* Shell on that screen.                                                   *)
(*                                                                         *)
(* The invariant says where the cursor is and that the lines that have     *)
(* scrolled off are whole lines.  A character first takes the cursor to    *)
(* Target, which may be the first cell below the screen (PlaceOk); the     *)
(* scroll then moves that cell onto the last line (PutCharOk).             *)
(*                                                                         *)
(* Strings are printed by folds.  A text keeps its place in front of the   *)
(* cursor while glyphs follow it (Shows, ShowGlyph), as long as it and     *)
(* they fit the screen without its last line, from which it may scroll.    *)
(***************************************************************************)
EXTENDS ScreenHistory, Shell, FoldProofs, TLAPS, SequenceTheorems

Cell == [ch : Glyphs, color : Colors]

Registers == [high : 0 .. BYTE - 1, low : 0 .. BYTE - 1]

Rows == 0 .. HEIGHT - 1

(* A screen whose cursor is in one of the rows *)
Screens(rows) ==
  [vga_buffer : [Cells -> Cell], cursor_row : rows, cursor_col : 0 .. WIDTH - 1,
   current_color : Colors, hw : Registers]

(* The tab stop after a column, and the cell a character takes the cursor to *)
StopAfter(col) == ((col + TAB) \div TAB) * TAB

Target(s, c) ==
  LET start == s.cursor_row * WIDTH
      stop  == StopAfter(s.cursor_col)
  IN CASE c \in Glyphs  -> Position(s) + 1
       [] c = NEWLINE   -> start + WIDTH
       [] c = RETURN    -> start
       [] c = TABKEY    -> start + (IF stop < WIDTH THEN stop ELSE WIDTH)
       [] c \in Silent  -> Position(s)

(* The buffer once the character is written *)
Inked(s, c) ==
  IF c \in Glyphs
  THEN [s.vga_buffer EXCEPT ![Position(s)] = vga_entry(c, s.current_color)]
  ELSE s.vga_buffer
-----------------------------------------------------------------------------
(* Arithmetic *)

(* The product of two naturals is a natural. *)
LEMMA Product == ASSUME NEW a \in Nat, NEW b \in Nat PROVE a * b \in Nat
  BY SMT

(* One line more is WIDTH cells more. *)
LEMMA NextRow ==
  ASSUME NEW r \in Nat, NEW w \in Nat
  PROVE  (r + 1) * w = r * w + w
  BY SMT

(* A cell of one of the first h lines is one of the first w * h cells. *)
LEMMA CellBound ==
  ASSUME NEW r \in Nat, NEW c \in Nat, NEW w \in Nat, NEW h \in Nat, r < h, c < w
  PROVE  r * w + c < w * h /\ r * w + c \in Nat
<1>1. r + 1 <= h OBVIOUS
<1>2. (r + 1) * w <= h * w BY <1>1, SMT
<1>3. h * w = w * h BY SMT
<1>. QED BY <1>2, <1>3, NextRow, Product, SMT

(* Quotient and remainder. *)
LEMMA DivMod ==
  ASSUME NEW x \in Nat, NEW n \in Nat \ {0}
  PROVE  /\ x \div n \in Nat
         /\ (x % n) \in 0 .. n - 1
         /\ (x \div n) * n + (x % n) = x
  BY SMT

(* A number below n * n has two digits in base n. *)
LEMMA TwoDigits ==
  ASSUME NEW x \in Nat, NEW n \in Nat \ {0}, x < n * n
  PROVE  ((x \div n) % n) = x \div n
<1>. DEFINE q == x \div n
<1>1. /\ q \in Nat
      /\ (x % n) \in 0 .. n - 1
      /\ q * n + (x % n) = x
  BY DivMod
<1>2. q * n \in Nat /\ n * n \in Nat BY <1>1, Product
<1>3. q >= n => q * n >= n * n BY <1>1, SMT
<1>. HIDE DEF q
<1>4. q < n BY <1>1, <1>2, <1>3
<1>5. (q % n) = q BY <1>1, <1>4, SMT
<1>. QED BY <1>5 DEF q

(* The remainder of a whole number of lines and a column is the column. *)
LEMMA ColumnIsRemainder ==
  ASSUME NEW k \in Nat, NEW w \in Nat \ {0}, NEW c \in 0 .. w - 1
  PROVE  ((k * w + c) % w) = c
  BY SMT

(* The tab stop after a column is right of it. *)
LEMMA StopIsRight ==
  ASSUME NEW col \in Nat
  PROVE  StopAfter(col) \in Nat /\ StopAfter(col) > col
<1>. DEFINE x == col + TAB
<1>. TAB \in Nat \ {0} BY ScreenAssumption
<1>1. x \in Nat OBVIOUS
<1>2. /\ x \div TAB \in Nat
      /\ (x % TAB) \in 0 .. TAB - 1
      /\ (x \div TAB) * TAB + (x % TAB) = x
  BY <1>1, DivMod
<1>3. (x \div TAB) * TAB \in Nat BY <1>2, Product
<1>. QED BY <1>2, <1>3 DEF StopAfter
-----------------------------------------------------------------------------
(* What a character does *)

(* A cell of the buffer for every cursor on the screen *)
LEMMA PositionOk ==
  ASSUME NEW s \in Screens(Rows)
  PROVE  Position(s) \in Cells /\ Position(s) \in Nat
<1>. WIDTH \in Nat \ {0} /\ HEIGHT \in Nat \ {0} BY ScreenAssumption
<1>1. s.cursor_row \in Nat /\ s.cursor_row < HEIGHT /\ s.cursor_col \in Nat /\ s.cursor_col < WIDTH
  BY DEF Screens, Rows
<1>2. Position(s) < WIDTH * HEIGHT /\ Position(s) \in Nat
  BY <1>1, CellBound DEF Position
<1>3. WIDTH * HEIGHT \in Nat BY Product
<1>. QED BY <1>2, <1>3 DEF Cells

(* The hardware registers hold the position. *)
LEMMA UpdateCursorOk ==
  ASSUME NEW s \in Screens(Rows)
  PROVE  LET u == UpdateCursor(s, Position(s))
         IN /\ u \in Screens(Rows)
            /\ u.hw.high * BYTE + u.hw.low = Position(u)
            /\ u.vga_buffer = s.vga_buffer
            /\ u.current_color = s.current_color
            /\ Position(u) = Position(s)
<1>. DEFINE pos  == Position(s)
            h    == (pos \div BYTE) % BYTE
            l    == pos % BYTE
            regs == [high |-> h, low |-> l]
            u    == [s EXCEPT !.hw = regs]
<1>. BYTE \in Nat \ {0} /\ WIDTH * HEIGHT <= BYTE * BYTE BY ScreenAssumption
<1>1. pos \in Nat /\ pos < BYTE * BYTE
  <2>1. WIDTH * HEIGHT \in Nat /\ BYTE * BYTE \in Nat BY Product, ScreenAssumption
  <2>2. pos \in Cells /\ pos \in Nat BY PositionOk
  <2>. HIDE DEF pos
  <2>. QED BY <2>1, <2>2 DEF Cells
<1>. HIDE DEF pos
<1>2. h = pos \div BYTE BY <1>1, TwoDigits
<1>3. pos \div BYTE \in Nat BY <1>1, DivMod
<1>4. l \in 0 .. BYTE - 1 /\ (pos \div BYTE) * BYTE + l = pos BY <1>1, DivMod
<1>5. h \in 0 .. BYTE - 1 BY <1>2, <1>3, SMT
<1>. HIDE DEF h, l
<1>6. regs \in Registers BY <1>4, <1>5 DEF Registers
<1>7. regs.high * BYTE + regs.low = pos BY <1>2, <1>4
<1>. HIDE DEF regs
<1>8. /\ u \in Screens(Rows) /\ u.hw = regs /\ u.vga_buffer = s.vga_buffer
      /\ u.current_color = s.current_color
      /\ u.cursor_row = s.cursor_row /\ u.cursor_col = s.cursor_col
  BY <1>6 DEF Screens, Rows
<1>9. UpdateCursor(s, Position(s)) = u BY DEF UpdateCursor, regs, h, l, pos
<1>10. Position(u) = Position(s) BY <1>8 DEF Position
<1>. HIDE DEF u
<1>. QED BY <1>7, <1>8, <1>9, <1>10 DEF pos

(* What a character does before the screen scrolls: it writes its cell and *)
(* takes the cursor to its target, at most the first cell below the last   *)
(* line.                                                                   *)
LEMMA PlaceOk ==
  ASSUME NEW s \in Screens(Rows), NEW c \in Chars
  PROVE  LET t == Wrap(Place(s, c))
         IN /\ t \in Screens(0 .. HEIGHT)
            /\ t.cursor_row = HEIGHT => t.cursor_col = 0
            /\ t.current_color = s.current_color
            /\ t.vga_buffer = Inked(s, c)
            /\ Place(s, c).vga_buffer = Inked(s, c)
            /\ Position(t) = Target(s, c)
<1>. DEFINE row == s.cursor_row
            col == s.cursor_col
<1>. WIDTH \in Nat \ {0} /\ HEIGHT \in Nat \ {0} BY ScreenAssumption
<1>1. /\ row \in 0 .. HEIGHT - 1 /\ col \in 0 .. WIDTH - 1 /\ row \in Nat /\ col \in Nat
      /\ row * WIDTH \in Nat /\ (row + 1) * WIDTH = row * WIDTH + WIDTH
  <2>1. row \in 0 .. HEIGHT - 1 /\ col \in 0 .. WIDTH - 1 BY DEF Screens, Rows
  <2>2. row \in Nat /\ col \in Nat BY <2>1
  <2>. HIDE DEF row, col
  <2>. QED BY <2>1, <2>2, Product, NextRow
(* The column may be off the line; then the cursor goes to the next one. *)
<1>2. ASSUME NEW q, q \in [vga_buffer : [Cells -> Cell], cursor_row : Rows,
                           cursor_col : Nat, current_color : Colors, hw : Registers],
             q.cursor_row = row
      PROVE  /\ Wrap(q) \in Screens(0 .. HEIGHT)
             /\ Wrap(q).cursor_row = HEIGHT => Wrap(q).cursor_col = 0
             /\ Wrap(q).current_color = q.current_color
             /\ Wrap(q).vga_buffer = q.vga_buffer
             /\ Position(Wrap(q)) = row * WIDTH
                  + (IF q.cursor_col < WIDTH THEN q.cursor_col ELSE WIDTH)
  <2>. DEFINE n == q.cursor_row + 1
  <2>1. n \in 0 .. HEIGHT /\ n * WIDTH = row * WIDTH + WIDTH BY <1>1, <1>2
  <2>2. q.cursor_col \in Nat BY <1>2
  <2>3. CASE q.cursor_col >= WIDTH
    <3>. HIDE DEF n
    <3>. DEFINE w == [q EXCEPT !.cursor_col = 0, !.cursor_row = n]
    <3>1. Wrap(q) = w BY <2>3 DEF Wrap, n
    <3>0. 0 \in 0 .. WIDTH - 1 OBVIOUS
    <3>2. /\ w \in Screens(0 .. HEIGHT) /\ w.cursor_col = 0 /\ w.cursor_row = n
          /\ w.current_color = q.current_color /\ w.vga_buffer = q.vga_buffer
      BY <1>2, <2>1, <3>0 DEF Screens, Rows
    <3>3. Position(w) = row * WIDTH + WIDTH
      <4>1. Position(w) = n * WIDTH + 0 BY <3>2 DEF Position
      <4>. HIDE DEF w, row
      <4>. QED BY <4>1, <2>1, <1>1
    <3>. HIDE DEF w, row
    <3>. QED BY <3>1, <3>2, <3>3, <2>2, <2>3
  <2>4. CASE q.cursor_col < WIDTH
    <3>1. Wrap(q) = q BY <2>2, <2>4 DEF Wrap
    <3>2. q \in Screens(0 .. HEIGHT) BY <1>2, <2>2, <2>4 DEF Screens, Rows
    <3>3. Position(q) = row * WIDTH + q.cursor_col BY <1>2 DEF Position
    <3>4. q.cursor_row # HEIGHT BY <1>1, <1>2
    <3>. QED BY <3>1, <3>2, <3>3, <3>4, <2>4
  <2>. QED BY <2>2, <2>3, <2>4
<1>3. /\ c \in Glyphs => c \notin {NEWLINE, RETURN, TABKEY} \cup Silent
      /\ c \in Silent => c \notin {NEWLINE, RETURN, TABKEY} \cup Glyphs
      /\ c \in {NEWLINE, RETURN, TABKEY} => c \notin Glyphs \cup Silent
  BY ScreenAssumption
<1>4. s.vga_buffer \in [Cells -> Cell] /\ s.current_color \in Colors /\ s.hw \in Registers
  BY DEF Screens, Rows
<1>5. CASE c \in Glyphs
  <2>. DEFINE v == Inked(s, c)
              n == col + 1
              q == [s EXCEPT !.vga_buffer = v, !.cursor_col = n]
  <2>1. v \in [Cells -> Cell]
    <3>1. vga_entry(c, s.current_color) \in Cell BY <1>4, <1>5 DEF vga_entry, Cell
    <3>2. Position(s) \in Cells BY PositionOk
    <3>. QED BY <3>1, <3>2, <1>4, <1>5 DEF Inked
  <2>2. Place(s, c) = q BY <1>3, <1>5 DEF Place, Inked, NEWLINE, RETURN, TABKEY
  <2>3. n \in Nat /\ n <= WIDTH BY <1>1
  <2>. HIDE DEF v, n
  <2>4. /\ q \in [vga_buffer : [Cells -> Cell], cursor_row : Rows,
                 cursor_col : Nat, current_color : Colors, hw : Registers]
        /\ q.cursor_row = row /\ q.vga_buffer = v /\ q.current_color = s.current_color
        /\ q.cursor_col = n
    BY <2>1, <2>3 DEF Screens, Rows
  <2>5. Target(s, c) = (row * WIDTH + col) + 1
    BY <1>3, <1>5 DEF Target, Position, NEWLINE, RETURN, TABKEY
  <2>6. row * WIDTH + (IF n < WIDTH THEN n ELSE WIDTH) = Target(s, c)
    <3>1. (IF n < WIDTH THEN n ELSE WIDTH) = col + 1 BY <2>3 DEF n
    <3>. HIDE DEF row, col
    <3>. QED BY <3>1, <2>5, <1>1
  <2>. HIDE DEF q, row
  <2>. QED BY <1>2, <2>2, <2>4, <2>6 DEF v
<1>6. CASE c = NEWLINE
  <2>. DEFINE n == row + 1
              q == [s EXCEPT !.cursor_col = 0, !.cursor_row = n]
  <2>1. Place(s, c) = q BY <1>3, <1>6 DEF Place, NEWLINE, RETURN, TABKEY
  <2>2. n \in 0 .. HEIGHT /\ n * WIDTH = row * WIDTH + WIDTH BY <1>1
  <2>. HIDE DEF n
  <2>0. 0 \in 0 .. WIDTH - 1 OBVIOUS
  <2>3. /\ q \in Screens(0 .. HEIGHT) /\ q.cursor_col = 0 /\ q.cursor_row = n
        /\ q.current_color = s.current_color /\ q.vga_buffer = s.vga_buffer
    BY <2>0, <2>2 DEF Screens, Rows
  <2>. HIDE DEF q
  <2>4. Wrap(q) = q BY <2>3 DEF Wrap
  <2>5. Target(s, c) = row * WIDTH + WIDTH
    BY <1>3, <1>6 DEF Target, NEWLINE, RETURN, TABKEY
  <2>6. Position(q) = n * WIDTH + 0 BY <2>3 DEF Position
  <2>7. Position(q) = Target(s, c)
    <3>. HIDE DEF row
    <3>. QED BY <2>2, <2>5, <2>6, <1>1
  <2>8. Inked(s, c) = s.vga_buffer BY <1>3, <1>6 DEF Inked
  <2>. QED BY <2>1, <2>3, <2>4, <2>7, <2>8
<1>7. CASE c = RETURN
  <2>. DEFINE q == [s EXCEPT !.cursor_col = 0]
  <2>1. Place(s, c) = q BY <1>3, <1>7 DEF Place, NEWLINE, RETURN, TABKEY
  <2>2. /\ q \in [vga_buffer : [Cells -> Cell], cursor_row : Rows,
                 cursor_col : Nat, current_color : Colors, hw : Registers]
        /\ q.cursor_row = row /\ q.vga_buffer = s.vga_buffer /\ q.cursor_col = 0
        /\ q.current_color = s.current_color
    BY DEF Screens, Rows
  <2>3. Target(s, c) = row * WIDTH
    BY <1>3, <1>7 DEF Target, NEWLINE, RETURN, TABKEY
  <2>4. row * WIDTH + (IF 0 < WIDTH THEN 0 ELSE WIDTH) = Target(s, c)
    <3>. HIDE DEF row
    <3>. QED BY <2>3, <1>1
  <2>5. Inked(s, c) = s.vga_buffer BY <1>3, <1>7 DEF Inked
  <2>. HIDE DEF q, row
  <2>. QED BY <1>2, <2>1, <2>2, <2>4, <2>5
<1>8. CASE c = TABKEY
  <2>. DEFINE n == StopAfter(col)
              q == [s EXCEPT !.cursor_col = n]
  <2>1. Place(s, c) = q BY <1>3, <1>8 DEF Place, StopAfter, NEWLINE, RETURN, TABKEY
  <2>2. n \in Nat BY <1>1, StopIsRight
  <2>3. Target(s, c) = row * WIDTH + (IF n < WIDTH THEN n ELSE WIDTH)
    BY <1>3, <1>8 DEF Target, NEWLINE, RETURN, TABKEY
  <2>. HIDE DEF n
  <2>4. /\ q \in [vga_buffer : [Cells -> Cell], cursor_row : Rows,
                 cursor_col : Nat, current_color : Colors, hw : Registers]
        /\ q.cursor_row = row /\ q.vga_buffer = s.vga_buffer /\ q.cursor_col = n
        /\ q.current_color = s.current_color
    BY <2>2 DEF Screens, Rows
  <2>5. Inked(s, c) = s.vga_buffer BY <1>3, <1>8 DEF Inked
  <2>. HIDE DEF q, row
  <2>. QED BY <1>2, <2>1, <2>3, <2>4, <2>5
<1>9. CASE c \in Silent
  <2>1. Place(s, c) = s BY <1>3, <1>9 DEF Place
  <2>2. /\ s \in [vga_buffer : [Cells -> Cell], cursor_row : Rows,
                 cursor_col : Nat, current_color : Colors, hw : Registers]
        /\ s.cursor_row = row
    BY DEF Screens, Rows
  <2>3. Target(s, c) = row * WIDTH + col
    BY <1>3, <1>9 DEF Target, Position, NEWLINE, RETURN, TABKEY
  <2>4. col < WIDTH BY <1>1
  <2>5. Inked(s, c) = s.vga_buffer BY <1>3, <1>9 DEF Inked
  <2>. HIDE DEF row
  <2>. QED BY <1>2, <2>1, <2>2, <2>3, <2>4, <2>5
<1>. QED BY <1>5, <1>6, <1>7, <1>8, <1>9 DEF Chars

(* The screen after the scroll: every line one up, the last one blank. *)
Scrolled(v, color) ==
  [i \in Cells |-> IF i + WIDTH \in Cells THEN v[i + WIDTH] ELSE vga_entry(SPACE, color)]

(* The cursor shows the position. *)
HardwareAgrees(s) == s.hw.high * BYTE + s.hw.low = Position(s)

(* What a character does: the cursor is at its target, or one line above   *)
(* it when that is below the screen, which is then scrolled.               *)
LEMMA PutCharOk ==
  ASSUME NEW s \in Screens(Rows), NEW c \in Chars
  PROVE  LET u == PutChar(s, c)
         IN /\ u \in Screens(Rows) /\ HardwareAgrees(u)
            /\ u.current_color = s.current_color
            /\ ~Scrolls(s, c) => /\ u.vga_buffer = Inked(s, c)
                                 /\ Position(u) = Target(s, c)
                                 /\ Target(s, c) \in Cells
            /\ Scrolls(s, c) => /\ u.vga_buffer = Scrolled(Inked(s, c), s.current_color)
                                /\ Position(u) + WIDTH = Target(s, c)
                                /\ Target(s, c) = WIDTH * HEIGHT
            /\ Inked(s, c) \in [Cells -> Cell]
<1>. DEFINE t == Wrap(Place(s, c))
            u == IF Scrolls(s, c) THEN Scroll(t) ELSE t
<1>. WIDTH \in Nat \ {0} /\ HEIGHT \in Nat \ {0} BY ScreenAssumption
<1>1. /\ t \in Screens(0 .. HEIGHT)
      /\ t.cursor_row = HEIGHT => t.cursor_col = 0
      /\ t.current_color = s.current_color
      /\ t.vga_buffer = Inked(s, c)
      /\ Position(t) = Target(s, c)
  BY PlaceOk
<1>2. Scrolls(s, c) <=> t.cursor_row >= HEIGHT BY DEF Scrolls
<1>3. PutChar(s, c) = UpdateCursor(u, Position(u)) BY DEF PutChar
<1>. HIDE DEF t
<1>4. /\ t.vga_buffer \in [Cells -> Cell] /\ t.cursor_row \in 0 .. HEIGHT
      /\ t.cursor_col \in 0 .. WIDTH - 1 /\ t.current_color \in Colors /\ t.hw \in Registers
  BY <1>1 DEF Screens
<1>5. CASE ~Scrolls(s, c)
  <2>1. u = t BY <1>5
  <2>2. t \in Screens(Rows)
    <3>1. t.cursor_row \in Rows BY <1>2, <1>4, <1>5 DEF Rows
    <3>. QED BY <1>1, <3>1 DEF Screens
  <2>. HIDE DEF u
  <2>3. Position(t) \in Cells BY <2>2, PositionOk
  <2>. QED BY <1>1, <1>3, <1>4, <1>5, <2>1, <2>2, <2>3, UpdateCursorOk DEF HardwareAgrees
<1>6. CASE Scrolls(s, c)
  <2>. DEFINE v == Scrolled(t.vga_buffer, t.current_color)
              n == HEIGHT - 1
              w == [t EXCEPT !.vga_buffer = v, !.cursor_row = n, !.cursor_col = 0]
  <2>1. u = w BY <1>6 DEF Scroll, Scrolled
  <2>2. v \in [Cells -> Cell]
    <3>1. vga_entry(SPACE, t.current_color) \in Cell
      BY <1>4, ScreenAssumption DEF vga_entry, Cell
    <3>. QED BY <3>1, <1>4 DEF Scrolled
  <2>3. n \in Rows /\ 0 \in 0 .. WIDTH - 1 /\ n \in Nat BY DEF Rows
  <2>. HIDE DEF v, n
  <2>4. /\ w \in Screens(Rows) /\ w.vga_buffer = v /\ w.current_color = t.current_color
        /\ w.cursor_row = n /\ w.cursor_col = 0
    BY <1>1, <2>2, <2>3 DEF Screens
  <2>5. Position(w) = n * WIDTH BY <2>4, <2>3, Product DEF Position
  <2>6. t.cursor_row = n + 1 /\ t.cursor_col = 0 BY <1>1, <1>2, <1>4, <1>6 DEF n
  <2>7. Position(t) = n * WIDTH + WIDTH
    BY <2>6, <2>3, NextRow, Product DEF Position
  <2>8. n * WIDTH + WIDTH = WIDTH * HEIGHT
    <3>1. (n + 1) * WIDTH = n * WIDTH + WIDTH BY <2>3, NextRow
    <3>2. n + 1 = HEIGHT BY DEF n
    <3>3. HEIGHT * WIDTH = WIDTH * HEIGHT BY SMT
    <3>. QED BY <3>1, <3>2, <3>3
  <2>. HIDE DEF u, w
  <2>. QED BY <1>1, <1>3, <1>4, <1>6, <2>1, <2>4, <2>5, <2>7, <2>8, UpdateCursorOk DEF HardwareAgrees, v
<1>. QED BY <1>5, <1>6

(* A cleared screen is blank, with the cursor at its first cell. *)
LEMMA ClearOk ==
  ASSUME NEW s \in Screens(Rows)
  PROVE  LET u == Clear(s)
         IN /\ u \in Screens(Rows) /\ HardwareAgrees(u) /\ Position(u) = 0
            /\ u.current_color = s.current_color
            /\ u.vga_buffer = [i \in Cells |-> vga_entry(SPACE, s.current_color)]
<1>. DEFINE v == [i \in Cells |-> vga_entry(SPACE, s.current_color)]
            w == [s EXCEPT !.vga_buffer = v, !.cursor_row = 0, !.cursor_col = 0]
<1>. WIDTH \in Nat \ {0} /\ HEIGHT \in Nat \ {0} BY ScreenAssumption
<1>1. v \in [Cells -> Cell]
  <2>1. s.current_color \in Colors BY DEF Screens
  <2>2. vga_entry(SPACE, s.current_color) \in Cell
    BY <2>1, ScreenAssumption DEF vga_entry, Cell
  <2>. QED BY <2>2
<1>2. 0 \in Rows /\ 0 \in 0 .. WIDTH - 1 BY DEF Rows
<1>. HIDE DEF v
<1>3. /\ w \in Screens(Rows) /\ w.vga_buffer = v /\ w.current_color = s.current_color
      /\ w.cursor_row = 0 /\ w.cursor_col = 0
  BY <1>1, <1>2 DEF Screens
<1>4. Position(w) = 0 BY <1>3 DEF Position
<1>5. Clear(s) = UpdateCursor(w, 0) BY DEF Clear, v
<1>. HIDE DEF w
<1>. QED BY <1>3, <1>4, <1>5, UpdateCursorOk DEF HardwareAgrees, v

(* A colour changes nothing on the screen. *)
LEMMA SetColorOk ==
  ASSUME NEW s \in Screens(Rows), HardwareAgrees(s), NEW color \in Colors
  PROVE  LET u == SetColor(s, color)
         IN /\ u \in Screens(Rows) /\ HardwareAgrees(u) /\ u.current_color = color
            /\ u.vga_buffer = s.vga_buffer /\ Position(u) = Position(s)
<1>. DEFINE u == [s EXCEPT !.current_color = color]
<1>1. /\ u \in Screens(Rows) /\ u.current_color = color /\ u.vga_buffer = s.vga_buffer
      /\ u.cursor_row = s.cursor_row /\ u.cursor_col = s.cursor_col /\ u.hw = s.hw
  BY DEF Screens
<1>. HIDE DEF u
<1>2. Position(u) = Position(s) /\ HardwareAgrees(u) BY <1>1 DEF Position, HardwareAgrees
<1>. QED BY <1>1, <1>2 DEF u, SetColor

(* The screen kernel_main leaves *)
LEMMA CleanScreenOk ==
  /\ CleanScreen \in Screens(Rows) /\ HardwareAgrees(CleanScreen) /\ Position(CleanScreen) = 0
  /\ CleanScreen.vga_buffer = [i \in Cells |-> vga_entry(SPACE, GREY)]
  /\ CleanScreen.current_color = GREY
<1>. WIDTH \in Nat \ {0} /\ HEIGHT \in Nat \ {0} /\ BYTE \in Nat \ {0} BY ScreenAssumption
<1>1. vga_entry(SPACE, GREY) \in Cell BY ScreenAssumption DEF vga_entry, Cell
<1>2. 0 \in Rows /\ 0 \in 0 .. WIDTH - 1 /\ [high |-> 0, low |-> 0] \in Registers
  BY DEF Rows, Registers
<1>. QED BY <1>1, <1>2, ScreenAssumption DEF CleanScreen, Screens, HardwareAgrees, Position
-----------------------------------------------------------------------------
(* The invariants of the driver *)

SInv == scr \in Screens(Rows) /\ HardwareAgrees(scr)

(* Every call keeps the cursor on the screen and shown. *)
LEMMA SInvNext == SInv /\ [Next]_scr => SInv'
<1>. SUFFICES ASSUME SInv, [Next]_scr PROVE SInv'
  OBVIOUS
<1>. USE DEF SInv
<1>1. CASE screen_clear BY <1>1, ClearOk DEF screen_clear
<1>2. ASSUME NEW color \in Colors, screen_set_color(color) PROVE SInv'
  BY <1>2, SetColorOk DEF screen_set_color
<1>3. ASSUME NEW c \in Chars, screen_putchar(c) PROVE SInv'
  BY <1>3, PutCharOk DEF screen_putchar
<1>4. CASE UNCHANGED scr BY <1>4 DEF HardwareAgrees, Position
<1>. QED BY <1>1, <1>2, <1>3, <1>4 DEF Next

(* The driver keeps SInv from the state kernel_main leaves on. *)
THEOREM ScreenInvariant == Spec => []SInv
<1>1. Init => SInv BY CleanScreenOk DEF Init, SInv
<1>. QED BY <1>1, SInvNext, PTL DEF Spec

(* Whatever screen_putchar, screen_set_color and screen_clear are called   *)
(* with, in any order, the cursor is left on the screen: the next glyph is *)
(* written inside the VGA buffer.                                          *)
THEOREM ScreenTypes == Spec => []TypeOK
<1>1. SInv => TypeOK BY DEF SInv, TypeOK, Screens, Cell, Rows, Registers
<1>. QED BY <1>1, ScreenInvariant, PTL

(* The cursor registers always hold the position of the next glyph, after  *)
(* every wrap, tab and scroll.                                             *)
THEOREM ScreenCursor == Spec => []CursorShown
<1>1. SInv => CursorShown BY DEF SInv, CursorShown, HardwareAgrees
<1>. QED BY <1>1, ScreenInvariant, PTL
-----------------------------------------------------------------------------
(* The screen as the end of the paper *)

(* The cells of the screen, and its top line, as sequences *)
SheetOf(v) == [i \in 1 .. WIDTH * HEIGHT |-> v[i - 1]]
TopOf(v)   == [i \in 1 .. WIDTH |-> v[i - 1]]
BlankLine(color) == [i \in 1 .. WIDTH |-> vga_entry(SPACE, color)]

(* A table of cells is a sequence. *)
LEMMA TableIsSeq ==
  ASSUME NEW S, NEW n \in Nat, NEW f \in [1 .. n -> S]
  PROVE  f \in Seq(S) /\ Len(f) = n
  BY SMT

(* Two sequences with the same elements are equal. *)
LEMMA SameSeq ==
  ASSUME NEW S, NEW a \in Seq(S), NEW b \in Seq(S), Len(a) = Len(b),
         \A i \in 1 .. Len(a) : a[i] = b[i]
  PROVE  a = b
  BY LenProperties

(* The elements of a concatenation *)
LEMMA Joined ==
  ASSUME NEW S, NEW a \in Seq(S), NEW b \in Seq(S), NEW m, NEW n, Len(a) = m, Len(b) = n
  PROVE  /\ a \o b \in Seq(S) /\ Len(a \o b) = m + n
         /\ \A i \in 1 .. m + n : (a \o b)[i] = IF i <= m THEN a[i] ELSE b[i - m]
  BY ConcatProperties

(* Size and cells of a sheet and a line *)
LEMMA SheetOk ==
  ASSUME NEW v \in [Cells -> Cell]
  PROVE  /\ WIDTH * HEIGHT \in Nat /\ WIDTH <= WIDTH * HEIGHT /\ WIDTH \in Nat \ {0}
         /\ SheetOf(v) \in Seq(Cell) /\ Len(SheetOf(v)) = WIDTH * HEIGHT
         /\ TopOf(v) \in Seq(Cell) /\ Len(TopOf(v)) = WIDTH
<1>. WIDTH \in Nat \ {0} /\ HEIGHT \in Nat \ {0} BY ScreenAssumption
<1>1. WIDTH * HEIGHT \in Nat BY Product
<1>2. WIDTH * HEIGHT >= WIDTH BY SMT
<1>. DEFINE N == WIDTH * HEIGHT
<1>3. N \in Nat /\ N >= WIDTH /\ Cells = 0 .. N - 1 BY <1>1, <1>2 DEF Cells
<1>4. SheetOf(v) = [i \in 1 .. N |-> v[i - 1]] BY DEF SheetOf
<1>. HIDE DEF N
<1>5. \A i \in 1 .. N : i - 1 \in Cells BY <1>3
<1>6. SheetOf(v) \in [1 .. N -> Cell] BY <1>4, <1>5
<1>7. TopOf(v) \in [1 .. WIDTH -> Cell] BY <1>3, <1>5 DEF TopOf
<1>. QED BY <1>3, <1>6, <1>7, TableIsSeq DEF N

(* The top line and the scrolled screen are the screen and a blank line. *)
LEMMA ScrollStrip ==
  ASSUME NEW v \in [Cells -> Cell], NEW color \in Colors
  PROVE  /\ Scrolled(v, color) \in [Cells -> Cell]
         /\ BlankLine(color) \in Seq(Cell) /\ Len(BlankLine(color)) = WIDTH
         /\ TopOf(v) \o SheetOf(Scrolled(v, color)) = SheetOf(v) \o BlankLine(color)
<1>. DEFINE N == WIDTH * HEIGHT
            e == vga_entry(SPACE, color)
            u == Scrolled(v, color)
            a == TopOf(v) \o SheetOf(u)
            w == BlankLine(color)
            b == SheetOf(v) \o w
<1>1. e \in Cell BY ScreenAssumption DEF vga_entry, Cell
<1>2. u = [i \in Cells |-> IF i + WIDTH \in Cells THEN v[i + WIDTH] ELSE e]
  BY DEF Scrolled
<1>3. w = [i \in 1 .. WIDTH |-> e] BY DEF BlankLine
<1>. HIDE DEF e, u, w
<1>4. u \in [Cells -> Cell] BY <1>1, <1>2
<1>5. /\ N \in Nat /\ WIDTH <= N /\ WIDTH \in Nat \ {0}
      /\ SheetOf(v) \in Seq(Cell) /\ Len(SheetOf(v)) = N
      /\ SheetOf(u) \in Seq(Cell) /\ Len(SheetOf(u)) = N
      /\ TopOf(v) \in Seq(Cell) /\ Len(TopOf(v)) = WIDTH
  BY <1>4, SheetOk
<1>6. w \in Seq(Cell) /\ Len(w) = WIDTH
  <2>1. w \in [1 .. WIDTH -> Cell] BY <1>1, <1>3
  <2>. QED BY <1>5, <2>1, TableIsSeq
<1>7. /\ \A i \in 1 .. N : SheetOf(v)[i] = v[i - 1] /\ SheetOf(u)[i] = u[i - 1]
      /\ \A i \in 1 .. WIDTH : TopOf(v)[i] = v[i - 1]
      /\ Cells = 0 .. N - 1
  BY DEF SheetOf, TopOf, Cells
<1>. HIDE DEF N
<1>8. /\ a \in Seq(Cell) /\ Len(a) = WIDTH + N
      /\ \A i \in 1 .. WIDTH + N :
           a[i] = IF i <= WIDTH THEN TopOf(v)[i] ELSE SheetOf(u)[i - WIDTH]
  BY <1>5, SMTT(30)
<1>9. /\ b \in Seq(Cell) /\ Len(b) = N + WIDTH
      /\ \A i \in 1 .. N + WIDTH :
           b[i] = IF i <= N THEN SheetOf(v)[i] ELSE w[i - N]
  <2>. DEFINE x == SheetOf(v)
  <2>1. x \in Seq(Cell) /\ w \in Seq(Cell) /\ Len(x) = N /\ Len(w) = WIDTH
    BY <1>5, <1>6
  <2>. HIDE DEF x
  <2>2. /\ x \o w \in Seq(Cell) /\ Len(x \o w) = N + WIDTH
        /\ \A i \in 1 .. N + WIDTH : (x \o w)[i] = IF i <= N THEN x[i] ELSE w[i - N]
    BY <2>1, Joined
  <2>. QED BY <2>2 DEF x
<1>10. WIDTH + N = N + WIDTH BY <1>5
<1>. HIDE DEF a, b
<1>11. ASSUME NEW i \in 1 .. N + WIDTH PROVE a[i] = b[i]
  <2>1. CASE i <= WIDTH
    <3>1. a[i] = v[i - 1] BY <2>1, <1>5, <1>8, <1>10, <1>7
    <3>. QED BY <3>1, <2>1, <1>5, <1>9, <1>7
  <2>2. CASE WIDTH < i
    <3>1. a[i] = u[(i - WIDTH) - 1] BY <2>2, <1>5, <1>8, <1>10, <1>7
    <3>2. (i - WIDTH) - 1 \in Cells /\ ((i - WIDTH) - 1) + WIDTH = i - 1
      BY <2>2, <1>5, <1>7, SMTT(30)
    <3>3. CASE i <= N
      <4>1. i - 1 \in Cells BY <3>3, <1>5, <1>7
      <4>2. a[i] = v[i - 1] BY <3>1, <3>2, <4>1, <1>2
      <4>. QED BY <4>2, <3>3, <1>9, <1>7
    <3>4. CASE N < i
      <4>1. i - 1 \notin Cells BY <3>4, <1>5, <1>7
      <4>2. a[i] = e BY <3>1, <3>2, <4>1, <1>2
      <4>3. b[i] = w[i - N] BY <3>4, <1>5, <1>9
      <4>4. i - N \in 1 .. WIDTH BY <3>4, <1>5
      <4>. QED BY <4>2, <4>3, <4>4, <1>3
    <3>. QED BY <3>3, <3>4, <1>5
  <2>. QED BY <2>1, <2>2, <1>5
<1>12. a = b BY <1>8, <1>9, <1>10, <1>11, SameSeq
<1>. QED BY <1>4, <1>6, <1>12 DEF a, b, u, w

(* A cell written over *)
Put(f, k, e) == [f EXCEPT ![k] = e]

(* A cell written on the screen is a cell written on the paper. *)
LEMMA InkStrip ==
  ASSUME NEW g \in Seq(Cell), NEW v \in [Cells -> Cell], NEW k \in Cells, NEW e \in Cell
  PROVE  g \o SheetOf(Put(v, k, e)) = Put(g \o SheetOf(v), Len(g) + k + 1, e)
<1>. DEFINE N == WIDTH * HEIGHT
            L == Len(g)
            u == [v EXCEPT ![k] = e]
            a == g \o SheetOf(u)
            c == g \o SheetOf(v)
            b == [c EXCEPT ![L + k + 1] = e]
<1>1. u \in [Cells -> Cell] OBVIOUS
<1>2. \A i \in Cells : u[i] = IF i = k THEN e ELSE v[i] OBVIOUS
<1>. HIDE DEF u
<1>3. /\ N \in Nat /\ L \in Nat
      /\ SheetOf(v) \in Seq(Cell) /\ Len(SheetOf(v)) = N
      /\ SheetOf(u) \in Seq(Cell) /\ Len(SheetOf(u)) = N
  BY <1>1, SheetOk, LenProperties
<1>4. /\ a \in Seq(Cell) /\ Len(a) = L + N
      /\ \A i \in 1 .. L + N : a[i] = IF i <= L THEN g[i] ELSE SheetOf(u)[i - L]
  BY <1>3, Joined
<1>5. /\ c \in Seq(Cell) /\ Len(c) = L + N
      /\ \A i \in 1 .. L + N : c[i] = IF i <= L THEN g[i] ELSE SheetOf(v)[i - L]
  BY <1>3, Joined
<1>6. /\ \A i \in 1 .. N : SheetOf(v)[i] = v[i - 1] /\ SheetOf(u)[i] = u[i - 1]
      /\ Cells = 0 .. N - 1
  BY DEF SheetOf, Cells
<1>. HIDE DEF N, L, a, c
<1>7. b \in Seq(Cell) /\ Len(b) = L + N
  <2>1. b \in [1 .. L + N -> Cell] BY <1>5, LenProperties
  <2>2. L + N \in Nat BY <1>3
  <2>. QED BY <2>1, <2>2, TableIsSeq
<1>8. \A i \in 1 .. L + N : b[i] = IF i = L + k + 1 THEN e ELSE c[i]
  BY <1>5, LenProperties
<1>. HIDE DEF b
<1>9. ASSUME NEW i \in 1 .. L + N PROVE a[i] = b[i]
  <2>1. CASE i <= L
    <3>1. a[i] = g[i] /\ c[i] = g[i] BY <2>1, <1>4, <1>5
    <3>2. i # L + k + 1 BY <2>1, <1>3, <1>6
    <3>. QED BY <3>1, <3>2, <1>8
  <2>2. CASE L < i
    <3>1. a[i] = u[(i - L) - 1] /\ c[i] = v[(i - L) - 1]
      BY <2>2, <1>3, <1>4, <1>5, <1>6, SMTT(30)
    <3>2. (i - L) - 1 \in Cells /\ ((i - L) - 1 = k <=> i = L + k + 1)
      BY <2>2, <1>3, <1>6, SMTT(30)
    <3>. QED BY <3>1, <3>2, <1>2, <1>8
  <2>. QED BY <2>1, <2>2, <1>3
<1>10. a = b BY <1>4, <1>7, <1>9, SameSeq
<1>. QED BY <1>10 DEF a, b, c, L, u, Put

(* The lines that scrolled off are whole lines, so that a line of the      *)
(* paper starts where a line of the screen does.                           *)
HInv ==
  /\ SInv
  /\ gone \in Seq(Cell)
  /\ \E k \in Nat : Len(gone) = k * WIDTH

(* The head of the paper is in the column of the cursor. *)
LEMMA HeadColumn ==
  ASSUME HInv
  PROVE  /\ ((Len(gone) + Position(scr)) % WIDTH) = scr.cursor_col
         /\ (Len(gone) + Position(scr)) - scr.cursor_col
              = Len(gone) + scr.cursor_row * WIDTH
<1>. DEFINE row == scr.cursor_row
            col == scr.cursor_col
<1>. PICK k \in Nat : Len(gone) = k * WIDTH BY DEF HInv
<1>. WIDTH \in Nat \ {0} /\ HEIGHT \in Nat \ {0} BY ScreenAssumption
<1>1. row \in Nat /\ col \in 0 .. WIDTH - 1 BY DEF HInv, SInv, Screens, Rows
<1>2. Position(scr) = row * WIDTH + col BY DEF Position
<1>. HIDE DEF row, col
<1>3. k * WIDTH \in Nat /\ row * WIDTH \in Nat BY <1>1, Product
<1>4. (k + row) * WIDTH = k * WIDTH + row * WIDTH BY <1>1, SMT
<1>5. Len(gone) + Position(scr) = (k + row) * WIDTH + col
  BY <1>1, <1>2, <1>3, <1>4
<1>6. k + row \in Nat BY <1>1
<1>7. (((k + row) * WIDTH + col) % WIDTH) = col BY <1>1, <1>6, ColumnIsRemainder
<1>8. (Len(gone) + Position(scr)) - col = Len(gone) + row * WIDTH BY <1>1, <1>2, <1>3
<1>. QED BY <1>5, <1>7, <1>8 DEF row, col

(* The history keeps HInv. *)
LEMMA HInvNext == HInv /\ [HNext]_historyVars => HInv'
<1>. SUFFICES ASSUME HInv, [HNext]_historyVars PROVE HInv'
  OBVIOUS
<1>. WIDTH \in Nat \ {0} BY ScreenAssumption
<1>1. SInv'
  <2>1. [Next]_scr BY DEF HNext, Next, historyVars
  <2>. QED BY <2>1, SInvNext DEF HInv
<1>2. (gone \in Seq(Cell) /\ \E k \in Nat : Len(gone) = k * WIDTH)'
  <2>1. CASE gone' = <<>>
    <3>1. Len(gone') = 0 * WIDTH BY <2>1
    <3>. QED BY <2>1, <3>1
  <2>2. CASE UNCHANGED gone BY <2>2 DEF HInv
  <2>3. ASSUME NEW c \in Chars, gone' = gone \o TopLine(Place(scr, c))
        PROVE  (gone \in Seq(Cell) /\ \E k \in Nat : Len(gone) = k * WIDTH)'
    <3>. DEFINE v == Inked(scr, c)
                top == TopOf(v)
    <3>1. v \in [Cells -> Cell] /\ Place(scr, c).vga_buffer = v
      BY PutCharOk, PlaceOk DEF HInv, SInv
    <3>2. TopLine(Place(scr, c)) = top BY <3>1 DEF TopLine, TopOf
    <3>. HIDE DEF v
    <3>3. top \in Seq(Cell) /\ Len(top) = WIDTH BY <3>1, SheetOk
    <3>. HIDE DEF top
    <3>4. gone \in Seq(Cell) BY DEF HInv
    <3>5. PICK k \in Nat : Len(gone) = k * WIDTH BY DEF HInv
    <3>6. gone' \in Seq(Cell) /\ Len(gone') = k * WIDTH + WIDTH
      BY <2>3, <3>2, <3>3, <3>4, <3>5, Joined, SMTT(30)
    <3>7. k + 1 \in Nat /\ (k + 1) * WIDTH = k * WIDTH + WIDTH BY NextRow
    <3>. QED BY <3>6, <3>7
  <2>4. \/ gone' = <<>> \/ UNCHANGED gone
        \/ \E c \in Chars : gone' = gone \o TopLine(Place(scr, c))
    BY DEF HNext, historyVars
  <2>. QED BY <2>1, <2>2, <2>3, <2>4
<1>. QED BY <1>1, <1>2 DEF HInv

(* A fresh screen is a fresh sheet. *)
LEMMA FreshSheet ==
  ASSUME NEW color
  PROVE  <<>> \o SheetOf([i \in Cells |-> vga_entry(SPACE, color)])
           = [i \in 1 .. WIDTH * HEIGHT |-> [ch |-> SPACE, color |-> color]]
<1>. DEFINE N == WIDTH * HEIGHT
            v == [i \in Cells |-> vga_entry(SPACE, color)]
            e == vga_entry(SPACE, color)
            b == [i \in 1 .. N |-> e]
<1>. WIDTH \in Nat \ {0} /\ HEIGHT \in Nat \ {0} BY ScreenAssumption
<1>1. N \in Nat /\ Cells = 0 .. N - 1 BY Product DEF Cells
<1>2. SheetOf(v) = [i \in 1 .. N |-> v[i - 1]] BY DEF SheetOf
<1>. HIDE DEF N, e
<1>3. \A i \in 1 .. N : i - 1 \in Cells BY <1>1
<1>4. \A i \in Cells : v[i] = e BY DEF e
<1>. HIDE DEF v
<1>5. SheetOf(v) = b BY <1>2, <1>3, <1>4
<1>6. b \in [1 .. N -> {e}] OBVIOUS
<1>. HIDE DEF b
<1>7. b \in Seq({e}) BY <1>1, <1>6, TableIsSeq
<1>8. <<>> \o b = b BY <1>7, ConcatEmptySeq
<1>. QED BY <1>5, <1>8 DEF b, e, N, v, vga_entry

(* A character moves the head of the paper to its target, with another     *)
(* line of paper exactly when the screen scrolls.                          *)
LEMMA PaperMoves ==
  ASSUME HInv, NEW c \in Chars, screen_putchar(c),
         gone' = IF Scrolls(scr, c) THEN gone \o TopLine(Place(scr, c)) ELSE gone
  PROVE  /\ P!MoveTo(Len(gone) + Target(scr, c), gone \o SheetOf(Inked(scr, c)))
         /\ Target(scr, c) \in Nat
<1>. DEFINE N     == WIDTH * HEIGHT
            L     == Len(gone)
            v     == Inked(scr, c)
            text  == gone \o SheetOf(v)
            color == scr.current_color
            goal  == Target(scr, c)
            more  == BlankLine(color)
<1>1. /\ scr \in Screens(Rows) /\ gone \in Seq(Cell) /\ L \in Nat /\ color \in Colors
  BY LenProperties DEF HInv, SInv, Screens
<1>2. /\ scr'.current_color = color
      /\ ~Scrolls(scr, c) => /\ scr'.vga_buffer = v
                             /\ Position(scr') = goal
                             /\ goal \in Cells
      /\ Scrolls(scr, c) => /\ scr'.vga_buffer = Scrolled(v, color)
                            /\ Position(scr') + WIDTH = goal
                            /\ goal = N
      /\ v \in [Cells -> Cell]
  BY <1>1, PutCharOk DEF screen_putchar
<1>3. Position(scr') \in Nat BY <1>1, PutCharOk, PositionOk DEF screen_putchar
<1>4. Place(scr, c).vga_buffer = v BY <1>1, PlaceOk
<1>5. TopLine(Place(scr, c)) = TopOf(v) BY <1>4 DEF TopLine, TopOf
<1>6. OnScreen' = SheetOf(scr'.vga_buffer) BY DEF OnScreen, SheetOf
<1>7. Cells = 0 .. N - 1 BY DEF Cells
<1>8. P!Blank(WIDTH) = more BY DEF P!Blank, BlankLine, vga_entry
<1>. HIDE DEF v, goal
<1>9. /\ N \in Nat /\ WIDTH \in Nat \ {0}
      /\ SheetOf(v) \in Seq(Cell) /\ Len(SheetOf(v)) = N
      /\ TopOf(v) \in Seq(Cell) /\ Len(TopOf(v)) = WIDTH
  BY <1>2, SheetOk
<1>. HIDE DEF N
<1>10. Len(text) = L + N BY <1>1, <1>9, Joined, SMTT(30)
<1>11. goal \in Nat
  BY <1>2, <1>3, <1>7, <1>9
<1>12. CASE ~Scrolls(scr, c)
  <2>1. gone' = gone BY <1>12
  <2>2. (gone \o OnScreen)' = text BY <1>2, <1>6, <1>12, <2>1
  <2>3. (Len(gone) + Position(scr))' = L + goal
    BY <1>2, <1>12, <2>1
  <2>4. L + goal < Len(text)
    <3>. HIDE DEF L, text
    <3>. QED BY <1>1, <1>2, <1>7, <1>9, <1>10, <1>12
  <2>. HIDE DEF text
  <2>. QED BY <1>2, <1>11, <2>2, <2>3, <2>4 DEF P!MoveTo, goal, text, v
<1>13. CASE Scrolls(scr, c)
  <2>. DEFINE u == SheetOf(Scrolled(v, color))
              top == TopOf(v)
  <2>1. gone' = gone \o top BY <1>5, <1>13
  <2>2. /\ Scrolled(v, color) \in [Cells -> Cell] /\ more \in Seq(Cell)
        /\ top \o u = SheetOf(v) \o more
    BY <1>1, <1>2, ScrollStrip
  <2>3. u \in Seq(Cell) BY <2>2, SheetOk
  <2>4. (gone \o OnScreen)' = (gone \o top) \o u BY <1>2, <1>6, <1>13, <2>1
  <2>. HIDE DEF u, top, more
  <2>5. (gone \o top) \o u = gone \o (top \o u)
    BY <1>1, <1>9, <2>3, ConcatAssociative, SMTT(30) DEF top
  <2>6. gone \o (SheetOf(v) \o more) = text \o more
    <3>. DEFINE x == SheetOf(v)
    <3>1. gone \in Seq(Cell) /\ x \in Seq(Cell) /\ more \in Seq(Cell) BY <1>1, <1>9, <2>2
    <3>. HIDE DEF x
    <3>2. (gone \o x) \o more = gone \o (x \o more) BY <3>1, ConcatAssociative, SMTT(30)
    <3>. QED BY <3>2 DEF x
  <2>7. (gone \o OnScreen)' = text \o more BY <2>2, <2>4, <2>5, <2>6
  <2>8. Len(gone') = L + WIDTH
    <3>1. top \in Seq(Cell) /\ Len(top) = WIDTH BY <1>9 DEF top
    <3>. QED BY <1>1, <2>1, <3>1, Joined
  <2>. HIDE DEF L, text
  <2>9. (Len(gone) + Position(scr))' = L + goal
    <3>1. goal = Position(scr') + WIDTH BY <1>2, <1>13
    <3>2. (L + WIDTH) + Position(scr') = L + goal BY <1>1, <1>3, <1>9, <3>1
    <3>. QED BY <2>8, <3>2
  <2>10. ~(L + goal < Len(text)) BY <1>1, <1>2, <1>9, <1>10, <1>13
  <2>. QED BY <1>2, <1>8, <1>11, <2>7, <2>9, <2>10 DEF P!MoveTo, goal, text, v, L
<1>. QED BY <1>12, <1>13

(* Every character is typed on the paper. *)
LEMMA PaperTypes ==
  ASSUME HInv, NEW c \in Chars, screen_putchar(c),
         gone' = IF Scrolls(scr, c) THEN gone \o TopLine(Place(scr, c)) ELSE gone
  PROVE  P!Type(c)
<1>. DEFINE L    == Len(gone)
            row  == scr.cursor_row
            col  == scr.cursor_col
            pos  == Position(scr)
            goal == Target(scr, c)
<1>. WIDTH \in Nat \ {0} BY ScreenAssumption
<1>1. /\ scr \in Screens(Rows) /\ gone \in Seq(Cell) /\ L \in Nat
      /\ row \in Nat /\ col \in 0 .. WIDTH - 1 /\ pos \in Nat /\ pos \in Cells
      /\ scr.vga_buffer \in [Cells -> Cell] /\ scr.current_color \in Colors
  BY LenProperties, PositionOk DEF HInv, SInv, Screens, Rows
<1>2. P!MoveTo(L + goal, gone \o SheetOf(Inked(scr, c))) /\ goal \in Nat
  BY PaperMoves
<1>3. ((L + pos) % WIDTH) = col /\ (L + pos) - col = L + row * WIDTH
  BY HeadColumn
<1>4. row * WIDTH \in Nat BY <1>1, Product
<1>5. /\ c \in Glyphs => c \notin {NEWLINE, RETURN, TABKEY} \cup Silent
      /\ c \in Silent => c \notin {NEWLINE, RETURN, TABKEY} \cup Glyphs
      /\ c \in {NEWLINE, RETURN, TABKEY} => c \notin Glyphs \cup Silent
  BY ScreenAssumption
<1>6. OnScreen = SheetOf(scr.vga_buffer) BY DEF OnScreen, SheetOf
<1>7. c \notin Glyphs => gone \o SheetOf(Inked(scr, c)) = gone \o OnScreen
  BY <1>6 DEF Inked
<1>8. P!LineStart = L + row * WIDTH BY <1>3 DEF P!LineStart
<1>9. P!NextLine = L + (row * WIDTH + WIDTH) BY <1>1, <1>4, <1>8, SMTT(30) DEF P!NextLine
<1>10. CASE c \in Glyphs
  <2>. DEFINE e == [ch |-> c, color |-> scr.current_color]
  <2>1. goal = pos + 1 BY <1>5, <1>10 DEF Target, NEWLINE, RETURN, TABKEY
  <2>2. Inked(scr, c) = Put(scr.vga_buffer, pos, e) BY <1>10 DEF Inked, vga_entry, Put
  <2>3. e \in Cell BY <1>1, <1>10 DEF Cell
  <2>. HIDE DEF e, L, pos
  <2>4. gone \o SheetOf(Inked(scr, c)) = Put(gone \o OnScreen, L + pos + 1, e)
    <3>. DEFINE v == scr.vga_buffer
    <3>1. v \in [Cells -> Cell] /\ pos \in Cells /\ gone \in Seq(Cell) BY <1>1
    <3>. HIDE DEF v
    <3>2. gone \o SheetOf(Put(v, pos, e)) = Put(gone \o SheetOf(v), Len(gone) + pos + 1, e)
      BY <3>1, <2>3, InkStrip
    <3>. QED BY <3>2, <1>6, <2>2 DEF L, v
  <2>5. L + goal = L + pos + 1 BY <1>1, <2>1
  <2>6. P!MoveTo(L + pos + 1, Put(gone \o OnScreen, L + pos + 1, e))
    BY <1>2, <2>4, <2>5
  <2>7. P!Write(c) BY <2>6 DEF P!Write, Put, e, L, pos
  <2>. QED BY <2>7, <1>5, <1>10 DEF P!Type, NEWLINE, RETURN, TABKEY
<1>11. CASE c = NEWLINE
  <2>1. goal = row * WIDTH + WIDTH BY <1>5, <1>11 DEF Target, NEWLINE, RETURN, TABKEY
  <2>2. P!MoveTo(P!NextLine, gone \o OnScreen) BY <1>2, <1>5, <1>7, <1>9, <1>11, <2>1
  <2>. QED BY <2>2, <1>5, <1>11 DEF P!Type, NEWLINE, RETURN, TABKEY
<1>12. CASE c = RETURN
  <2>1. goal = row * WIDTH BY <1>5, <1>12 DEF Target, NEWLINE, RETURN, TABKEY
  <2>2. P!MoveTo(P!LineStart, gone \o OnScreen) BY <1>2, <1>5, <1>7, <1>8, <1>12, <2>1
  <2>. QED BY <2>2, <1>5, <1>12 DEF P!Type, NEWLINE, RETURN, TABKEY
<1>13. CASE c = TABKEY
  <2>. DEFINE stop == StopAfter(col)
  <2>1. goal = row * WIDTH + (IF stop < WIDTH THEN stop ELSE WIDTH)
    BY <1>5, <1>13 DEF Target, NEWLINE, RETURN, TABKEY
  <2>2. stop \in Nat
    <3>1. col \in Nat BY <1>1
    <3>. QED BY <3>1, StopIsRight
  <2>3. P!Stop = (L + row * WIDTH) + stop BY <1>3, <1>8 DEF P!Stop, StopAfter
  <2>. HIDE DEF stop, L, row
  <2>4. L + goal = IF P!Stop < P!NextLine THEN P!Stop ELSE P!NextLine
    BY <1>1, <1>4, <1>9, <2>1, <2>2, <2>3, SMTT(30)
  <2>5. P!MoveTo(IF P!Stop < P!NextLine THEN P!Stop ELSE P!NextLine, gone \o OnScreen)
    BY <1>2, <1>5, <1>7, <1>13, <2>4
  <2>. QED BY <2>5, <1>5, <1>13 DEF P!Type, NEWLINE, RETURN, TABKEY
<1>14. CASE c \in Silent
  <2>1. goal = pos BY <1>5, <1>14 DEF Target, NEWLINE, RETURN, TABKEY
  <2>2. P!MoveTo(L + pos, gone \o OnScreen) BY <1>2, <1>5, <1>7, <1>14, <2>1
  <2>3. L + pos < Len(gone \o OnScreen)
    <3>1. /\ WIDTH * HEIGHT \in Nat /\ SheetOf(scr.vga_buffer) \in Seq(Cell)
          /\ Len(SheetOf(scr.vga_buffer)) = WIDTH * HEIGHT
      BY <1>1, SheetOk
    <3>2. Len(gone \o OnScreen) = L + WIDTH * HEIGHT BY <1>1, <1>6, <3>1, Joined
    <3>. HIDE DEF pos, L
    <3>. QED BY <1>1, <3>1, <3>2 DEF Cells
  <2>4. UNCHANGED P!vars BY <2>2, <2>3 DEF P!MoveTo, P!vars
  <2>. QED BY <2>4, <1>5, <1>14 DEF P!Type, NEWLINE, RETURN, TABKEY
<1>. QED BY <1>10, <1>11, <1>12, <1>13, <1>14 DEF Chars

(* The screen with its history implements the strip of paper: for a screen *)
(* of any size, wrapping, tabs and scrolling put every character where a   *)
(* teletype would and lose none.                                           *)
THEOREM ScreenIsPaper == HSpec => ImplementsPaper
<1>1. HInit => HInv
  <2>. SUFFICES ASSUME HInit PROVE HInv OBVIOUS
  <2>1. SInv BY CleanScreenOk DEF HInit, Init, SInv
  <2>2. gone = <<>> BY DEF HInit
  <2>3. Len(gone) = 0 * WIDTH BY <2>2, ScreenAssumption
  <2>. QED BY <2>1, <2>2, <2>3 DEF HInv
<1>2. HInit => P!Init
  <2>. SUFFICES ASSUME HInit PROVE P!Init OBVIOUS
  <2>1. scr = CleanScreen /\ gone = <<>> BY DEF HInit, Init
  <2>2. /\ Position(scr) = 0 /\ scr.current_color = GREY
        /\ scr.vga_buffer = [i \in Cells |-> vga_entry(SPACE, GREY)]
    BY <2>1, CleanScreenOk
  <2>3. Len(gone) + Position(scr) = 0 BY <2>1, <2>2
  <2>4. OnScreen = SheetOf([i \in Cells |-> vga_entry(SPACE, GREY)])
    BY <2>2 DEF OnScreen, SheetOf
  <2>5. gone \o OnScreen = [i \in 1 .. WIDTH * HEIGHT |-> [ch |-> SPACE, color |-> GREY]]
    BY <2>1, <2>4, FreshSheet
  <2>. QED BY <2>2, <2>3, <2>5, ScreenAssumption DEF P!Init, P!Blank
<1>3. HInv /\ [HNext]_historyVars => [P!Next]_P!vars
  <2>. SUFFICES ASSUME HInv, [HNext]_historyVars PROVE [P!Next]_P!vars
    OBVIOUS
  <2>1. CASE screen_clear /\ gone' = <<>>
    <3>1. /\ Position(scr') = 0 /\ scr'.current_color = scr.current_color
          /\ scr'.vga_buffer = [i \in Cells |-> vga_entry(SPACE, scr.current_color)]
      BY <2>1, ClearOk DEF HInv, SInv, screen_clear
    <3>2. (Len(gone) + Position(scr))' = 0 BY <2>1, <3>1
    <3>3. OnScreen' = SheetOf([i \in Cells |-> vga_entry(SPACE, scr.current_color)])
      BY <3>1 DEF OnScreen, SheetOf
    <3>4. (gone \o OnScreen)'
            = [i \in 1 .. WIDTH * HEIGHT |-> [ch |-> SPACE, color |-> scr.current_color]]
      BY <2>1, <3>3, FreshSheet
    <3>5. P!Fresh BY <3>1, <3>2, <3>4 DEF P!Fresh, P!Blank
    <3>. QED BY <3>5 DEF P!Next
  <2>2. ASSUME NEW color \in Colors, screen_set_color(color), UNCHANGED gone
        PROVE  [P!Next]_P!vars
    <3>1. /\ Position(scr') = Position(scr) /\ scr'.current_color = color
          /\ scr'.vga_buffer = scr.vga_buffer
      BY <2>2, SetColorOk DEF HInv, SInv, screen_set_color
    <3>2. P!Ink(color) BY <2>2, <3>1 DEF P!Ink, OnScreen
    <3>. QED BY <3>2 DEF P!Next
  <2>3. ASSUME NEW c \in Chars, screen_putchar(c),
               gone' = IF Scrolls(scr, c) THEN gone \o TopLine(Place(scr, c)) ELSE gone
        PROVE  [P!Next]_P!vars
    <3>1. P!Type(c) BY <2>3, PaperTypes
    <3>. QED BY <3>1 DEF P!Next, Chars
  <2>4. CASE UNCHANGED historyVars
    BY <2>4 DEF historyVars, P!vars, OnScreen, Position
  <2>. QED BY <2>1, <2>2, <2>3, <2>4 DEF HNext
<1>. QED BY <1>1, <1>2, <1>3, HInvNext, PTL DEF HSpec, ImplementsPaper, P!Spec

-----------------------------------------------------------------------------
(* Printing *)

(* The screens between two calls *)
Proper == {s \in Screens(Rows) : HardwareAgrees(s)}

PrintEq(f, s, str) ==
  f = [T \in SUBSET DOMAIN str |->
         IF T = {} THEN s ELSE PutChar(f[T \ {Max(T)}], str[Max(T)])]

LEMMA PrintIs ==
  ASSUME NEW s, NEW str
  PROVE  ScreenPrint(s, str) = (CHOOSE f : PrintEq(f, s, str))[DOMAIN str]
BY DEF ScreenPrint, FoldLeft, MapThenFoldSet, PrintEq

LEMMA PutCharProper ==
  ASSUME NEW s \in Proper, NEW c \in Chars
  PROVE  PutChar(s, c) \in Proper /\ PutChar(s, c).current_color = s.current_color
BY PutCharOk DEF Proper

LEMMA PrintSolved ==
  ASSUME NEW s \in Proper, NEW str \in Seq(Chars)
  PROVE  \E f : PrintEq(f, s, str)
<1>. DEFINE n == Len(str)
            step == [p \in (1 .. n) \X Proper |-> PutChar(p[2], str[p[1]])]
<1>1. n \in Nat /\ DOMAIN str = 1 .. n /\ \A i \in 1 .. n : str[i] \in Chars OBVIOUS
<1>2. step \in [(1 .. n) \X Proper -> Proper]
  <2>1. \A p \in (1 .. n) \X Proper : p[1] \in 1 .. n /\ p[2] \in Proper OBVIOUS
  <2>2. \A p \in (1 .. n) \X Proper : PutChar(p[2], str[p[1]]) \in Proper
    BY <1>1, <2>1, PutCharProper
  <2>. QED BY <2>2
<1>3. \A i \in 1 .. n, t \in Proper : step[<<i, t>>] = PutChar(t, str[i]) OBVIOUS
<1>. HIDE DEF step, n
<1>4. PICK f \in [SUBSET (1 .. n) -> Proper] : \A T \in SUBSET (1 .. n) :
         f[T] = IF T = {} THEN s ELSE step[<<Max(T), f[T \ {Max(T)}]>>]
  <2>1. \E f : IsSeqFold(f, n, Proper, s, step) BY <1>1, <1>2, SeqFold, Zenon
  <2>. QED BY <2>1 DEF IsSeqFold
<1>5. ASSUME NEW T \in SUBSET (1 .. n)
      PROVE  f[T] = IF T = {} THEN s ELSE PutChar(f[T \ {Max(T)}], str[Max(T)])
  <2>1. CASE T = {} BY <1>4, <2>1
  <2>2. CASE T # {}
    <3>1. T \subseteq Nat /\ \A k \in T : k <= n BY <1>1
    <3>2. Max(T) \in T BY <1>1, <2>2, <3>1, MaxIn
    <3>3. Max(T) \in 1 .. n /\ f[T \ {Max(T)}] \in Proper BY <3>2
    <3>4. f[T] = step[<<Max(T), f[T \ {Max(T)}]>>] BY <1>4, <2>2
    <3>. QED BY <1>3, <2>2, <3>3, <3>4
  <2>. QED BY <2>1, <2>2
<1>6. f = [T \in SUBSET (1 .. n) |-> f[T]] OBVIOUS
<1>7. PrintEq(f, s, str) BY <1>1, <1>5, <1>6 DEF PrintEq
<1>. QED BY <1>7

(* What every character keeps, the string keeps: G holds of a number of    *)
(* characters and the screen after them.                                   *)
LEMMA PrintSteps ==
  ASSUME NEW s \in Proper, NEW str \in Seq(Chars), NEW G, <<0, s>> \in G,
         \A k \in 0 .. Len(str) - 1, t \in Proper :
           <<k, t>> \in G => <<k + 1, PutChar(t, str[k + 1])>> \in G
  PROVE  ScreenPrint(s, str) \in Proper /\ <<Len(str), ScreenPrint(s, str)>> \in G
<1>. DEFINE f == CHOOSE f : PrintEq(f, s, str)
            n == Len(str)
<1>1. n \in Nat /\ DOMAIN str = 1 .. n /\ \A i \in 1 .. n : str[i] \in Chars OBVIOUS
<1>2. PrintEq(f, s, str) BY PrintSolved
<1>. HIDE DEF f, n
<1>. DEFINE Fine == {k \in Nat : k <= n => f[1 .. k] \in Proper /\ <<k, f[1 .. k]>> \in G}
<1>3. 0 \in Fine
  <2>1. 1 .. 0 = {} /\ {} \in SUBSET DOMAIN str OBVIOUS
  <2>2. f[{}] = s BY <1>2, <2>1 DEF PrintEq
  <2>. QED BY <2>1, <2>2
<1>4. ASSUME NEW k \in Nat, k \in Fine PROVE k + 1 \in Fine
  <2>. SUFFICES ASSUME k + 1 <= n
                PROVE  f[1 .. k + 1] \in Proper /\ <<k + 1, f[1 .. k + 1]>> \in G
    OBVIOUS
  <2>. DEFINE T == 1 .. k + 1
              t == f[1 .. k]
  <2>1. k <= n /\ k \in 0 .. Len(str) - 1 /\ k + 1 \in 1 .. n BY <1>1 DEF n
  <2>2. t \in Proper /\ <<k, t>> \in G BY <1>4, <2>1
  <2>3. Max(T) = k + 1 /\ T \ {Max(T)} = 1 .. k
    <3>. DEFINE j == k + 1
    <3>1. j \in Nat /\ j # 0 /\ j - 1 = k OBVIOUS
    <3>. HIDE DEF j
    <3>2. Max(1 .. j) = j /\ (1 .. j) \ {j} = 1 .. j - 1 BY <3>1, MaxUpTo
    <3>3. T = 1 .. j BY DEF j
    <3>. QED BY <3>1, <3>2, <3>3 DEF j
  <2>4. T \in SUBSET DOMAIN str /\ T # {}
    <3>1. \A i \in T : i \in 1 .. n BY <1>1, <2>1
    <3>2. k + 1 \in T OBVIOUS
    <3>. QED BY <1>1, <3>1, <3>2
  <2>5. f[T] = PutChar(f[T \ {Max(T)}], str[Max(T)]) BY <1>2, <2>4 DEF PrintEq
  <2>6. f[T] = PutChar(t, str[k + 1]) BY <2>3, <2>5
  <2>7. str[k + 1] \in Chars BY <1>1, <2>1
  <2>. HIDE DEF t, T
  <2>8. f[T] \in Proper BY <2>2, <2>6, <2>7, PutCharProper
  <2>9. <<k + 1, f[T]>> \in G BY <2>1, <2>2, <2>6
  <2>. QED BY <2>8, <2>9 DEF T
<1>5. n \in Fine
  <2>. HIDE DEF Fine
  <2>. QED BY <1>1, <1>3, <1>4, Induct
<1>6. n <= n BY <1>1
<1>7. ScreenPrint(s, str) = f[1 .. n] BY <1>1, PrintIs DEF f
<1>. QED BY <1>5, <1>6, <1>7 DEF n

LEMMA PrintOk ==
  ASSUME NEW s \in Proper, NEW str \in Seq(Chars)
  PROVE  /\ ScreenPrint(s, str) \in Proper
         /\ ScreenPrint(s, str).current_color = s.current_color
<1>. DEFINE G == {p \in Nat \X Proper : p[2].current_color = s.current_color}
<1>1. <<0, s>> \in G OBVIOUS
<1>2. ASSUME NEW k \in 0 .. Len(str) - 1, NEW t \in Proper, <<k, t>> \in G
      PROVE  <<k + 1, PutChar(t, str[k + 1])>> \in G
  <2>1. str[k + 1] \in Chars /\ k + 1 \in Nat OBVIOUS
  <2>2. t.current_color = s.current_color BY <1>2
  <2>3. PutChar(t, str[k + 1]) \in Proper /\ PutChar(t, str[k + 1]).current_color = t.current_color
    BY <2>1, PutCharProper
  <2>. QED BY <2>1, <2>2, <2>3
<1>3. \A p \in G : p[2].current_color = s.current_color OBVIOUS
<1>4. \A k, t : <<k, t>> \in G => t.current_color = s.current_color OBVIOUS
<1>. HIDE DEF G
<1>5. ScreenPrint(s, str) \in Proper /\ <<Len(str), ScreenPrint(s, str)>> \in G
  BY <1>1, <1>2, PrintSteps
<1>. QED BY <1>4, <1>5

(* The n cells in front of the cursor hold the first n entries of f. *)
Shows(s, f, n) ==
  /\ n <= Position(s)
  /\ \A i \in 1 .. n : s.vga_buffer[Position(s) - n + i - 1] = f[i]

(* The cells a text can keep when the screen scrolls *)
Room == WIDTH * (HEIGHT - 1)

LEMMA RoomOk ==
  /\ Room \in Nat /\ WIDTH * HEIGHT \in Nat /\ WIDTH \in Nat
  /\ Room + WIDTH = WIDTH * HEIGHT
<1>1. WIDTH \in Nat /\ HEIGHT \in Nat /\ HEIGHT - 1 \in Nat BY ScreenAssumption
<1>. DEFINE h == HEIGHT - 1
<1>2. HEIGHT = h + 1 BY <1>1
<1>. HIDE DEF h
<1>3. WIDTH * (h + 1) = WIDTH * h + WIDTH /\ WIDTH * h \in Nat BY <1>1 DEF h
<1>. QED BY <1>1, <1>2, <1>3 DEF Room, h

(* A glyph joins the text in front of it, where it is written and after a  *)
(* scroll.                                                                 *)
LEMMA ShowGlyph ==
  ASSUME NEW s \in Proper, NEW f, NEW n \in Nat, Shows(s, f, n), NEW c \in Glyphs,
         n + 1 <= Room, f[n + 1] = vga_entry(c, s.current_color)
  PROVE  Shows(PutChar(s, c), f, n + 1)
<1>. DEFINE u == PutChar(s, c)
            p == Position(s)
            v == Inked(s, c)
            e == vga_entry(c, s.current_color)
<1>1. s \in Screens(Rows) /\ c \in Chars BY DEF Proper, Chars
<1>2. p \in Cells /\ p \in Nat BY <1>1, PositionOk
<1>3. /\ s.vga_buffer \in [Cells -> Cell] /\ v = [s.vga_buffer EXCEPT ![p] = e]
      /\ Target(s, c) = p + 1
  <2>1. s.vga_buffer \in [Cells -> Cell] BY <1>1 DEF Screens
  <2>2. v = [s.vga_buffer EXCEPT ![p] = e] BY DEF Inked
  <2>3. c # NEWLINE /\ c # RETURN /\ c # TABKEY /\ c \notin Silent BY ScreenAssumption
  <2>4. Target(s, c) = p + 1 BY <2>3 DEF Target
  <2>. QED BY <2>1, <2>2, <2>4
<1>4. /\ ~Scrolls(s, c) => u.vga_buffer = v /\ Position(u) = Target(s, c)
      /\ Scrolls(s, c) => /\ u.vga_buffer = Scrolled(v, s.current_color)
                          /\ Position(u) + WIDTH = Target(s, c)
                          /\ Target(s, c) = WIDTH * HEIGHT
      /\ u \in Screens(Rows)
  BY <1>1, PutCharOk
<1>5. Position(u) \in Nat BY <1>4, PositionOk
<1>6. n <= p /\ \A i \in 1 .. n : s.vga_buffer[p - n + i - 1] = f[i] BY DEF Shows
<1>. HIDE DEF u, p, v, e
<1>7. ASSUME NEW i \in 1 .. n + 1
      PROVE  /\ p - n + i - 1 \in Cells /\ v[p - n + i - 1] = f[i]
  <2>1. p - n + i - 1 \in 0 .. p BY <1>2, <1>6
  <2>2. p - n + i - 1 \in Cells BY <1>2, <2>1, RoomOk DEF Cells
  <2>3. CASE i = n + 1
    <3>1. p - n + i - 1 = p BY <1>2, <2>3
    <3>2. v[p] = e BY <1>2, <1>3
    <3>. QED BY <2>2, <2>3, <3>1, <3>2 DEF e
  <2>4. CASE i # n + 1
    <3>1. i \in 1 .. n /\ p - n + i - 1 # p BY <1>2, <2>4
    <3>2. v[p - n + i - 1] = s.vga_buffer[p - n + i - 1] BY <1>3, <2>2, <3>1
    <3>. QED BY <1>6, <2>2, <3>1, <3>2
  <2>. QED BY <2>3, <2>4
<1>8. CASE ~Scrolls(s, c)
  <2>1. Position(u) = p + 1 /\ u.vga_buffer = v BY <1>3, <1>4, <1>8
  <2>2. n + 1 <= Position(u) BY <1>2, <1>6, <2>1
  <2>3. \A i \in 1 .. n + 1 : Position(u) - (n + 1) + i - 1 = p - n + i - 1 BY <1>2, <2>1
  <2>4. \A i \in 1 .. n + 1 : u.vga_buffer[Position(u) - (n + 1) + i - 1] = f[i]
    BY <1>7, <2>1, <2>3
  <2>. QED BY <2>2, <2>4 DEF Shows, u
<1>9. CASE Scrolls(s, c)
  <2>1. /\ Position(u) + WIDTH = p + 1 /\ p + 1 = WIDTH * HEIGHT
        /\ u.vga_buffer = Scrolled(v, s.current_color)
    BY <1>3, <1>4, <1>9
  <2>2. Position(u) = Room BY <1>5, <2>1, RoomOk
  <2>3. n + 1 <= Position(u) BY <2>2
  <2>4. ASSUME NEW i \in 1 .. n + 1
        PROVE  u.vga_buffer[Position(u) - (n + 1) + i - 1] = f[i]
    <3>. DEFINE j == Position(u) - (n + 1) + i - 1
    <3>1. j + WIDTH = p - n + i - 1 BY <1>2, <1>5, <2>1, RoomOk
    <3>2. j \in Nat BY <1>5, <2>3
    <3>. HIDE DEF j
    <3>3. j + WIDTH \in Cells /\ v[j + WIDTH] = f[i] BY <1>7, <3>1
    <3>4. j \in Cells BY <3>2, <3>3, RoomOk DEF Cells
    <3>5. Scrolled(v, s.current_color)[j] = v[j + WIDTH] BY <3>3, <3>4 DEF Scrolled
    <3>. QED BY <2>1, <3>3, <3>5 DEF j
  <2>. QED BY <2>3, <2>4 DEF Shows, u
<1>. QED BY <1>8, <1>9

LEMMA PrintShows ==
  ASSUME NEW s \in Proper, NEW f, NEW n \in Nat, Shows(s, f, n), NEW str \in Seq(Glyphs),
         n + Len(str) <= Room,
         \A i \in 1 .. Len(str) : f[n + i] = vga_entry(str[i], s.current_color)
  PROVE  /\ ScreenPrint(s, str) \in Proper
         /\ ScreenPrint(s, str).current_color = s.current_color
         /\ Shows(ScreenPrint(s, str), f, n + Len(str))
<1>. DEFINE G == {p \in Nat \X Proper : /\ p[2].current_color = s.current_color
                                        /\ Shows(p[2], f, n + p[1])}
<1>1. <<0, s>> \in G
  <2>1. n + 0 = n OBVIOUS
  <2>. QED BY <2>1
<1>2. Len(str) \in Nat /\ \A i \in 1 .. Len(str) : str[i] \in Glyphs OBVIOUS
<1>3. ASSUME NEW k \in 0 .. Len(str) - 1, NEW t \in Proper, <<k, t>> \in G
      PROVE  <<k + 1, PutChar(t, str[k + 1])>> \in G
  <2>. DEFINE c == str[k + 1]
              m == n + k
  <2>1. c \in Glyphs /\ c \in Chars /\ k + 1 \in Nat /\ k + 1 \in 1 .. Len(str)
    BY <1>2 DEF Chars
  <2>2. t.current_color = s.current_color /\ Shows(t, f, m) BY <1>3
  <2>3. m \in Nat /\ m + 1 <= Room /\ m + 1 = n + (k + 1) BY <1>2, RoomOk
  <2>4. f[m + 1] = vga_entry(c, t.current_color) BY <2>1, <2>2, <2>3
  <2>. HIDE DEF c, m
  <2>5. Shows(PutChar(t, c), f, m + 1) BY <2>1, <2>2, <2>3, <2>4, ShowGlyph
  <2>6. PutChar(t, c) \in Proper /\ PutChar(t, c).current_color = t.current_color
    BY <2>1, PutCharProper
  <2>7. <<k + 1, PutChar(t, c)>> \in G BY <2>1, <2>2, <2>3, <2>5, <2>6
  <2>. QED BY <2>7 DEF c
<1>4. \A k, t : <<k, t>> \in G => /\ t.current_color = s.current_color
                                  /\ Shows(t, f, n + k)
  OBVIOUS
<1>5. str \in Seq(Chars) BY DEF Chars
<1>. HIDE DEF G
<1>6. ScreenPrint(s, str) \in Proper /\ <<Len(str), ScreenPrint(s, str)>> \in G
  BY <1>1, <1>3, <1>5, PrintSteps
<1>. QED BY <1>4, <1>6

LEMMA SetColorProper ==
  ASSUME NEW s \in Proper, NEW color \in Colors
  PROVE  /\ SetColor(s, color) \in Proper /\ SetColor(s, color).current_color = color
         /\ \A f, n : Shows(SetColor(s, color), f, n) <=> Shows(s, f, n)
BY SetColorOk DEF Proper, Shows

(* Whatever was on the screen, after the prompt the prompt is. *)
LEMMA PromptShown ==
  ASSUME NEW s \in Proper, NEW f,
         \A i \in 1 .. Len(PROMPT) : f[i] = vga_entry(PROMPT[i], CYAN)
  PROVE  /\ Prompt(s) \in Proper /\ Prompt(s).current_color = WHITE
         /\ Shows(Prompt(s), f, Len(PROMPT))
<1>. DEFINE t == SetColor(s, CYAN)
            u == ScreenPrint(t, PROMPT)
            n == Len(PROMPT)
<1>1. /\ PROMPT \in Seq(Glyphs) /\ CYAN \in Colors /\ WHITE \in Colors
      /\ Len(PROMPT) + SHELL_BUFFER_SIZE - 1 <= Room /\ SHELL_BUFFER_SIZE \in Nat \ {0}
  BY ShellAssumption DEF Room
<1>2. t \in Proper /\ t.current_color = CYAN BY <1>1, SetColorProper
<1>. HIDE DEF t
<1>3. Position(t) \in Nat BY <1>2, PositionOk DEF Proper
<1>4. Shows(t, f, 0) BY <1>3 DEF Shows
<1>5. n \in Nat /\ 0 \in Nat /\ 0 + n <= Room /\ 0 + n = n BY <1>1, RoomOk
<1>6. \A i \in 1 .. n : f[0 + i] = vga_entry(PROMPT[i], t.current_color) BY <1>2
<1>7. u \in Proper /\ Shows(u, f, 0 + n)
  <2>. HIDE DEF n
  <2>1. 0 + Len(PROMPT) <= Room BY <1>5 DEF n
  <2>2. \A i \in 1 .. Len(PROMPT) : f[0 + i] = vga_entry(PROMPT[i], t.current_color)
    BY <1>6 DEF n
  <2>3. u \in Proper /\ Shows(u, f, 0 + Len(PROMPT))
    BY <1>1, <1>2, <1>4, <1>5, <2>1, <2>2, PrintShows
  <2>. QED BY <2>3 DEF n
<1>. HIDE DEF u
<1>8. Prompt(s) = SetColor(u, WHITE) BY DEF Prompt, u, t
<1>. QED BY <1>1, <1>5, <1>7, <1>8, SetColorProper

(* The output of a command *)
EmitEq(f, s, out) ==
  f = [T \in SUBSET DOMAIN out |->
         IF T = {} THEN s
         ELSE ScreenPrint(SetColor(f[T \ {Max(T)}], out[Max(T)].color), out[Max(T)].text)]

LEMMA EmitOk ==
  ASSUME NEW s \in Proper, NEW out \in Outputs
  PROVE  Emit(s, out) \in Proper
<1>. DEFINE n == Len(out)
            Act(t, i) == ScreenPrint(SetColor(t, out[i].color), out[i].text)
            step == [p \in (1 .. n) \X Proper |-> Act(p[2], p[1])]
            g == CHOOSE f : EmitEq(f, s, out)
<1>1. Emit(s, out) = g[DOMAIN out] BY DEF Emit, FoldLeft, MapThenFoldSet, EmitEq
<1>2. out \in Seq([color : Colors, text : Seq(Chars)]) BY ShellAssumption
<1>3. /\ n \in Nat /\ DOMAIN out = 1 .. n
      /\ \A i \in 1 .. n : out[i].color \in Colors /\ out[i].text \in Seq(Chars)
  <2>. DEFINE R == [color : Colors, text : Seq(Chars)]
  <2>1. \A o \in R : o.color \in Colors /\ o.text \in Seq(Chars) OBVIOUS
  <2>. HIDE DEF R
  <2>2. out \in Seq(R) BY <1>2 DEF R
  <2>3. n \in Nat /\ DOMAIN out = 1 .. n /\ \A i \in 1 .. n : out[i] \in R BY <2>2
  <2>. QED BY <2>1, <2>3
<1>4. ASSUME NEW t \in Proper, NEW i \in 1 .. n PROVE Act(t, i) \in Proper
  <2>1. SetColor(t, out[i].color) \in Proper BY <1>3, SetColorProper
  <2>. QED BY <1>3, <2>1, PrintOk
<1>5. \A i \in 1 .. n, t \in Proper : step[<<i, t>>] = Act(t, i) OBVIOUS
<1>. HIDE DEF Act
<1>6. step \in [(1 .. n) \X Proper -> Proper]
  <2>1. \A p \in (1 .. n) \X Proper : p[1] \in 1 .. n /\ p[2] \in Proper OBVIOUS
  <2>2. \A p \in (1 .. n) \X Proper : Act(p[2], p[1]) \in Proper BY <1>4, <2>1
  <2>. QED BY <2>2
<1>. HIDE DEF n, step, g
<1>7. PICK f : IsSeqFold(f, n, Proper, s, step) BY <1>3, <1>6, SeqFold, Zenon
<1>8. ASSUME NEW T \in SUBSET (1 .. n)
      PROVE  f[T] = IF T = {} THEN s ELSE Act(f[T \ {Max(T)}], Max(T))
  <2>1. CASE T = {} BY <1>7, <2>1 DEF IsSeqFold
  <2>2. CASE T # {}
    <3>1. T \subseteq Nat /\ \A k \in T : k <= n BY <1>3
    <3>2. Max(T) \in T BY <1>3, <2>2, <3>1, MaxIn
    <3>3. Max(T) \in 1 .. n /\ f[T \ {Max(T)}] \in Proper BY <1>7, <3>2 DEF IsSeqFold
    <3>4. f[T] = step[<<Max(T), f[T \ {Max(T)}]>>] BY <1>7, <2>2 DEF IsSeqFold
    <3>. QED BY <1>5, <2>2, <3>3, <3>4
  <2>. QED BY <2>1, <2>2
<1>9. f = [T \in SUBSET (1 .. n) |-> f[T]] BY <1>7 DEF IsSeqFold
<1>10. EmitEq(f, s, out) BY <1>3, <1>8, <1>9 DEF EmitEq, Act
<1>11. EmitEq(g, s, out) BY <1>10 DEF g
<1>12. g[{}] \in Proper BY <1>11 DEF EmitEq
<1>13. ASSUME NEW k \in 1 .. n, g[1 .. k - 1] \in Proper PROVE g[1 .. k] \in Proper
  <2>1. /\ 1 .. k \in SUBSET (1 .. n) /\ 1 .. k # {}
        /\ Max(1 .. k) = k /\ (1 .. k) \ {Max(1 .. k)} = 1 .. k - 1
    BY <1>3, UpTo
  <2>2. g[1 .. k] = Act(g[1 .. k - 1], k) BY <1>3, <1>11, <2>1 DEF EmitEq, Act
  <2>. QED BY <1>4, <1>13, <2>2
<1>14. g[1 .. n] \in Proper BY <1>3, <1>12, <1>13, SeqFoldIn
<1>. QED BY <1>1, <1>3, <1>14

(* The list of the commands that match *)
Listed(m, text, i) ==
  IF i \in m THEN text \o shell_commands[i] \o <<SPACE, SPACE>> ELSE text

ListEq(f, m) ==
  f = [T \in SUBSET DOMAIN shell_commands |->
         IF T = {} THEN <<>> ELSE Listed(m, f[T \ {Max(T)}], Max(T))]

LEMMA CommandsOk ==
  /\ shell_commands \in Seq(Words) /\ Len(shell_commands) \in Nat
  /\ DOMAIN shell_commands = 1 .. Len(shell_commands)
  /\ \A i \in DOMAIN shell_commands :
       /\ shell_commands[i] \in Seq(Glyphs) /\ Len(shell_commands[i]) \in Nat
       /\ Len(shell_commands[i]) + 2 <= SHELL_BUFFER_SIZE
<1>1. shell_commands \in Seq(Words) BY ShellAssumption
<1>2. \A w \in Words : w \in Seq(Glyphs) /\ Len(w) \in Nat BY DEF Words
<1>. QED BY <1>1, <1>2, ShellAssumption

LEMMA ListingOk == ASSUME NEW m PROVE Listing(m) \in Seq(Glyphs)
<1>. DEFINE n == Len(shell_commands)
            X == Seq(Glyphs)
            step == [p \in (1 .. n) \X X |-> Listed(m, p[2], p[1])]
            idx == [i \in DOMAIN shell_commands |-> i]
            g == CHOOSE f : ListEq(f, m)
            Eq(f) == f = [T \in SUBSET DOMAIN idx |->
                            IF T = {} THEN <<>> ELSE Listed(m, f[T \ {Max(T)}], idx[Max(T)])]
<1>1. n \in Nat /\ DOMAIN shell_commands = 1 .. n /\ DOMAIN idx = 1 .. n BY CommandsOk
<1>2. ASSUME NEW T \in SUBSET (1 .. n), T # {} PROVE Max(T) \in T /\ Max(T) \in 1 .. n
  <2>1. T \subseteq Nat /\ \A k \in T : k <= n BY <1>1
  <2>. QED BY <1>1, <1>2, <2>1, MaxIn
<1>3. \A f : Eq(f) <=> ListEq(f, m)
  <2>1. \A T \in SUBSET (1 .. n) : T # {} => idx[Max(T)] = Max(T) BY <1>1, <1>2
  <2>. HIDE DEF idx
  <2>. QED BY <1>1, <2>1 DEF ListEq
<1>4. Listing(m) = (CHOOSE f : Eq(f))[1 .. n]
  BY <1>1 DEF Listing, FoldLeftDomain, FoldLeft, MapThenFoldSet, Listed
<1>. HIDE DEF Eq
<1>5. Listing(m) = g[1 .. n] BY <1>3, <1>4
<1>6. ASSUME NEW t \in X, NEW i \in 1 .. n PROVE Listed(m, t, i) \in X
  <2>1. shell_commands[i] \in X BY <1>1, CommandsOk
  <2>2. <<SPACE, SPACE>> \in X BY ScreenAssumption
  <2>3. t \o shell_commands[i] \in X BY <2>1
  <2>4. (t \o shell_commands[i]) \o <<SPACE, SPACE>> \in X BY <2>2, <2>3
  <2>. QED BY <2>4 DEF Listed
<1>7. \A i \in 1 .. n, t \in X : step[<<i, t>>] = Listed(m, t, i) OBVIOUS
<1>8. step \in [(1 .. n) \X X -> X]
  <2>1. \A p \in (1 .. n) \X X : p[1] \in 1 .. n /\ p[2] \in X OBVIOUS
  <2>2. \A p \in (1 .. n) \X X : Listed(m, p[2], p[1]) \in X BY <1>6, <2>1
  <2>. QED BY <2>2
<1>9. <<>> \in X OBVIOUS
<1>. HIDE DEF n, step, g, X
<1>10. PICK f : IsSeqFold(f, n, X, <<>>, step) BY <1>1, <1>8, <1>9, SeqFold, Zenon
<1>11. ASSUME NEW T \in SUBSET (1 .. n)
       PROVE  f[T] = IF T = {} THEN <<>> ELSE Listed(m, f[T \ {Max(T)}], Max(T))
  <2>1. CASE T = {} BY <1>10, <2>1 DEF IsSeqFold
  <2>2. CASE T # {}
    <3>1. Max(T) \in 1 .. n /\ f[T \ {Max(T)}] \in X BY <1>2, <1>10, <2>2 DEF IsSeqFold
    <3>2. f[T] = step[<<Max(T), f[T \ {Max(T)}]>>] BY <1>10, <2>2 DEF IsSeqFold
    <3>. QED BY <1>7, <2>2, <3>1, <3>2
  <2>. QED BY <2>1, <2>2
<1>12. f = [T \in SUBSET (1 .. n) |-> f[T]] BY <1>10 DEF IsSeqFold
<1>13. ListEq(f, m) BY <1>1, <1>11, <1>12 DEF ListEq
<1>14. ListEq(g, m) BY <1>13 DEF g
<1>15. g[{}] \in X BY <1>9, <1>14 DEF ListEq
<1>16. ASSUME NEW k \in 1 .. n, g[1 .. k - 1] \in X PROVE g[1 .. k] \in X
  <2>1. /\ 1 .. k \in SUBSET (1 .. n) /\ 1 .. k # {}
        /\ Max(1 .. k) = k /\ (1 .. k) \ {Max(1 .. k)} = 1 .. k - 1
    BY <1>1, UpTo
  <2>2. g[1 .. k] = Listed(m, g[1 .. k - 1], k) BY <1>1, <1>14, <2>1 DEF ListEq
  <2>. QED BY <1>6, <1>16, <2>2
<1>17. g[1 .. n] \in X BY <1>1, <1>15, <1>16, SeqFoldIn
<1>. QED BY <1>5, <1>17 DEF X

-----------------------------------------------------------------------------
(* The line editor *)

(* The prompt and line l, as they should look *)
Face(l) == [i \in 1 .. Len(PROMPT) + Len(l) |->
              IF i <= Len(PROMPT) THEN vga_entry(PROMPT[i], CYAN)
              ELSE vga_entry(l[i - Len(PROMPT)], WHITE)]

OnScreenNow(s, l) == Shows(s, Face(l), Len(PROMPT) + Len(l))

Fits(l) == l \in Seq(Glyphs) /\ Len(l) < SHELL_BUFFER_SIZE

LEMMA LineFits ==
  ASSUME NEW l, Fits(l)
  PROVE  /\ Len(l) \in Nat /\ Len(PROMPT) \in Nat /\ Len(PROMPT) + Len(l) <= Room
         /\ SHELL_BUFFER_SIZE \in Nat \ {0} /\ PROMPT \in Seq(Glyphs)
<1>1. /\ PROMPT \in Seq(Glyphs) /\ SHELL_BUFFER_SIZE \in Nat \ {0}
      /\ Len(PROMPT) + SHELL_BUFFER_SIZE - 1 <= Room
  BY ShellAssumption DEF Room
<1>2. Len(l) \in Nat /\ Len(PROMPT) \in Nat /\ Len(l) < SHELL_BUFFER_SIZE
  BY <1>1 DEF Fits
<1>. QED BY <1>1, <1>2, RoomOk

(* Printing more of the line in white behind what is shown of it *)
LEMMA ShowMore ==
  ASSUME NEW s \in Proper, s.current_color = WHITE, NEW l \in Seq(Glyphs), OnScreenNow(s, l),
         NEW more \in Seq(Glyphs), Fits(l \o more)
  PROVE  /\ ScreenPrint(s, more) \in Proper /\ ScreenPrint(s, more).current_color = WHITE
         /\ OnScreenNow(ScreenPrint(s, more), l \o more)
<1>. DEFINE k == Len(PROMPT)
            n == k + Len(l)
            f == Face(l \o more)
<1>1. /\ k \in Nat /\ Len(l) \in Nat /\ Len(more) \in Nat /\ n \in Nat
      /\ Len(l \o more) = Len(l) + Len(more)
      /\ \A i \in 1 .. Len(l) + Len(more) :
           (l \o more)[i] = IF i <= Len(l) THEN l[i] ELSE more[i - Len(l)]
  BY LineFits
<1>2. n + Len(more) <= Room /\ k + Len(l \o more) = n + Len(more)
  <2>1. k + Len(l \o more) <= Room BY LineFits
  <2>. QED BY <1>1, <2>1
<1>3. \A i \in 1 .. n : f[i] = Face(l)[i]
  <2>. SUFFICES ASSUME NEW i \in 1 .. n PROVE f[i] = Face(l)[i] OBVIOUS
  <2>1. i \in 1 .. k + Len(l \o more) BY <1>1, <1>2
  <2>2. CASE i <= k BY <2>1, <2>2 DEF Face
  <2>3. CASE ~(i <= k)
    <3>1. i - k \in 1 .. Len(l) /\ i - k \in 1 .. Len(l) + Len(more) BY <1>1, <2>3
    <3>2. (l \o more)[i - k] = l[i - k] BY <1>1, <3>1
    <3>. QED BY <2>1, <2>3, <3>2 DEF Face
  <2>. QED BY <2>2, <2>3
<1>4. \A i \in 1 .. Len(more) : f[n + i] = vga_entry(more[i], s.current_color)
  <2>. SUFFICES ASSUME NEW i \in 1 .. Len(more) PROVE f[n + i] = vga_entry(more[i], WHITE)
    OBVIOUS
  <2>1. n + i \in 1 .. k + Len(l \o more) /\ ~(n + i <= k) BY <1>1, <1>2
  <2>2. (n + i) - k = Len(l) + i /\ (Len(l) + i) - Len(l) = i BY <1>1
  <2>3. Len(l) + i \in 1 .. Len(l) + Len(more) /\ ~(Len(l) + i <= Len(l)) BY <1>1
  <2>4. (l \o more)[Len(l) + i] = more[i] BY <1>1, <2>2, <2>3
  <2>5. f[n + i] = vga_entry((l \o more)[(n + i) - k], WHITE) BY <2>1 DEF Face
  <2>. QED BY <2>2, <2>4, <2>5
<1>5. Shows(s, f, n) BY <1>3 DEF OnScreenNow, Shows
<1>. HIDE DEF f, n
<1>6. /\ ScreenPrint(s, more) \in Proper
      /\ ScreenPrint(s, more).current_color = s.current_color
      /\ Shows(ScreenPrint(s, more), f, n + Len(more))
  BY <1>1, <1>2, <1>4, <1>5, PrintShows
<1>7. OnScreenNow(ScreenPrint(s, more), l \o more) BY <1>2, <1>6 DEF OnScreenNow, f
<1>. QED BY <1>6, <1>7

LEMMA PromptOk ==
  ASSUME NEW s \in Proper
  PROVE  /\ Prompt(s) \in Proper /\ Prompt(s).current_color = WHITE
         /\ OnScreenNow(Prompt(s), <<>>)
<1>. DEFINE f == Face(<<>>)
<1>1. Len(PROMPT) + Len(<<>>) = Len(PROMPT)
  <2>1. PROMPT \in Seq(Glyphs) BY ShellAssumption
  <2>. QED BY <2>1
<1>2. \A i \in 1 .. Len(PROMPT) : f[i] = vga_entry(PROMPT[i], CYAN) BY <1>1 DEF Face
<1>. HIDE DEF f
<1>3. /\ Prompt(s) \in Proper /\ Prompt(s).current_color = WHITE
      /\ Shows(Prompt(s), f, Len(PROMPT))
  BY <1>2, PromptShown
<1>. QED BY <1>1, <1>3 DEF OnScreenNow, f

(* A typed character is a line of one character more. *)
LEMMA EchoOk ==
  ASSUME NEW s \in Proper, s.current_color = WHITE, NEW l \in Seq(Glyphs),
         NEW c \in Glyphs, Fits(Append(l, c))
  PROVE  /\ PutChar(s, c) \in Proper /\ PutChar(s, c).current_color = WHITE
         /\ OnScreenNow(s, l) => OnScreenNow(PutChar(s, c), Append(l, c))
<1>. DEFINE k == Len(PROMPT)
            n == k + Len(l)
            m == Append(l, c)
            f == Face(m)
<1>1. c \in Chars BY DEF Chars
<1>2. PutChar(s, c) \in Proper /\ PutChar(s, c).current_color = WHITE BY <1>1, PutCharProper
<1>. SUFFICES ASSUME OnScreenNow(s, l) PROVE OnScreenNow(PutChar(s, c), m) BY <1>2
<1>3. /\ k \in Nat /\ Len(l) \in Nat /\ n \in Nat /\ Len(m) = Len(l) + 1
      /\ \A i \in 1 .. Len(l) : m[i] = l[i]
      /\ m[Len(l) + 1] = c
  BY LineFits
<1>4. n + 1 <= Room /\ k + Len(m) = n + 1
  <2>1. k + Len(m) <= Room BY LineFits
  <2>. QED BY <1>3, <2>1
<1>5. \A i \in 1 .. n : f[i] = Face(l)[i]
  <2>. SUFFICES ASSUME NEW i \in 1 .. n PROVE f[i] = Face(l)[i] OBVIOUS
  <2>1. i \in 1 .. k + Len(m) BY <1>3, <1>4
  <2>. HIDE DEF m
  <2>2. CASE i <= k BY <2>1, <2>2 DEF Face
  <2>3. CASE ~(i <= k)
    <3>1. i - k \in 1 .. Len(l) BY <1>3, <2>3
    <3>2. m[i - k] = l[i - k] BY <1>3, <3>1
    <3>. QED BY <2>1, <2>3, <3>2 DEF Face
  <2>. QED BY <2>2, <2>3
<1>6. f[n + 1] = vga_entry(c, s.current_color)
  <2>. HIDE DEF m
  <2>1. n + 1 \in 1 .. k + Len(m) /\ ~(n + 1 <= k) /\ (n + 1) - k = Len(l) + 1
    BY <1>3, <1>4
  <2>2. f[n + 1] = vga_entry(m[(n + 1) - k], WHITE) BY <2>1 DEF Face
  <2>. QED BY <1>3, <2>1, <2>2
<1>7. Shows(s, f, n) BY <1>5 DEF OnScreenNow, Shows
<1>. HIDE DEF f, n, m
<1>8. Shows(PutChar(s, c), f, n + 1) BY <1>3, <1>4, <1>6, <1>7, ShowGlyph
<1>. QED BY <1>4, <1>8 DEF OnScreenNow, f

(* Texts may be put together in any order. *)
LEMMA JoinTwice ==
  ASSUME NEW a \in Seq(Glyphs), NEW b \in Seq(Glyphs), NEW c \in Seq(Glyphs)
  PROVE  (a \o b) \o c = a \o (b \o c)
<1>. DEFINE x == a \o b
            y == b \o c
<1>1. /\ x \in Seq(Glyphs) /\ Len(x) = Len(a) + Len(b)
      /\ \A i \in 1 .. Len(a) + Len(b) : x[i] = IF i <= Len(a) THEN a[i] ELSE b[i - Len(a)]
  OBVIOUS
<1>2. /\ y \in Seq(Glyphs) /\ Len(y) = Len(b) + Len(c)
      /\ \A i \in 1 .. Len(b) + Len(c) : y[i] = IF i <= Len(b) THEN b[i] ELSE c[i - Len(b)]
  OBVIOUS
<1>3. Len(a) \in Nat /\ Len(b) \in Nat /\ Len(c) \in Nat OBVIOUS
<1>. HIDE DEF x, y
<1>. DEFINE u == x \o c
            v == a \o y
            n == Len(a) + Len(b) + Len(c)
<1>4. /\ u \in Seq(Glyphs) /\ Len(u) = n
      /\ \A i \in 1 .. n : u[i] = IF i <= Len(x) THEN x[i] ELSE c[i - Len(x)]
  <2>1. /\ u \in Seq(Glyphs) /\ Len(u) = Len(x) + Len(c)
        /\ \A i \in 1 .. Len(x) + Len(c) : u[i] = IF i <= Len(x) THEN x[i] ELSE c[i - Len(x)]
    <3>1. x \in Seq(Glyphs) BY <1>1
    <3>. QED BY <3>1
  <2>2. Len(x) + Len(c) = n BY <1>1, <1>3
  <2>. QED BY <2>1, <2>2
<1>5. /\ v \in Seq(Glyphs) /\ Len(v) = n
      /\ \A i \in 1 .. n : v[i] = IF i <= Len(a) THEN a[i] ELSE y[i - Len(a)]
  <2>1. /\ v \in Seq(Glyphs) /\ Len(v) = Len(a) + Len(y)
        /\ \A i \in 1 .. Len(a) + Len(y) : v[i] = IF i <= Len(a) THEN a[i] ELSE y[i - Len(a)]
    <3>1. y \in Seq(Glyphs) BY <1>2
    <3>. QED BY <3>1
  <2>2. Len(a) + Len(y) = n BY <1>2, <1>3
  <2>. QED BY <2>1, <2>2
<1>. HIDE DEF u, v
<1>6. ASSUME NEW i \in 1 .. n PROVE u[i] = v[i]
  <2>1. CASE i <= Len(a)
    <3>1. u[i] = x[i] BY <1>1, <1>3, <1>4, <2>1
    <3>2. x[i] = a[i] BY <1>1, <1>3, <2>1
    <3>. QED BY <1>5, <2>1, <3>1, <3>2
  <2>2. CASE Len(a) < i /\ i <= Len(a) + Len(b)
    <3>1. u[i] = b[i - Len(a)] BY <1>1, <1>3, <1>4, <2>2
    <3>2. i - Len(a) \in 1 .. Len(b) BY <1>3, <2>2
    <3>3. v[i] = y[i - Len(a)] BY <1>3, <1>5, <2>2
    <3>4. y[i - Len(a)] = b[i - Len(a)] BY <1>2, <1>3, <3>2
    <3>. QED BY <3>1, <3>3, <3>4
  <2>3. CASE Len(a) + Len(b) < i
    <3>1. u[i] = c[i - (Len(a) + Len(b))] BY <1>1, <1>3, <1>4, <2>3
    <3>2. i - Len(a) \in 1 .. Len(b) + Len(c) /\ ~(i - Len(a) <= Len(b)) BY <1>3, <2>3
    <3>3. v[i] = y[i - Len(a)] BY <1>3, <1>5, <2>3
    <3>4. y[i - Len(a)] = c[(i - Len(a)) - Len(b)] BY <1>2, <1>3, <3>2
    <3>5. (i - Len(a)) - Len(b) = i - (Len(a) + Len(b)) BY <1>3
    <3>. QED BY <3>1, <3>3, <3>4, <3>5
  <2>. QED BY <1>3, <2>1, <2>2, <2>3
<1>7. u = v BY <1>4, <1>5, <1>6, SameSeq
<1>. QED BY <1>7 DEF u, v, x, y

(* What completion appends makes the line the command and a space. *)
LEMMA Completed ==
  ASSUME NEW l, Fits(l), NEW i \in Matches(l)
  PROVE  LET rest == Drop(shell_commands[i], Len(l)) \o <<SPACE>>
         IN /\ rest \in Seq(Glyphs) /\ l \o rest \in Seq(Glyphs)
            /\ l \o rest = shell_commands[i] \o <<SPACE>>
            /\ Fits(l \o rest) /\ IsPrefix(l, l \o rest)
            /\ Last(l \o rest) = SPACE /\ Front(l \o rest) = shell_commands[i]
<1>. DEFINE w == shell_commands[i]
            k == Len(l)
            d == Drop(w, k)
            S == <<SPACE>>
            rest == d \o S
<1>1. /\ i \in DOMAIN shell_commands /\ IsPrefix(l, w) BY DEF Matches
<1>2. /\ w \in Seq(Glyphs) /\ Len(w) \in Nat /\ Len(w) + 2 <= SHELL_BUFFER_SIZE
  BY <1>1, CommandsOk
<1>3. k \in Nat /\ l \in Seq(Glyphs) /\ k <= Len(w) /\ S \in Seq(Glyphs) /\ Len(S) = 1
  BY <1>1, ScreenAssumption DEF Fits, IsPrefix
<1>. HIDE DEF w
<1>4. ASSUME NEW j \in 1 .. k PROVE l[j] = w[j]
  <2>1. SubSeq(l, 1, k) = SubSeq(w, 1, k) BY <1>1 DEF IsPrefix
  <2>2. SubSeq(l, 1, k)[j] = l[j] BY <1>3
  <2>3. SubSeq(w, 1, k)[j] = w[j] BY <1>2, <1>3
  <2>. QED BY <2>1, <2>2, <2>3
<1>5. d \in Seq(Glyphs) /\ Len(d) = Len(w) - k /\ \A j \in 1 .. Len(w) - k : d[j] = w[k + j]
  <2>1. d = SubSeq(w, k + 1, Len(w)) BY DEF Drop
  <2>2. k + 1 \in 1 .. Len(w) + 1 BY <1>2, <1>3
  <2>3. d \in Seq(Glyphs) /\ Len(d) = Len(w) - k
    BY <1>2, <1>3, <2>1, <2>2, SubSeqProperties
  <2>4. \A j \in 1 .. Len(w) - k : d[j] = w[k + j]
    BY <1>2, <1>3, <2>1
  <2>. QED BY <2>3, <2>4
<1>. HIDE DEF d
<1>6. l \o d = w
  <2>1. l \o d \in Seq(Glyphs) /\ Len(l \o d) = Len(w) BY <1>2, <1>3, <1>5
  <2>2. ASSUME NEW j \in 1 .. Len(l \o d) PROVE (l \o d)[j] = w[j]
    <3>1. (l \o d)[j] = IF j <= k THEN l[j] ELSE d[j - k] BY <1>3, <1>5
    <3>2. CASE j <= k BY <1>4, <3>1, <3>2
    <3>3. CASE ~(j <= k)
      <4>1. j - k \in 1 .. Len(w) - k /\ k + (j - k) = j BY <1>2, <1>3, <2>1, <3>3
      <4>. QED BY <1>5, <3>1, <3>3, <4>1
    <3>. QED BY <3>2, <3>3
  <2>. QED BY <1>2, <2>1, <2>2, SameSeq
<1>. HIDE DEF S
<1>7. rest \in Seq(Glyphs) /\ l \o rest = (l \o d) \o S
  <2>1. rest \in Seq(Glyphs) BY <1>3, <1>5
  <2>2. l \in Seq(Glyphs) /\ d \in Seq(Glyphs) /\ S \in Seq(Glyphs) BY <1>3, <1>5
  <2>3. (l \o d) \o S = l \o (d \o S) BY <2>2, JoinTwice
  <2>. QED BY <2>1, <2>3
<1>8. l \o rest = w \o S BY <1>6, <1>7
<1>. HIDE DEF rest
<1>9. /\ l \o rest \in Seq(Glyphs) /\ Len(l \o rest) = Len(w) + 1
      /\ \A j \in 1 .. Len(w) : (l \o rest)[j] = w[j]
      /\ (l \o rest)[Len(w) + 1] = SPACE
  BY <1>2, <1>3, <1>8 DEF S
<1>10. Fits(l \o rest)
  <2>1. SHELL_BUFFER_SIZE \in Nat BY ShellAssumption
  <2>. QED BY <1>2, <1>9, <2>1 DEF Fits
<1>. DEFINE r == l \o rest
<1>11. \A j \in 1 .. k : r[j] = l[j] BY <1>3, <1>7
<1>. HIDE DEF r
<1>12. r \in Seq(Glyphs) /\ Len(r) = Len(w) + 1 /\ \A j \in 1 .. Len(w) : r[j] = w[j]
  BY <1>9 DEF r
<1>13. IsPrefix(l, r)
  <2>1. Len(l) <= Len(r) BY <1>2, <1>3, <1>12
  <2>2. SubSeq(l, 1, k) \in Seq(Glyphs) /\ Len(SubSeq(l, 1, k)) = k BY <1>3
  <2>3. SubSeq(r, 1, k) \in Seq(Glyphs) /\ Len(SubSeq(r, 1, k)) = k BY <1>3, <1>12, <2>1
  <2>4. \A j \in 1 .. k : SubSeq(l, 1, k)[j] = SubSeq(r, 1, k)[j] BY <1>3, <1>11, <1>12, <2>1
  <2>5. SubSeq(l, 1, k) = SubSeq(r, 1, k) BY <2>2, <2>3, <2>4, SameSeq
  <2>. QED BY <2>1, <2>5 DEF IsPrefix
<1>14. Last(r) = SPACE BY <1>9, <1>12 DEF Last, r
<1>15. Front(r) = w
  <2>1. Front(r) = SubSeq(r, 1, Len(w)) BY <1>2, <1>12 DEF Front
  <2>2. Len(w) \in 1 - 1 .. Len(r) BY <1>2, <1>12
  <2>3. Front(r) \in Seq(Glyphs) /\ Len(Front(r)) = Len(w) BY <1>2, <1>12, <2>1
  <2>4. \A j \in 1 .. Len(w) : Front(r)[j] = w[j] BY <1>2, <1>12, <2>1
  <2>. QED BY <1>2, <2>3, <2>4, SameSeq
<1>. QED BY <1>7, <1>8, <1>9, <1>10, <1>13, <1>14, <1>15 DEF rest, d, w, S, r

-----------------------------------------------------------------------------
(* The words of a line *)

(* Span stops at the first character that is not in the set. *)
LEMMA SpanOk ==
  ASSUME NEW s \in Seq(Glyphs), NEW C
  PROVE  LET n == Span(s, C)
         IN /\ n \in 0 .. Len(s) /\ \A i \in 1 .. n : s[i] \in C
            /\ n < Len(s) => s[n + 1] \notin C
<1>. DEFINE N == {n \in 0 .. Len(s) : \A i \in 1 .. n : s[i] \in C}
            m == Max(N)
<1>1. Len(s) \in Nat OBVIOUS
<1>2. 0 \in N BY <1>1
<1>3. N \subseteq Nat /\ \A n \in N : n <= Len(s) BY <1>1
<1>4. m \in N /\ \A n \in N : n <= m
  <2>. HIDE DEF N
  <2>. QED BY <1>1, <1>2, <1>3, MaxIn
<1>5. Span(s, C) = m BY DEF Span
<1>. HIDE DEF m
<1>6. m \in 0 .. Len(s) /\ \A i \in 1 .. m : s[i] \in C BY <1>4
<1>7. ASSUME m < Len(s), s[m + 1] \in C PROVE FALSE
  <2>1. m + 1 \in 0 .. Len(s) BY <1>1, <1>6, <1>7
  <2>2. \A i \in 1 .. m + 1 : s[i] \in C
    <3>. SUFFICES ASSUME NEW i \in 1 .. m + 1 PROVE s[i] \in C OBVIOUS
    <3>1. i \in 1 .. m \/ i = m + 1 BY <1>1, <1>6
    <3>. QED BY <1>6, <1>7, <3>1
  <2>3. m + 1 \in N BY <2>1, <2>2
  <2>4. m + 1 <= m BY <1>4, <2>3
  <2>. QED BY <1>1, <1>6, <2>4
<1>. QED BY <1>5, <1>6, <1>7

(* What is left when the head of a text is dropped *)
LEMMA DropOk ==
  ASSUME NEW s \in Seq(Glyphs), NEW n \in 0 .. Len(s)
  PROVE  /\ Drop(s, n) \in Seq(Glyphs) /\ Len(Drop(s, n)) = Len(s) - n
         /\ \A i \in 1 .. Len(s) - n : Drop(s, n)[i] = s[n + i]
<1>1. n + 1 \in 1 .. Len(s) + 1 /\ Len(s) \in Nat OBVIOUS
<1>2. Drop(s, n) \in Seq(Glyphs) /\ Len(Drop(s, n)) = Len(s) - n
  BY <1>1, SubSeqProperties DEF Drop
<1>3. \A i \in 1 .. Len(s) - n : Drop(s, n)[i] = s[n + i] BY <1>1 DEF Drop
<1>. QED BY <1>2, <1>3

(* A piece of a text *)
LEMMA PieceOk ==
  ASSUME NEW s \in Seq(Glyphs), NEW e \in Nat, NEW n \in Nat, e + n <= Len(s)
  PROVE  /\ SubSeq(s, e + 1, e + n) \in Seq(Glyphs) /\ Len(SubSeq(s, e + 1, e + n)) = n
         /\ \A i \in 1 .. n : SubSeq(s, e + 1, e + n)[i] = s[e + i]
<1>1. \A i \in e + 1 .. e + n : s[i] \in Glyphs
  <2>1. \A i \in e + 1 .. e + n : i \in 1 .. Len(s) OBVIOUS
  <2>. QED BY <2>1
<1>. DEFINE c == SubSeq(s, e + 1, e + n)
<1>2. /\ c \in Seq(Glyphs)
      /\ Len(c) = IF e + 1 <= e + n THEN (e + n) - (e + 1) + 1 ELSE 0
      /\ \A i \in 1 .. (e + n) - (e + 1) + 1 : c[i] = s[(e + 1) + i - 1]
  BY <1>1, SubSeqProperties
<1>. HIDE DEF c
<1>3. Len(c) = n BY <1>2
<1>4. \A i \in 1 .. n : c[i] = s[e + i]
  <2>1. (e + n) - (e + 1) + 1 = n /\ \A i \in 1 .. n : (e + 1) + i - 1 = e + i OBVIOUS
  <2>. QED BY <1>2, <2>1
<1>. QED BY <1>2, <1>3, <1>4 DEF c

(* What WordsOfTheLine says, of any line and words *)
WordsOf(input, w) ==
  LET Blanks(s) == Range(s) \subseteq {SPACE}
  IN /\ SPACE \notin Range(w.command)
     /\ w.argument # <<>> => Head(w.argument) # SPACE /\ w.command # <<>>
     /\ w.parts = IF w.argument = <<>> THEN 1 ELSE 2
     /\ \E i \in 0 .. Len(input) :
          LET j == i + Len(w.command)
              k == Len(input) - Len(w.argument)
          IN /\ j <= k
             /\ Blanks(SubSeq(input, 1, i))
             /\ SubSeq(input, i + 1, j) = w.command
             /\ Blanks(SubSeq(input, j + 1, k))
             /\ Drop(input, k) = w.argument

(* parse_command cuts the line in four: spaces, the command, spaces, the   *)
(* argument.                                                               *)
LEMMA ParseOk ==
  ASSUME NEW input \in Seq(Glyphs)
  PROVE  /\ parse_command(input).command \in Seq(Glyphs)
         /\ WordsOf(input, parse_command(input))
<1>. DEFINE w == parse_command(input)
            L == Len(input)
            a == Span(input, {SPACE})
            s == Drop(input, a)
            n == Span(s, Glyphs \ {SPACE})
            d == Drop(s, n)
            b == Span(d, {SPACE})
            arg == Drop(d, b)
            com == SubSeq(s, 1, n)
            k == a + n + b
<1>1. /\ w.command = com /\ w.argument = arg
      /\ w.parts = IF arg = <<>> THEN 1 ELSE 2
  BY DEF parse_command, Skip
<1>. HIDE DEF w
<1>2. /\ L \in Nat /\ a \in 0 .. L /\ \A i \in 1 .. a : input[i] = SPACE
      /\ a < L => input[a + 1] # SPACE
  BY SpanOk
<1>. HIDE DEF a
<1>3. s \in Seq(Glyphs) /\ Len(s) = L - a /\ \A i \in 1 .. L - a : s[i] = input[a + i]
  BY <1>2, DropOk
<1>. HIDE DEF s
<1>4. /\ n \in 0 .. L - a /\ \A i \in 1 .. n : s[i] \in Glyphs \ {SPACE}
      /\ n < L - a => s[n + 1] \notin Glyphs \ {SPACE}
  BY <1>3, SpanOk, SMTT(30)
<1>. HIDE DEF n
<1>5. /\ d \in Seq(Glyphs) /\ Len(d) = L - a - n
      /\ \A i \in 1 .. L - a - n : d[i] = input[a + n + i]
  <2>1. d \in Seq(Glyphs) /\ Len(d) = Len(s) - n /\ \A i \in 1 .. Len(s) - n : d[i] = s[n + i]
    <3>1. n \in 0 .. Len(s) BY <1>3, <1>4
    <3>. QED BY <1>3, <3>1, DropOk
  <2>. HIDE DEF d
  <2>2. ASSUME NEW i \in 1 .. L - a - n PROVE d[i] = input[a + n + i]
    <3>1. n + i \in 1 .. L - a /\ a + (n + i) = a + n + i BY <1>2, <1>4
    <3>2. i \in 1 .. Len(s) - n BY <1>2, <1>3, <1>4
    <3>. QED BY <1>3, <2>1, <3>1, <3>2
  <2>3. Len(d) = L - a - n BY <1>3, <2>1
  <2>. QED BY <2>1, <2>2, <2>3
<1>. HIDE DEF d
<1>6. /\ b \in 0 .. L - a - n /\ \A i \in 1 .. b : d[i] = SPACE
      /\ b < L - a - n => d[b + 1] # SPACE
  BY <1>5, SpanOk
<1>. HIDE DEF b
<1>7. /\ arg \in Seq(Glyphs) /\ Len(arg) = L - k
      /\ \A i \in 1 .. L - k : arg[i] = d[b + i]
  <2>1. /\ arg \in Seq(Glyphs) /\ Len(arg) = Len(d) - b
        /\ \A i \in 1 .. Len(d) - b : arg[i] = d[b + i]
    <3>1. b \in 0 .. Len(d) BY <1>5, <1>6
    <3>. QED BY <1>5, <3>1, DropOk
  <2>2. Len(d) - b = L - k BY <1>2, <1>4, <1>5, <1>6
  <2>. QED BY <2>1, <2>2
<1>. HIDE DEF arg
<1>8. k \in 0 .. L /\ a + n <= k /\ L - Len(arg) = k BY <1>2, <1>4, <1>6, <1>7
<1>9. com \in Seq(Glyphs) /\ Len(com) = n /\ \A i \in 1 .. n : com[i] = s[i]
  BY <1>2, <1>3, <1>4
<1>. HIDE DEF com
<1>10. SPACE \notin Range(com)
  BY <1>4, <1>9 DEF Range
<1>11. ASSUME arg # <<>> PROVE Head(arg) # SPACE /\ com # <<>>
  <2>1. Len(arg) > 0 BY <1>7, <1>11
  <2>2. 1 \in 1 .. L - k /\ b < L - a - n /\ Head(arg) = arg[1]
    <3>1. L - k > 0 BY <1>7, <2>1
    <3>2. 1 \in 1 .. L - k /\ b < L - a - n BY <1>2, <1>4, <1>6, <3>1
    <3>3. Head(arg) = arg[1] BY <1>7, <2>1
    <3>. QED BY <3>2, <3>3
  <2>3. Head(arg) # SPACE BY <1>6, <1>7, <2>2
  <2>4. ASSUME n = 0 PROVE FALSE
    <3>1. a < L /\ n < L - a /\ 1 \in 1 .. L - a BY <1>2, <1>4, <1>6, <2>2, <2>4
    <3>2. s[1] \notin Glyphs \ {SPACE} BY <1>4, <2>4, <3>1
    <3>3. s[1] \in Glyphs /\ s[1] = input[a + 1] BY <1>3, <3>1
    <3>. QED BY <1>2, <3>1, <3>2, <3>3
  <2>5. com # <<>> BY <1>4, <1>9, <2>4
  <2>. QED BY <2>3, <2>5
<1>12. Range(SubSeq(input, 1, a)) \subseteq {SPACE}
  BY <1>2 DEF Range
<1>13. SubSeq(input, a + 1, a + n) = com
  <2>1. a \in Nat /\ n \in Nat /\ a + n <= L BY <1>2, <1>4
  <2>. DEFINE c == SubSeq(input, a + 1, a + n)
  <2>2. c \in Seq(Glyphs) /\ Len(c) = n /\ \A i \in 1 .. n : c[i] = input[a + i]
    BY <1>2, <1>4, <2>1, PieceOk, ZenonT(40)
  <2>. HIDE DEF c
  <2>3. \A i \in 1 .. n : com[i] = input[a + i]
    <3>1. \A i \in 1 .. n : i \in 1 .. L - a BY <1>2, <1>4
    <3>. QED BY <1>3, <1>9, <3>1
  <2>4. c = com BY <1>9, <2>2, <2>3, SameSeq
  <2>. QED BY <2>4 DEF c
<1>14. Range(SubSeq(input, a + n + 1, k)) \subseteq {SPACE}
  <2>. DEFINE c == SubSeq(input, a + n + 1, k)
  <2>1. \A i \in 1 .. b : i \in 1 .. L - a - n BY <1>2, <1>4, <1>6
  <2>2. \A i \in 1 .. b : input[a + n + i] = SPACE BY <1>5, <1>6, <2>1
  <2>3. DOMAIN c = 1 .. b /\ \A i \in 1 .. b : c[i] = input[a + n + i]
    <3>. DEFINE e == a + n
    <3>1. e \in Nat /\ k = e + b /\ b \in Nat /\ e + b <= L BY <1>2, <1>4, <1>6
    <3>. HIDE DEF e
    <3>2. /\ DOMAIN SubSeq(input, e + 1, e + b) = 1 .. b
          /\ \A i \in 1 .. b : SubSeq(input, e + 1, e + b)[i] = input[e + i]
      <4>1. SubSeq(input, e + 1, e + b) \in Seq(Glyphs) /\ Len(SubSeq(input, e + 1, e + b)) = b
        BY <1>2, <3>1, PieceOk
      <4>. QED BY <1>2, <3>1, <4>1, PieceOk
    <3>. QED BY <3>1, <3>2 DEF e
  <2>. HIDE DEF c
  <2>4. Range(c) \subseteq {SPACE} BY <2>2, <2>3 DEF Range
  <2>. QED BY <2>4 DEF c
<1>15. Drop(input, k) = arg
  <2>. DEFINE c == Drop(input, k)
  <2>1. c \in Seq(Glyphs) /\ Len(c) = L - k /\ \A i \in 1 .. L - k : c[i] = input[k + i]
    <3>. HIDE DEF k
    <3>. QED BY <1>8, DropOk
  <2>. HIDE DEF c
  <2>2. ASSUME NEW i \in 1 .. L - k PROVE arg[i] = c[i]
    <3>1. b + i \in 1 .. L - a - n /\ a + n + (b + i) = k + i BY <1>2, <1>4, <1>6, SMTT(30)
    <3>2. d[b + i] = input[a + n + (b + i)] BY <1>5, <3>1
    <3>. QED BY <1>7, <2>1, <3>1, <3>2
  <2>3. c = arg BY <1>7, <2>1, <2>2, SameSeq
  <2>. QED BY <2>3 DEF c
<1>. HIDE DEF k
<1>16. a \in 0 .. L /\ a + Len(com) = a + n BY <1>2, <1>9
<1>17. WordsOf(input, w)
  BY <1>1, <1>8, <1>10, <1>11, <1>12, <1>13, <1>14, <1>15, <1>16 DEF WordsOf
<1>. QED BY <1>1, <1>9, <1>17 DEF w

-----------------------------------------------------------------------------
(* The invariant of the line editor: between two keys the text is white,   *)
(* and unless something was erased the line is on the screen.              *)
Edited(s, l, e) ==
  /\ s \in Proper /\ s.current_color = WHITE /\ Fits(l) /\ e \in BOOLEAN
  /\ ~e => OnScreenNow(s, l)

Parsed(r) == r.input \in Seq(Glyphs) /\ r.words = parse_command(r.input)

ShellInv == Edited(scr, line, erased) /\ Parsed(ran)

(* A whole line of output *)
LEMMA PrintlnOk ==
  ASSUME NEW s \in Proper, NEW str \in Seq(Chars)
  PROVE  /\ ScreenPrintln(s, str) \in Proper
         /\ ScreenPrintln(s, str).current_color = s.current_color
<1>1. /\ ScreenPrint(s, str) \in Proper
      /\ ScreenPrint(s, str).current_color = s.current_color
  BY PrintOk
<1>2. NEWLINE \in Chars BY DEF Chars
<1>. QED BY <1>1, <1>2, PutCharProper DEF ScreenPrintln

LEMMA GlyphsAreChars == ASSUME NEW str \in Seq(Glyphs) PROVE str \in Seq(Chars)
  BY DEF Chars

(* Enter and a fresh start leave an empty line behind the prompt. *)
LEMMA FreshLine ==
  ASSUME NEW s \in Proper
  PROVE  Edited(Prompt(s), <<>>, FALSE)
<1>1. Fits(<<>>)
  <2>1. SHELL_BUFFER_SIZE \in Nat \ {0} BY ShellAssumption
  <2>. QED BY <2>1 DEF Fits
<1>. QED BY <1>1, PromptOk DEF Edited

LEMMA BootOk == Edited(BootScreen, <<>>, FALSE)
<1>. DEFINE t == SetColor(CleanScreen, GREEN)
            u == ScreenPrintln(t, GREETING)
<1>1. CleanScreen \in Proper BY CleanScreenOk DEF Proper
<1>2. GREEN \in Colors /\ GREETING \in Seq(Glyphs) BY ShellAssumption
<1>3. t \in Proper BY <1>1, <1>2, SetColorProper
<1>4. GREETING \in Seq(Chars) BY <1>2, GlyphsAreChars
<1>. HIDE DEF t
<1>5. u \in Proper BY <1>3, <1>4, PrintlnOk
<1>6. BootScreen = Prompt(u) BY DEF BootScreen, u, t
<1>. HIDE DEF u
<1>. QED BY <1>5, <1>6, FreshLine

LEMMA NothingParsed == Parsed([input |-> <<>>, words |-> parse_command(<<>>)])
<1>. DEFINE q == parse_command(<<>>)
<1>. HIDE DEF q
<1>1. <<>> \in Seq(Glyphs) OBVIOUS
<1>2. Parsed([input |-> <<>>, words |-> q]) BY <1>1 DEF Parsed, q
<1>. QED BY <1>2 DEF q

(* Whatever a command prints, and in whatever colours *)
LEMMA ExecuteOk ==
  ASSUME NEW s \in Proper, NEW command \in Seq(Glyphs), NEW out \in Outputs
  PROVE  Execute(s, command, out) \in Proper
<1>1. CASE command = CLEAR
  <2>1. Clear(s) \in Proper BY ClearOk DEF Proper
  <2>. QED BY <1>1, <2>1 DEF Execute
<1>2. CASE command # CLEAR /\ command \in Dispatched
  <2>1. Execute(s, command, out) = Emit(s, out)
    <3>1. <<>> \notin Dispatched BY ShellAssumption
    <3>. QED BY <1>2, <3>1 DEF Execute
  <2>. QED BY <2>1, EmitOk
<1>3. CASE command \notin Dispatched
  <2>1. CLEAR \in Dispatched BY ShellAssumption
  <2>2. CASE command = <<>> BY <1>3, <2>1, <2>2 DEF Execute, NoCommand
  <2>3. CASE command # <<>>
    <3>. DEFINE t == SetColor(s, RED)
                u == ScreenPrintln(t, command)
    <3>1. RED \in Colors /\ WHITE \in Colors /\ command \in Seq(Chars)
      BY ShellAssumption, GlyphsAreChars
    <3>2. t \in Proper BY <3>1, SetColorProper
    <3>. HIDE DEF t
    <3>3. u \in Proper BY <3>1, <3>2, PrintlnOk
    <3>. HIDE DEF u
    <3>4. SetColor(u, WHITE) \in Proper BY <3>1, <3>3, SetColorProper
    <3>5. Execute(s, command, out) = SetColor(u, WHITE)
      BY <1>3, <2>1, <2>3 DEF Execute, NoCommand, u, t
    <3>. QED BY <3>4, <3>5
  <2>. QED BY <2>2, <2>3
<1>. QED BY <1>1, <1>2, <1>3

(* A single match is printed behind the line and appended to it. *)
LEMMA SingleOk ==
  ASSUME NEW s, NEW l, NEW e, Edited(s, l, e), NEW i \in Matches(l)
  PROVE  LET rest == Drop(shell_commands[i], Len(l)) \o <<SPACE>>
         IN Edited(ScreenPrint(s, rest), l \o rest, e)
<1>. DEFINE rest == Drop(shell_commands[i], Len(l)) \o <<SPACE>>
<1>1. s \in Proper /\ s.current_color = WHITE /\ Fits(l) /\ e \in BOOLEAN BY DEF Edited
<1>2. rest \in Seq(Glyphs) /\ Fits(l \o rest) BY <1>1, Completed
<1>. HIDE DEF rest
<1>3. ScreenPrint(s, rest) \in Proper /\ ScreenPrint(s, rest).current_color = WHITE
  <2>1. rest \in Seq(Chars) BY <1>2, GlyphsAreChars
  <2>. QED BY <1>1, <2>1, PrintOk
<1>4. ASSUME ~e PROVE OnScreenNow(ScreenPrint(s, rest), l \o rest)
  <2>1. OnScreenNow(s, l) /\ l \in Seq(Glyphs) BY <1>1, <1>4 DEF Edited, Fits
  <2>. QED BY <1>1, <1>2, <2>1, ShowMore
<1>. QED BY <1>1, <1>2, <1>3, <1>4 DEF Edited, rest

(* A listing prints the line again behind a new prompt. *)
Relisted(s, l) ==
  ScreenPrint(Prompt(SetColor(ScreenPrintln(SetColor(ScreenPrintln(s, <<>>), CYAN),
                                            Listing(Matches(l))), WHITE)), l)

LEMMA ListsOk ==
  ASSUME NEW s, NEW l, NEW e, Edited(s, l, e)
  PROVE  Edited(Relisted(s, l), l, FALSE)
<1>. DEFINE t == ScreenPrintln(s, <<>>)
            u == SetColor(t, CYAN)
            v == ScreenPrintln(u, Listing(Matches(l)))
            w == SetColor(v, WHITE)
            x == Prompt(w)
<1>1. s \in Proper /\ Fits(l) /\ CYAN \in Colors /\ WHITE \in Colors
  BY ShellAssumption DEF Edited
<1>2. <<>> \in Seq(Chars) /\ Listing(Matches(l)) \in Seq(Chars)
  <2>1. Listing(Matches(l)) \in Seq(Glyphs) BY ListingOk
  <2>2. <<>> \in Seq(Chars) OBVIOUS
  <2>. QED BY <2>1, <2>2, GlyphsAreChars
<1>3. t \in Proper BY <1>1, <1>2, PrintlnOk
<1>. HIDE DEF t
<1>4. u \in Proper BY <1>1, <1>3, SetColorProper
<1>. HIDE DEF u
<1>5. v \in Proper BY <1>2, <1>4, PrintlnOk
<1>. HIDE DEF v
<1>6. w \in Proper BY <1>1, <1>5, SetColorProper
<1>. HIDE DEF w
<1>7. x \in Proper /\ x.current_color = WHITE /\ OnScreenNow(x, <<>>) BY <1>6, PromptOk
<1>. HIDE DEF x
<1>8. l \in Seq(Glyphs) /\ <<>> \in Seq(Glyphs) /\ <<>> \o l = l
  <2>1. l \in Seq(Glyphs) BY <1>1 DEF Fits
  <2>2. <<>> \o l = l BY <2>1, ConcatEmptySeq
  <2>. QED BY <2>1, <2>2
<1>9. /\ ScreenPrint(x, l) \in Proper /\ ScreenPrint(x, l).current_color = WHITE
      /\ OnScreenNow(ScreenPrint(x, l), <<>> \o l)
  <2>1. Fits(<<>> \o l) BY <1>1, <1>8
  <2>. QED BY <1>7, <1>8, <2>1, ShowMore
<1>10. Relisted(s, l) = ScreenPrint(x, l) BY DEF Relisted, x, w, v, u, t
<1>11. OnScreenNow(ScreenPrint(x, l), l) BY <1>8, <1>9
<1>. QED BY <1>1, <1>9, <1>10, <1>11 DEF Edited

(* tab_complete either leaves everything, completes or lists. *)
LEMMA TabCases ==
  ASSUME NEW s, NEW l
  PROVE  \/ /\ ~Lists(l)
            /\ TabComplete(s, l).scr = s /\ TabComplete(s, l).line = l
         \/ /\ ~Lists(l)
            /\ \E i \in Matches(l) :
                 LET rest == Drop(shell_commands[i], Len(l)) \o <<SPACE>>
                 IN /\ TabComplete(s, l).scr = ScreenPrint(s, rest)
                    /\ TabComplete(s, l).line = l \o rest
         \/ /\ Lists(l)
            /\ TabComplete(s, l).scr = Relisted(s, l) /\ TabComplete(s, l).line = l
<1>. DEFINE m == Matches(l)
            i == CHOOSE i \in m : TRUE
<1>1. CASE Len(l) > 0 /\ Cardinality(m) = 1
  <2>1. ~Lists(l) BY <1>1 DEF Lists
  <2>2. m # {} BY <1>1, FS_EmptySet
  <2>3. i \in m BY <2>2
  <2>. DEFINE rest == Drop(shell_commands[i], Len(l)) \o <<SPACE>>
  <2>4. TabComplete(s, l) = [scr |-> ScreenPrint(s, rest), line |-> l \o rest]
    BY <1>1, <2>1 DEF TabComplete
  <2>5. TabComplete(s, l).scr = ScreenPrint(s, rest) /\ TabComplete(s, l).line = l \o rest
    BY <2>4
  <2>. HIDE DEF i
  <2>. QED BY <2>1, <2>3, <2>5
<1>2. CASE Lists(l)
  <2>1. ~(Len(l) > 0 /\ Cardinality(m) = 1) BY <1>2 DEF Lists
  <2>2. TabComplete(s, l) = [scr |-> Relisted(s, l), line |-> l]
    BY <1>2, <2>1 DEF TabComplete, Relisted
  <2>. QED BY <1>2, <2>2
<1>3. CASE ~(Len(l) > 0 /\ Cardinality(m) = 1) /\ ~Lists(l)
  <2>1. TabComplete(s, l) = [scr |-> s, line |-> l] BY <1>3 DEF TabComplete
  <2>. QED BY <1>3, <2>1
<1>. QED BY <1>1, <1>2, <1>3

(* Every key keeps the invariant. *)
LEMMA ShellInvNext == ShellInv /\ [ShellNext]_shellVars => ShellInv'
<1>. SUFFICES ASSUME ShellInv, [ShellNext]_shellVars PROVE ShellInv'
  OBVIOUS
<1>1. /\ scr \in Proper /\ scr.current_color = WHITE /\ Fits(line) /\ erased \in BOOLEAN
      /\ line \in Seq(Glyphs) /\ Len(line) \in Nat
      /\ Edited(scr, line, erased) /\ Parsed(ran)
  BY DEF ShellInv, Edited, Fits
<1>2. SHELL_BUFFER_SIZE \in Nat BY ShellAssumption
<1>3. ASSUME NEW c \in Glyphs, Type(c) PROVE ShellInv'
  <2>1. CASE Len(line) < SHELL_BUFFER_SIZE - 1
    <3>1. /\ line' = Append(line, c) /\ scr' = PutChar(scr, c)
          /\ UNCHANGED <<ran, erased>>
      BY <1>3, <2>1 DEF Type, Echo
    <3>2. Fits(Append(line, c)) BY <1>1, <1>2, <2>1 DEF Fits
    <3>3. /\ PutChar(scr, c) \in Proper /\ PutChar(scr, c).current_color = WHITE
          /\ OnScreenNow(scr, line) => OnScreenNow(PutChar(scr, c), Append(line, c))
      BY <1>1, <3>2, EchoOk
    <3>4. ~erased => OnScreenNow(scr, line) BY <1>1 DEF Edited
    <3>5. Edited(PutChar(scr, c), Append(line, c), erased)
      BY <1>1, <3>2, <3>3, <3>4, Zenon DEF Edited
    <3>. QED BY <1>1, <3>1, <3>5 DEF ShellInv
  <2>2. CASE ~(Len(line) < SHELL_BUFFER_SIZE - 1)
    <3>1. UNCHANGED <<line, scr, ran, erased>> BY <1>3, <2>2 DEF Type
    <3>. QED BY <1>1, <3>1 DEF ShellInv
  <2>. QED BY <2>1, <2>2
<1>4. ASSUME NEW k \in Erase, EraseKey(k) PROVE ShellInv'
  <2>1. CASE Len(line) > 0
    <3>. DEFINE str == <<BACKSPACE, SPACE, BACKSPACE>>
    <3>1. line' = Front(line) /\ erased' = TRUE /\ scr' = ScreenPrint(scr, str) /\ ran' = ran
      BY <1>4, <2>1 DEF EraseKey
    <3>2. str \in Seq(Chars)
      <4>1. BACKSPACE \in Chars /\ SPACE \in Chars
        BY ShellAssumption, ScreenAssumption DEF Chars
      <4>. HIDE DEF BACKSPACE, SPACE
      <4>. QED BY <4>1
    <3>. HIDE DEF str
    <3>3. ScreenPrint(scr, str) \in Proper /\ ScreenPrint(scr, str).current_color = WHITE
      BY <1>1, <3>2, PrintOk
    <3>4. Fits(Front(line))
      <4>. DEFINE n == Len(line) - 1
      <4>1. n \in Nat /\ 0 + n <= Len(line) /\ 0 + n = n /\ 0 + 1 = 1 BY <1>1, <2>1
      <4>2. Front(line) \in Seq(Glyphs) /\ Len(Front(line)) = n
        <5>1. Front(line) = SubSeq(line, 1, n) BY DEF Front
        <5>. HIDE DEF n
        <5>2. SubSeq(line, 0 + 1, 0 + n) \in Seq(Glyphs) /\ Len(SubSeq(line, 0 + 1, 0 + n)) = n
          BY <1>1, <4>1, PieceOk
        <5>. QED BY <4>1, <5>1, <5>2
      <4>3. Len(line) < SHELL_BUFFER_SIZE BY <1>1 DEF Fits
      <4>. QED BY <1>1, <1>2, <4>2, <4>3 DEF Fits
    <3>5. Edited(ScreenPrint(scr, str), Front(line), TRUE) BY <3>3, <3>4 DEF Edited
    <3>. QED BY <1>1, <3>1, <3>5 DEF ShellInv
  <2>2. CASE ~(Len(line) > 0)
    <3>1. UNCHANGED <<line, scr, erased, ran>> BY <1>4, <2>2 DEF EraseKey
    <3>. QED BY <1>1, <3>1 DEF ShellInv
  <2>. QED BY <2>1, <2>2
<1>5. CASE Tab
  <2>. DEFINE r == TabComplete(scr, line)
  <2>1. scr' = r.scr /\ line' = r.line /\ erased' = (erased /\ ~Lists(line)) /\ ran' = ran
    BY <1>5 DEF Tab
  <2>2. CASE ~Lists(line) /\ r.scr = scr /\ r.line = line
    <3>1. erased' = erased BY <1>1, <2>1, <2>2
    <3>. QED BY <1>1, <2>1, <2>2, <3>1 DEF ShellInv
  <2>3. ASSUME ~Lists(line), NEW i \in Matches(line),
               r.scr = ScreenPrint(scr, Drop(shell_commands[i], Len(line)) \o <<SPACE>>),
               r.line = line \o (Drop(shell_commands[i], Len(line)) \o <<SPACE>>)
        PROVE  ShellInv'
    <3>. DEFINE rest == Drop(shell_commands[i], Len(line)) \o <<SPACE>>
    <3>1. erased' = erased BY <1>1, <2>1, <2>3
    <3>2. Edited(ScreenPrint(scr, rest), line \o rest, erased) BY <1>1, SingleOk
    <3>3. scr' = ScreenPrint(scr, rest) /\ line' = line \o rest BY <2>1, <2>3
    <3>. HIDE DEF rest
    <3>. QED BY <1>1, <2>1, <3>1, <3>2, <3>3 DEF ShellInv
  <2>4. CASE Lists(line) /\ r.scr = Relisted(scr, line) /\ r.line = line
    <3>1. erased' = FALSE BY <2>1, <2>4
    <3>2. Edited(Relisted(scr, line), line, FALSE) BY <1>1, ListsOk
    <3>. QED BY <1>1, <2>1, <2>4, <3>1, <3>2 DEF ShellInv
  <2>. HIDE DEF r
  <2>. QED BY <2>2, <2>3, <2>4, TabCases DEF r
<1>6. ASSUME NEW out \in Outputs, Enter(out) PROVE ShellInv'
  <2>. DEFINE w == parse_command(line)
              t == ScreenPrintln(scr, <<>>)
              s == Execute(t, w.command, out)
  <2>1. /\ scr' = Prompt(s) /\ line' = <<>> /\ erased' = FALSE
        /\ ran' = [input |-> line, words |-> w]
    BY <1>6 DEF Enter
  <2>2. w.command \in Seq(Glyphs) BY <1>1, ParseOk
  <2>3. Parsed(ran')
    <3>. DEFINE q == parse_command(line)
    <3>. HIDE DEF q
    <3>1. ran' = [input |-> line, words |-> q] BY <2>1 DEF q
    <3>2. ran'.input = line /\ ran'.words = q BY <3>1
    <3>. QED BY <1>1, <3>2 DEF Parsed, q
  <2>. HIDE DEF w
  <2>4. <<>> \in Seq(Chars) OBVIOUS
  <2>5. t \in Proper BY <1>1, <2>4, PrintlnOk
  <2>. HIDE DEF t
  <2>6. s \in Proper BY <2>2, <2>5, ExecuteOk
  <2>. HIDE DEF s
  <2>7. Edited(Prompt(s), <<>>, FALSE) BY <2>6, FreshLine
  <2>. QED BY <2>1, <2>3, <2>7 DEF ShellInv
<1>7. CASE Reboot
  <2>1. /\ scr' = BootScreen /\ line' = <<>> /\ erased' = FALSE
        /\ ran' = [input |-> <<>>, words |-> parse_command(<<>>)]
    BY <1>7 DEF Reboot
  <2>. QED BY <2>1, BootOk, NothingParsed DEF ShellInv
<1>8. CASE Overrun
  <2>. DEFINE q == parse_command(line)
              t == ScreenPrintln(scr, <<>>)
  <2>1. scr' = t /\ line' = line /\ erased' = TRUE /\ ran' = [input |-> line, words |-> q]
    BY <1>8 DEF Overrun
  <2>. HIDE DEF q
  <2>2. ran'.input = line /\ ran'.words = q BY <2>1
  <2>3. Parsed(ran') BY <1>1, <2>2 DEF Parsed, q
  <2>4. <<>> \in Seq(Chars) OBVIOUS
  <2>5. t \in Proper /\ t.current_color = scr.current_color BY <1>1, <2>4, PrintlnOk
  <2>. HIDE DEF t
  <2>6. Edited(t, line, TRUE) BY <1>1, <2>5 DEF Edited
  <2>. QED BY <2>1, <2>3, <2>6 DEF ShellInv
<1>9. CASE UNCHANGED shellVars
  BY <1>1, <1>9 DEF shellVars, ShellInv
<1>. QED BY <1>3, <1>4, <1>5, <1>6, <1>7, <1>8, <1>9 DEF ShellNext

(* Between two keys the invariant of the line editor holds, whatever keys  *)
(* are pressed and whatever commands print.                                *)
THEOREM ShellInvariant == ShellSpec => []ShellInv
<1>1. ShellInit => ShellInv BY BootOk, NothingParsed DEF ShellInit, ShellInv
<1>. QED BY <1>1, ShellInvNext, PTL DEF ShellSpec

(* The line always leaves room for its '\0' in command_buffer, and the     *)
(* screen under it stays in its bounds.                                    *)
THEOREM ShellTypes == ShellSpec => []ShellTypeOK
<1>1. ShellInv => ShellTypeOK
  BY DEF ShellInv, Edited, Parsed, Fits, Proper, ShellTypeOK, TypeOK, Screens, Rows, Cell, Registers
<1>. QED BY <1>1, ShellInvariant, PTL

(* Unless something was erased, the prompt and the line Enter would run    *)
(* are on the screen in front of the cursor, whatever has scrolled.        *)
THEOREM ShellLine == ShellSpec => []LineOnScreen
<1>1. ASSUME ShellInv PROVE LineOnScreen
  <2>. SUFFICES ASSUME ~erased
                PROVE  LET p == Position(scr) - Len(Shown)
                       IN p >= 0 /\ \A i \in DOMAIN Shown : scr.vga_buffer[p + i - 1] = Shown[i]
    BY DEF LineOnScreen
  <2>. DEFINE k == Len(PROMPT)
              n == Len(line)
              f == [i \in 1 .. k |-> vga_entry(PROMPT[i], CYAN)]
              g == [i \in 1 .. n |-> vga_entry(line[i], WHITE)]
              E == [ch : Glyphs, color : Colors]
  <2>1. Edited(scr, line, erased) /\ OnScreenNow(scr, line) BY <1>1 DEF ShellInv, Edited
  <2>2. line \in Seq(Glyphs) /\ Fits(line) BY <2>1 DEF Edited, Fits
  <2>3. PROMPT \in Seq(Glyphs) /\ k \in Nat /\ n \in Nat BY <2>2, LineFits
  <2>4. f \in Seq(E) /\ g \in Seq(E)
    <3>1. CYAN \in Colors /\ WHITE \in Colors BY ShellAssumption
    <3>2. \A i \in 1 .. k : vga_entry(PROMPT[i], CYAN) \in E BY <2>3, <3>1 DEF vga_entry
    <3>3. \A i \in 1 .. n : vga_entry(line[i], WHITE) \in E BY <2>2, <2>3, <3>1 DEF vga_entry
    <3>. HIDE DEF E
    <3>. QED BY <2>3, <3>2, <3>3, TableIsSeq
  <2>5. Len(f) = k /\ Len(g) = n BY <2>3
  <2>6. Shown = f \o g BY DEF Shown
  <2>7. /\ Len(Shown) = k + n /\ DOMAIN Shown = 1 .. k + n
        /\ \A i \in 1 .. k + n : Shown[i] = IF i <= k THEN f[i] ELSE g[i - k]
    <3>. HIDE DEF E, f, g, k, n
    <3>1. /\ f \o g \in Seq(E) /\ Len(f \o g) = k + n
          /\ \A i \in 1 .. k + n : (f \o g)[i] = IF i <= k THEN f[i] ELSE g[i - k]
      BY <2>4, <2>5, Joined
    <3>2. DOMAIN (f \o g) = 1 .. k + n BY <3>1
    <3>. QED BY <2>6, <3>1, <3>2
  <2>8. ASSUME NEW i \in 1 .. k + n PROVE Shown[i] = Face(line)[i]
    <3>1. CASE i <= k
      <4>1. f[i] = vga_entry(PROMPT[i], CYAN) BY <2>3, <3>1
      <4>2. Face(line)[i] = vga_entry(PROMPT[i], CYAN) BY <3>1 DEF Face
      <4>3. Shown[i] = f[i] BY <2>7, <3>1
      <4>. QED BY <4>1, <4>2, <4>3
    <3>2. CASE ~(i <= k)
      <4>1. i - k \in 1 .. n BY <2>3, <3>2
      <4>2. g[i - k] = vga_entry(line[i - k], WHITE) BY <4>1
      <4>3. Shown[i] = g[i - k] BY <2>7, <3>2
      <4>. QED BY <3>2, <4>2, <4>3 DEF Face
    <3>. QED BY <3>1, <3>2
  <2>9. /\ k + n <= Position(scr)
        /\ \A i \in 1 .. k + n : scr.vga_buffer[Position(scr) - (k + n) + i - 1] = Face(line)[i]
    BY <2>1 DEF OnScreenNow, Shows
  <2>10. Position(scr) \in Nat BY <2>1, PositionOk DEF Edited, Proper
  <2>. HIDE DEF f, g, k, n
  <2>11. Position(scr) - Len(Shown) >= 0 BY <2>3, <2>7, <2>9, <2>10
  <2>. QED BY <2>7, <2>8, <2>9, <2>11
<1>. QED BY <1>1, ShellInvariant, PTL

(* A completion keeps what was typed, and makes of it a command of the     *)
(* table and a space.                                                      *)
THEOREM ShellCompletes == ShellSpec => CompletionKeepsTyped
<1>1. ASSUME ShellInv, Tab, line' # line
      PROVE  /\ IsPrefix(line, line')
             /\ Last(line') = SPACE /\ Front(line') \in Range(shell_commands)
  <2>1. Fits(line) BY <1>1 DEF ShellInv, Edited
  <2>. DEFINE r == TabComplete(scr, line)
  <2>2. line' = r.line BY <1>1 DEF Tab
  <2>3. PICK i \in Matches(line) :
          r.line = line \o (Drop(shell_commands[i], Len(line)) \o <<SPACE>>)
    BY <1>1, <2>2, TabCases
  <2>. DEFINE rest == Drop(shell_commands[i], Len(line)) \o <<SPACE>>
  <2>4. /\ IsPrefix(line, line \o rest)
        /\ Last(line \o rest) = SPACE /\ Front(line \o rest) = shell_commands[i]
    BY <2>1, Completed
  <2>5. shell_commands[i] \in Range(shell_commands) BY DEF Matches, Range
  <2>6. line' = line \o rest BY <2>2, <2>3
  <2>. HIDE DEF rest, r
  <2>. QED BY <2>4, <2>5, <2>6
<1>2. ShellInv /\ [ShellNext]_shellVars =>
        [Tab /\ line' # line =>
           /\ IsPrefix(line, line')
           /\ Last(line') = SPACE /\ Front(line') \in Range(shell_commands)]_shellVars
  BY <1>1
<1>. QED BY <1>2, ShellInvariant, PTL DEF ShellSpec, CompletionKeepsTyped

(* The words of the last command, when they fit their buffers, are those   *)
(* of its line; when they do not, the stack is gone and nothing is said.   *)
THEOREM ShellWords == ShellSpec => []WordsOfTheLine
<1>1. ASSUME ShellInv PROVE WordsOfTheLine
  <2>1. ran.input \in Seq(Glyphs) /\ ran.words = parse_command(ran.input)
    BY <1>1 DEF ShellInv, Parsed
  <2>2. WordsOf(ran.input, ran.words) BY <2>1, ParseOk
  <2>. QED BY <2>2 DEF WordsOf, WordsOfTheLine
<1>. QED BY <1>1, ShellInvariant, PTL
=============================================================================
