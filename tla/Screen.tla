------------------------------- MODULE Screen -------------------------------
(***************************************************************************)
(* The text screen of src/src/drivers/screen/screen.c: the VGA buffer, the *)
(* cursor the driver keeps and the cursor registers of the hardware.       *)
(*                                                                         *)
(* The functions are operators from a screen to a screen, so that the      *)
(* shell can print whole strings in one action.  A character is what       *)
(* screen_putchar tells apart: a glyph (a byte from ' ' to 0x7F), newline, *)
(* return, tab, or one it has no case for: '\b' and, char being signed,    *)
(* every byte from 0x80 up.                                                *)
(***************************************************************************)
EXTENDS Integers, Sequences, SequencesExt

CONSTANTS
  WIDTH, HEIGHT,   \* 80 and 25
  TAB,             \* 8
  BYTE,            \* 256: values of a byte, one half of the cursor register
  Glyphs,          \* characters that are written
  Silent,          \* characters screen_putchar has no case for
  Colors,          \* attributes in use
  GREY             \* light grey on black

NEWLINE == "newline"
RETURN  == "return"
TABKEY  == "tab"
SPACE   == " "

ASSUME ScreenAssumption ==
  /\ WIDTH \in Nat \ {0} /\ HEIGHT \in Nat \ {0} /\ TAB \in Nat \ {0}
  /\ BYTE \in Nat \ {0} /\ WIDTH * HEIGHT <= BYTE * BYTE
  /\ SPACE \in Glyphs /\ GREY \in Colors
  /\ (Glyphs \cup Silent) \cap {NEWLINE, RETURN, TABKEY} = {}
  /\ Glyphs \cap Silent = {}

Chars == Glyphs \cup Silent \cup {NEWLINE, RETURN, TABKEY}
Cells == 0 .. WIDTH * HEIGHT - 1

VARIABLE scr     \* vga_buffer, cursor_row, cursor_col, current_color, the registers

vga_entry(c, color) == [ch |-> c, color |-> color]

-----------------------------------------------------------------------------
(* Operators named Bug_... are deliberate mistakes, each a plausible slip  *)
(* in the definition it precedes; no action uses them.                     *)

(* update_cursor writes the two bytes of a position. *)
UpdateCursor(s, pos) ==
  [s EXCEPT !.hw = [high |-> (pos \div BYTE) % BYTE, low |-> pos % BYTE]]

(* screen_clear fills with the current colour. *)
Clear(s) ==
  UpdateCursor(
    [s EXCEPT !.vga_buffer = [i \in Cells |-> vga_entry(SPACE, s.current_color)],
              !.cursor_row = 0, !.cursor_col = 0], 0)

SetColor(s, color) == [s EXCEPT !.current_color = color]

Bug_ScrollFromSecond(s) ==
  [s EXCEPT
     !.vga_buffer = [i \in Cells |-> IF i < WIDTH THEN s.vga_buffer[i]
                       ELSE IF i + WIDTH \in Cells THEN s.vga_buffer[i + WIDTH]
                       ELSE vga_entry(SPACE, s.current_color)],
     !.cursor_row = HEIGHT - 1, !.cursor_col = 0]

Scroll(s) ==
  [s EXCEPT
     !.vga_buffer = [i \in Cells |-> IF i + WIDTH \in Cells
                       THEN s.vga_buffer[i + WIDTH]
                       ELSE vga_entry(SPACE, s.current_color)],
     !.cursor_row = HEIGHT - 1, !.cursor_col = 0]

Position(s) == s.cursor_row * WIDTH + s.cursor_col

(* The first half of screen_putchar: what the character itself does *)
Place(s, c) ==
  CASE c = NEWLINE -> [s EXCEPT !.cursor_col = 0, !.cursor_row = @ + 1]
    [] c = RETURN  -> [s EXCEPT !.cursor_col = 0]
    [] c = TABKEY  -> [s EXCEPT !.cursor_col = ((@ + TAB) \div TAB) * TAB]
    [] c \in Glyphs -> [s EXCEPT !.vga_buffer[Position(s)] = vga_entry(c, s.current_color),
                                 !.cursor_col = @ + 1]
    [] OTHER -> s

Bug_WrapLate(s) ==
  IF s.cursor_col > WIDTH
  THEN [s EXCEPT !.cursor_col = 0, !.cursor_row = @ + 1] ELSE s

Wrap(s) ==
  IF s.cursor_col >= WIDTH
  THEN [s EXCEPT !.cursor_col = 0, !.cursor_row = @ + 1] ELSE s

(* The character leads below the last line. *)
Scrolls(s, c) == Wrap(Place(s, c)).cursor_row >= HEIGHT

Bug_PutCharCursorEarly(s, c) ==
  LET t == Wrap(Place(s, c))
      u == UpdateCursor(t, Position(t))
  IN IF Scrolls(s, c) THEN Scroll(u) ELSE u

PutChar(s, c) ==
  LET t == Wrap(Place(s, c))
      u == IF Scrolls(s, c) THEN Scroll(t) ELSE t
  IN UpdateCursor(u, Position(u))

ScreenPrint(s, str) == FoldLeft(PutChar, s, str)

ScreenPrintln(s, str) == PutChar(ScreenPrint(s, str), NEWLINE)

-----------------------------------------------------------------------------
(* What kernel_main leaves after screen_init and screen_clear, whatever    *)
(* the firmware had on the screen *)
CleanScreen ==
  [vga_buffer |-> [i \in Cells |-> vga_entry(SPACE, GREY)],
   cursor_row |-> 0, cursor_col |-> 0, current_color |-> GREY,
   hw |-> [high |-> 0, low |-> 0]]

Init == scr = CleanScreen

screen_clear == scr' = Clear(scr)
screen_set_color(color) == scr' = SetColor(scr, color)
screen_putchar(c) == scr' = PutChar(scr, c)

Next ==
  \/ screen_clear
  \/ \E color \in Colors : screen_set_color(color)
  \/ \E c \in Chars : screen_putchar(c)

Spec == Init /\ [][Next]_scr
-----------------------------------------------------------------------------
(* Type invariant: between two calls the cursor is on the screen, so that  *)
(* the next glyph is written inside the buffer.                            *)
TypeOK ==
  scr \in [vga_buffer : [Cells -> [ch : Glyphs, color : Colors]],
           cursor_row : 0 .. HEIGHT - 1, cursor_col : 0 .. WIDTH - 1,
           current_color : Colors,
           hw : [high : 0 .. BYTE - 1, low : 0 .. BYTE - 1]]

(* The blinking cursor is where the next glyph goes, after a wrap, a       *)
(* scroll and a character that moves nothing as well.                      *)
CursorShown == scr.hw.high * BYTE + scr.hw.low = Position(scr)
=============================================================================
