------------------------------- MODULE Paper --------------------------------
(***************************************************************************)
(* What a caller of the screen driver expects: a teletype.  The paper is   *)
(* one long strip of cells, cut into lines only by WIDTH; a character is   *)
(* written at the position of the head, the head never moves back beyond   *)
(* its line, and there is always more paper.                               *)
(***************************************************************************)
EXTENDS Integers, Sequences

CONSTANTS WIDTH, TAB, Glyphs, Silent, Colors, Space, Newline, Return, TabKey,
          Sheet      \* cells of a fresh sheet, a positive number of lines

VARIABLES strip, head, ink     \* the head is on cell head + 1

vars == <<strip, head, ink>>

Blank(n) == [i \in 1 .. n |-> [ch |-> Space, color |-> ink]]

LineStart == head - (head % WIDTH)
NextLine  == LineStart + WIDTH

(* Move the head, with another line of paper if it needs one. *)
MoveTo(p, text) ==
  /\ head' = p
  /\ strip' = IF p < Len(text) THEN text ELSE text \o Blank(WIDTH)
  /\ UNCHANGED ink

Write(c) ==
  MoveTo(head + 1, [strip EXCEPT ![head + 1] = [ch |-> c, color |-> ink]])

Stop == LineStart + (((head % WIDTH) + TAB) \div TAB) * TAB

Type(c) ==
  CASE c \in Glyphs -> Write(c)
    [] c = Newline  -> MoveTo(NextLine, strip)
    [] c = Return   -> MoveTo(LineStart, strip)
    [] c = TabKey   -> MoveTo(IF Stop < NextLine THEN Stop ELSE NextLine, strip)
    [] c \in Silent -> UNCHANGED vars

Ink(color) == ink' = color /\ UNCHANGED <<strip, head>>

Fresh == head' = 0 /\ strip' = Blank(Sheet) /\ UNCHANGED ink

Init == head = 0 /\ ink \in Colors /\ strip = Blank(Sheet)

Next ==
  \/ \E c \in Glyphs \cup Silent \cup {Newline, Return, TabKey} : Type(c)
  \/ \E color \in Colors : Ink(color)
  \/ Fresh

Spec == Init /\ [][Next]_vars
=============================================================================
