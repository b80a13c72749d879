------------------------------- MODULE KeyMap --------------------------------
(***************************************************************************)
(* process_scancode of src/src/drivers/keyboard/keyboard.c with its tables *)
(* as they are, against the keys that keyboard.h names: which character    *)
(* each of the 256 scancodes gives under shift and Ctrl.                   *)
(*                                                                         *)
(* A character is its name, "" the code 0.  Ctrl and a letter give the     *)
(* codes 1 to 26, three of which are characters with a key of their own.   *)
(***************************************************************************)
EXTENDS Integers, Sequences, SequencesExt

Lower == <<"a", "b", "c", "d", "e", "f", "g", "h", "i", "j", "k", "l", "m",
           "n", "o", "p", "q", "r", "s", "t", "u", "v", "w", "x", "y", "z">>

Char(c) == [kind |-> "char", name |-> c]
None == Char("")

(* key - 'a' + 1 *)
Control(c) ==
  CASE c = "h" -> Char("backspace")
    [] c = "i" -> Char("tab")
    [] c = "j" -> Char("newline")
    [] OTHER   -> [kind |-> "ctrl", name |-> c]

-----------------------------------------------------------------------------
(* The tables, row by row as in the source; Z(n) stands for n zeros. *)
Z(n) == [i \in 1 .. n |-> ""]

keyboard_map ==
  <<"", "escape", "1", "2", "3", "4", "5", "6", "7", "8", "9", "0", "-", "=", "backspace">>
  \o <<"tab", "q", "w", "e", "r", "t", "y", "u", "i", "o", "p", "[", "]", "newline">>
  \o <<"", "a", "s", "d", "f", "g", "h", "j", "k", "l", ";", "'", "backquote", "">>
  \o <<"\\", "z", "x", "c", "v", "b", "n", "m", ",", ".", "/", "", "*">>
  \o <<"", " ">> \o Z(13)
  \o Z(4) \o <<"-">> \o Z(3) \o <<"+">> \o Z(4) \o <<"delete">> \o Z(2)
  \o Z(41)      \* the last of them is not in the initialiser

keyboard_shift_map ==
  <<"", "escape", "!", "@", "#", "$", "%", "^", "&", "*", "(", ")", "_", "+", "backspace">>
  \o <<"tab", "Q", "W", "E", "R", "T", "Y", "U", "I", "O", "P", "{", "}", "newline">>
  \o <<"", "A", "S", "D", "F", "G", "H", "J", "K", "L", ":", "\"", "~", "">>
  \o <<"|", "Z", "X", "C", "V", "B", "N", "M", "<", ">", "?", "", "*">>
  \o <<"", " ">> \o Z(14) \o Z(56)

ASSUME TablesComplete ==
  Len(keyboard_map) = 128 /\ Len(keyboard_shift_map) = 128

KEY_LCTRL == 29
KEY_SHIFTS == {42, 54}

(* The cases of the switch; the arrow keys return codes of their own. *)
Special ==
  (15 :> Char("tab") @@ 14 :> Char("backspace") @@ 28 :> Char("newline")
   @@ 83 :> Char("delete") @@ 1 :> Char("escape")
   @@ 72 :> [kind |-> "special", name |-> "up"] @@ 80 :> [kind |-> "special", name |-> "down"]
   @@ 75 :> [kind |-> "special", name |-> "left"] @@ 77 :> [kind |-> "special", name |-> "right"])

-----------------------------------------------------------------------------
VARIABLES
  shift_pressed, ctrl_pressed,
  scancode, key      \* the last scancode processed and what it gave

vars == <<shift_pressed, ctrl_pressed, scancode, key>>

(* Operators named Bug_... are deliberate mistakes, each a plausible slip  *)
(* in the definition it precedes; no action uses them.                     *)
Bug_CtrlFirst(code) ==
  LET c == keyboard_map[code + 1]
  IN IF ctrl_pressed /\ c \in Range(Lower) THEN Control(c)
     ELSE Char(IF shift_pressed THEN keyboard_shift_map[code + 1] ELSE c)

(* The table lookup: a capital is not between 'a' and 'z', so that Ctrl    *)
(* counts only without shift.                                              *)
Lookup(code) ==
  LET c == IF shift_pressed THEN keyboard_shift_map[code + 1] ELSE keyboard_map[code + 1]
  IN IF ctrl_pressed /\ c \in Range(Lower) THEN Control(c) ELSE Char(c)

Init ==
  /\ shift_pressed = FALSE /\ ctrl_pressed = FALSE
  /\ scancode = 0 /\ key = None

Released(code) ==
  /\ shift_pressed' = (code \notin KEY_SHIFTS /\ shift_pressed)
  /\ ctrl_pressed' = (code # KEY_LCTRL /\ ctrl_pressed)
  /\ key' = None

Pressed(code) ==
  /\ shift_pressed' = (code \in KEY_SHIFTS \/ shift_pressed)
  /\ ctrl_pressed' = (code = KEY_LCTRL \/ ctrl_pressed)
  /\ key' = IF code \in KEY_SHIFTS \cup {KEY_LCTRL} THEN None
            ELSE IF code \in DOMAIN Special THEN Special[code]
            ELSE Lookup(code)

process_scancode(code) ==
  /\ scancode' = code
  /\ IF code >= 128 THEN Released(code - 128) ELSE Pressed(code)

Next == \E code \in 0 .. 255 : process_scancode(code)

Spec == Init /\ [][Next]_vars
-----------------------------------------------------------------------------
(* A US keyboard as keyboard.h numbers its keys: the first key of a run    *)
(* and what is printed on its keys, without and with shift                 *)
Runs ==
  {[first |-> 2,  plain |-> <<"1", "2", "3", "4", "5", "6", "7", "8", "9", "0", "-", "=">>,
    shifted |-> <<"!", "@", "#", "$", "%", "^", "&", "*", "(", ")", "_", "+">>],
   [first |-> 16, plain |-> <<"q", "w", "e", "r", "t", "y", "u", "i", "o", "p", "[", "]">>,
    shifted |-> <<"Q", "W", "E", "R", "T", "Y", "U", "I", "O", "P", "{", "}">>],
   [first |-> 30, plain |-> <<"a", "s", "d", "f", "g", "h", "j", "k", "l", ";", "'", "backquote">>,
    shifted |-> <<"A", "S", "D", "F", "G", "H", "J", "K", "L", ":", "\"", "~">>],
   [first |-> 43, plain |-> <<"\\", "z", "x", "c", "v", "b", "n", "m", ",", ".", "/">>,
    shifted |-> <<"|", "Z", "X", "C", "V", "B", "N", "M", "<", ">", "?">>],
   [first |-> 55, plain |-> <<"*">>, shifted |-> <<"*">>],
   [first |-> 57, plain |-> <<" ">>, shifted |-> <<" ">>]}

(* Every key of the main block types what is printed on it, with shift     *)
(* what is printed above; with Ctrl, and without shift, a letter types its *)
(* control code. Modifiers, locks, F1 to F10 and every release are silent: *)
(* keyboard_getchar goes on waiting (see Silent in Keyboard).              *)
TypesItsLabel ==
  /\ \A r \in Runs : scancode - r.first + 1 \in DOMAIN r.plain =>
       LET c == r.plain[scancode - r.first + 1]
       IN key = IF shift_pressed THEN Char(r.shifted[scancode - r.first + 1])
                ELSE IF ctrl_pressed /\ c \in Range(Lower) THEN Control(c)
                ELSE Char(c)
  /\ scancode \in {29, 42, 54, 56} \cup 58 .. 70 \cup 128 .. 255 => key = None
=============================================================================
