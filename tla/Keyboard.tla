------------------------------ MODULE Keyboard ------------------------------
(***************************************************************************)
(* The keyboard driver of src/src/drivers/keyboard/keyboard.c between the  *)
(* 8042 controller and the shell.                                          *)
(*                                                                         *)
(* keyboard_getchar polls the controller; if interrupts are enabled,       *)
(* keyboard_handler runs between any two of its steps and reads the same   *)
(* ports.  The handler itself is not interrupted (its gate clears IF).     *)
(* Scancodes are abstracted to a key and whether it goes down; the tables  *)
(* of the driver to the key and the modifier that picks the character.     *)
(***************************************************************************)
EXTENDS Integers, Sequences, FiniteSets, SequencesExt

CONSTANTS
  Letters,      \* keys whose plain character is in 'a' .. 'z'
  Silent,       \* keys without a character in the tables, such as F1
  Shifts,       \* the shift keys in use, of KEY_LSHIFT and KEY_RSHIFT
  Ctrls,        \* {KEY_LCTRL} or {}
  MAX_CODES,    \* bound: scancodes the user sends
  SafeModes     \* settings of kernel.c's build switch SAFE_MODE to consider

Keys == Letters \cup Silent \cup Shifts \cup Ctrls
Code == [key : Keys, down : BOOLEAN]
Char == [key : Letters, mod : {"plain", "shift", "ctrl"}]

ASSUME KeyboardAssumption ==
  /\ MAX_CODES \in Nat
  /\ SafeModes \subseteq BOOLEAN
  /\ Letters \cap (Silent \cup Shifts \cup Ctrls) = {}
  /\ Silent \cap (Shifts \cup Ctrls) = {} /\ Shifts \cap Ctrls = {}

NONE == [key |-> "none", mod |-> "none"]     \* the character 0
NOCODE == [key |-> "none", down |-> FALSE]

VARIABLES
  SAFE_MODE,               \* the build: if TRUE, interrupts stay off
  held, sent, typed,       \* the user: keys down, scancodes sent, characters meant
  wire, outbuf, full, irq, \* the 8042: codes to come, port 0x60, status bit 0, IRQ1
  shift_pressed, ctrl_pressed, last_key, key_available,   \* the driver's statics
  pc, scancode, key,       \* keyboard_getchar: its place and its locals
  got                      \* characters it has returned

user   == <<SAFE_MODE, held, sent, typed>>     \* and the build
ctl    == <<wire, outbuf, full, irq>>
driver == <<shift_pressed, ctrl_pressed, last_key, key_available>>
caller == <<pc, scancode, key, got>>
vars   == <<user, ctl, driver, caller>>

Init ==
  /\ SAFE_MODE \in SafeModes
  /\ held = {} /\ sent = 0 /\ typed = <<>>
  /\ wire = <<>> /\ outbuf = NOCODE /\ full = FALSE /\ irq = FALSE
  /\ shift_pressed = FALSE /\ ctrl_pressed = FALSE
  /\ last_key = NONE /\ key_available = FALSE
  /\ pc = "shell" /\ scancode = NOCODE /\ key = NONE /\ got = <<>>
-----------------------------------------------------------------------------
(* Operators named Bug_... are deliberate mistakes, each a plausible slip  *)
(* in the definition it precedes; no action uses them.                     *)

(* The character of a key press: Ctrl counts only if shift has not made    *)
(* the letter a capital.                                                   *)
CharOf(k, shift, ctrl) ==
  IF k \in Letters
  THEN [key |-> k, mod |-> IF shift THEN "shift" ELSE IF ctrl THEN "ctrl" ELSE "plain"]
  ELSE NONE

Bug_CtrlSticks(code) ==
  /\ shift_pressed' = IF code.key \in Shifts THEN code.down ELSE shift_pressed
  /\ ctrl_pressed'  = (code.key \in Ctrls \/ ctrl_pressed)

(* process_scancode: the modifiers it leaves ... *)
Modifiers(code) ==
  /\ shift_pressed' = IF code.key \in Shifts THEN code.down ELSE shift_pressed
  /\ ctrl_pressed'  = IF code.key \in Ctrls THEN code.down ELSE ctrl_pressed

(* ... and the character it returns *)
KeyOf(code) ==
  IF code.down THEN CharOf(code.key, shift_pressed, ctrl_pressed) ELSE NONE

-----------------------------------------------------------------------------
(* The user presses and releases keys; a press means the character that    *)
(* the modifiers held down at that moment make of it.  The keyboard's own  *)
(* buffer holds 16 codes, and the user does not type on while it is full.  *)
Send(k, down) ==
  /\ sent < MAX_CODES /\ Len(wire) < 16
  /\ sent' = sent + 1
  /\ wire' = Append(wire, [key |-> k, down |-> down])
  /\ UNCHANGED <<SAFE_MODE, outbuf, full, irq, driver, caller>>

Press(k) ==
  /\ k \notin held
  /\ held' = held \cup {k}
  /\ typed' = LET c == CharOf(k, held \cap Shifts # {}, held \cap Ctrls # {})
              IN IF c = NONE THEN typed ELSE Append(typed, c)
  /\ Send(k, TRUE)

Release(k) ==
  /\ k \in held
  /\ held' = held \ {k}
  /\ UNCHANGED typed
  /\ Send(k, FALSE)

(* The controller takes the next scancode when its buffer has been read,   *)
(* and raises IRQ1.                                                        *)
Fill ==
  /\ ~full /\ wire # <<>>
  /\ outbuf' = Head(wire) /\ wire' = Tail(wire)
  /\ full' = TRUE /\ irq' = TRUE
  /\ UNCHANGED <<user, driver, caller>>

-----------------------------------------------------------------------------
(* irq1_handler: one interrupt, the whole of keyboard_handler *)
keyboard_handler ==
  /\ ~SAFE_MODE /\ irq
  /\ irq' = FALSE
  /\ IF full
     THEN /\ full' = FALSE
          /\ Modifiers(outbuf)
          /\ IF KeyOf(outbuf) # NONE
             THEN last_key' = KeyOf(outbuf) /\ key_available' = TRUE
             ELSE UNCHANGED <<last_key, key_available>>
     ELSE UNCHANGED <<full, driver>>
  /\ UNCHANGED <<user, wire, outbuf, caller>>

(* The shell comes back for a character. *)
keyboard_getchar ==
  /\ pc = "shell"
  /\ pc' = "status"
  /\ UNCHANGED <<user, ctl, driver, scancode, key, got>>

ReadStatus ==
  /\ pc = "status"
  /\ pc' = IF full THEN "data" ELSE "flag"
  /\ UNCHANGED <<user, ctl, driver, scancode, key, got>>

(* Port 0x60 gives its last byte again if it has been read meanwhile. *)
ReadData ==
  /\ pc = "data"
  /\ scancode' = outbuf /\ full' = FALSE
  /\ pc' = "process"
  /\ UNCHANGED <<user, wire, outbuf, irq, driver, key, got>>

Return(c) == got' = Append(got, c) /\ pc' = "shell"

Bug_ReturnsZero ==
  /\ pc = "process"
  /\ Modifiers(scancode)
  /\ Return(KeyOf(scancode))
  /\ UNCHANGED <<user, ctl, last_key, key_available, scancode, key>>

(* process_scancode in the loop.  It writes one of the statics, or reads   *)
(* two; an interrupt between the two reads changes one modifier at most,   *)
(* which is the same as coming before or after both.                       *)
Process ==
  /\ pc = "process"
  /\ Modifiers(scancode)
  /\ IF KeyOf(scancode) # NONE
     THEN Return(KeyOf(scancode))
     ELSE pc' = "flag" /\ UNCHANGED got
  /\ UNCHANGED <<user, ctl, last_key, key_available, scancode, key>>

Bug_TestFlagNever ==
  /\ pc = "flag"
  /\ pc' = "status"
  /\ UNCHANGED <<user, ctl, driver, scancode, key, got>>

(* if (key_available), else the delay and round again *)
TestFlag ==
  /\ pc = "flag"
  /\ pc' = IF key_available THEN "load" ELSE "status"
  /\ UNCHANGED <<user, ctl, driver, scancode, key, got>>

LoadKey ==
  /\ pc = "load"
  /\ key' = last_key
  /\ pc' = "clear"
  /\ UNCHANGED <<user, ctl, driver, scancode, got>>

Bug_NoClear ==
  /\ pc = "clear"
  /\ Return(key)
  /\ UNCHANGED <<user, ctl, driver, scancode, key>>

ClearFlag ==
  /\ pc = "clear"
  /\ key_available' = FALSE
  /\ Return(key)
  /\ UNCHANGED <<user, ctl, shift_pressed, ctrl_pressed, last_key, scancode, key>>

Driver ==
  \/ keyboard_getchar \/ ReadStatus \/ ReadData \/ Process
  \/ TestFlag \/ LoadKey \/ ClearFlag

Next ==
  \/ \E k \in Keys : Press(k) \/ Release(k)
  \/ Fill
  \/ keyboard_handler
  \/ keyboard_getchar \/ ReadStatus \/ ReadData \/ Process
  \/ TestFlag \/ LoadKey \/ ClearFlag

(* The CPU runs, the shell finishes its commands, the controller passes on *)
(* what it has; nobody has to type.                                        *)
Spec == Init /\ [][Next]_vars /\ WF_vars(Driver) /\ WF_vars(Fill)
             /\ WF_vars(keyboard_handler)
-----------------------------------------------------------------------------
(* Type invariant of the driver, its caller and the controller. *)
TypeOK ==
  /\ SAFE_MODE \in BOOLEAN /\ held \subseteq Keys /\ sent \in 0 .. MAX_CODES /\ typed \in Seq(Char)
  /\ wire \in Seq(Code) /\ outbuf \in Code \cup {NOCODE}
  /\ full \in BOOLEAN /\ irq \in BOOLEAN
  /\ shift_pressed \in BOOLEAN /\ ctrl_pressed \in BOOLEAN
  /\ last_key \in Char \cup {NONE} /\ key_available \in BOOLEAN
  /\ pc \in {"shell", "status", "data", "process", "flag", "load", "clear"}
  /\ scancode \in Code \cup {NOCODE} /\ key \in Char \cup {NONE}
  /\ got \in Seq(Char)

KC == INSTANCE KeyChannel WITH reliable <- SAFE_MODE

(* In SAFE_MODE keyboard_getchar is a reliable channel: the shell receives *)
(* exactly the characters typed, in order, with the modifiers that were    *)
(* held, however long it is away and however many scancodes wait in the    *)
(* controller.                                                             *)
ReceivesWhatIsTyped == KC!Spec

(* The characters received are a prefix of those typed. *)
ReceivedInOrder == IsPrefix(got, typed)

Times(k, s) == Cardinality({n \in DOMAIN s : s[n].key = k})

(* With interrupts on, a byte of port 0x60 is taken at most twice, once by *)
(* the handler and once by the loop that saw its status before: no key is  *)
(* received more than twice for each time it was pressed, or unpressed.    *)
AtMostTwice == \A k \in Letters : Times(k, got) <= 2 * Times(k, typed)

(* A letter's press that neither the handler nor the loop has read *)
Unread ==
  LET LetterDown(code) == code.down /\ code.key \in Letters
  IN \/ \E n \in DOMAIN wire : LetterDown(wire[n])
     \/ full /\ LetterDown(outbuf)

(* Also with interrupts on, every call of keyboard_getchar returns that    *)
(* has a letter on its way: whoever of the two reads the scancode, and     *)
(* whatever reaches last_key or clears key_available meanwhile, this call  *)
(* ends, with that character or an earlier one.  (A letter can be lost, in *)
(* the race at ClearFlag, but never to the call that waits for it.)        *)
CallReturns == (pc # "shell" /\ Unread) ~> pc = "shell"
=============================================================================
