-------------------------------- MODULE Shell --------------------------------
(***************************************************************************)
(* The shell's line editor on the screen (src/src/drivers/shell/shell.c):  *)
(* typing, erasing, tab completion, and Enter, which splits the line into  *)
(* words, runs the command and starts a new line.                          *)
(*                                                                         *)
(* line is the first buffer_index characters of command_buffer; the code   *)
(* ends the buffer there with '\0' before it reads it.  What a command     *)
(* does to files, heap and clock is modelled elsewhere: here it prints     *)
(* something, in any colours.                                              *)
(***************************************************************************)
EXTENDS Screen

CONSTANTS
  SHELL_BUFFER_SIZE,  \* 256: the line and its '\0'
  WORD_SIZE,          \* 64: command[] and argument[] of shell_execute_command
  shell_commands,     \* the table for tab completion, a sequence of words
  Dispatched,         \* the words shell_execute_command compares with
  CLEAR, REBOOT,      \* two of them
  PROMPT, GREETING,   \* what shell_print_prompt and shell_init print
  CYAN, WHITE, RED, GREEN,
  Outputs,            \* what commands print: sequences of [color, text]
  Erase,              \* the erase keys in use, of '\b' and DEL
  MAX_KEYS            \* bound: keys pressed since the system started

BACKSPACE == "back"

Words == Seq(Glyphs \ {SPACE})

(* Commands are short, and a line fits the screen without its last line,   *)
(* from which it may have scrolled: 8 + 255 <= 80 * 24.                    *)
ASSUME ShellAssumption ==
  /\ SHELL_BUFFER_SIZE \in Nat \ {0} /\ WORD_SIZE \in Nat \ {0}
  /\ shell_commands \in Seq(Words) /\ Dispatched \subseteq Words
  /\ {CLEAR, REBOOT} \subseteq Dispatched /\ <<>> \notin Dispatched
  /\ \A i \in DOMAIN shell_commands : Len(shell_commands[i]) + 2 <= SHELL_BUFFER_SIZE
  /\ PROMPT \in Seq(Glyphs) /\ GREETING \in Seq(Glyphs)
  /\ Len(PROMPT) + SHELL_BUFFER_SIZE - 1 <= WIDTH * (HEIGHT - 1)
  /\ {CYAN, WHITE, RED, GREEN} \subseteq Colors
  /\ Outputs \subseteq Seq([color : Colors, text : Seq(Chars)])
  /\ BACKSPACE \in Silent /\ Erase \cap Glyphs = {} /\ MAX_KEYS \in Nat

VARIABLES
  line,    \* the line being edited
  ran,     \* the last command: the line and its parts
  erased,  \* since the line was last printed whole, an erase key or a line
           \* feed has come between it and the cursor
  keys     \* keys pressed

shellVars == <<scr, line, ran, erased, keys>>

-----------------------------------------------------------------------------
(* Operators named Bug_... are deliberate mistakes, each a plausible slip  *)
(* in the definition it precedes; no action uses them.                     *)

(* shell_print_prompt *)
Prompt(s) == SetColor(ScreenPrint(SetColor(s, CYAN), PROMPT), WHITE)

(* The longest prefix of s made of characters in C, and what comes after *)
Span(s, C) == Max({n \in 0 .. Len(s) : \A i \in 1 .. n : s[i] \in C})
Drop(s, n) == SubSeq(s, n + 1, Len(s))

Skip(s) == Drop(s, Span(s, {SPACE}))

Bug_ParseKeepsSpaces(input) ==
  LET s   == Skip(input)
      n   == Span(s, Glyphs \ {SPACE})
      arg == Drop(s, n)
  IN [command |-> SubSeq(s, 1, n), argument |-> arg,
      parts |-> IF arg = <<>> THEN 1 ELSE 2]

(* The argument is the rest of the line, spaces in it and after it too. *)
parse_command(input) ==
  LET s   == Skip(input)
      n   == Span(s, Glyphs \ {SPACE})
      arg == Skip(Drop(s, n))
  IN [command |-> SubSeq(s, 1, n), argument |-> arg,
      parts |-> IF arg = <<>> THEN 1 ELSE 2]

(* The words and their '\0' fit the two buffers. *)
Fit(words) == Len(words.command) < WORD_SIZE /\ Len(words.argument) < WORD_SIZE

Bug_MatchesButLast(buffer) ==
  {i \in DOMAIN shell_commands : IsPrefix(Front(buffer), shell_commands[i])}

(* The commands that begin with the line: strncmp over buffer_len *)
Matches(buffer) ==
  {i \in DOMAIN shell_commands : IsPrefix(buffer, shell_commands[i])}

(* The matches, each followed by two spaces, in the table's order *)
Listing(m) ==
  FoldLeftDomain(LAMBDA text, i : IF i \in m THEN text \o shell_commands[i] \o <<SPACE, SPACE>>
                                  ELSE text, <<>>, shell_commands)

(* More than one: they are listed, and the line is printed again. *)
Lists(buffer) == Len(buffer) > 0 /\ Cardinality(Matches(buffer)) > 1

Bug_TabNoReprint(s, buffer) ==
  LET m == Matches(buffer)
  IN CASE Lists(buffer) ->
            [scr |-> Prompt(SetColor(ScreenPrintln(SetColor(ScreenPrintln(s, <<>>), CYAN),
                                                   Listing(m)), WHITE)),
             line |-> buffer]
       [] OTHER -> [scr |-> s, line |-> buffer]

(* tab_complete: the screen and the line it leaves *)
TabComplete(s, buffer) ==
  LET m == Matches(buffer)
      rest == Drop(shell_commands[CHOOSE i \in m : TRUE], Len(buffer)) \o <<SPACE>>
  IN CASE Len(buffer) > 0 /\ Cardinality(m) = 1 ->
            [scr |-> ScreenPrint(s, rest), line |-> buffer \o rest]
       [] Lists(buffer) ->
            [scr |-> ScreenPrint(
                       Prompt(SetColor(ScreenPrintln(SetColor(ScreenPrintln(s, <<>>), CYAN),
                                                     Listing(m)), WHITE)),
                       buffer),
             line |-> buffer]
       [] OTHER -> [scr |-> s, line |-> buffer]

(* The text of a command, in its colours *)
Emit(s, out) ==
  FoldLeft(LAMBDA t, o : ScreenPrint(SetColor(t, o.color), o.text), s, out)

(* The end of shell_execute_command: no command, or an unknown one, whose  *)
(* word is repeated; the texts around it are left out.                     *)
NoCommand(s, command) ==
  IF command = <<>> THEN s
  ELSE SetColor(ScreenPrintln(SetColor(s, RED), command), WHITE)

(* shell_execute_command, as far as the screen goes *)
Execute(s, command, out) ==
  CASE command = CLEAR -> Clear(s)
    [] command \in Dispatched \ {CLEAR} -> Emit(s, out)
    [] OTHER -> NoCommand(s, command)

-----------------------------------------------------------------------------
(* The screen when the first prompt appears *)
BootScreen == Prompt(ScreenPrintln(SetColor(CleanScreen, GREEN), GREETING))

ShellInit ==
  /\ scr = BootScreen
  /\ line = <<>> /\ erased = FALSE /\ keys = 0
  /\ ran = [input |-> <<>>, words |-> parse_command(<<>>)]

(* The shell waits for keys as long as its stack is intact: see Overrun. *)
Press == Fit(ran.words) /\ keys < MAX_KEYS /\ keys' = keys + 1

(* The lines of the code that print the character *)
Echo(c) == scr' = PutChar(scr, c)

Bug_TypeFull(c) ==
  /\ Press
  /\ IF Len(line) < SHELL_BUFFER_SIZE
     THEN line' = Append(line, c) /\ Echo(c)
     ELSE UNCHANGED <<line, scr>>
  /\ UNCHANGED <<ran, erased>>

Type(c) ==
  /\ Press
  /\ IF Len(line) < SHELL_BUFFER_SIZE - 1
     THEN line' = Append(line, c) /\ Echo(c)
     ELSE UNCHANGED <<line, scr>>
  /\ UNCHANGED <<ran, erased>>

EraseKey(k) ==
  /\ Press
  /\ IF Len(line) > 0
     THEN /\ line' = Front(line) /\ erased' = TRUE
          /\ scr' = ScreenPrint(scr, <<BACKSPACE, SPACE, BACKSPACE>>)
     ELSE UNCHANGED <<line, scr, erased>>
  /\ UNCHANGED ran

Tab ==
  /\ Press
  /\ scr' = TabComplete(scr, line).scr
  /\ line' = TabComplete(scr, line).line
  /\ erased' = (erased /\ ~Lists(line))
  /\ UNCHANGED ran

Enter(out) ==
  LET words == parse_command(line)
      s     == Execute(ScreenPrintln(scr, <<>>), words.command, out)
  IN /\ Press
     /\ Fit(words) /\ words.command # REBOOT
     /\ scr' = Prompt(s)
     /\ line' = <<>> /\ erased' = FALSE
     /\ ran' = [input |-> line, words |-> words]

(* reboot pulses the CPU's reset line: the kernel starts again. *)
Reboot ==
  /\ Press
  /\ Fit(parse_command(line)) /\ parse_command(line).command = REBOOT
  /\ scr' = BootScreen /\ line' = <<>> /\ erased' = FALSE
  /\ ran' = [input |-> <<>>, words |-> parse_command(<<>>)]

(* parse_command copies a word that does not fit over the stack.  What the *)
(* machine does from there on is undefined, and no behaviour continues.    *)
Overrun ==
  LET words == parse_command(line)
  IN /\ Press
     /\ ~Fit(words)
     /\ scr' = ScreenPrintln(scr, <<>>) /\ erased' = TRUE
     /\ ran' = [input |-> line, words |-> words]
     /\ UNCHANGED line

ShellNext ==
  \/ \E c \in Glyphs : Type(c)
  \/ \E k \in Erase : EraseKey(k)
  \/ Tab
  \/ \E out \in Outputs : Enter(out)
  \/ Reboot \/ Overrun

ShellSpec == ShellInit /\ [][ShellNext]_shellVars
-----------------------------------------------------------------------------
(* Type invariant; the line leaves room for its '\0'. *)
ShellTypeOK ==
  /\ TypeOK
  /\ line \in Seq(Glyphs) /\ Len(line) < SHELL_BUFFER_SIZE
  /\ ran.input \in Seq(Glyphs) /\ erased \in BOOLEAN

(* What a user has to see in front of the cursor *)
Shown ==
  [i \in 1 .. Len(PROMPT) |-> vga_entry(PROMPT[i], CYAN)]
    \o [i \in 1 .. Len(line) |-> vga_entry(line[i], WHITE)]

(* What Enter will run is what is on the screen: in front of the cursor    *)
(* there are the prompt and the line, whole, in their colours, whatever    *)
(* commands and completions have printed and scrolled before.  After an    *)
(* erase key this holds again from the next listing or prompt on; until    *)
(* then the screen, which knows no '\b', shows spaces instead.             *)
LineOnScreen ==
  LET p == Position(scr) - Len(Shown)
  IN ~erased => p >= 0 /\ \A i \in DOMAIN Shown : scr.vga_buffer[p + i - 1] = Shown[i]

(* Completion keeps what was typed, and makes of it one of the commands    *)
(* and a space, or nothing.                                                *)
CompletionKeepsTyped ==
  [][Tab /\ line' # line =>
       /\ IsPrefix(line, line')
       /\ Last(line') = SPACE /\ Front(line') \in Range(shell_commands)]_shellVars

(* The words that a command gets, if they fit its buffers, are those of    *)
(* the line: the line is the command and the argument with nothing but     *)
(* spaces before each; there are none in the command and none at the head  *)
(* of the argument.                                                        *)
WordsOfTheLine ==
  LET w == ran.words
      Blanks(s) == Range(s) \subseteq {SPACE}
  IN Fit(w) =>
     /\ SPACE \notin Range(w.command)
     /\ w.argument # <<>> => Head(w.argument) # SPACE /\ w.command # <<>>
     /\ w.parts = IF w.argument = <<>> THEN 1 ELSE 2
     /\ \E i \in 0 .. Len(ran.input) :
          LET j == i + Len(w.command)
              k == Len(ran.input) - Len(w.argument)
          IN /\ j <= k
             /\ Blanks(SubSeq(ran.input, 1, i))
             /\ SubSeq(ran.input, i + 1, j) = w.command
             /\ Blanks(SubSeq(ran.input, j + 1, k))
             /\ Drop(ran.input, k) = w.argument

(* A word and its '\0' fit the buffers of shell_execute_command: the stack *)
(* stays intact, whatever line is entered.                                 *)
WordsFit == Fit(ran.words)
=============================================================================
