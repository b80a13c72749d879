--------------------------- MODULE ScreenHistory ----------------------------
(***************************************************************************)
(* Screen with a history variable for the lines that have scrolled off the *)
(* top, which is what it takes to see the screen as the end of a strip of  *)
(* paper (module Paper).                                                   *)
(***************************************************************************)
EXTENDS Screen

CONSTANT MAX_GONE     \* bound: lines that scroll off

VARIABLE gone         \* the cells that have scrolled off since the last clear

historyVars == <<scr, gone>>

TopLine(s) == [i \in 1 .. WIDTH |-> s.vga_buffer[i - 1]]

HInit == Init /\ gone = <<>>

HNext ==
  \/ screen_clear /\ gone' = <<>>
  \/ \E color \in Colors : screen_set_color(color) /\ UNCHANGED gone
  \/ \E c \in Chars :
       /\ Scrolls(scr, c) => Len(gone) < MAX_GONE * WIDTH
       /\ screen_putchar(c)
       /\ gone' = IF Scrolls(scr, c) THEN gone \o TopLine(Place(scr, c)) ELSE gone

HSpec == HInit /\ [][HNext]_historyVars

OnScreen == [i \in 1 .. WIDTH * HEIGHT |-> scr.vga_buffer[i - 1]]

P == INSTANCE Paper WITH
  Space <- SPACE, Newline <- NEWLINE, Return <- RETURN, TabKey <- TABKEY,
  Sheet <- WIDTH * HEIGHT, strip <- gone \o OnScreen,
  head <- Len(gone) + Position(scr), ink <- scr.current_color

(* The screen is the end of the paper: wrapping and scrolling lose no cell *)
(* and no colour, and put every character where a teletype would.          *)
ImplementsPaper == P!Spec
=============================================================================
