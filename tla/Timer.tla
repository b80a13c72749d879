-------------------------------- MODULE Timer --------------------------------
(***************************************************************************)
(* The tick counter of src/src/drivers/timer/timer.c, the interrupt that   *)
(* advances it and the shell's sleep, which waits for it with hlt.         *)
(*                                                                         *)
(* The loop of timer_wait is cut where an interrupt can fall: before it    *)
(* reads the counter, between that and hlt, and in hlt.                    *)
(***************************************************************************)
EXTENDS Integers

CONSTANTS
  WORD,            \* uint32_t arithmetic is modulo WORD
  MS_PER_TICK,     \* 10: the timer runs at 100 Hz
  Milliseconds,    \* arguments of timer_sleep
  SAFE_MODE        \* kernel.c's build switch

(* WORD is 2^32 and MS_PER_TICK is 10; a sleep of milliseconds / 10 ticks  *)
(* stays well below WORD.                                                  *)
ASSUME TimerAssumption ==
  /\ WORD \in Nat /\ MS_PER_TICK \in Nat /\ MS_PER_TICK > 0
  /\ Milliseconds \subseteq 0 .. WORD - 1
  /\ \A ms \in Milliseconds : ms \div MS_PER_TICK + 1 < WORD
  /\ WORD > 1
  /\ SAFE_MODE \in BOOLEAN

VARIABLES
  timer_ticks,   \* the counter
  interrupts,    \* the CPU's interrupt flag: cli in boot.s, sti in kernel.c
  pc,            \* where the kernel's one thread is
  start_ticks, ticks,   \* locals of timer_wait
  elapsed,       \* timer interrupts since start_ticks was read
  lag            \* ticks that have come since the CPU last moved

vars == <<timer_ticks, interrupts, pc, start_ticks, ticks, elapsed, lag>>
locals == <<start_ticks, ticks>>

Sleeping == pc \in {"while", "hlt", "halted"}

Init ==
  /\ timer_ticks = 0 /\ interrupts = FALSE
  /\ pc = "boot" /\ start_ticks = 0 /\ ticks = 0
  /\ elapsed = 0 /\ lag = 0

timer_init == timer_ticks' = 0

(* kernel_main, as far as the timer goes: timer_init, then the shell, with *)
(* sti before it unless the kernel is built in SAFE_MODE.                  *)
kernel_main ==
  /\ pc = "boot"
  /\ timer_init
  /\ interrupts' = ~SAFE_MODE
  /\ pc' = "shell"
  /\ UNCHANGED <<locals, elapsed, lag>>

timer_sleep(milliseconds) ==
  /\ pc = "shell"
  /\ ticks' = milliseconds \div MS_PER_TICK
  /\ start_ticks' = timer_ticks
  /\ pc' = "while"
  /\ elapsed' = 0 /\ lag' = 0
  /\ UNCHANGED <<timer_ticks, interrupts>>

(* Operators named Bug_... are deliberate mistakes, each a plausible slip  *)
(* in the definition it precedes; no action uses them.                     *)
Bug_Deadline == timer_ticks < (start_ticks + ticks) % WORD

(* The test of the while loop, in unsigned arithmetic *)
StillWaiting == (timer_ticks - start_ticks) % WORD < ticks

timer_wait_test ==
  /\ pc = "while"
  /\ pc' = IF StillWaiting THEN "hlt" ELSE "shell"
  /\ lag' = 0
  /\ UNCHANGED <<timer_ticks, interrupts, locals, elapsed>>

timer_wait_hlt ==
  /\ pc = "hlt"
  /\ pc' = "halted" /\ lag' = 0
  /\ UNCHANGED <<timer_ticks, interrupts, locals, elapsed>>

(* Any interrupt ends hlt. *)
Wake == pc' = IF pc = "halted" THEN "while" ELSE pc

Bug_NoWrap == timer_ticks' = timer_ticks + 1

timer_handler == timer_ticks' = (timer_ticks + 1) % WORD

Bug_IrqNotHandled ==
  /\ interrupts
  /\ lag = 0 \/ pc = "halted"
  /\ Wake
  /\ lag' = IF Sleeping THEN 1 ELSE 0
  /\ UNCHANGED <<timer_ticks, elapsed, interrupts, locals>>

(* IRQ0.  A tick is 10 ms: the CPU moves on between two of them, unless it *)
(* is halted.                                                              *)
irq0 ==
  /\ interrupts
  /\ lag = 0 \/ pc = "halted"
  /\ timer_handler
  /\ Wake
  /\ elapsed' = IF Sleeping THEN elapsed + 1 ELSE elapsed
  /\ lag' = IF Sleeping THEN 1 ELSE 0
  /\ UNCHANGED <<interrupts, locals>>

(* IRQ1: what keyboard_handler does is no concern of the timer. *)
irq1 ==
  /\ interrupts
  /\ pc = "halted"
  /\ Wake
  /\ UNCHANGED <<timer_ticks, interrupts, locals, elapsed, lag>>

Next ==
  \/ kernel_main
  \/ \E ms \in Milliseconds : timer_sleep(ms)
  \/ timer_wait_test
  \/ timer_wait_hlt
  \/ irq0
  \/ irq1

(* The CPU runs, and the PIT keeps raising IRQ0; the shell need not sleep  *)
(* and keys need not be pressed.                                           *)
Fairness ==
  /\ WF_vars(kernel_main)
  /\ WF_vars(timer_wait_test)
  /\ WF_vars(timer_wait_hlt)
  /\ WF_vars(irq0)

Spec == Init /\ [][Next]_vars /\ Fairness
-----------------------------------------------------------------------------
(* Type invariant: the counter stays a uint32_t. *)
TypeOK ==
  /\ timer_ticks \in 0 .. WORD - 1 /\ start_ticks \in 0 .. WORD - 1
  /\ ticks \in 0 .. WORD - 1
  /\ interrupts \in BOOLEAN /\ lag \in {0, 1}
  /\ pc \in {"boot", "shell", "while", "hlt", "halted"}
  /\ elapsed \in Nat

(* A sleep lasts for the ticks asked for, wherever the counter wraps and   *)
(* whatever keys are pressed meanwhile, and at most one tick more, the one *)
(* that an interrupt between the test and hlt costs.                       *)
SleepsAsLongAsAsked ==
  [][Sleeping /\ ~Sleeping' => elapsed \in ticks .. ticks + 1]_vars

(* A sleep returns. *)
SleepReturns == Sleeping ~> ~Sleeping

(* Where the counter would be if it did not wrap *)
Distance == start_ticks + elapsed

(* The inductive invariant: the counter is start_ticks and the ticks that  *)
(* have come since, wrapped at most once, and no more of them than the     *)
(* test, the window before hlt and hlt let through.                        *)
Inv ==
  /\ TypeOK
  /\ Sleeping =>
       /\ ticks + 1 < WORD
       /\ timer_ticks = IF Distance < WORD THEN Distance ELSE Distance - WORD
       /\ elapsed <= ticks + 1
       /\ pc = "hlt" => elapsed <= ticks /\ (lag = 0 => elapsed < ticks)
       /\ pc = "halted" => elapsed <= ticks
       /\ pc = "while" => elapsed <= ticks \/ lag = 1
=============================================================================
