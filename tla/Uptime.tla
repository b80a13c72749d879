------------------------------- MODULE Uptime --------------------------------
(***************************************************************************)
(* What the shell's time and uptime commands (shell.c) make of the counter *)
(* of module Timer: it is read once, split into units, and each number is  *)
(* printed digit by digit.                                                 *)
(***************************************************************************)
EXTENDS Timer, Sequences, SequencesExt

CONSTANTS
  HZ,               \* 100 ticks a second
  MINUTE, HOUR,     \* 60 seconds, 60 minutes
  DAY,              \* 24 hours
  BASE,             \* 10
  BUFFER            \* 16: digits print_number has room for

ASSUME UptimeAssumption ==
  {HZ, MINUTE, HOUR, DAY, BUFFER} \subseteq Nat \ {0} /\ BASE \in Nat \ {0, 1}

Power[k \in Nat] == IF k = 0 THEN 1 ELSE BASE * Power[k - 1]

(* Every uint32_t has at most BUFFER digits: 2^32 is below 10^16. *)
ASSUME BufferAssumption == WORD <= Power[BUFFER]

-----------------------------------------------------------------------------
(* Operators named Bug_... are deliberate mistakes, each a plausible slip  *)
(* in the definition it precedes; no other definition uses them.           *)

(* The loop of print_number, which finds the last digit first *)
LowFirst[n \in Nat] == IF n = 0 THEN <<>> ELSE <<n % BASE>> \o LowFirst[n \div BASE]

print_number(num) == IF num = 0 THEN <<0>> ELSE Reverse(LowFirst[num])

Item(unit, num) == [unit |-> unit, digits |-> print_number(num)]
When(cond, item) == IF cond THEN <<item>> ELSE <<>>

Bug_TimeHidesZero(count) ==
  LET seconds == count \div HZ
      minutes == seconds \div MINUTE
      hours   == minutes \div HOUR
  IN When(hours > 0, Item("hours", hours))
     \o When(minutes > 0, Item("minutes", minutes))
     \o <<Item("seconds", seconds % MINUTE), Item("ticks", count)>>

(* time: hours if there are any, minutes if there are any or hours *)
TimeItems(count) ==
  LET seconds == count \div HZ
      minutes == seconds \div MINUTE
      hours   == minutes \div HOUR
  IN When(hours > 0, Item("hours", hours))
     \o When(minutes % HOUR > 0 \/ hours > 0, Item("minutes", minutes % HOUR))
     \o <<Item("seconds", seconds % MINUTE), Item("ticks", count)>>

(* uptime: without its "Average load", which is made up from the counter *)
UptimeItems(count) ==
  LET seconds == count \div HZ
      minutes == seconds \div MINUTE
      hours   == minutes \div HOUR
      days    == hours \div DAY
  IN When(days > 0, Item("days", days))
     \o When(hours % DAY > 0, Item("hours", hours % DAY))
     \o <<Item("minutes", minutes % HOUR), Item("seconds", seconds % MINUTE),
          Item("ticks", count)>>

-----------------------------------------------------------------------------
(* A reader's view: the number behind a unit, 0 if it is not there *)
Value(digits) == FoldLeft(LAMBDA v, d : v * BASE + d, 0, digits)
Read(items, unit) ==
  LET at == {i \in DOMAIN items : items[i].unit = unit}
  IN IF at = {} THEN 0 ELSE Value(items[CHOOSE i \in at : TRUE].digits)

(* A number fits print_number's buffer and has no zero in front. *)
WellFormed(digits) ==
  /\ digits \in Seq(0 .. BASE - 1) /\ Len(digits) \in 1 .. BUFFER
  /\ digits[1] = 0 => Len(digits) = 1

(* Wherever the counter stands, what time and uptime print reads back as   *)
(* its ticks and as units that add up to its seconds, none of them beyond  *)
(* its range.                                                              *)
UptimeIsTrue ==
  \A items \in {TimeItems(timer_ticks), UptimeItems(timer_ticks)} :
    LET R(unit) == Read(items, unit)
    IN /\ \A i \in DOMAIN items : WellFormed(items[i].digits)
       /\ R("ticks") = timer_ticks
       /\ ((R("days") * DAY + R("hours")) * HOUR + R("minutes")) * MINUTE + R("seconds")
            = timer_ticks \div HZ
       /\ R("minutes") < HOUR /\ R("seconds") < MINUTE
       /\ R("days") > 0 => R("hours") < DAY
=============================================================================
