---------------------------- MODULE TimerProofs ----------------------------
(***************************************************************************)
(* Proofs about Timer and Uptime for every word size, tick length and      *)
(* sleep, and for every base and choice of units.                          *)
(***************************************************************************)
EXTENDS Uptime, FoldProofs, SequenceTheorems, TLAPS

(* Remainders of numbers at most one word away *)
LEMMA ModWord ==
  ASSUME NEW x \in Int, -WORD < x, x < WORD
  PROVE  x % WORD = IF x < 0 THEN x + WORD ELSE x
BY TimerAssumption

(* A whole word wraps to zero.                                             *)
LEMMA ModWhole == WORD % WORD = 0
BY TimerAssumption

(* While a sleep runs, the loop's test compares elapsed with ticks. *)
LEMMA TestIsElapsed ==
  ASSUME Inv, Sleeping
  PROVE  StillWaiting <=> elapsed < ticks
<1>1. /\ timer_ticks \in 0 .. WORD - 1 /\ start_ticks \in 0 .. WORD - 1
      /\ ticks \in 0 .. WORD - 1 /\ elapsed \in Nat
      /\ ticks + 1 < WORD /\ elapsed <= ticks + 1
      /\ timer_ticks = IF start_ticks + elapsed < WORD THEN start_ticks + elapsed
                       ELSE start_ticks + elapsed - WORD
      BY TimerAssumption DEF Inv, TypeOK, Distance, Sleeping
<1> DEFINE x == timer_ticks - start_ticks
<1>2. x \in Int /\ -WORD < x /\ x < WORD
      BY <1>1, TimerAssumption
<1>3. x % WORD = IF x < 0 THEN x + WORD ELSE x
      BY <1>2, ModWord
<1>4. x % WORD = elapsed
      BY <1>1, <1>3, TimerAssumption
<1> QED BY <1>4 DEF StillWaiting

(* The invariant holds at boot.                                            *)
LEMMA InvInit == Init => Inv
<1> SUFFICES ASSUME Init PROVE Inv
    OBVIOUS
<1>1. interrupts \in BOOLEAN
      BY DEF Init
<1>2. TypeOK
      BY <1>1, TimerAssumption DEF Init, TypeOK
<1>3. ~Sleeping
      BY DEF Init, Sleeping
<1> QED BY <1>2, <1>3 DEF Inv

(* Every step of the CPU and every interrupt preserves the invariant.      *)
LEMMA InvNext == Inv /\ [Next]_vars => Inv'
<1> SUFFICES ASSUME Inv, [Next]_vars PROVE Inv'
    OBVIOUS
<1> USE TimerAssumption
<1>t. TypeOK
      BY DEF Inv
<1>1. CASE kernel_main
      BY <1>1, <1>t DEF kernel_main, timer_init, Inv, TypeOK, Sleeping, locals
<1>2. ASSUME NEW ms \in Milliseconds, timer_sleep(ms) PROVE Inv'
  <2>1. ms \div MS_PER_TICK \in Nat /\ ms \div MS_PER_TICK + 1 < WORD
        OBVIOUS
  <2> QED BY <1>2, <1>t, <2>1 DEF timer_sleep, Inv, TypeOK, Sleeping, Distance
<1>3. CASE timer_wait_test
  <2>1. Sleeping /\ (StillWaiting <=> elapsed < ticks)
        BY <1>3, TestIsElapsed DEF timer_wait_test, Sleeping
  <2> QED BY <1>3, <1>t, <2>1
          DEF timer_wait_test, Inv, TypeOK, Sleeping, Distance, locals
<1>4. CASE timer_wait_hlt
      BY <1>4, <1>t DEF timer_wait_hlt, Inv, TypeOK, Sleeping, Distance, locals
<1>5. CASE irq0
  <2>1. timer_ticks' = IF timer_ticks + 1 = WORD THEN 0 ELSE timer_ticks + 1
    <3>1. CASE timer_ticks + 1 = WORD
      BY <3>1, <1>5, ModWhole DEF irq0, timer_handler
    <3>2. CASE timer_ticks + 1 # WORD
      <4>1. timer_ticks + 1 \in Int /\ -WORD < timer_ticks + 1 /\ timer_ticks + 1 < WORD
            BY <3>2, <1>t DEF TypeOK
      <4> QED BY <3>2, <4>1, <1>t, <1>5, ModWord DEF irq0, timer_handler, TypeOK
    <3> QED BY <3>1, <3>2
  <2>2. TypeOK'
        BY <1>5, <1>t, <2>1 DEF irq0, TypeOK, Wake, Sleeping, locals
  <2>3. CASE Sleeping
        BY <1>5, <1>t, <2>1, <2>2, <2>3
        DEF irq0, Inv, TypeOK, Wake, Sleeping, Distance, locals
  <2>4. CASE ~Sleeping
        BY <1>5, <2>2, <2>4 DEF irq0, Inv, Wake, Sleeping
  <2> QED BY <2>3, <2>4
<1>6. CASE irq1
      BY <1>6, <1>t DEF irq1, Inv, TypeOK, Wake, Sleeping, Distance, locals
<1>7. CASE UNCHANGED vars
      BY <1>7, <1>t DEF vars, Inv, TypeOK, Sleeping, Distance
<1> QED BY <1>1, <1>2, <1>3, <1>4, <1>5, <1>6, <1>7 DEF Next

(* The inductive invariant of a sleep holds in every reachable state. *)
THEOREM TimerInvariant == Spec => []Inv
BY InvInit, InvNext, PTL DEF Spec

(* The counter and the locals of timer_wait stay uint32_t values. *)
THEOREM TimerTypes == Spec => []TypeOK
<1>1. Inv => TypeOK
      BY DEF Inv
<1> QED BY <1>1, TimerInvariant, PTL

(* No sleep is cut short or lasts more than a tick too long, for every     *)
(* value of the counter it starts at.                                      *)
THEOREM SleepIsExact == Spec => SleepsAsLongAsAsked
<1>1. Inv /\ [Next]_vars =>
        [Sleeping /\ ~Sleeping' => elapsed \in ticks .. ticks + 1]_vars
  <2> SUFFICES ASSUME Inv, Next, Sleeping, ~Sleeping'
               PROVE  elapsed \in ticks .. ticks + 1
      OBVIOUS
  <2>1. timer_wait_test /\ ~StillWaiting
      BY DEF Next, Sleeping, kernel_main, timer_sleep, timer_wait_test,
             timer_wait_hlt, irq0, irq1, Wake
  <2>2. ~(elapsed < ticks)
      BY <2>1, TestIsElapsed
  <2> QED BY <2>2 DEF Inv, TypeOK
<1> QED BY <1>1, TimerInvariant, PTL DEF Spec, SleepsAsLongAsAsked

-----------------------------------------------------------------------------
(* What time and uptime print, for every value of the counter.  Two        *)
(* recursive functions and a fold are used by their equations: LowFirst,   *)
(* Power and Value.                                                        *)
Digit == 0 .. BASE - 1

LEMMA DivSmaller ==
  ASSUME NEW n \in Nat, n # 0
  PROVE  n \div BASE \in Nat /\ n \div BASE < n
<1>. DEFINE q == n \div BASE
<1>1. q \in Nat /\ n % BASE \in Nat /\ n = q * BASE + (n % BASE)
  BY UptimeAssumption, Quotient
<1>. HIDE DEF q
<1>2. q # 0 => q < q * BASE /\ q * BASE \in Nat BY <1>1, UptimeAssumption
<1>3. q < n BY <1>1, <1>2
<1>. QED BY <1>1, <1>3 DEF q

(* The loop of print_number, unfolded once *)
LEMMA LowFirstIs ==
  /\ LowFirst \in [Nat -> Seq(Digit)]
  /\ \A n \in Nat : LowFirst[n] = IF n = 0 THEN <<>>
                                  ELSE <<n % BASE>> \o LowFirst[n \div BASE]
<1>. DEFINE X == Seq(Digit)
            step == [p \in Nat \X X |-> <<p[1] % BASE>> \o p[2]]
            before == [n \in Nat |-> n \div BASE]
            Eq(f) == f = [n \in Nat |-> IF n = 0 THEN <<>> ELSE <<n % BASE>> \o f[n \div BASE]]
<1>1. \A n \in Nat, s \in X : <<n % BASE>> \o s \in X
  <2>1. \A n \in Nat : n % BASE \in Digit BY UptimeAssumption, Quotient DEF Digit
  <2>. QED BY <2>1
<1>2. step \in [Nat \X X -> X] /\ \A n \in Nat, s \in X : step[<<n, s>>] = <<n % BASE>> \o s
  BY <1>1
<1>3. \A n \in Nat : before[n] = n \div BASE /\ n \div BASE \in Nat
  BY UptimeAssumption, Quotient
<1>4. Descends(before)
  <2>1. before \in [Nat -> Nat] BY <1>3
  <2>2. \A n \in Nat : n # 0 => before[n] < n BY <1>3, DivSmaller
  <2>. QED BY <2>1, <2>2 DEF Descends
<1>5. <<>> \in X OBVIOUS
<1>. HIDE DEF X, step, before
<1>6. PICK f \in [Nat -> X] : IsRecursion(f, Nat, <<>>, before, step)
  BY <1>2, <1>4, <1>5, RecursionExists
<1>7. ASSUME NEW n \in Nat
      PROVE  f[n] = IF n = 0 THEN <<>> ELSE <<n % BASE>> \o f[n \div BASE]
  <2>1. f[n] = IF n = 0 THEN <<>> ELSE step[<<n, f[n \div BASE]>>]
    BY <1>3, <1>6 DEF IsRecursion
  <2>2. f[n \div BASE] \in X BY <1>3, <1>6
  <2>. QED BY <1>2, <2>1, <2>2
<1>8. f = [n \in Nat |-> f[n]] BY <1>6
<1>9. Eq(f) BY <1>7, <1>8
<1>10. LowFirst = CHOOSE g : Eq(g) BY DEF LowFirst
<1>. HIDE DEF Eq
<1>11. Eq(LowFirst) BY <1>9, <1>10
<1>12. \A n \in Nat : LowFirst[n] = IF n = 0 THEN <<>> ELSE <<n % BASE>> \o LowFirst[n \div BASE]
  BY <1>11 DEF Eq
<1>13. LowFirst \in [Nat -> X]
  <2>. DEFINE Bad == {n \in Nat : LowFirst[n] \notin X}
  <2>1. LowFirst = [n \in Nat |-> LowFirst[n]] BY <1>11 DEF Eq
  <2>. SUFFICES ASSUME Bad # {} PROVE FALSE BY <2>1
  <2>2. PICK n \in Bad : \A m \in Bad : n <= m
    <3>1. Bad \subseteq Nat OBVIOUS
    <3>. HIDE DEF Bad
    <3>. QED BY <3>1, LeastNat
  <2>3. n \in Nat /\ n # 0 BY <1>5, <1>12
  <2>4. n \div BASE \in Nat /\ n \div BASE < n BY <2>3, DivSmaller
  <2>5. LowFirst[n \div BASE] \in X BY <2>2, <2>3, <2>4
  <2>. QED BY <1>1, <1>12, <2>3, <2>5
<1>. QED BY <1>12, <1>13 DEF X

LEMMA PowerIs ==
  Power[0] = 1 /\ \A k \in Nat : Power[k] \in Nat /\ Power[k + 1] = BASE * Power[k]
<1>. DEFINE step == [p \in Nat \X Nat |-> BASE * p[2]]
            before == [n \in Nat |-> IF n = 0 THEN 0 ELSE n - 1]
            Eq(f) == f = [k \in Nat |-> IF k = 0 THEN 1 ELSE BASE * f[k - 1]]
<1>1. \A k, x \in Nat : step[<<k, x>>] = BASE * x /\ BASE * x \in Nat BY UptimeAssumption
<1>2. step \in [Nat \X Nat -> Nat] BY UptimeAssumption
<1>3. Descends(before) /\ \A n \in Nat : n # 0 => before[n] = n - 1 BY DEF Descends
<1>. HIDE DEF step, before
<1>4. PICK f \in [Nat -> Nat] : IsRecursion(f, Nat, 1, before, step)
  BY <1>2, <1>3, RecursionExists
<1>5. ASSUME NEW k \in Nat PROVE f[k] = IF k = 0 THEN 1 ELSE BASE * f[k - 1]
  <2>1. f[k] = IF k = 0 THEN 1 ELSE step[<<k, f[before[k]]>>] BY <1>4 DEF IsRecursion
  <2>2. k # 0 => k - 1 \in Nat /\ f[k - 1] \in Nat /\ before[k] = k - 1 BY <1>3, <1>4
  <2>. QED BY <1>1, <2>1, <2>2
<1>6. Eq(f)
  <2>1. f = [k \in Nat |-> f[k]] BY <1>4
  <2>. QED BY <1>5, <2>1
<1>7. Power = CHOOSE g : Eq(g) BY DEF Power
<1>. HIDE DEF Eq
<1>8. Eq(Power) BY <1>6, <1>7
<1>9. \A k \in Nat : Power[k] = IF k = 0 THEN 1 ELSE BASE * Power[k - 1] BY <1>8 DEF Eq
<1>10. Power[0] = 1 BY <1>9
<1>11. ASSUME NEW k \in Nat PROVE Power[k + 1] = BASE * Power[k]
  <2>1. k + 1 \in Nat /\ k + 1 # 0 /\ (k + 1) - 1 = k OBVIOUS
  <2>. QED BY <1>9, <2>1
<1>12. \A k \in Nat : Power[k] \in Nat
  <2>. DEFINE S == {k \in Nat : Power[k] \in Nat}
  <2>1. 0 \in S BY <1>10
  <2>2. ASSUME NEW k \in Nat, k \in S PROVE k + 1 \in S
    <3>1. Power[k] \in Nat /\ k + 1 \in Nat BY <2>2
    <3>2. BASE * Power[k] \in Nat BY <1>1, <3>1
    <3>. QED BY <1>11, <3>1, <3>2
  <2>3. \A k \in Nat : k \in S
    <3>. HIDE DEF S
    <3>. QED BY <2>1, <2>2, Induct
  <2>. QED BY <2>3
<1>. QED BY <1>10, <1>11, <1>12

(* The fold of Value *)
ValueEq(f, s) ==
  f = [T \in SUBSET DOMAIN s |->
         IF T = {} THEN 0 ELSE f[T \ {Max(T)}] * BASE + s[Max(T)]]
Upto(s, k) == (CHOOSE f : ValueEq(f, s))[1 .. k]

LEMMA ValueIs ==
  ASSUME NEW s, DOMAIN s = 1 .. Len(s)
  PROVE  Value(s) = Upto(s, Len(s))
BY DEF Value, FoldLeft, MapThenFoldSet, ValueEq, Upto

LEMMA ValueSolved ==
  ASSUME NEW s \in Seq(Digit)
  PROVE  \E f \in [SUBSET (1 .. Len(s)) -> Nat] : ValueEq(f, s)
<1>. DEFINE n == Len(s)
            step == [p \in (1 .. n) \X Nat |-> p[2] * BASE + s[p[1]]]
<1>1. n \in Nat /\ DOMAIN s = 1 .. n /\ \A i \in 1 .. n : s[i] \in Nat
  BY UptimeAssumption, SMTT(30) DEF Digit
<1>. HIDE DEF n
<1>2. ASSUME NEW i \in 1 .. n, NEW x \in Nat PROVE x * BASE + s[i] \in Nat
  <2>. DEFINE y == x * BASE
  <2>1. y \in Nat /\ s[i] \in Nat BY <1>1, UptimeAssumption
  <2>. HIDE DEF y
  <2>2. y + s[i] \in Nat BY <2>1
  <2>. QED BY <2>2 DEF y
<1>3. /\ step \in [(1 .. n) \X Nat -> Nat]
      /\ \A i \in 1 .. n, x \in Nat : step[<<i, x>>] = x * BASE + s[i]
  BY <1>2
<1>. HIDE DEF step
<1>4. PICK f : IsSeqFold(f, n, Nat, 0, step) BY <1>1, <1>3, SeqFold
<1>5. ASSUME NEW T \in SUBSET (1 .. n)
      PROVE  f[T] = IF T = {} THEN 0 ELSE f[T \ {Max(T)}] * BASE + s[Max(T)]
  <2>1. CASE T = {} BY <1>4, <2>1 DEF IsSeqFold
  <2>2. CASE T # {}
    <3>1. T \subseteq Nat /\ \A k \in T : k <= n BY <1>1
    <3>2. Max(T) \in T BY <1>1, <2>2, <3>1, MaxIn
    <3>3. Max(T) \in 1 .. n /\ f[T \ {Max(T)}] \in Nat BY <1>4, <3>2 DEF IsSeqFold
    <3>4. f[T] = step[<<Max(T), f[T \ {Max(T)}]>>] BY <1>4, <2>2 DEF IsSeqFold
    <3>. QED BY <1>3, <2>2, <3>3, <3>4
  <2>. QED BY <2>1, <2>2
<1>6. f \in [SUBSET (1 .. n) -> Nat] /\ f = [T \in SUBSET (1 .. n) |-> f[T]]
  BY <1>4 DEF IsSeqFold
<1>7. ValueEq(f, s) BY <1>1, <1>5, <1>6 DEF ValueEq
<1>. QED BY <1>6, <1>7 DEF n

(* One more digit *)
LEMMA UptoSteps ==
  ASSUME NEW s \in Seq(Digit)
  PROVE  /\ Upto(s, 0) = 0
         /\ \A k \in 1 .. Len(s) : Upto(s, k) = Upto(s, k - 1) * BASE + s[k]
<1>. DEFINE n == Len(s)
            f == CHOOSE f : ValueEq(f, s)
<1>1. n \in Nat /\ DOMAIN s = 1 .. n OBVIOUS
<1>2. ValueEq(f, s) BY ValueSolved
<1>3. \A k : Upto(s, k) = f[1 .. k] BY DEF Upto
<1>. HIDE DEF f, n
<1>4. f[1 .. 0] = 0
  <2>1. 1 .. 0 = {} /\ {} \in SUBSET DOMAIN s OBVIOUS
  <2>. QED BY <1>2, <2>1 DEF ValueEq
<1>5. ASSUME NEW k \in 1 .. n PROVE f[1 .. k] = f[1 .. k - 1] * BASE + s[k]
  <2>. DEFINE T == 1 .. k
  <2>1. /\ T \in SUBSET (1 .. n) /\ T # {}
        /\ Max(T) = k /\ T \ {Max(T)} = 1 .. k - 1 BY <1>1, UpTo
  <2>. HIDE DEF T
  <2>2. f[T] = f[T \ {Max(T)}] * BASE + s[Max(T)] BY <1>1, <1>2, <2>1 DEF ValueEq
  <2>. QED BY <2>1, <2>2 DEF T
<1>. QED BY <1>3, <1>4, <1>5 DEF n

LEMMA ValueAppend ==
  ASSUME NEW s \in Seq(Digit), NEW d \in Digit
  PROVE  Value(Append(s, d)) = Value(s) * BASE + d
<1>. DEFINE t == Append(s, d)
            n == Len(s)
            m == n + 1
            S == {k \in Nat : k <= n => Upto(t, k) = Upto(s, k)}
<1>1. /\ t \in Seq(Digit) /\ Len(t) = m /\ n \in Nat /\ DOMAIN s = 1 .. n
      /\ DOMAIN t = 1 .. m /\ t[m] = d /\ \A k \in 1 .. n : t[k] = s[k]
  OBVIOUS
<1>. HIDE DEF t, n
<1>2. 0 \in S BY <1>1, UptoSteps
<1>3. ASSUME NEW k \in Nat, k \in S PROVE k + 1 \in S
  <2>. SUFFICES ASSUME k + 1 <= n PROVE Upto(t, k + 1) = Upto(s, k + 1) OBVIOUS
  <2>. DEFINE j == k + 1
  <2>1. j \in 1 .. n /\ j \in 1 .. m /\ j - 1 = k /\ k <= n BY <1>1
  <2>. HIDE DEF j, m
  <2>2. Upto(t, j) = Upto(t, j - 1) * BASE + t[j] BY <1>1, <2>1, UptoSteps
  <2>3. Upto(s, j) = Upto(s, j - 1) * BASE + s[j] BY <1>1, <2>1, UptoSteps DEF n
  <2>4. Upto(t, k) = Upto(s, k) BY <1>3, <2>1
  <2>. QED BY <1>1, <2>1, <2>2, <2>3, <2>4 DEF j
<1>4. Upto(t, n) = Upto(s, n)
  <2>. HIDE DEF S
  <2>1. n \in S BY <1>1, <1>2, <1>3, Induct
  <2>. QED BY <1>1, <2>1 DEF S
<1>5. m \in 1 .. m /\ m - 1 = n BY <1>1
<1>. HIDE DEF m
<1>6. Upto(t, m) = Upto(t, n) * BASE + d BY <1>1, <1>5, UptoSteps
<1>7. Value(t) = Upto(t, m) BY <1>1, ValueIs
<1>8. Value(s) = Upto(s, n) BY <1>1, ValueIs DEF n
<1>. QED BY <1>4, <1>6, <1>7, <1>8 DEF t

LEMMA ValueEmpty == Value(<<>>) = 0
<1>1. <<>> \in Seq(Digit) /\ Len(<<>>) = 0 /\ DOMAIN <<>> = 1 .. Len(<<>>) OBVIOUS
<1>2. Value(<<>>) = Upto(<<>>, 0) BY <1>1, ValueIs
<1>. QED BY <1>1, <1>2, UptoSteps

(* The digits in the order they are printed *)
HighFirst(n) == Reverse(LowFirst[n])

LEMMA HighFirstIs ==
  /\ HighFirst(0) = <<>>
  /\ \A n \in Nat : /\ HighFirst(n) \in Seq(Digit)
                    /\ n # 0 => HighFirst(n) = Append(HighFirst(n \div BASE), n % BASE)
<1>1. \A s \in Seq(Digit) : Reverse(s) \in Seq(Digit) /\ Len(Reverse(s)) = Len(s)
                            /\ \A i \in 1 .. Len(s) : Reverse(s)[i] = s[(Len(s) - i) + 1]
  <2>. SUFFICES ASSUME NEW s \in Seq(Digit)
                PROVE  /\ Reverse(s) \in Seq(Digit) /\ Len(Reverse(s)) = Len(s)
                       /\ \A i \in 1 .. Len(s) : Reverse(s)[i] = s[(Len(s) - i) + 1]
    OBVIOUS
  <2>1. \A i \in 1 .. Len(s) : (Len(s) - i) + 1 \in 1 .. Len(s) OBVIOUS
  <2>2. Len(s) \in Nat /\ \A i \in 1 .. Len(s) : s[(Len(s) - i) + 1] \in Digit BY <2>1
  <2>. QED BY <2>2 DEF Reverse
<1>2. \A n \in Nat : LowFirst[n] \in Seq(Digit) BY LowFirstIs
<1>3. HighFirst(0) = <<>>
  <2>1. LowFirst[0] = <<>> BY LowFirstIs
  <2>2. Len(HighFirst(0)) = 0 /\ HighFirst(0) \in Seq(Digit) BY <1>1, <1>2, <2>1 DEF HighFirst
  <2>. QED BY <2>2
<1>4. ASSUME NEW n \in Nat, n # 0
      PROVE  HighFirst(n) = Append(HighFirst(n \div BASE), n % BASE)
  <2>. DEFINE q == n \div BASE
              d == n % BASE
              t == LowFirst[q]
              s == LowFirst[n]
              m == Len(t)
  <2>1. q \in Nat /\ d \in Digit BY <1>4, UptimeAssumption, Quotient DEF Digit
  <2>2. s = <<d>> \o t /\ s \in Seq(Digit) /\ t \in Seq(Digit) BY <1>2, <1>4, <2>1, LowFirstIs
  <2>. HIDE DEF q, d, s, t
  <2>3. /\ m \in Nat /\ Len(s) = m + 1 /\ s[1] = d
        /\ \A i \in 1 .. m : s[i + 1] = t[i] BY <2>1, <2>2
  <2>. HIDE DEF m
  <2>4. /\ Reverse(s) \in Seq(Digit) /\ Len(Reverse(s)) = m + 1
        /\ \A i \in 1 .. m + 1 : Reverse(s)[i] = s[((m + 1) - i) + 1]
    <3>1. /\ Reverse(s) \in Seq(Digit) /\ Len(Reverse(s)) = Len(s)
          /\ \A i \in 1 .. Len(s) : Reverse(s)[i] = s[(Len(s) - i) + 1]
      BY <1>1, <2>2
    <3>. QED BY <2>3, <3>1
  <2>5. /\ Reverse(t) \in Seq(Digit) /\ Len(Reverse(t)) = m
        /\ \A i \in 1 .. m : Reverse(t)[i] = t[(m - i) + 1]
    <3>1. Len(t) = m BY DEF m
    <3>2. /\ Reverse(t) \in Seq(Digit) /\ Len(Reverse(t)) = Len(t)
          /\ \A i \in 1 .. Len(t) : Reverse(t)[i] = t[(Len(t) - i) + 1]
      BY <1>1, <2>2
    <3>. QED BY <3>1, <3>2
  <2>. DEFINE A == Append(Reverse(t), d)
  <2>6. /\ A \in Seq(Digit) /\ Len(A) = m + 1 /\ A[m + 1] = d
        /\ \A i \in 1 .. m : A[i] = Reverse(t)[i] BY <2>1, <2>3, <2>5
  <2>. HIDE DEF A
  <2>7. ASSUME NEW i \in 1 .. m + 1 PROVE Reverse(s)[i] = A[i]
    <3>1. CASE i = m + 1
      <4>1. ((m + 1) - i) + 1 = 1 BY <2>3, <3>1
      <4>. QED BY <2>3, <2>4, <2>6, <3>1, <4>1
    <3>2. CASE i # m + 1
      <4>. DEFINE j == (m - i) + 1
      <4>1. i \in 1 .. m /\ j \in 1 .. m /\ ((m + 1) - i) + 1 = j + 1 BY <2>3, <3>2
      <4>. HIDE DEF j
      <4>2. Reverse(s)[i] = s[j + 1] BY <2>4, <4>1
      <4>3. A[i] = t[j] BY <2>5, <2>6, <4>1 DEF j
      <4>. QED BY <2>3, <4>1, <4>2, <4>3
    <3>. QED BY <3>1, <3>2
  <2>8. Reverse(s) = A BY <2>4, <2>6, <2>7, SeqEqual
  <2>. QED BY <2>8 DEF A, HighFirst, s, t, q, d
<1>. QED BY <1>1, <1>2, <1>3, <1>4 DEF HighFirst

(* A number's digits read back as the number, without a zero in front, and *)
(* a number below BASE^k has at most k of them.                            *)
LEMMA DigitsRead ==
  \A n \in Nat : /\ Value(HighFirst(n)) = n
                 /\ n # 0 => Len(HighFirst(n)) # 0 /\ HighFirst(n)[1] # 0
                 /\ \A k \in Nat : n < Power[k] => Len(HighFirst(n)) <= k
<1>. DEFINE Fine(n) == /\ Value(HighFirst(n)) = n
                       /\ n # 0 => Len(HighFirst(n)) # 0 /\ HighFirst(n)[1] # 0
                       /\ \A k \in Nat : n < Power[k] => Len(HighFirst(n)) <= k
            Bad == {n \in Nat : ~Fine(n)}
<1>. SUFFICES ASSUME Bad # {} PROVE FALSE OBVIOUS
<1>1. PICK n \in Bad : \A m \in Bad : n <= m
  <2>1. Bad \subseteq Nat OBVIOUS
  <2>. HIDE DEF Bad
  <2>. QED BY <2>1, LeastNat
<1>2. n \in Nat /\ ~Fine(n) OBVIOUS
<1>3. Fine(0) BY HighFirstIs, ValueEmpty
<1>4. n # 0 BY <1>2, <1>3
<1>. DEFINE q == n \div BASE
            d == n % BASE
            s == HighFirst(q)
            t == HighFirst(n)
<1>5. q \in Nat /\ q < n /\ d \in Nat /\ d \in Digit /\ n = q * BASE + d
  <2>1. q \in Nat /\ q < n BY <1>2, <1>4, DivSmaller
  <2>2. BASE \in Nat /\ BASE > 0 BY UptimeAssumption
  <2>3. d \in Nat /\ d < BASE /\ n = q * BASE + d BY <1>2, <2>2, Quotient
  <2>4. d \in Digit BY <2>2, <2>3 DEF Digit
  <2>. QED BY <2>1, <2>3, <2>4
<1>6. Fine(q) BY <1>1, <1>2, <1>5
<1>7. s \in Seq(Digit) /\ t = Append(s, d) BY <1>2, <1>4, <1>5, HighFirstIs
<1>8. q = 0 => s = <<>> /\ d = n
  <2>1. q = 0 => s = <<>> BY HighFirstIs
  <2>2. q = 0 => n = d BY <1>5, UptimeAssumption
  <2>. QED BY <2>1, <2>2
<1>9. /\ Value(s) = q
      /\ q # 0 => Len(s) # 0 /\ s[1] # 0
      /\ \A k \in Nat : q < Power[k] => Len(s) <= k BY <1>6
<1>. HIDE DEF q, d, s, t, Fine, Bad
<1>10. Value(t) = n BY <1>5, <1>7, <1>9, ValueAppend
<1>11. Len(t) = Len(s) + 1 /\ Len(s) \in Nat BY <1>5, <1>7
<1>12. t[1] # 0
  <2>1. CASE q = 0 BY <1>4, <1>7, <1>8, <2>1
  <2>2. CASE q # 0
    <3>1. 1 \in 1 .. Len(s) BY <1>9, <1>11, <2>2
    <3>2. t[1] = s[1] BY <1>5, <1>7, <3>1
    <3>. QED BY <1>9, <2>2, <3>2
  <2>. QED BY <2>1, <2>2
<1>13. ASSUME NEW k \in Nat, n < Power[k] PROVE Len(t) <= k
  <2>. DEFINE j == k - 1
  <2>1. k # 0 BY <1>2, <1>4, <1>13, PowerIs
  <2>2. j \in Nat /\ j + 1 = k BY <2>1
  <2>. HIDE DEF j
  <2>3. Power[k] = BASE * Power[j] /\ Power[j] \in Nat BY <2>2, PowerIs
  <2>4. q < Power[j]
    <3>. DEFINE p == Power[j]
    <3>1. p \in Nat /\ q * BASE + d < BASE * p BY <1>5, <1>13, <2>3
    <3>. HIDE DEF p
    <3>2. q >= p => q * BASE >= BASE * p BY <1>5, <3>1, UptimeAssumption
    <3>3. q * BASE \in Nat /\ BASE * p \in Nat BY <1>5, <3>1, UptimeAssumption
    <3>4. ~(q >= p) BY <1>5, <3>1, <3>2, <3>3
    <3>. QED BY <1>5, <3>1, <3>4 DEF p
  <2>5. Len(s) <= j BY <1>9, <2>2, <2>4
  <2>. QED BY <1>11, <2>2, <2>5
<1>14. Len(t) # 0 BY <1>11
<1>15. Fine(n) BY <1>10, <1>12, <1>13, <1>14 DEF Fine, t
<1>. QED BY <1>1, <1>15 DEF Bad

(* print_number shows the number it is given. *)
LEMMA PrintNumber ==
  ASSUME NEW n \in 0 .. WORD - 1
  PROVE  Value(print_number(n)) = n /\ WellFormed(print_number(n))
<1>1. n \in Nat /\ n < Power[BUFFER] /\ BUFFER \in Nat /\ BUFFER >= 1 /\ 0 \in Digit
  <2>1. WORD \in Nat /\ BUFFER \in Nat /\ BUFFER >= 1 BY TimerAssumption, UptimeAssumption
  <2>2. Power[BUFFER] \in Nat /\ WORD <= Power[BUFFER] BY <2>1, PowerIs, BufferAssumption
  <2>3. 0 \in Digit BY UptimeAssumption DEF Digit
  <2>. QED BY <2>1, <2>2, <2>3
<1>2. CASE n = 0
  <2>1. print_number(n) = <<0>> BY <1>2 DEF print_number
  <2>2. <<0>> = Append(<<>>, 0) /\ <<>> \in Seq(Digit) OBVIOUS
  <2>3. Value(<<0>>) = 0 * BASE + 0 BY <1>1, <2>2, ValueAppend, ValueEmpty
  <2>4. Value(<<0>>) = 0 BY <2>3, UptimeAssumption
  <2>. DEFINE z == <<0>>
  <2>5. z \in Seq(Digit) /\ Len(z) = 1 BY <1>1
  <2>. HIDE DEF z
  <2>6. Len(z) \in 1 .. BUFFER BY <1>1, <2>5
  <2>7. WellFormed(z) BY <2>5, <2>6 DEF WellFormed, Digit
  <2>. QED BY <1>2, <2>1, <2>4, <2>7 DEF z
<1>3. CASE n # 0
  <2>. DEFINE s == HighFirst(n)
  <2>1. print_number(n) = s BY <1>3 DEF print_number, HighFirst
  <2>2. Value(s) = n /\ Len(s) # 0 /\ s[1] # 0 /\ Len(s) <= BUFFER BY <1>1, <1>3, DigitsRead
  <2>3. s \in Seq(Digit) BY <1>1, HighFirstIs
  <2>. HIDE DEF s
  <2>4. Len(s) \in Nat BY <2>3
  <2>5. Len(s) \in 1 .. BUFFER BY <1>1, <2>2, <2>4
  <2>6. WellFormed(s) BY <2>2, <2>3, <2>5 DEF WellFormed, Digit
  <2>. QED BY <2>1, <2>2, <2>6
<1>. QED BY <1>2, <1>3

(* What a reader finds in a line of items: item i shows v[unit] for its    *)
(* unit, and a unit without an item is 0.                                  *)
Units == {"days", "hours", "minutes", "seconds", "ticks"}
Items == [unit : Units, digits : Seq(Digit)]

Shows(shown, v) ==
  /\ \A u \in Units : v[u] \in 0 .. WORD - 1
  /\ \A it \in shown : it.unit \in Units /\ it.digits = print_number(v[it.unit])
  /\ \A u \in Units : v[u] # 0 => \E it \in shown : it.unit = u

LEMMA ReadShows ==
  ASSUME NEW items, NEW v, Shows(Range(items), v)
  PROVE  /\ \A u \in Units : Read(items, u) = v[u]
         /\ \A i \in DOMAIN items : WellFormed(items[i].digits)
<1>1. ASSUME NEW i \in DOMAIN items
      PROVE  /\ items[i].unit \in Units /\ v[items[i].unit] \in 0 .. WORD - 1
             /\ items[i].digits = print_number(v[items[i].unit])
  <2>1. items[i] \in Range(items) BY DEF Range
  <2>. QED BY <2>1 DEF Shows
<1>2. \A i \in DOMAIN items : WellFormed(items[i].digits) BY <1>1, PrintNumber
<1>3. ASSUME NEW u \in Units PROVE Read(items, u) = v[u]
  <2>. DEFINE at == {i \in DOMAIN items : items[i].unit = u}
  <2>1. CASE at = {}
    <3>1. Read(items, u) = 0 BY <2>1 DEF Read
    <3>2. v[u] = 0
      <4>1. \A it \in Range(items) : it.unit # u BY <2>1 DEF Range
      <4>. QED BY <4>1 DEF Shows
    <3>. QED BY <3>1, <3>2
  <2>2. CASE at # {}
    <3>. DEFINE i == CHOOSE i \in at : TRUE
    <3>1. i \in at BY <2>2
    <3>2. Read(items, u) = Value(items[i].digits) BY <2>2 DEF Read
    <3>. HIDE DEF i
    <3>3. i \in DOMAIN items /\ items[i].unit = u BY <3>1
    <3>. QED BY <1>1, <3>2, <3>3, PrintNumber
  <2>. QED BY <2>1, <2>2
<1>. QED BY <1>2, <1>3

LEMMA RangeConcat ==
  ASSUME NEW S, NEW s \in Seq(S), NEW t \in Seq(S)
  PROVE  s \o t \in Seq(S) /\ Range(s \o t) = Range(s) \cup Range(t)
<1>. DEFINE r == s \o t
<1>1. /\ r \in Seq(S) /\ Len(r) = Len(s) + Len(t) /\ Len(s) \in Nat /\ Len(t) \in Nat
      /\ DOMAIN s = 1 .. Len(s) /\ DOMAIN t = 1 .. Len(t) /\ DOMAIN r = 1 .. Len(r)
      /\ \A i \in 1 .. Len(r) : r[i] = IF i <= Len(s) THEN s[i] ELSE t[i - Len(s)]
  OBVIOUS
<1>. HIDE DEF r
<1>2. ASSUME NEW i \in DOMAIN r PROVE r[i] \in Range(s) \cup Range(t)
  <2>1. CASE i <= Len(s)
    <3>1. i \in DOMAIN s /\ r[i] = s[i] BY <1>1, <2>1
    <3>. QED BY <3>1 DEF Range
  <2>2. CASE ~(i <= Len(s))
    <3>1. i - Len(s) \in DOMAIN t /\ r[i] = t[i - Len(s)] BY <1>1, <2>2
    <3>. QED BY <3>1 DEF Range
  <2>. QED BY <2>1, <2>2
<1>3. ASSUME NEW i \in DOMAIN s PROVE s[i] \in Range(r)
  <2>1. i \in DOMAIN r /\ r[i] = s[i] BY <1>1
  <2>. QED BY <2>1 DEF Range
<1>4. ASSUME NEW i \in DOMAIN t PROVE t[i] \in Range(r)
  <2>. DEFINE j == i + Len(s)
  <2>1. j \in 1 .. Len(r) /\ ~(j <= Len(s)) /\ j - Len(s) = i BY <1>1
  <2>. HIDE DEF j
  <2>2. j \in DOMAIN r /\ r[j] = t[i] BY <1>1, <2>1
  <2>. QED BY <2>2 DEF Range
<1>5. Range(r) \subseteq Range(s) \cup Range(t) BY <1>2 DEF Range
<1>6. Range(s) \subseteq Range(r) BY <1>3 DEF Range
<1>7. Range(t) \subseteq Range(r) BY <1>4 DEF Range
<1>. QED BY <1>1, <1>5, <1>6, <1>7 DEF r

LEMMA RangeOne ==
  ASSUME NEW S, NEW it \in S
  PROVE  /\ <<it>> \in Seq(S) /\ Range(<<it>>) = {it}
         /\ <<>> \in Seq(S) /\ Range(<<>>) = {}
<1>1. <<it>> \in Seq(S) /\ <<>> \in Seq(S) OBVIOUS
<1>2. DOMAIN <<it>> = {1} /\ <<it>>[1] = it OBVIOUS
<1>3. Range(<<it>>) = {it} BY <1>2 DEF Range
<1>4. Range(<<>>) = {} BY DEF Range
<1>. QED BY <1>1, <1>3, <1>4

LEMMA ItemIs ==
  ASSUME NEW u \in Units, NEW n \in 0 .. WORD - 1
  PROVE  /\ Item(u, n) \in Items /\ Item(u, n).unit = u
         /\ Item(u, n).digits = print_number(n)
<1>1. print_number(n) \in Seq(Digit) BY PrintNumber DEF WellFormed, Digit
<1>. QED BY <1>1 DEF Item, Items

(* The units of a number of ticks *)
Seconds(count) == count \div HZ
Minutes(count) == Seconds(count) \div MINUTE
Hours(count) == Minutes(count) \div HOUR
Days(count) == Hours(count) \div DAY

LEMMA SplitUnits ==
  ASSUME NEW c \in 0 .. WORD - 1
  PROVE  /\ Minutes(c) = Hours(c) * HOUR + (Minutes(c) % HOUR)
         /\ Seconds(c) = Minutes(c) * MINUTE + (Seconds(c) % MINUTE)
         /\ Hours(c) = Days(c) * DAY + (Hours(c) % DAY)
         /\ Seconds(c) % MINUTE \in 0 .. WORD - 1 /\ Seconds(c) % MINUTE < MINUTE
         /\ Minutes(c) % HOUR \in 0 .. WORD - 1 /\ Minutes(c) % HOUR < HOUR
         /\ Hours(c) % DAY \in 0 .. WORD - 1 /\ Hours(c) % DAY < DAY
         /\ Hours(c) \in 0 .. WORD - 1 /\ Days(c) \in 0 .. WORD - 1
<1>1. ASSUME NEW n \in 0 .. WORD - 1, NEW d \in Nat, d > 0
      PROVE  /\ n \div d \in 0 .. WORD - 1 /\ n % d \in 0 .. WORD - 1 /\ n % d < d
             /\ n = (n \div d) * d + (n % d)
  <2>. DEFINE q == n \div d
              r == n % d
  <2>1. q \in Nat /\ r \in Nat /\ r < d /\ n = q * d + r BY <1>1, TimerAssumption, Quotient
  <2>. HIDE DEF q, r
  <2>2. q * d \in Nat /\ q <= q * d BY <1>1, <2>1
  <2>3. q <= n /\ r <= n BY <2>1, <2>2
  <2>. QED BY <2>1, <2>3, TimerAssumption DEF q, r
<1>2. /\ HZ \in Nat /\ HZ > 0 /\ MINUTE \in Nat /\ MINUTE > 0
      /\ HOUR \in Nat /\ HOUR > 0 /\ DAY \in Nat /\ DAY > 0
  BY UptimeAssumption
<1>3. Seconds(c) \in 0 .. WORD - 1 BY <1>1, <1>2 DEF Seconds
<1>4. /\ Minutes(c) \in 0 .. WORD - 1 /\ Seconds(c) % MINUTE \in 0 .. WORD - 1
      /\ Seconds(c) % MINUTE < MINUTE
      /\ Seconds(c) = Minutes(c) * MINUTE + (Seconds(c) % MINUTE)
  BY <1>1, <1>2, <1>3 DEF Minutes
<1>5. /\ Hours(c) \in 0 .. WORD - 1 /\ Minutes(c) % HOUR \in 0 .. WORD - 1
      /\ Minutes(c) % HOUR < HOUR /\ Minutes(c) = Hours(c) * HOUR + (Minutes(c) % HOUR)
  BY <1>1, <1>2, <1>4 DEF Hours
<1>6. /\ Days(c) \in 0 .. WORD - 1 /\ Hours(c) % DAY \in 0 .. WORD - 1
      /\ Hours(c) % DAY < DAY /\ Hours(c) = Days(c) * DAY + (Hours(c) % DAY)
  BY <1>1, <1>2, <1>5 DEF Days
<1>. QED BY <1>4, <1>5, <1>6

LEMMA RangeThree ==
  ASSUME NEW s \in Seq(Items), NEW t \in Seq(Items), NEW r \in Seq(Items)
  PROVE  Range(s \o t \o r) = Range(s) \cup Range(t) \cup Range(r)
<1>. DEFINE w == s \o t
<1>1. w \in Seq(Items) /\ Range(w) = Range(s) \cup Range(t) BY RangeConcat
<1>. HIDE DEF w
<1>2. Range(w \o r) = Range(w) \cup Range(r) BY <1>1, RangeConcat
<1>. QED BY <1>1, <1>2 DEF w

LEMMA TimeShows ==
  ASSUME NEW c \in 0 .. WORD - 1
  PROVE  Shows(Range(TimeItems(c)),
               [days |-> 0, hours |-> Hours(c), minutes |-> Minutes(c) % HOUR,
                seconds |-> Seconds(c) % MINUTE, ticks |-> c])
<1>. DEFINE h == Item("hours", Hours(c))
            m == Item("minutes", Minutes(c) % HOUR)
            s == Item("seconds", Seconds(c) % MINUTE)
            t == Item("ticks", c)
            p == Hours(c) > 0
            q == Minutes(c) % HOUR > 0 \/ Hours(c) > 0
            v == [days |-> 0, hours |-> Hours(c), minutes |-> Minutes(c) % HOUR,
                  seconds |-> Seconds(c) % MINUTE, ticks |-> c]
<1>1. /\ Seconds(c) % MINUTE \in 0 .. WORD - 1 /\ Minutes(c) % HOUR \in 0 .. WORD - 1
      /\ Hours(c) \in 0 .. WORD - 1
  BY SplitUnits
<1>2. /\ v["days"] = 0 /\ v["hours"] = Hours(c) /\ v["minutes"] = Minutes(c) % HOUR
      /\ v["seconds"] = Seconds(c) % MINUTE /\ v["ticks"] = c
  OBVIOUS
<1>3. TimeItems(c) = When(p, h) \o When(q, m) \o <<s, t>>
  BY DEF TimeItems, Hours, Minutes, Seconds
<1>4. /\ h \in Items /\ h.unit = "hours" /\ h.digits = print_number(v["hours"])
      /\ m \in Items /\ m.unit = "minutes" /\ m.digits = print_number(v["minutes"])
  BY <1>1, <1>2, ItemIs DEF Units
<1>5. /\ s \in Items /\ s.unit = "seconds" /\ s.digits = print_number(v["seconds"])
      /\ t \in Items /\ t.unit = "ticks" /\ t.digits = print_number(v["ticks"])
  BY <1>1, <1>2, ItemIs DEF Units
<1>6. (p <=> v["hours"] # 0) /\ (v["minutes"] # 0 => q) BY <1>1, <1>2
<1>7. \A u \in Units : v[u] \in 0 .. WORD - 1 BY <1>1, <1>2, TimerAssumption DEF Units
<1>. HIDE DEF h, m, s, t, p, q, v
<1>8. When(p, h) \in Seq(Items) /\ Range(When(p, h)) = {x \in {h} : p}
  BY <1>4, RangeOne DEF When
<1>9. When(q, m) \in Seq(Items) /\ Range(When(q, m)) = {x \in {m} : q}
  BY <1>4, RangeOne DEF When
<1>10. Range(TimeItems(c)) = {x \in {h} : p} \cup {x \in {m} : q} \cup {s, t}
  <2>. DEFINE z == <<s, t>>
  <2>1. z \in Seq(Items) /\ Range(z) = {s, t} BY <1>5 DEF Range
  <2>. HIDE DEF z
  <2>2. TimeItems(c) = When(p, h) \o When(q, m) \o z BY <1>3 DEF z
  <2>3. Range(TimeItems(c)) = Range(When(p, h)) \cup Range(When(q, m)) \cup Range(z)
    <3>. DEFINE a == When(p, h)
                b == When(q, m)
    <3>1. a \in Seq(Items) /\ b \in Seq(Items) BY <1>8, <1>9
    <3>2. TimeItems(c) = a \o b \o z BY <2>2
    <3>. HIDE DEF a, b
    <3>3. Range(a \o b \o z) = Range(a) \cup Range(b) \cup Range(z)
      BY <2>1, <3>1, RangeThree
    <3>4. Range(TimeItems(c)) = Range(a) \cup Range(b) \cup Range(z) BY <3>2, <3>3
    <3>. QED BY <3>4 DEF a, b
  <2>. QED BY <1>8, <1>9, <2>1, <2>3
<1>. DEFINE R == Range(TimeItems(c))
<1>11. \A it \in R : it.unit \in Units /\ it.digits = print_number(v[it.unit])
  BY <1>4, <1>5, <1>10 DEF Units
<1>12. \A u \in Units : v[u] # 0 => \E it \in R : it.unit = u
  <2>1. s \in R /\ t \in R /\ (p => h \in R) /\ (q => m \in R) BY <1>10
  <2>. HIDE DEF R
  <2>. QED BY <1>2, <1>4, <1>5, <1>6, <2>1 DEF Units
<1>13. Shows(R, v) BY <1>7, <1>11, <1>12 DEF Shows
<1>. QED BY <1>13 DEF v

LEMMA UptimeShows ==
  ASSUME NEW c \in 0 .. WORD - 1
  PROVE  Shows(Range(UptimeItems(c)),
               [days |-> Days(c), hours |-> Hours(c) % DAY, minutes |-> Minutes(c) % HOUR,
                seconds |-> Seconds(c) % MINUTE, ticks |-> c])
<1>. DEFINE d == Item("days", Days(c))
            h == Item("hours", Hours(c) % DAY)
            m == Item("minutes", Minutes(c) % HOUR)
            s == Item("seconds", Seconds(c) % MINUTE)
            t == Item("ticks", c)
            p == Days(c) > 0
            q == Hours(c) % DAY > 0
            v == [days |-> Days(c), hours |-> Hours(c) % DAY, minutes |-> Minutes(c) % HOUR,
                  seconds |-> Seconds(c) % MINUTE, ticks |-> c]
<1>1. /\ Seconds(c) % MINUTE \in 0 .. WORD - 1 /\ Minutes(c) % HOUR \in 0 .. WORD - 1
      /\ Hours(c) % DAY \in 0 .. WORD - 1 /\ Days(c) \in 0 .. WORD - 1
  BY SplitUnits
<1>2. /\ v["days"] = Days(c) /\ v["hours"] = Hours(c) % DAY
      /\ v["minutes"] = Minutes(c) % HOUR
      /\ v["seconds"] = Seconds(c) % MINUTE /\ v["ticks"] = c
  OBVIOUS
<1>3. UptimeItems(c) = When(p, d) \o When(q, h) \o <<m, s, t>>
  BY DEF UptimeItems, Days, Hours, Minutes, Seconds
<1>4. /\ d \in Items /\ d.unit = "days" /\ d.digits = print_number(v["days"])
      /\ h \in Items /\ h.unit = "hours" /\ h.digits = print_number(v["hours"])
      /\ m \in Items /\ m.unit = "minutes" /\ m.digits = print_number(v["minutes"])
  BY <1>1, <1>2, ItemIs DEF Units
<1>5. /\ s \in Items /\ s.unit = "seconds" /\ s.digits = print_number(v["seconds"])
      /\ t \in Items /\ t.unit = "ticks" /\ t.digits = print_number(v["ticks"])
  BY <1>1, <1>2, ItemIs DEF Units
<1>6. (p <=> v["days"] # 0) /\ (q <=> v["hours"] # 0) BY <1>1, <1>2
<1>7. \A u \in Units : v[u] \in 0 .. WORD - 1 BY <1>1, <1>2, TimerAssumption DEF Units
<1>. HIDE DEF d, h, m, s, t, p, q, v
<1>8. When(p, d) \in Seq(Items) /\ Range(When(p, d)) = {x \in {d} : p}
  BY <1>4, RangeOne DEF When
<1>9. When(q, h) \in Seq(Items) /\ Range(When(q, h)) = {x \in {h} : q}
  BY <1>4, RangeOne DEF When
<1>10. Range(UptimeItems(c)) = {x \in {d} : p} \cup {x \in {h} : q} \cup {m, s, t}
  <2>. DEFINE z == <<m, s, t>>
  <2>1. z \in Seq(Items) /\ Range(z) = {m, s, t} BY <1>4, <1>5 DEF Range
  <2>. HIDE DEF z
  <2>2. UptimeItems(c) = When(p, d) \o When(q, h) \o z BY <1>3 DEF z
  <2>3. Range(UptimeItems(c)) = Range(When(p, d)) \cup Range(When(q, h)) \cup Range(z)
    <3>. DEFINE a == When(p, d)
                b == When(q, h)
    <3>1. a \in Seq(Items) /\ b \in Seq(Items) BY <1>8, <1>9
    <3>2. UptimeItems(c) = a \o b \o z BY <2>2
    <3>. HIDE DEF a, b
    <3>3. Range(a \o b \o z) = Range(a) \cup Range(b) \cup Range(z)
      BY <2>1, <3>1, RangeThree
    <3>4. Range(UptimeItems(c)) = Range(a) \cup Range(b) \cup Range(z) BY <3>2, <3>3
    <3>. QED BY <3>4 DEF a, b
  <2>. QED BY <1>8, <1>9, <2>1, <2>3
<1>. DEFINE R == Range(UptimeItems(c))
<1>11. \A it \in R : it.unit \in Units /\ it.digits = print_number(v[it.unit])
  BY <1>4, <1>5, <1>10 DEF Units
<1>12. \A u \in Units : v[u] # 0 => \E it \in R : it.unit = u
  <2>1. m \in R /\ s \in R /\ t \in R /\ (p => d \in R) /\ (q => h \in R) BY <1>10
  <2>. HIDE DEF R
  <2>. QED BY <1>4, <1>5, <1>6, <2>1 DEF Units
<1>13. Shows(R, v) BY <1>7, <1>11, <1>12 DEF Shows
<1>. QED BY <1>13 DEF v

(* What a reader makes of a line that shows the units of c *)
ReadsTrue(items, c) ==
  /\ \A i \in DOMAIN items : WellFormed(items[i].digits)
  /\ Read(items, "ticks") = c
  /\ ((Read(items, "days") * DAY + Read(items, "hours")) * HOUR
        + Read(items, "minutes")) * MINUTE + Read(items, "seconds") = c \div HZ
  /\ Read(items, "minutes") < HOUR /\ Read(items, "seconds") < MINUTE
  /\ Read(items, "days") > 0 => Read(items, "hours") < DAY

LEMMA TimeReadsTrue ==
  ASSUME NEW c \in 0 .. WORD - 1 PROVE ReadsTrue(TimeItems(c), c)
<1>. DEFINE items == TimeItems(c)
            v == [days |-> 0, hours |-> Hours(c), minutes |-> Minutes(c) % HOUR,
                  seconds |-> Seconds(c) % MINUTE, ticks |-> c]
<1>1. /\ v["days"] = 0 /\ v["hours"] = Hours(c) /\ v["minutes"] = Minutes(c) % HOUR
      /\ v["seconds"] = Seconds(c) % MINUTE /\ v["ticks"] = c
  OBVIOUS
<1>2. Shows(Range(items), v) BY TimeShows
<1>. HIDE DEF items, v
<1>3. /\ \A u \in Units : Read(items, u) = v[u]
      /\ \A i \in DOMAIN items : WellFormed(items[i].digits) BY <1>2, ReadShows
<1>4. /\ Read(items, "days") = 0 /\ Read(items, "hours") = Hours(c)
      /\ Read(items, "minutes") = Minutes(c) % HOUR
      /\ Read(items, "seconds") = Seconds(c) % MINUTE /\ Read(items, "ticks") = c
  BY <1>1, <1>3 DEF Units
<1>5. /\ Minutes(c) = Hours(c) * HOUR + (Minutes(c) % HOUR)
      /\ Seconds(c) = Minutes(c) * MINUTE + (Seconds(c) % MINUTE)
      /\ Seconds(c) % MINUTE < MINUTE /\ Minutes(c) % HOUR < HOUR
      /\ Hours(c) \in Nat
  BY SplitUnits
<1>6. 0 * DAY + Hours(c) = Hours(c) BY <1>5, UptimeAssumption
<1>7. ((Read(items, "days") * DAY + Read(items, "hours")) * HOUR
        + Read(items, "minutes")) * MINUTE + Read(items, "seconds") = c \div HZ
  BY <1>4, <1>5, <1>6 DEF Seconds
<1>8. ~(Read(items, "days") > 0) BY <1>4
<1>. QED BY <1>3, <1>4, <1>5, <1>7, <1>8 DEF ReadsTrue, items

LEMMA UptimeReadsTrue ==
  ASSUME NEW c \in 0 .. WORD - 1 PROVE ReadsTrue(UptimeItems(c), c)
<1>. DEFINE items == UptimeItems(c)
            v == [days |-> Days(c), hours |-> Hours(c) % DAY, minutes |-> Minutes(c) % HOUR,
                  seconds |-> Seconds(c) % MINUTE, ticks |-> c]
<1>1. /\ v["days"] = Days(c) /\ v["hours"] = Hours(c) % DAY
      /\ v["minutes"] = Minutes(c) % HOUR
      /\ v["seconds"] = Seconds(c) % MINUTE /\ v["ticks"] = c
  OBVIOUS
<1>2. Shows(Range(items), v) BY UptimeShows
<1>. HIDE DEF items, v
<1>3. /\ \A u \in Units : Read(items, u) = v[u]
      /\ \A i \in DOMAIN items : WellFormed(items[i].digits) BY <1>2, ReadShows
<1>4. /\ Read(items, "days") = Days(c) /\ Read(items, "hours") = Hours(c) % DAY
      /\ Read(items, "minutes") = Minutes(c) % HOUR
      /\ Read(items, "seconds") = Seconds(c) % MINUTE /\ Read(items, "ticks") = c
  BY <1>1, <1>3 DEF Units
<1>5. /\ Minutes(c) = Hours(c) * HOUR + (Minutes(c) % HOUR)
      /\ Seconds(c) = Minutes(c) * MINUTE + (Seconds(c) % MINUTE)
      /\ Hours(c) = Days(c) * DAY + (Hours(c) % DAY)
      /\ Seconds(c) % MINUTE < MINUTE /\ Minutes(c) % HOUR < HOUR /\ Hours(c) % DAY < DAY
  BY SplitUnits
<1>6. ((Read(items, "days") * DAY + Read(items, "hours")) * HOUR
        + Read(items, "minutes")) * MINUTE + Read(items, "seconds") = c \div HZ
  BY <1>4, <1>5 DEF Seconds
<1>. QED BY <1>3, <1>4, <1>5, <1>6 DEF ReadsTrue, items

(* What time and uptime print is true at every reachable value of the      *)
(* counter, for every word, tick rate, unit and base that print_number's   *)
(* buffer is large enough for.                                             *)
THEOREM UptimeReadsBack == Spec => []UptimeIsTrue
<1>1. TypeOK => UptimeIsTrue
  <2>. SUFFICES ASSUME TypeOK PROVE UptimeIsTrue OBVIOUS
  <2>1. timer_ticks \in 0 .. WORD - 1 BY DEF TypeOK
  <2>2. /\ ReadsTrue(TimeItems(timer_ticks), timer_ticks)
        /\ ReadsTrue(UptimeItems(timer_ticks), timer_ticks)
    BY <2>1, TimeReadsTrue, UptimeReadsTrue
  <2>3. \A items \in {TimeItems(timer_ticks), UptimeItems(timer_ticks)} :
          ReadsTrue(items, timer_ticks)
    BY <2>2
  <2>. QED BY <2>3 DEF UptimeIsTrue, ReadsTrue
<1>. QED BY <1>1, TimerTypes, PTL
=============================================================================
