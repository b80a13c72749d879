--------------------------- MODULE KeyboardProofs ---------------------------
(***************************************************************************)
(* The keyboard driver, for any keys and any number of scancodes: its      *)
(* types, that keyboard_getchar is a reliable channel in SAFE_MODE (the    *)
(* safety part of module KeyChannel), and that with interrupts on no key   *)
(* comes out more than twice.                                              *)
(*                                                                         *)
(* What a scancode will mean depends on all those before it.  Both         *)
(* invariants therefore say that there is a trace: a function that gives,  *)
(* for each scancode still on its way, what the driver will have made of   *)
(* the ones before it.  Its last value is what the user did.               *)
(***************************************************************************)
EXTENDS Keyboard, TLAPS, SequenceTheorems, FiniteSetTheorems

(* A character that is waiting or about to be returned is one. *)
KInv ==
  /\ TypeOK
  /\ key_available => last_key \in Char
  /\ pc = "load" => key_available
  /\ pc = "clear" => key \in Char

(* A key press that has a character *)
Presses(code) == code.down /\ code.key \in Letters

Bit(b) == IF b THEN 1 ELSE 0
-----------------------------------------------------------------------------
(* Exactly the letters have a character, and it is theirs. *)
LEMMA CharOfOk ==
  ASSUME NEW k, NEW s, NEW c
  PROVE  /\ CharOf(k, s, c) # NONE <=> k \in Letters
         /\ k \in Letters => CharOf(k, s, c) \in Char /\ CharOf(k, s, c).key = k
  BY DEF CharOf, Char, NONE

(* process_scancode returns a character for a press of a letter only. *)
LEMMA KeyOfOk ==
  ASSUME NEW code
  PROVE  /\ KeyOf(code) # NONE <=> Presses(code)
         /\ Presses(code) => KeyOf(code) \in Char /\ KeyOf(code).key = code.key
  BY CharOfOk DEF KeyOf, Presses

(* The modifiers stay Boolean. *)
LEMMA ModifiersOk ==
  ASSUME NEW code \in Code \cup {NOCODE}, Modifiers(code),
         shift_pressed \in BOOLEAN, ctrl_pressed \in BOOLEAN
  PROVE  shift_pressed' \in BOOLEAN /\ ctrl_pressed' \in BOOLEAN
<1>1. code.down \in BOOLEAN
  <2>1. CASE code \in Code BY <2>1 DEF Code
  <2>2. CASE code = NOCODE BY <2>2 DEF NOCODE
  <2>. QED BY <2>1, <2>2
<1>. QED BY <1>1, Zenon DEF Modifiers

(* Every step keeps the types. *)
LEMMA KInvNext == KInv /\ [Next]_vars => KInv'
<1>. SUFFICES ASSUME KInv, [Next]_vars PROVE KInv'
  OBVIOUS
<1>. USE DEF KInv, TypeOK
<1>1. ASSUME NEW k \in Keys, Press(k) PROVE KInv'
  <2>1. held' \subseteq Keys BY <1>1 DEF Press
  <2>2. sent' \in 0 .. MAX_CODES BY <1>1, KeyboardAssumption DEF Press, Send
  <2>3. typed' \in Seq(Char) BY <1>1, CharOfOk DEF Press
  <2>4. wire' \in Seq(Code) BY <1>1 DEF Press, Send, Code
  <2>5. UNCHANGED <<SAFE_MODE, outbuf, full, irq, driver, caller>> BY <1>1 DEF Press, Send
  <2>. QED BY <2>1, <2>2, <2>3, <2>4, <2>5 DEF driver, caller
<1>2. ASSUME NEW k \in Keys, Release(k) PROVE KInv'
  <2>1. held' \subseteq Keys /\ typed' = typed BY <1>2 DEF Release
  <2>2. sent' \in 0 .. MAX_CODES BY <1>2, KeyboardAssumption DEF Release, Send
  <2>4. wire' \in Seq(Code) BY <1>2 DEF Release, Send, Code
  <2>5. UNCHANGED <<SAFE_MODE, outbuf, full, irq, driver, caller>> BY <1>2 DEF Release, Send
  <2>. QED BY <2>1, <2>2, <2>4, <2>5 DEF driver, caller
<1>3. CASE Fill
  <2>1. outbuf' \in Code /\ wire' \in Seq(Code) BY <1>3 DEF Fill
  <2>2. full' \in BOOLEAN /\ irq' \in BOOLEAN BY <1>3 DEF Fill
  <2>3. UNCHANGED <<user, driver, caller>> BY <1>3 DEF Fill
  <2>. QED BY <2>1, <2>2, <2>3 DEF user, driver, caller
<1>4. CASE keyboard_handler
  <2>1. UNCHANGED <<user, wire, outbuf, caller>> /\ irq' \in BOOLEAN
    BY <1>4 DEF keyboard_handler
  <2>2. CASE full
    <3>1. full' \in BOOLEAN /\ Modifiers(outbuf) BY <1>4, <2>2 DEF keyboard_handler
    <3>2. shift_pressed' \in BOOLEAN /\ ctrl_pressed' \in BOOLEAN BY <3>1, ModifiersOk
    <3>3. CASE KeyOf(outbuf) # NONE
      <4>1. last_key' \in Char /\ key_available' = TRUE
        BY <1>4, <2>2, <3>3, KeyOfOk DEF keyboard_handler
      <4>. QED BY <2>1, <3>1, <3>2, <4>1 DEF user, caller
    <3>4. CASE KeyOf(outbuf) = NONE
      <4>1. UNCHANGED <<last_key, key_available>> BY <1>4, <2>2, <3>4 DEF keyboard_handler
      <4>. QED BY <2>1, <3>1, <3>2, <4>1 DEF user, caller
    <3>. QED BY <3>3, <3>4
  <2>3. CASE ~full
    <3>1. UNCHANGED <<full, driver>> BY <1>4, <2>3 DEF keyboard_handler
    <3>. QED BY <2>1, <3>1 DEF user, caller, driver
  <2>. QED BY <2>2, <2>3
<1>5. CASE keyboard_getchar
  BY <1>5 DEF keyboard_getchar, user, ctl, driver
<1>6. CASE ReadStatus
  BY <1>6 DEF ReadStatus, user, ctl, driver
<1>7. CASE ReadData
  BY <1>7, ZenonT(40) DEF ReadData, user, driver
<1>8. CASE Process
  <2>1. UNCHANGED <<user, ctl, last_key, key_available, scancode, key>> /\ Modifiers(scancode)
    BY <1>8 DEF Process
  <2>2. shift_pressed' \in BOOLEAN /\ ctrl_pressed' \in BOOLEAN BY <2>1, ModifiersOk
  <2>3. got' \in Seq(Char) /\ pc' \in {"shell", "flag"}
    BY <1>8, KeyOfOk, SMTT(30) DEF Process, Return
  <2>. QED BY <2>1, <2>2, <2>3 DEF user, ctl
<1>9. CASE TestFlag
  BY <1>9 DEF TestFlag, user, ctl, driver
<1>10. CASE LoadKey
  BY <1>10 DEF LoadKey, user, ctl, driver
<1>11. CASE ClearFlag
  <2>1. got' \in Seq(Char) /\ pc' = "shell" BY <1>11 DEF ClearFlag, Return
  <2>2. key_available' = FALSE
        /\ UNCHANGED <<user, ctl, shift_pressed, ctrl_pressed, last_key, scancode, key>>
    BY <1>11 DEF ClearFlag
  <2>. QED BY <2>1, <2>2, ZenonT(40) DEF user, ctl
<1>12. CASE UNCHANGED vars
  BY <1>12 DEF vars, user, ctl, driver, caller
<1>. QED BY <1>1, <1>2, <1>3, <1>4, <1>5, <1>6, <1>7, <1>8, <1>9, <1>10, <1>11, <1>12 DEF Next

(* The driver starts so. *)
LEMMA KInvInit == Init => KInv
<1>. SUFFICES ASSUME Init PROVE KInv OBVIOUS
<1>1. SAFE_MODE \in BOOLEAN /\ sent \in 0 .. MAX_CODES BY KeyboardAssumption DEF Init
<1>2. /\ full \in BOOLEAN /\ irq \in BOOLEAN /\ shift_pressed \in BOOLEAN
      /\ ctrl_pressed \in BOOLEAN /\ key_available \in BOOLEAN /\ ~key_available
  BY DEF Init
<1>3. /\ held \subseteq Keys /\ typed \in Seq(Char) /\ wire \in Seq(Code) /\ got \in Seq(Char)
      /\ outbuf = NOCODE /\ scancode = NOCODE /\ last_key = NONE /\ key = NONE /\ pc = "shell"
  BY DEF Init
<1>. QED BY <1>1, <1>2, <1>3 DEF KInv, TypeOK

(* The driver, its caller and the controller keep their types whoever      *)
(* reads the ports and in whatever order: what keyboard_getchar returns is *)
(* always a character, never the 0 that last_key starts with.              *)
THEOREM KeyboardTypes == Spec => []TypeOK
<1>1. KInv => TypeOK BY DEF KInv
<1>. QED BY <1>1, KInvInit, KInvNext, PTL DEF Spec
-----------------------------------------------------------------------------
(* Sequences of scancodes *)

Codes == Code \cup {NOCODE}

Before(b, x, s) == IF b THEN <<x>> \o s ELSE s

(* A sequence with an element in front of it *)
LEMMA InFront ==
  ASSUME NEW S, NEW s \in Seq(S), NEW x \in S
  PROVE  /\ <<x>> \o s \in Seq(S) /\ <<x>> \o s # <<>>
         /\ Tail(<<x>> \o s) = s /\ (<<x>> \o s)[1] = x
         /\ \A e \in S : <<x>> \o Append(s, e) = Append(<<x>> \o s, e)
<1>1. <<x>> \in Seq(S) /\ Len(<<x>>) = 1 OBVIOUS
<1>2. /\ <<x>> \o s \in Seq(S) /\ Len(<<x>> \o s) = 1 + Len(s)
      /\ \A i \in 1 .. 1 + Len(s) : (<<x>> \o s)[i] = IF i <= 1 THEN <<x>>[i] ELSE s[i - 1]
  BY <1>1, ConcatProperties
<1>3. Len(s) \in Nat BY LenProperties
<1>. DEFINE c == <<x>> \o s
<1>4. c # <<>> /\ c[1] = x BY <1>1, <1>2, <1>3
<1>5. Tail(c) = s
  <2>. HIDE DEF c
  <2>1. /\ Tail(c) \in Seq(S) /\ Len(Tail(c)) = Len(c) - 1
        /\ \A i \in 1 .. Len(Tail(c)) : Tail(c)[i] = c[i + 1]
    BY <1>2, <1>4, HeadTailProperties DEF c
  <2>2. Len(Tail(c)) = Len(s) BY <1>2, <1>3, <2>1 DEF c
  <2>3. \A i \in 1 .. Len(s) : Tail(c)[i] = s[i]
    <3>. SUFFICES ASSUME NEW i \in 1 .. Len(s) PROVE c[i + 1] = s[i] BY <2>1, <2>2
    <3>1. i + 1 \in 1 .. 1 + Len(s) /\ ~(i + 1 <= 1) /\ (i + 1) - 1 = i BY <1>3
    <3>. QED BY <1>2, <3>1 DEF c
  <2>. QED BY <2>1, <2>2, <2>3, LenProperties
<1>6. ASSUME NEW e \in S PROVE <<x>> \o Append(s, e) = Append(<<x>> \o s, e)
  <2>1. Append(s, e) = s \o <<e>> /\ Append(<<x>> \o s, e) = (<<x>> \o s) \o <<e>>
    BY <1>2, AppendIsConcat
  <2>2. <<e>> \in Seq(S) OBVIOUS
  <2>. QED BY <1>1, <2>1, <2>2, ConcatAssociative
<1>. QED BY <1>2, <1>4, <1>5, <1>6

(* A sequence is its first element and the rest. *)
LEMMA HeadAndTail ==
  ASSUME NEW S, NEW s \in Seq(S), s # <<>>
  PROVE  <<Head(s)>> \o Tail(s) = s
<1>. DEFINE h == Head(s)
            r == Tail(s)
            c == <<h>> \o r
<1>1. /\ h \in S /\ r \in Seq(S) /\ Len(r) = Len(s) - 1 /\ Len(s) \in Nat /\ h = s[1]
      /\ \A i \in 1 .. Len(r) : r[i] = s[i + 1] /\ Len(r) \in Nat
  BY HeadTailProperties, LenProperties
<1>. HIDE DEF h, r
<1>2. Len(r) \in Nat BY <1>1, LenProperties
<1>3. <<h>> \in Seq(S) /\ Len(<<h>>) = 1 BY <1>1
<1>4. /\ c \in Seq(S) /\ Len(c) = 1 + Len(r)
      /\ \A i \in 1 .. 1 + Len(r) : c[i] = IF i <= 1 THEN <<h>>[i] ELSE r[i - 1]
  BY <1>1, <1>3, ConcatProperties
<1>. HIDE DEF c
<1>5. Len(c) = Len(s) BY <1>1, <1>2, <1>4
<1>6. ASSUME NEW i \in 1 .. Len(s) PROVE c[i] = s[i]
  <2>1. CASE i = 1 BY <1>1, <1>2, <1>4, <2>1
  <2>2. CASE i # 1
    <3>1. i - 1 \in 1 .. Len(r) /\ i \in 1 .. 1 + Len(r) /\ ~(i <= 1) /\ (i - 1) + 1 = i
      BY <1>1, <2>2
    <3>2. c[i] = r[i - 1] BY <1>4, <3>1
    <3>3. r[i - 1] = s[(i - 1) + 1] BY <1>1, <3>1
    <3>. QED BY <3>1, <3>2, <3>3
  <2>. QED BY <2>1, <2>2
<1>7. c = s BY <1>4, <1>5, <1>6, LenProperties
<1>. QED BY <1>7 DEF c, h, r
-----------------------------------------------------------------------------
(* The trace of the scancodes on their way *)

(* What a scancode does: the modifiers and the number of characters *)
After(m, code) ==
  [sh |-> IF code.key \in Shifts THEN code.down ELSE m.sh,
   ct |-> IF code.key \in Ctrls THEN code.down ELSE m.ct,
   n  |-> IF Presses(code) THEN m.n + 1 ELSE m.n]

(* What is typed with it, if the modifiers were u *)
Typing(chars, u, code) ==
  IF Presses(code) THEN Append(chars, CharOf(code.key, u.sh, u.ct)) ELSE chars

(* m gives the modifiers and the number of characters after each code of   *)
(* q, and the characters are those in chars.                               *)
IsTrace(q, m, chars) ==
  /\ m \in [0 .. Len(q) -> [sh : BOOLEAN, ct : BOOLEAN, n : 0 .. Len(chars)]]
  /\ \A i \in 1 .. Len(q) :
       /\ m[i] = After(m[i - 1], q[i])
       /\ Presses(q[i]) => chars[m[i].n] = CharOf(q[i].key, m[i - 1].sh, m[i - 1].ct)

(* The rest of a trace is a trace of the rest. *)
LEMMA TracePop ==
  ASSUME NEW q \in Seq(Codes), q # <<>>, NEW m, NEW chars, IsTrace(q, m, chars)
  PROVE  \E w : /\ IsTrace(Tail(q), w, chars)
                /\ w[0] = m[1] /\ w[Len(Tail(q))] = m[Len(q)]
<1>. DEFINE r == Tail(q)
            w == [i \in 0 .. Len(r) |-> m[i + 1]]
<1>1. /\ r \in Seq(Codes) /\ Len(r) = Len(q) - 1 /\ Len(q) \in Nat /\ Len(r) \in Nat
      /\ \A i \in 1 .. Len(r) : r[i] = q[i + 1]
  BY HeadTailProperties, LenProperties
<1>. HIDE DEF r
<1>2. \A i \in 0 .. Len(r) : i + 1 \in 0 .. Len(q) BY <1>1
<1>3. w \in [0 .. Len(r) -> [sh : BOOLEAN, ct : BOOLEAN, n : 0 .. Len(chars)]]
  BY <1>2 DEF IsTrace
<1>4. ASSUME NEW i \in 1 .. Len(r)
      PROVE  /\ w[i] = After(w[i - 1], r[i])
             /\ Presses(r[i]) => chars[w[i].n] = CharOf(r[i].key, w[i - 1].sh, w[i - 1].ct)
  <2>1. i + 1 \in 1 .. Len(q) /\ (i + 1) - 1 = i /\ i - 1 \in 0 .. Len(r) /\ (i - 1) + 1 = i
    BY <1>1
  <2>2. w[i] = m[i + 1] /\ w[i - 1] = m[i] /\ r[i] = q[i + 1] BY <1>1, <2>1
  <2>3. /\ m[i + 1] = After(m[i], q[i + 1])
        /\ Presses(q[i + 1]) => chars[m[i + 1].n] = CharOf(q[i + 1].key, m[i].sh, m[i].ct)
    BY <2>1 DEF IsTrace
  <2>. QED BY <2>2, <2>3
<1>5. w[0] = m[1] /\ w[Len(r)] = m[Len(q)] BY <1>1
<1>. HIDE DEF w
<1>. QED BY <1>3, <1>4, <1>5 DEF IsTrace, r

(* One code more, and its character typed, make a longer trace. *)
LEMMA TracePush ==
  ASSUME NEW q \in Seq(Codes), NEW m, NEW chars \in Seq(Char), IsTrace(q, m, chars),
         m[Len(q)].n = Len(chars), NEW code \in Codes
  PROVE  \E w : /\ IsTrace(Append(q, code), w, Typing(chars, m[Len(q)], code))
                /\ w[0] = m[0] /\ w[Len(Append(q, code))] = After(m[Len(q)], code)
<1>. DEFINE r == Append(q, code)
            L == Len(q)
            last == m[L]
            more == Typing(chars, last, code)
            e == After(last, code)
            w == [i \in 0 .. L + 1 |-> IF i = L + 1 THEN e ELSE m[i]]
<1>1. /\ L \in Nat /\ r \in Seq(Codes) /\ Len(r) = L + 1 /\ r[L + 1] = code
      /\ \A i \in 1 .. L : r[i] = q[i]
  BY AppendProperties, LenProperties
<1>0. /\ last.n = Len(chars)
      /\ more = IF Presses(code) THEN Append(chars, CharOf(code.key, last.sh, last.ct)) ELSE chars
  BY DEF Typing
<1>. HIDE DEF last, more
<1>2. /\ more \in Seq(Char) /\ Len(chars) \in Nat
      /\ Len(more) = IF Presses(code) THEN Len(chars) + 1 ELSE Len(chars)
      /\ \A i \in 1 .. Len(chars) : more[i] = chars[i]
      /\ Presses(code) => more[Len(chars) + 1] = CharOf(code.key, last.sh, last.ct)
  <2>1. Len(chars) \in Nat BY LenProperties
  <2>2. CASE Presses(code)
    <3>. DEFINE c == CharOf(code.key, last.sh, last.ct)
    <3>1. c \in Char BY <2>2, CharOfOk DEF Presses
    <3>. HIDE DEF c
    <3>2. more = Append(chars, c) BY <1>0, <2>2 DEF c
    <3>3. /\ more \in Seq(Char) /\ Len(more) = Len(chars) + 1
          /\ \A i \in 1 .. Len(chars) : more[i] = chars[i]
          /\ more[Len(chars) + 1] = c
      BY <3>1, <3>2, AppendProperties
    <3>. QED BY <2>1, <2>2, <3>3 DEF c
  <2>3. CASE ~Presses(code) BY <1>0, <2>1, <2>3
  <2>. QED BY <2>2, <2>3
<1>3. last \in [sh : BOOLEAN, ct : BOOLEAN, n : 0 .. Len(chars)] BY <1>1 DEF IsTrace, last, L
<1>4. code.down \in BOOLEAN
  <2>1. CASE code \in Code BY <2>1 DEF Code
  <2>2. CASE code = NOCODE BY <2>2 DEF NOCODE
  <2>. QED BY <2>1, <2>2 DEF Codes
<1>5. e \in [sh : BOOLEAN, ct : BOOLEAN, n : 0 .. Len(more)] /\ e.n = Len(more)
  BY <1>0, <1>2, <1>3, <1>4 DEF After
<1>. HIDE DEF e, r, L
<1>6. w \in [0 .. Len(r) -> [sh : BOOLEAN, ct : BOOLEAN, n : 0 .. Len(more)]]
  <2>1. \A i \in 0 .. L : m[i] \in [sh : BOOLEAN, ct : BOOLEAN, n : 0 .. Len(chars)]
    BY DEF IsTrace, L
  <2>2. Len(chars) <= Len(more) /\ Len(more) \in Nat BY <1>2
  <2>3. \A i \in 0 .. L : m[i] \in [sh : BOOLEAN, ct : BOOLEAN, n : 0 .. Len(more)]
    BY <2>1, <2>2, <1>2
  <2>4. \A i \in 0 .. L + 1 : w[i] \in [sh : BOOLEAN, ct : BOOLEAN, n : 0 .. Len(more)]
    BY <1>1, <1>5, <2>3
  <2>. QED BY <1>1, <2>4
<1>7. ASSUME NEW i \in 1 .. Len(r)
      PROVE  /\ w[i] = After(w[i - 1], r[i])
             /\ Presses(r[i]) => more[w[i].n] = CharOf(r[i].key, w[i - 1].sh, w[i - 1].ct)
  <2>1. CASE i = L + 1
    <3>1. w[i] = e /\ w[i - 1] = m[L] /\ r[i] = code /\ m[L] = last BY <1>1, <2>1 DEF L, last
    <3>2. Presses(code) => more[e.n] = CharOf(code.key, last.sh, last.ct)
      BY <1>2, <1>5
    <3>. QED BY <3>1, <3>2 DEF e
  <2>2. CASE i # L + 1
    <3>1. i \in 1 .. L /\ i - 1 \in 0 .. L BY <1>1, <2>2
    <3>2. w[i] = m[i] /\ w[i - 1] = m[i - 1] /\ r[i] = q[i] BY <1>1, <3>1
    <3>3. /\ m[i] = After(m[i - 1], q[i])
          /\ Presses(q[i]) => chars[m[i].n] = CharOf(q[i].key, m[i - 1].sh, m[i - 1].ct)
      BY <3>1 DEF IsTrace, L
    <3>4. Presses(q[i]) => m[i].n \in 1 .. Len(chars)
      <4>1. m[i - 1].n \in Nat /\ m[i].n \in 0 .. Len(chars)
        <5>1. m \in [0 .. L -> [sh : BOOLEAN, ct : BOOLEAN, n : 0 .. Len(chars)]]
          BY DEF IsTrace, L
        <5>2. i \in 0 .. L BY <1>1, <3>1
        <5>3. \A j \in 0 .. L : m[j].n \in 0 .. Len(chars) BY <5>1
        <5>4. m[i].n \in 0 .. Len(chars) /\ m[i - 1].n \in 0 .. Len(chars)
          BY <3>1, <5>2, <5>3
        <5>. QED BY <5>4, <1>2
      <4>2. Presses(q[i]) => m[i].n = m[i - 1].n + 1 BY <3>3 DEF After
      <4>. QED BY <4>1, <4>2, <1>2, SMTT(30)
    <3>. QED BY <3>2, <3>3, <3>4, <1>2
  <2>. QED BY <2>1, <2>2
<1>8. w[0] = m[0] /\ w[Len(r)] = e BY <1>1
<1>. HIDE DEF w
<1>. QED BY <1>6, <1>7, <1>8 DEF IsTrace, r, e, last, more, L
-----------------------------------------------------------------------------
(* The reliable channel *)

(* The codes on their way, the one keyboard_getchar has read included *)
Waiting == Before(pc = "process", scancode, Before(full, outbuf, wire))

DriverNow == [sh |-> shift_pressed, ct |-> ctrl_pressed, n |-> Len(got)]
UserNow   == [sh |-> held \cap Shifts # {}, ct |-> held \cap Ctrls # {}, n |-> Len(typed)]

Traced(q) == \E m : IsTrace(q, m, typed) /\ m[0] = DriverNow /\ m[Len(q)] = UserNow

(* Without interrupts only the loop reads the ports, and the codes on      *)
(* their way lead from what the driver knows to what the user did.         *)
SafeInv ==
  SAFE_MODE =>
    /\ ~key_available /\ pc \notin {"load", "clear"} /\ (pc = "data" => full)
    /\ Traced(Waiting)

(* One shift key and one Ctrl key in use: shift_pressed cannot count two. *)
OneOfEach == (\A j, k \in Shifts : j = k) /\ (\A j, k \in Ctrls : j = k)

(* The codes on their way are codes. *)
LEMMA WaitingOk ==
  ASSUME KInv
  PROVE  Waiting \in Seq(Codes) /\ wire \in Seq(Codes) /\ Before(full, outbuf, wire) \in Seq(Codes)
<1>1. wire \in Seq(Codes)
  <2>1. wire \in Seq(Code) /\ Code \subseteq Codes BY DEF KInv, TypeOK, Codes
  <2>. QED BY <2>1, SeqMonotonic
<1>2. outbuf \in Codes /\ scancode \in Codes BY DEF KInv, TypeOK, Codes
<1>3. Before(full, outbuf, wire) \in Seq(Codes) BY <1>1, <1>2, InFront DEF Before
<1>. QED BY <1>1, <1>2, <1>3, InFront DEF Before, Waiting

(* A step that moves no code and no character *)
LEMMA TracedKept ==
  ASSUME Traced(Waiting), Waiting' = Waiting,
         UNCHANGED <<held, typed, got, shift_pressed, ctrl_pressed>>
  PROVE  Traced(Waiting)'
<1>1. DriverNow' = DriverNow /\ UserNow' = UserNow BY DEF DriverNow, UserNow
<1>2. typed' = typed OBVIOUS
<1>. QED BY <1>1, <1>2 DEF Traced

(* The user sends a code: it is the last one on its way. *)
LEMMA TracedSend ==
  ASSUME KInv, Traced(Waiting), NEW k \in Keys, NEW down \in BOOLEAN, Send(k, down),
         NEW c, c = CharOf(k, held \cap Shifts # {}, held \cap Ctrls # {}),
         typed' = IF down /\ c # NONE THEN Append(typed, c) ELSE typed,
         (held' \cap Shifts # {}) = (IF k \in Shifts THEN down ELSE held \cap Shifts # {}),
         (held' \cap Ctrls # {}) = (IF k \in Ctrls THEN down ELSE held \cap Ctrls # {})
  PROVE  Traced(Waiting)'
<1>. DEFINE code == [key |-> k, down |-> down]
            q    == Waiting
<1>1. PICK m : IsTrace(q, m, typed) /\ m[0] = DriverNow /\ m[Len(q)] = UserNow BY DEF Traced
<1>2. code \in Codes /\ (Presses(code) <=> down /\ k \in Letters) /\ code.key = k
  BY DEF Codes, Code, Presses
<1>3. q \in Seq(Codes) BY WaitingOk
<1>4. typed \in Seq(Char) /\ typed' \in Seq(Char)
  BY CharOfOk DEF KInv, TypeOK
<1>5. /\ UserNow.n = Len(typed) /\ UserNow.sh = (held \cap Shifts # {})
      /\ UserNow.ct = (held \cap Ctrls # {})
  BY DEF UserNow
<1>. HIDE DEF code
<1>6. typed' = IF Presses(code) THEN Append(typed, CharOf(code.key, UserNow.sh, UserNow.ct))
               ELSE typed
  BY <1>2, <1>5, CharOfOk
<1>7. PICK w : /\ IsTrace(Append(q, code), w, typed')
               /\ w[0] = m[0] /\ w[Len(Append(q, code))] = After(UserNow, code)
  <2>1. typed' = Typing(typed, m[Len(q)], code) BY <1>1, <1>6 DEF Typing
  <2>2. m[Len(q)].n = Len(typed) BY <1>1, <1>5
  <2>. HIDE DEF q
  <2>3. \E w : /\ IsTrace(Append(q, code), w, Typing(typed, m[Len(q)], code))
               /\ w[0] = m[0] /\ w[Len(Append(q, code))] = After(m[Len(q)], code)
    BY <1>1, <1>2, <1>3, <1>4, <2>2, TracePush
  <2>. QED BY <1>1, <2>1, <2>3
<1>8. Waiting' = Append(q, code)
  <2>1. /\ wire' = Append(wire, code) /\ outbuf' = outbuf /\ full' = full /\ pc' = pc
        /\ scancode' = scancode
    BY DEF Send, code, caller
  <2>2. wire \in Seq(Codes) /\ outbuf \in Codes /\ scancode \in Codes
        /\ Before(full, outbuf, wire) \in Seq(Codes)
    BY WaitingOk DEF KInv, TypeOK, Codes
  <2>3. Before(full, outbuf, wire)' = Append(Before(full, outbuf, wire), code)
    BY <1>2, <2>1, <2>2, InFront DEF Before
  <2>. QED BY <1>2, <2>1, <2>2, <2>3, InFront, SMTT(30) DEF Waiting, Before
<1>9. Len(typed') = IF Presses(code) THEN UserNow.n + 1 ELSE UserNow.n
  <2>1. CASE Presses(code)
    <3>. DEFINE d == CharOf(code.key, UserNow.sh, UserNow.ct)
    <3>1. d \in Char BY <2>1, CharOfOk DEF Presses
    <3>. HIDE DEF d
    <3>2. typed' = Append(typed, d) BY <1>6, <2>1 DEF d
    <3>. QED BY <1>4, <1>5, <2>1, <3>1, <3>2, AppendProperties
  <2>2. CASE ~Presses(code) BY <1>5, <1>6, <2>2
  <2>. QED BY <2>1, <2>2
<1>10. UserNow' = After(UserNow, code)
  <2>. DEFINE sh == held \cap Shifts # {}
              ct == held \cap Ctrls # {}
  <2>1. UserNow = [sh |-> sh, ct |-> ct, n |-> Len(typed)]
        /\ UserNow' = [sh |-> sh', ct |-> ct', n |-> Len(typed')]
    BY DEF UserNow
  <2>2. sh' = (IF k \in Shifts THEN down ELSE sh) /\ ct' = (IF k \in Ctrls THEN down ELSE ct)
    OBVIOUS
  <2>3. code.key = k /\ code.down = down BY DEF code
  <2>. HIDE DEF sh, ct, code
  <2>. QED BY <1>9, <2>1, <2>2, <2>3 DEF After
<1>11. DriverNow' = DriverNow BY DEF Send, driver, caller, DriverNow
<1>. QED BY <1>1, <1>7, <1>8, <1>10, <1>11 DEF Traced

(* Keys pressed and released: the one code they send ends the trace. *)
LEMMA TracedUser ==
  ASSUME OneOfEach, KInv, Traced(Waiting), NEW k \in Keys, Press(k) \/ Release(k)
  PROVE  Traced(Waiting)'
<1>. DEFINE c == CharOf(k, held \cap Shifts # {}, held \cap Ctrls # {})
<1>1. CASE Press(k)
  <2>1. Send(k, TRUE) /\ typed' = IF TRUE /\ c # NONE THEN Append(typed, c) ELSE typed
    BY <1>1 DEF Press
  <2>2. held' = held \cup {k} BY <1>1 DEF Press
  <2>3. /\ (held' \cap Shifts # {}) = (IF k \in Shifts THEN TRUE ELSE held \cap Shifts # {})
        /\ (held' \cap Ctrls # {}) = (IF k \in Ctrls THEN TRUE ELSE held \cap Ctrls # {})
    BY <2>2
  <2>. HIDE DEF c
  <2>. QED BY <2>1, <2>3, TracedSend DEF c
<1>2. CASE Release(k)
  <2>1. Send(k, FALSE) /\ typed' = IF FALSE /\ c # NONE THEN Append(typed, c) ELSE typed
    BY <1>2 DEF Release
  <2>2. held' = held \ {k} /\ k \in held BY <1>2 DEF Release
  <2>3. /\ (held' \cap Shifts # {}) = (IF k \in Shifts THEN FALSE ELSE held \cap Shifts # {})
        /\ (held' \cap Ctrls # {}) = (IF k \in Ctrls THEN FALSE ELSE held \cap Ctrls # {})
    BY <2>2 DEF OneOfEach
  <2>. HIDE DEF c
  <2>. QED BY <2>1, <2>3, TracedSend DEF c
<1>. QED BY <1>1, <1>2

(* The controller and the loop pass a code on; none is lost or overtaken. *)
LEMMA WaitingPassed ==
  ASSUME KInv, Fill \/ (ReadData /\ full)
  PROVE  Waiting' = Waiting
<1>0. wire \in Seq(Codes) /\ outbuf \in Codes BY WaitingOk DEF KInv, TypeOK, Codes
<1>1. CASE Fill
  <2>1. /\ ~full /\ full' /\ wire # <<>> /\ outbuf' = Head(wire) /\ wire' = Tail(wire)
        /\ pc' = pc /\ scancode' = scancode
    BY <1>1 DEF Fill, caller
  <2>2. <<Head(wire)>> \o Tail(wire) = wire BY <1>0, <2>1, HeadAndTail
  <2>3. Before(full', outbuf', wire') = Before(full, outbuf, wire) BY <2>1, <2>2 DEF Before
  <2>. QED BY <2>1, <2>3 DEF Waiting, Before
<1>2. CASE ReadData /\ full
  <2>1. /\ pc = "data" /\ pc' = "process" /\ full /\ full' = FALSE
        /\ scancode' = outbuf /\ wire' = wire
    BY <1>2 DEF ReadData
  <2>. QED BY <2>1 DEF Waiting, Before
<1>. QED BY <1>1, <1>2

(* process_scancode takes the first code on its way; if that is the press  *)
(* of a letter, its character is the next of those typed.                  *)
LEMMA TracedProcess ==
  ASSUME KInv, Traced(Waiting), Process
  PROVE  /\ Traced(Waiting)'
         /\ Presses(scancode) => /\ Len(got) < Len(typed)
                                 /\ KeyOf(scancode) = typed[Len(got) + 1]
<1>. DEFINE q == Waiting
            r == Before(full, outbuf, wire)
<1>1. PICK m : IsTrace(q, m, typed) /\ m[0] = DriverNow /\ m[Len(q)] = UserNow BY DEF Traced
<1>2. r \in Seq(Codes) /\ scancode \in Codes BY WaitingOk DEF KInv, TypeOK, Codes
<1>3. q = <<scancode>> \o r BY DEF Process, Waiting, Before
<1>4. Waiting' = r
  BY DEF Process, Return, Waiting, Before, ctl
<1>5. q \in Seq(Codes) /\ q # <<>> /\ Tail(q) = r /\ q[1] = scancode
  <2>. HIDE DEF q, r
  <2>. QED BY <1>2, <1>3, InFront
<1>. HIDE DEF q, r
<1>6. Len(q) \in Nat /\ Len(q) >= 1 BY <1>5, LenProperties, EmptySeq
<1>7. PICK w : IsTrace(r, w, typed) /\ w[0] = m[1] /\ w[Len(r)] = m[Len(q)]
  BY <1>1, <1>5, TracePop, ZenonT(40)
<1>8. /\ m[1] = After(DriverNow, scancode)
      /\ Presses(scancode) =>
           typed[m[1].n] = CharOf(scancode.key, DriverNow.sh, DriverNow.ct)
  <2>1. 1 \in 1 .. Len(q) /\ 1 - 1 = 0 BY <1>6
  <2>2. /\ m[1] = After(m[1 - 1], q[1])
        /\ Presses(q[1]) => typed[m[1].n] = CharOf(q[1].key, m[1 - 1].sh, m[1 - 1].ct)
    BY <1>1, <2>1 DEF IsTrace
  <2>. QED BY <1>1, <1>5, <2>1, <2>2
<1>9. m[1].n \in 0 .. Len(typed) /\ Len(typed) \in Nat /\ Len(got) \in Nat
  <2>1. 1 \in 0 .. Len(q) BY <1>6
  <2>2. typed \in Seq(Char) /\ got \in Seq(Char) BY DEF KInv, TypeOK
  <2>. QED BY <1>1, <2>1, <2>2, LenProperties DEF IsTrace
<1>10. Presses(scancode) => m[1].n = Len(got) + 1 BY <1>8 DEF After, DriverNow
<1>11. Presses(scancode) => KeyOf(scancode) = typed[Len(got) + 1]
  BY <1>8, <1>10 DEF KeyOf, DriverNow, Presses
<1>12. DriverNow' = After(DriverNow, scancode)
  <2>1. Len(got') = IF Presses(scancode) THEN Len(got) + 1 ELSE Len(got)
    <3>1. got \in Seq(Char) BY DEF KInv, TypeOK
    <3>2. CASE Presses(scancode)
      <4>1. KeyOf(scancode) \in Char /\ got' = Append(got, KeyOf(scancode))
        BY <3>2, KeyOfOk DEF Process, Return
      <4>. QED BY <3>1, <3>2, <4>1, AppendProperties
    <3>3. CASE ~Presses(scancode) BY <3>3, KeyOfOk DEF Process
    <3>. QED BY <3>2, <3>3
  <2>2. Modifiers(scancode) BY DEF Process
  <2>. QED BY <2>1, <2>2 DEF DriverNow, After, Modifiers
<1>13. UserNow' = UserNow /\ typed' = typed BY DEF Process, user, UserNow
<1>14. Traced(Waiting)'
  BY <1>1, <1>4, <1>7, <1>8, <1>12, <1>13 DEF Traced
<1>. QED BY <1>9, <1>10, <1>11, <1>14

(* Every step keeps the trace. *)
LEMMA SafeInvNext ==
  ASSUME OneOfEach
  PROVE  KInv /\ SafeInv /\ [Next]_vars => SafeInv'
<1>. SUFFICES ASSUME KInv, SafeInv, [Next]_vars, SAFE_MODE' PROVE SafeInv'
  BY DEF SafeInv
<1>0. SAFE_MODE
  BY DEF Next, Press, Release, Send, Fill, keyboard_handler, keyboard_getchar, ReadStatus,
         ReadData, Process, TestFlag, LoadKey, ClearFlag, user, vars
<1>00. ~key_available /\ pc \notin {"load", "clear"} /\ (pc = "data" => full) /\ Traced(Waiting)
  BY <1>0 DEF SafeInv
<1>. DEFINE Quiet == ~key_available /\ pc \notin {"load", "clear"} /\ (pc = "data" => full)
<1>. SUFFICES Quiet' /\ Traced(Waiting)' BY DEF SafeInv
<1>1. ASSUME NEW k \in Keys, Press(k) \/ Release(k) PROVE Quiet' /\ Traced(Waiting)'
  <2>1. UNCHANGED <<key_available, pc, full>> BY <1>1 DEF Press, Release, Send, driver, caller
  <2>2. Quiet' BY <1>00, <2>1
  <2>. QED BY <1>00, <1>1, <2>2, TracedUser
<1>3. CASE Fill
  <2>1. Quiet' BY <1>00, <1>3 DEF Fill, driver, caller
  <2>2. UNCHANGED <<held, typed, got, shift_pressed, ctrl_pressed>>
    BY <1>3 DEF Fill, user, driver, caller
  <2>. QED BY <1>00, <1>3, <2>1, <2>2, WaitingPassed, TracedKept
<1>5. CASE keyboard_getchar \/ ReadStatus \/ TestFlag
  <2>1. Quiet' BY <1>00, <1>5 DEF keyboard_getchar, ReadStatus, TestFlag, ctl, driver
  <2>2. UNCHANGED <<held, typed, got, shift_pressed, ctrl_pressed>>
    BY <1>5 DEF keyboard_getchar, ReadStatus, TestFlag, user, driver
  <2>3. /\ pc # "process" /\ pc' # "process" /\ UNCHANGED <<wire, outbuf, full>>
    BY <1>5 DEF keyboard_getchar, ReadStatus, TestFlag, ctl
  <2>4. Waiting' = Waiting BY <2>3 DEF Waiting, Before
  <2>. QED BY <1>00, <2>1, <2>2, <2>4, TracedKept
<1>7. CASE ReadData
  <2>1. full BY <1>00, <1>7 DEF ReadData
  <2>2. Quiet' BY <1>00, <1>7 DEF ReadData, driver
  <2>3. UNCHANGED <<held, typed, got, shift_pressed, ctrl_pressed>>
    BY <1>7 DEF ReadData, user, driver
  <2>. QED BY <1>00, <1>7, <2>1, <2>2, <2>3, WaitingPassed, TracedKept
<1>8. CASE Process
  <2>1. Quiet' BY <1>00, <1>8 DEF Process, Return, ctl
  <2>. QED BY <1>00, <1>8, <2>1, TracedProcess
<1>9. CASE UNCHANGED vars
  <2>1. /\ UNCHANGED <<held, typed, got, shift_pressed, ctrl_pressed>>
        /\ UNCHANGED <<key_available, pc, scancode, full, outbuf, wire>>
    BY <1>9 DEF vars, user, ctl, driver, caller
  <2>2. Waiting' = Waiting BY <2>1 DEF Waiting, Before
  <2>. QED BY <1>00, <2>1, <2>2, TracedKept
<1>10. ~keyboard_handler /\ ~LoadKey /\ ~ClearFlag
  BY <1>0, <1>00 DEF keyboard_handler, LoadKey, ClearFlag
<1>. QED BY <1>1, <1>3, <1>5, <1>7, <1>8, <1>9, <1>10 DEF Next

(* At the start nothing is on its way and nothing has been typed. *)
LEMMA SafeInvInit == Init => SafeInv
<1>. SUFFICES ASSUME Init PROVE SafeInv OBVIOUS
<1>1. Waiting = <<>> /\ Len(Waiting) = 0 BY DEF Init, Waiting, Before
<1>2. DriverNow = [sh |-> FALSE, ct |-> FALSE, n |-> 0] /\ UserNow = DriverNow /\ typed = <<>>
  BY DEF Init, DriverNow, UserNow
<1>. DEFINE m == [i \in 0 .. 0 |-> DriverNow]
<1>3. IsTrace(<<>>, m, <<>>) /\ m[0] = DriverNow /\ m[Len(<<>>)] = UserNow
  BY <1>2 DEF IsTrace
<1>4. Traced(Waiting) BY <1>1, <1>2, <1>3 DEF Traced
<1>. QED BY <1>4 DEF SafeInv, Init

(* A step of the driver is a step of the channel. *)
LEMMA ChannelStep ==
  ASSUME KInv, SafeInv, [Next]_vars
  PROVE  [KC!Next]_(KC!vars)
<1>. SUFFICES ASSUME ~UNCHANGED <<SAFE_MODE, typed, got>> PROVE KC!Next
  BY DEF KC!vars
<1>1. ASSUME NEW k \in Keys, Press(k) \/ Release(k) PROVE KC!Type
  <2>1. UNCHANGED <<SAFE_MODE, got>> BY <1>1 DEF Press, Release, Send, caller
  <2>2. typed' # typed /\ Press(k) BY <1>1, <2>1 DEF Release
  <2>. DEFINE c == CharOf(k, held \cap Shifts # {}, held \cap Ctrls # {})
  <2>3. typed' = Append(typed, c) /\ c # NONE BY <2>2 DEF Press
  <2>4. c \in Char BY <2>3, CharOfOk
  <2>. HIDE DEF c
  <2>. QED BY <2>1, <2>3, <2>4 DEF KC!Type
<1>2. CASE Process
  <2>1. UNCHANGED <<SAFE_MODE, typed>> BY <1>2 DEF Process, user
  <2>2. got' # got BY <2>1
  <2>3. got' = Append(got, KeyOf(scancode)) /\ KeyOf(scancode) # NONE
    BY <1>2, <2>2 DEF Process, Return
  <2>4. Presses(scancode) /\ KeyOf(scancode) \in Char BY <2>3, KeyOfOk
  <2>5. CASE SAFE_MODE
    <3>1. Len(got) < Len(typed) /\ KeyOf(scancode) = typed[Len(got) + 1]
      BY <1>2, <2>4, <2>5, TracedProcess DEF SafeInv
    <3>. QED BY <2>1, <2>3, <2>5, <3>1 DEF KC!Next, KC!Deliver
  <2>6. CASE ~SAFE_MODE BY <2>1, <2>3, <2>4, <2>6 DEF KC!Next, KC!Garble
  <2>. QED BY <2>5, <2>6
<1>3. CASE ClearFlag
  <2>1. ~SAFE_MODE /\ key \in Char BY <1>3 DEF ClearFlag, SafeInv, KInv
  <2>2. UNCHANGED <<SAFE_MODE, typed>> /\ got' = Append(got, key)
    BY <1>3 DEF ClearFlag, Return, user
  <2>. QED BY <2>1, <2>2 DEF KC!Next, KC!Garble
<1>4. ~Fill /\ ~keyboard_handler /\ ~keyboard_getchar /\ ~ReadStatus /\ ~ReadData
      /\ ~TestFlag /\ ~LoadKey /\ ~UNCHANGED vars
  BY DEF Fill, keyboard_handler, keyboard_getchar, ReadStatus, ReadData, TestFlag, LoadKey,
         vars, user, caller
<1>. QED BY <1>1, <1>2, <1>3, <1>4 DEF Next, KC!Next

(* The safety part of ReceivesWhatIsTyped: in SAFE_MODE keyboard_getchar   *)
(* returns the characters typed, in order, each once and with the          *)
(* modifiers that were held at its press, for any number of codes on their *)
(* way.  It needs one key per modifier: with both shift keys down the      *)
(* release of one clears shift_pressed.                                    *)
THEOREM KeyboardIsChannel ==
  ASSUME OneOfEach
  PROVE  Spec => KC!Safety
<1>1. Init => KC!Init BY KeyboardAssumption DEF Init, KC!Init
<1>2. KInv /\ SafeInv /\ [Next]_vars => [KC!Next]_(KC!vars) BY ChannelStep
<1>3. KInv /\ SafeInv /\ [Next]_vars => SafeInv' BY SafeInvNext
<1>. QED BY <1>1, <1>2, <1>3, KInvInit, KInvNext, SafeInvInit, PTL DEF Spec, KC!Safety
-----------------------------------------------------------------------------
(* How often a key comes out *)

IsPress(k, code) == code.down /\ code.key = k

(* c counts the presses of k up to each code of q, the last count being n. *)
IsCount(k, q, c, n) ==
  /\ c \in [0 .. Len(q) -> 0 .. n] /\ c[Len(q)] = n
  /\ \A i \in 1 .. Len(q) : c[i] = c[i - 1] + Bit(IsPress(k, q[i]))

(* How often k may still come out of what the driver and the controller    *)
(* hold: a byte in the buffer can be read by the handler and by the loop;  *)
(* one that has been read, once more by a loop that saw its status bit.    *)
InBuffer(k)  == IF IsPress(k, outbuf) THEN (IF full THEN 2 ELSE Bit(pc = "data")) ELSE 0
InLoop(k)    == Bit(pc = "process" /\ IsPress(k, scancode))
InKey(k)     == Bit(pc = "clear" /\ key.key = k)
InLastKey(k) == Bit(pc # "clear" /\ key_available /\ last_key.key = k)
Owed(k) == InBuffer(k) + InLoop(k) + InKey(k) + InLastKey(k)

(* What came out of k and what may still come out of it is at most twice   *)
(* the presses that have left the wire.                                    *)
Counted(k) ==
  \E c : /\ IsCount(k, wire, c, Times(k, typed))
         /\ Times(k, got) + Owed(k) <= 2 * c[0]

CountInv == \A k \in Letters : Counted(k)

(* A character more is one more of its key. *)
LEMMA TimesAppend ==
  ASSUME NEW S, NEW s \in Seq(S), NEW e \in S, NEW k
  PROVE  /\ Times(k, s) \in Nat
         /\ Times(k, Append(s, e)) = Times(k, s) + Bit(e.key = k)
<1>. DEFINE r == Append(s, e)
            L == Len(s)
            A == {n \in DOMAIN s : s[n].key = k}
            B == {n \in DOMAIN r : r[n].key = k}
<1>1. /\ L \in Nat /\ DOMAIN s = 1 .. L /\ DOMAIN r = 1 .. L + 1
      /\ r[L + 1] = e /\ \A i \in 1 .. L : r[i] = s[i]
  BY AppendProperties, LenProperties
<1>2. IsFiniteSet(A) /\ Cardinality(A) \in Nat
  <2>1. IsFiniteSet(1 .. L) BY <1>1, FS_Interval
  <2>2. A \subseteq 1 .. L BY <1>1
  <2>. QED BY <2>1, <2>2, FS_Subset, FS_CardinalityType
<1>3. CASE e.key = k
  <2>1. B = A \cup {L + 1} /\ L + 1 \notin A
    <3>. HIDE DEF r, L
    <3>. QED BY <1>1, <1>3
  <2>2. Cardinality(B) = Cardinality(A) + 1
    <3>. HIDE DEF A, B
    <3>. QED BY <1>2, <2>1, FS_AddElement
  <2>. QED BY <1>2, <1>3, <2>2 DEF Times, Bit
<1>4. CASE e.key # k
  <2>1. B = A
    <3>. HIDE DEF r, L
    <3>. QED BY <1>1, <1>4
  <2>2. Times(k, s) = Cardinality(A) /\ Times(k, r) = Cardinality(B) BY DEF Times
  <2>. HIDE DEF A, B, r
  <2>3. Bit(e.key = k) = 0 BY <1>4 DEF Bit
  <2>. QED BY <1>2, <2>1, <2>2, <2>3 DEF r
<1>. QED BY <1>3, <1>4

(* The counts of the rest of a sequence *)
LEMMA CountPop ==
  ASSUME NEW q \in Seq(Codes), q # <<>>, NEW k, NEW n \in Nat, NEW c, IsCount(k, q, c, n)
  PROVE  \E w : IsCount(k, Tail(q), w, n) /\ w[0] = c[0] + Bit(IsPress(k, Head(q)))
<1>. DEFINE r == Tail(q)
            w == [i \in 0 .. Len(r) |-> c[i + 1]]
<1>1. /\ Len(r) = Len(q) - 1 /\ Len(q) \in Nat /\ Len(r) \in Nat /\ Head(q) = q[1]
      /\ \A i \in 1 .. Len(r) : r[i] = q[i + 1]
  BY HeadTailProperties, LenProperties
<1>. HIDE DEF r
<1>2. \A i \in 0 .. Len(r) : i + 1 \in 0 .. Len(q) BY <1>1
<1>3. w \in [0 .. Len(r) -> 0 .. n] BY <1>2 DEF IsCount
<1>4. ASSUME NEW i \in 1 .. Len(r) PROVE w[i] = w[i - 1] + Bit(IsPress(k, r[i]))
  <2>1. i + 1 \in 1 .. Len(q) /\ (i + 1) - 1 = i /\ i - 1 \in 0 .. Len(r) /\ (i - 1) + 1 = i
    BY <1>1
  <2>2. w[i] = c[i + 1] /\ w[i - 1] = c[i] /\ r[i] = q[i + 1] BY <1>1, <2>1
  <2>3. c[i + 1] = c[i] + Bit(IsPress(k, q[i + 1])) BY <2>1 DEF IsCount
  <2>. QED BY <2>2, <2>3
<1>5. w[0] = c[1] /\ w[Len(r)] = c[Len(q)] BY <1>1
<1>6. c[1] = c[0] + Bit(IsPress(k, Head(q)))
  <2>1. 1 \in 1 .. Len(q) /\ 1 - 1 = 0 BY <1>1
  <2>2. c[1] = c[1 - 1] + Bit(IsPress(k, q[1])) BY <2>1 DEF IsCount
  <2>. QED BY <1>1, <2>1, <2>2
<1>. HIDE DEF w
<1>. QED BY <1>3, <1>4, <1>5, <1>6 DEF IsCount, r

(* The counts with one code more *)
LEMMA CountPush ==
  ASSUME NEW q \in Seq(Codes), NEW code \in Codes, NEW k, NEW n \in Nat, NEW c,
         IsCount(k, q, c, n)
  PROVE  \E w : IsCount(k, Append(q, code), w, n + Bit(IsPress(k, code))) /\ w[0] = c[0]
<1>. DEFINE r == Append(q, code)
            L == Len(q)
            e == n + Bit(IsPress(k, code))
            w == [i \in 0 .. L + 1 |-> IF i = L + 1 THEN e ELSE c[i]]
<1>1. /\ L \in Nat /\ Len(r) = L + 1 /\ r[L + 1] = code
      /\ \A i \in 1 .. L : r[i] = q[i]
  BY AppendProperties, LenProperties
<1>2. e \in Nat /\ n <= e BY DEF Bit
<1>3. c \in [0 .. L -> 0 .. n] /\ c[L] = n BY DEF IsCount
<1>4. e = c[L] + Bit(IsPress(k, code)) BY <1>3
<1>. HIDE DEF e, r, L
<1>5. w \in [0 .. L + 1 -> 0 .. e]
  <2>1. \A i \in 0 .. L : c[i] \in 0 .. e BY <1>2, <1>3
  <2>2. \A i \in 0 .. L + 1 : w[i] \in 0 .. e BY <1>1, <1>2, <2>1
  <2>. QED BY <2>2
<1>6. ASSUME NEW i \in 1 .. Len(r) PROVE w[i] = w[i - 1] + Bit(IsPress(k, r[i]))
  <2>1. CASE i = L + 1
    <3>1. w[i] = e /\ w[i - 1] = c[L] /\ r[i] = code BY <1>1, <2>1
    <3>. QED BY <3>1, <1>4
  <2>2. CASE i # L + 1
    <3>1. i \in 1 .. L /\ i - 1 \in 0 .. L BY <1>1, <2>2
    <3>2. w[i] = c[i] /\ w[i - 1] = c[i - 1] /\ r[i] = q[i] BY <1>1, <3>1
    <3>3. c[i] = c[i - 1] + Bit(IsPress(k, q[i])) BY <3>1 DEF IsCount, L
    <3>. QED BY <3>2, <3>3
  <2>. QED BY <2>1, <2>2
<1>7. w[0] = c[0] /\ w[Len(r)] = e BY <1>1
<1>. HIDE DEF w
<1>. QED BY <1>1, <1>5, <1>6, <1>7 DEF IsCount, r, e

(* Debts are natural numbers. *)
LEMMA OwedNat ==
  ASSUME NEW k
  PROVE  /\ InBuffer(k) \in 0 .. 2 /\ InLoop(k) \in 0 .. 1
         /\ InKey(k) \in 0 .. 1 /\ InLastKey(k) \in 0 .. 1
  BY DEF InBuffer, InLoop, InKey, InLastKey, Bit

(* Characters received of a key *)
LEMMA TimesNat ==
  ASSUME KInv, NEW k
  PROVE  Times(k, got) \in Nat /\ Times(k, typed) \in Nat
<1>1. got \in Seq(Char) /\ typed \in Seq(Char) BY DEF KInv, TypeOK
<1>2. \A e \in Char : Times(k, got) \in Nat /\ Times(k, typed) \in Nat BY <1>1, TimesAppend
<1>3. CASE Char = {}
  <2>1. got = <<>> /\ typed = <<>> BY <1>1, <1>3, EmptySeq, LenProperties
  <2>2. {n \in DOMAIN <<>> : <<>>[n].key = k} = {} OBVIOUS
  <2>. QED BY <2>1, <2>2, FS_EmptySet DEF Times
<1>. QED BY <1>2, <1>3

(* A step that takes nothing off the wire and owes no more than before *)
LEMMA CountedKept ==
  ASSUME KInv, NEW k, Counted(k), wire' = wire, typed' = typed,
         Times(k, got') \in Nat,
         Times(k, got') + Owed(k)' <= Times(k, got) + Owed(k)
  PROVE  Counted(k)'
<1>1. PICK c : IsCount(k, wire, c, Times(k, typed)) /\ Times(k, got) + Owed(k) <= 2 * c[0]
  BY DEF Counted
<1>2. c[0] \in Nat
  <2>1. 0 \in 0 .. Len(wire) /\ Times(k, typed) \in Nat
    BY TimesNat, LenProperties DEF KInv, TypeOK
  <2>. QED BY <1>1, <2>1 DEF IsCount
<1>3. Times(k, got) \in Nat /\ Owed(k) \in Nat /\ Owed(k)' \in Nat
  <2>1. Owed(k) \in Nat BY OwedNat DEF Owed
  <2>2. Owed(k)' \in Nat
    BY DEF Owed, InBuffer, InLoop, InKey, InLastKey, Bit
  <2>. QED BY <2>1, <2>2, TimesNat
<1>4. Times(k, got') + Owed(k)' <= 2 * c[0]
  <2>. DEFINE a == Times(k, got')
              b == Times(k, got)
              o == Owed(k)
              p == Owed(k)'
              d == c[0]
  <2>1. a \in Nat /\ b \in Nat /\ o \in Nat /\ p \in Nat /\ d \in Nat
        /\ a + p <= b + o /\ b + o <= 2 * d
    BY <1>1, <1>2, <1>3
  <2>. HIDE DEF a, b, o, p, d
  <2>2. a + p <= 2 * d BY <2>1
  <2>. QED BY <2>2 DEF a, p, d
<1>. QED BY <1>1, <1>4 DEF Counted

(* The user adds a code to the wire and, for a letter, a character. *)
LEMMA CountedUser ==
  ASSUME KInv, NEW k \in Letters, Counted(k), NEW j \in Keys, Press(j) \/ Release(j)
  PROVE  Counted(k)'
<1>1. PICK c : IsCount(k, wire, c, Times(k, typed)) /\ Times(k, got) + Owed(k) <= 2 * c[0]
  BY DEF Counted
<1>2. wire \in Seq(Codes) /\ Times(k, typed) \in Nat BY WaitingOk, TimesNat
<1>3. PICK code \in Codes : /\ wire' = Append(wire, code)
                            /\ Times(k, typed') = Times(k, typed) + Bit(IsPress(k, code))
  <2>1. CASE Press(j)
    <3>. DEFINE code == [key |-> j, down |-> TRUE]
                d == CharOf(j, held \cap Shifts # {}, held \cap Ctrls # {})
    <3>1. /\ wire' = Append(wire, code) /\ code \in Codes
          /\ typed' = IF d = NONE THEN typed ELSE Append(typed, d)
      BY <2>1 DEF Press, Send, Codes, Code
    <3>2. (d # NONE <=> j \in Letters) /\ (j \in Letters => d \in Char /\ d.key = j)
      BY CharOfOk
    <3>3. Bit(IsPress(k, code)) = Bit(j = k) BY DEF IsPress
    <3>. HIDE DEF d, code
    <3>4. CASE j \in Letters
      <4>1. typed' = Append(typed, d) /\ d \in Char /\ d.key = j BY <3>1, <3>2, <3>4
      <4>2. Times(k, typed') = Times(k, typed) + Bit(d.key = k)
        BY <4>1, TimesAppend DEF KInv, TypeOK
      <4>. QED BY <3>1, <3>3, <4>1, <4>2
    <3>5. CASE j \notin Letters
      <4>1. typed' = typed BY <3>1, <3>2, <3>5
      <4>2. Bit(j = k) = 0 BY <3>5 DEF Bit
      <4>. QED BY <1>2, <3>1, <3>3, <4>1, <4>2
    <3>. QED BY <3>4, <3>5
  <2>2. CASE Release(j)
    <3>. DEFINE code == [key |-> j, down |-> FALSE]
    <3>1. wire' = Append(wire, code) /\ code \in Codes /\ typed' = typed
      BY <2>2 DEF Release, Send, Codes, Code
    <3>2. Bit(IsPress(k, code)) = 0 BY DEF IsPress, Bit
    <3>. HIDE DEF code
    <3>. QED BY <1>2, <3>1, <3>2
  <2>. QED BY <2>1, <2>2
<1>4. PICK w : IsCount(k, Append(wire, code), w, Times(k, typed) + Bit(IsPress(k, code)))
               /\ w[0] = c[0]
  <2>. DEFINE n == Times(k, typed)
  <2>. HIDE DEF n
  <2>1. n \in Nat /\ IsCount(k, wire, c, n) BY <1>1, <1>2 DEF n
  <2>2. \E w : IsCount(k, Append(wire, code), w, n + Bit(IsPress(k, code))) /\ w[0] = c[0]
    BY <1>2, <2>1, CountPush
  <2>. QED BY <2>2 DEF n
<1>5. got' = got /\ Owed(k)' = Owed(k)
  <2>1. UNCHANGED <<got, outbuf, full, pc, scancode, key, key_available, last_key>>
    BY DEF Press, Release, Send, driver, caller
  <2>. QED BY <2>1 DEF Owed, InBuffer, InLoop, InKey, InLastKey
<1>. QED BY <1>1, <1>3, <1>4, <1>5 DEF Counted

(* The controller takes a code off the wire: the buffer owes two for it. *)
LEMMA CountedFill ==
  ASSUME KInv, NEW k \in Letters, Counted(k), Fill
  PROVE  Counted(k)'
<1>1. PICK c : IsCount(k, wire, c, Times(k, typed)) /\ Times(k, got) + Owed(k) <= 2 * c[0]
  BY DEF Counted
<1>2. wire \in Seq(Codes) /\ Times(k, typed) \in Nat /\ Times(k, got) \in Nat
  BY WaitingOk, TimesNat
<1>3. /\ wire # <<>> /\ wire' = Tail(wire) /\ outbuf' = Head(wire) /\ full' = TRUE
      /\ UNCHANGED <<typed, got, pc, scancode, key, key_available, last_key>>
  BY DEF Fill, user, driver, caller
<1>4. PICK w : /\ IsCount(k, Tail(wire), w, Times(k, typed))
               /\ w[0] = c[0] + Bit(IsPress(k, Head(wire)))
  <2>. DEFINE n == Times(k, typed)
  <2>. HIDE DEF n
  <2>1. n \in Nat /\ IsCount(k, wire, c, n) BY <1>1, <1>2 DEF n
  <2>2. \E w : IsCount(k, Tail(wire), w, n) /\ w[0] = c[0] + Bit(IsPress(k, Head(wire)))
    BY <1>2, <1>3, <2>1, CountPop
  <2>. QED BY <2>2 DEF n
<1>5. c[0] \in Nat
  <2>1. 0 \in 0 .. Len(wire) BY <1>2, LenProperties
  <2>. QED BY <1>1, <1>2, <2>1 DEF IsCount
<1>6. InBuffer(k)' = 2 * Bit(IsPress(k, Head(wire))) BY <1>3 DEF InBuffer, Bit
<1>7. InLoop(k)' = InLoop(k) /\ InKey(k)' = InKey(k) /\ InLastKey(k)' = InLastKey(k)
  BY <1>3 DEF InLoop, InKey, InLastKey
<1>8. Times(k, got) + Owed(k)' <= 2 * w[0]
  <2>. DEFINE g == Times(k, got)
              b == Bit(IsPress(k, Head(wire)))
              x == InBuffer(k)
              y == InLoop(k) + InKey(k) + InLastKey(k)
              d == c[0]
  <2>1. y \in Nat /\ x \in Nat BY OwedNat
  <2>2. Owed(k) = x + y /\ Owed(k)' = 2 * b + y
    <3>. DEFINE l == InLoop(k)
                h == InKey(k)
                z == InLastKey(k)
    <3>1. Owed(k) = x + l + h + z /\ Owed(k)' = 2 * b + l + h + z BY <1>6, <1>7 DEF Owed
    <3>2. x \in Nat /\ b \in Nat /\ l \in Nat /\ h \in Nat /\ z \in Nat /\ y = l + h + z
      BY OwedNat DEF Bit
    <3>. HIDE DEF x, b, l, h, z, y
    <3>. QED BY <3>1, <3>2
  <2>3. g \in Nat /\ d \in Nat /\ b \in Nat BY <1>2, <1>5 DEF Bit
  <2>4. g + (x + y) <= 2 * d /\ w[0] = d + b BY <1>1, <1>4, <2>2
  <2>. HIDE DEF g, b, x, y, d
  <2>5. g + (2 * b + y) <= 2 * (d + b) BY <2>1, <2>3, <2>4
  <2>. QED BY <2>2, <2>4, <2>5 DEF g
<1>. QED BY <1>3, <1>4, <1>8 DEF Counted

(* Whoever reads the buffer, and when a character comes out, the sum of    *)
(* what came out and what is owed does not grow.                           *)
LEMMA CountedDriver ==
  ASSUME KInv, NEW k \in Letters,
         keyboard_handler \/ keyboard_getchar \/ ReadStatus \/ ReadData \/ TestFlag \/ LoadKey
  PROVE  got' = got /\ Owed(k)' <= Owed(k)
<1>. DEFINE x == InBuffer(k)
            l == InLoop(k)
            h == InKey(k)
            z == InLastKey(k)
<1>0. x \in Nat /\ l \in Nat /\ h \in Nat /\ z \in Nat BY OwedNat
<1>1. got' = got
  BY DEF keyboard_handler, keyboard_getchar, ReadStatus, ReadData, TestFlag, LoadKey, caller
<1>2. x' \in Nat /\ l' \in Nat /\ h' \in Nat /\ z' \in Nat
  BY DEF InBuffer, InLoop, InKey, InLastKey, Bit
<1>3. x' + l' + h' + z' <= x + l + h + z
  <2>1. CASE keyboard_handler
    <3>1. UNCHANGED <<outbuf, pc, scancode, key>> BY <2>1 DEF keyboard_handler, caller
    <3>2. l' = l /\ h' = h BY <3>1 DEF InLoop, InKey
    <3>3. x' + z' <= x + z
      <4>1. CASE full
        <5>1. full' = FALSE BY <2>1, <4>1 DEF keyboard_handler
        <5>2. CASE KeyOf(outbuf) # NONE
          <6>1. last_key' = KeyOf(outbuf) BY <2>1, <4>1, <5>2 DEF keyboard_handler
          <6>2. last_key'.key = outbuf.key /\ outbuf.down BY <5>2, <6>1, KeyOfOk DEF Presses
          <6>3. CASE outbuf.key = k
            <7>1. x = 2 BY <4>1, <6>2, <6>3 DEF InBuffer, IsPress
            <7>2. x' <= 1 /\ z' <= 1 BY <3>1, <5>1 DEF InBuffer, InLastKey, Bit
            <7>. QED BY <7>1, <7>2, <1>0, <1>2
          <6>4. CASE outbuf.key # k
            <7>1. x' = 0 /\ z' = 0 BY <3>1, <6>2, <6>4 DEF InBuffer, InLastKey, Bit, IsPress
            <7>. QED BY <7>1, <1>0
          <6>. QED BY <6>3, <6>4
        <5>3. CASE KeyOf(outbuf) = NONE
          <6>1. UNCHANGED <<last_key, key_available>> BY <2>1, <4>1, <5>3 DEF keyboard_handler
          <6>2. z' = z BY <3>1, <6>1 DEF InLastKey
          <6>3. x' = 0 BY <3>1, <5>3, KeyOfOk DEF InBuffer, IsPress, Presses
          <6>. QED BY <6>2, <6>3, <1>0
        <5>. QED BY <5>2, <5>3
      <4>2. CASE ~full
        <5>1. UNCHANGED <<full, last_key, key_available>>
          BY <2>1, <4>2 DEF keyboard_handler, driver
        <5>2. x' = x /\ z' = z BY <3>1, <5>1 DEF InBuffer, InLastKey
        <5>. QED BY <5>2, <1>0
      <4>. QED BY <4>1, <4>2
    <3>. DEFINE xx == x'
                ll == l'
                hh == h'
                zz == z'
    <3>4. /\ xx \in Nat /\ zz \in Nat /\ x \in Nat /\ l \in Nat /\ h \in Nat /\ z \in Nat
          /\ ll = l /\ hh = h /\ xx + zz <= x + z
      BY <1>0, <1>2, <3>2, <3>3
    <3>5. xx + ll + hh + zz <= x + l + h + z
      <4>. HIDE DEF x, l, h, z, xx, ll, hh, zz
      <4>. QED BY <3>4
    <3>. QED BY <3>5
  <2>2. CASE keyboard_getchar \/ ReadStatus \/ TestFlag
    <3>1. /\ UNCHANGED <<outbuf, full, scancode, key, last_key, key_available>>
          /\ pc \notin {"clear", "process", "data"} /\ pc' \notin {"clear", "process"}
          /\ (pc' = "data" => full)
      BY <2>2 DEF keyboard_getchar, ReadStatus, TestFlag, ctl, driver
    <3>2. x' = x BY <3>1 DEF InBuffer, Bit
    <3>3. l' = l /\ h' = h /\ z' = z BY <3>1 DEF InLoop, InKey, InLastKey, Bit
    <3>. QED BY <3>2, <3>3, <1>0
  <2>3. CASE ReadData
    <3>1. /\ UNCHANGED <<outbuf, key, last_key, key_available>> /\ pc = "data"
          /\ pc' = "process" /\ full' = FALSE /\ scancode' = outbuf
      BY <2>3 DEF ReadData, driver
    <3>2. l = 0 /\ h' = h /\ z' = z /\ x' = 0 BY <3>1 DEF InLoop, InKey, InLastKey, InBuffer, Bit
    <3>3. l' <= x BY <3>1 DEF InLoop, InBuffer, Bit
    <3>. DEFINE xx == x'
                ll == l'
                hh == h'
                zz == z'
    <3>4. /\ x \in Nat /\ h \in Nat /\ z \in Nat /\ ll \in Nat
          /\ l = 0 /\ hh = h /\ zz = z /\ xx = 0 /\ ll <= x
      BY <1>0, <1>2, <3>2, <3>3
    <3>5. xx + ll + hh + zz <= x + l + h + z
      <4>. HIDE DEF x, l, h, z, xx, ll, hh, zz
      <4>. QED BY <3>4
    <3>. QED BY <3>5
  <2>4. CASE LoadKey
    <3>1. /\ UNCHANGED <<outbuf, full, scancode, last_key, key_available>> /\ pc = "load"
          /\ pc' = "clear" /\ key' = last_key /\ key_available
      BY <2>4 DEF LoadKey, ctl, driver, KInv
    <3>2. x' = x /\ l' = l /\ h = 0 /\ z' = 0
      BY <3>1 DEF InLoop, InKey, InLastKey, InBuffer, Bit
    <3>3. h' = z BY <3>1 DEF InKey, InLastKey, Bit
    <3>. HIDE DEF x, l, h, z
    <3>. QED BY <3>2, <3>3, <1>0
  <2>. QED BY <2>1, <2>2, <2>3, <2>4
<1>. QED BY <1>1, <1>3 DEF Owed

(* The loop returns the code it has read, or the key it has loaded. *)
LEMMA CountedReturn ==
  ASSUME KInv, NEW k \in Letters, Process \/ ClearFlag
  PROVE  Times(k, got') \in Nat /\ Times(k, got') + Owed(k)' <= Times(k, got) + Owed(k)
<1>. DEFINE x == InBuffer(k)
            l == InLoop(k)
            h == InKey(k)
            z == InLastKey(k)
            g == Times(k, got)
<1>0. x \in Nat /\ l \in Nat /\ h \in Nat /\ z \in Nat /\ g \in Nat BY OwedNat, TimesNat
<1>1. UNCHANGED <<outbuf, full>> /\ pc' \notin {"data", "process", "clear"}
  BY DEF Process, ClearFlag, Return, ctl
<1>2. l' = 0 /\ h' = 0 /\ x' <= x BY <1>1 DEF InLoop, InKey, InBuffer, Bit
<1>3. x' \in Nat BY DEF InBuffer, Bit
<1>4. z' <= z /\ z' \in Nat
  <2>1. CASE Process
    <3>1. UNCHANGED <<key_available, last_key>> /\ pc # "clear" BY <2>1 DEF Process
    <3>. QED BY <3>1, <1>1 DEF InLastKey, Bit
  <2>2. CASE ClearFlag
    <3>1. key_available' = FALSE BY <2>2 DEF ClearFlag
    <3>. QED BY <3>1 DEF InLastKey, Bit
  <2>. QED BY <2>1, <2>2
<1>5. g' \in Nat /\ g' <= g + l + h
  <2>1. got \in Seq(Char) BY DEF KInv, TypeOK
  <2>2. CASE Process /\ KeyOf(scancode) # NONE
    <3>. DEFINE e == KeyOf(scancode)
    <3>1. got' = Append(got, e) /\ pc = "process" BY <2>2 DEF Process, Return
    <3>2. e \in Char /\ e.key = scancode.key /\ scancode.down BY <2>2, KeyOfOk DEF Presses
    <3>3. l = Bit(e.key = k) BY <3>1, <3>2 DEF InLoop, IsPress, Bit
    <3>. HIDE DEF e
    <3>4. g' = g + Bit(e.key = k) BY <2>1, <3>1, <3>2, TimesAppend
    <3>. HIDE DEF g, l, h
    <3>. QED BY <3>3, <3>4, <1>0
  <2>3. CASE Process /\ KeyOf(scancode) = NONE
    <3>1. got' = got BY <2>3 DEF Process
    <3>2. g' = g BY <3>1
    <3>. HIDE DEF g, l, h
    <3>. QED BY <3>2, <1>0
  <2>4. CASE ClearFlag
    <3>1. got' = Append(got, key) /\ pc = "clear" /\ key \in Char
      BY <2>4 DEF ClearFlag, Return, KInv
    <3>2. h = Bit(key.key = k) BY <3>1 DEF InKey, Bit
    <3>3. g' = g + Bit(key.key = k) BY <2>1, <3>1, TimesAppend
    <3>. HIDE DEF g, l, h
    <3>. QED BY <3>2, <3>3, <1>0
  <2>. QED BY <2>2, <2>3, <2>4
<1>6. g' + (x' + l' + h' + z') <= g + (x + l + h + z)
  <2>. DEFINE xx == x'
              ll == l'
              hh == h'
              zz == z'
              gg == g'
  <2>1. /\ x \in Nat /\ l \in Nat /\ h \in Nat /\ z \in Nat /\ g \in Nat
        /\ xx \in Nat /\ zz \in Nat /\ gg \in Nat
        /\ ll = 0 /\ hh = 0 /\ xx <= x /\ zz <= z /\ gg <= g + l + h
    BY <1>0, <1>2, <1>3, <1>4, <1>5
  <2>2. gg + (xx + ll + hh + zz) <= g + (x + l + h + z)
    <3>. HIDE DEF x, l, h, z, g, xx, ll, hh, zz, gg
    <3>. QED BY <2>1
  <2>. QED BY <2>2
<1>. QED BY <1>5, <1>6 DEF Owed

(* Every step keeps the counts. *)
LEMMA CountInvNext == KInv /\ CountInv /\ [Next]_vars => CountInv'
<1>. SUFFICES ASSUME KInv, CountInv, [Next]_vars, NEW k \in Letters PROVE Counted(k)'
  BY DEF CountInv
<1>0. Counted(k) /\ Times(k, got) \in Nat /\ Owed(k) \in Nat BY TimesNat, OwedNat DEF CountInv, Owed
<1>1. ASSUME NEW j \in Keys, Press(j) \/ Release(j) PROVE Counted(k)'
  BY <1>0, <1>1, CountedUser
<1>2. CASE Fill BY <1>0, <1>2, CountedFill
<1>3. CASE keyboard_handler \/ keyboard_getchar \/ ReadStatus \/ ReadData \/ TestFlag \/ LoadKey
  <2>1. wire' = wire /\ typed' = typed
    BY <1>3 DEF keyboard_handler, keyboard_getchar, ReadStatus, ReadData, TestFlag, LoadKey,
                user, ctl
  <2>2. got' = got /\ Owed(k)' <= Owed(k) BY <1>3, CountedDriver
  <2>3. Owed(k)' \in Nat BY DEF Owed, InBuffer, InLoop, InKey, InLastKey, Bit
  <2>4. Times(k, got') + Owed(k)' <= Times(k, got) + Owed(k) BY <1>0, <2>2, <2>3
  <2>. QED BY <1>0, <2>1, <2>2, <2>4, CountedKept
<1>4. CASE Process \/ ClearFlag
  <2>1. wire' = wire /\ typed' = typed BY <1>4 DEF Process, ClearFlag, user, ctl
  <2>. QED BY <1>0, <1>4, <2>1, CountedReturn, CountedKept
<1>5. CASE UNCHANGED vars
  <2>1. UNCHANGED <<wire, typed, got, outbuf, full, pc, scancode, key, key_available, last_key>>
    BY <1>5 DEF vars, user, ctl, driver, caller
  <2>2. Owed(k)' = Owed(k) BY <2>1 DEF Owed, InBuffer, InLoop, InKey, InLastKey
  <2>. QED BY <1>0, <2>1, <2>2 DEF Counted
<1>. QED BY <1>1, <1>2, <1>3, <1>4, <1>5 DEF Next

(* Nothing typed, nothing owed *)
LEMMA CountInvInit == Init => CountInv
<1>. SUFFICES ASSUME Init, NEW k \in Letters PROVE Counted(k) BY DEF CountInv
<1>1. wire = <<>> /\ typed = <<>> /\ got = <<>> BY DEF Init
<1>2. Times(k, <<>>) = 0
  <2>1. {n \in DOMAIN <<>> : <<>>[n].key = k} = {} OBVIOUS
  <2>. QED BY <2>1, FS_EmptySet DEF Times
<1>3. Owed(k) = 0
  <2>1. ~key_available /\ pc = "shell" /\ outbuf = NOCODE BY DEF Init
  <2>2. InBuffer(k) = 0 BY <2>1 DEF InBuffer, IsPress, NOCODE
  <2>3. InLoop(k) = 0 /\ InKey(k) = 0 /\ InLastKey(k) = 0
    BY <2>1 DEF InLoop, InKey, InLastKey, Bit
  <2>. QED BY <2>2, <2>3 DEF Owed
<1>. DEFINE c == [i \in 0 .. 0 |-> 0]
<1>4. IsCount(k, <<>>, c, 0) /\ c[0] = 0 BY DEF IsCount
<1>. HIDE DEF c
<1>. QED BY <1>1, <1>2, <1>3, <1>4 DEF Counted

(* With interrupts on or off, whatever the handler and the loop take from  *)
(* each other, no key is received more than twice for each time it was     *)
(* pressed, for any number of keys and presses.                            *)
THEOREM KeyboardAtMostTwice == Spec => []AtMostTwice
<1>1. KInv /\ CountInv => AtMostTwice
  <2>. SUFFICES ASSUME KInv, CountInv, NEW k \in Letters
                PROVE  Times(k, got) <= 2 * Times(k, typed)
    BY DEF AtMostTwice
  <2>1. PICK c : IsCount(k, wire, c, Times(k, typed)) /\ Times(k, got) + Owed(k) <= 2 * c[0]
    BY DEF CountInv, Counted
  <2>2. Times(k, got) \in Nat /\ Times(k, typed) \in Nat /\ Owed(k) \in Nat
    BY TimesNat, OwedNat DEF Owed
  <2>3. 0 \in 0 .. Len(wire) BY LenProperties DEF KInv, TypeOK
  <2>4. c[0] \in 0 .. Times(k, typed) BY <2>1, <2>3 DEF IsCount
  <2>. QED BY <2>1, <2>2, <2>4
<1>. QED BY <1>1, KInvInit, KInvNext, CountInvInit, CountInvNext, PTL DEF Spec
=============================================================================
