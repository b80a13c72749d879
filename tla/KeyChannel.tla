----------------------------- MODULE KeyChannel -----------------------------
(***************************************************************************)
(* What the shell expects of keyboard_getchar: the characters arrive in    *)
(* the order in which they were typed, each of them once, and all of them. *)
(* A channel that is not reliable may deliver any character or none.       *)
(***************************************************************************)
EXTENDS Integers, Sequences

CONSTANT Char    \* characters

VARIABLES reliable, typed, got

vars == <<reliable, typed, got>>

Init == reliable \in BOOLEAN /\ typed = <<>> /\ got = <<>>

Type == /\ \E c \in Char : typed' = Append(typed, c)
        /\ UNCHANGED <<reliable, got>>

Deliver == /\ reliable /\ Len(got) < Len(typed)
           /\ got' = Append(got, typed[Len(got) + 1])
           /\ UNCHANGED <<reliable, typed>>

Garble == /\ ~reliable
          /\ \E c \in Char : got' = Append(got, c)
          /\ UNCHANGED <<reliable, typed>>

Next == Type \/ Deliver \/ Garble

Safety == Init /\ [][Next]_vars     \* nothing but what was typed

Spec == Safety /\ WF_vars(Deliver)   \* and all of it
=============================================================================
