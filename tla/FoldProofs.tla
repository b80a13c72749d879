----------------------------- MODULE FoldProofs -----------------------------
(***************************************************************************)
(* What the folds of the community modules compute.  A fold is a recursive *)
(* function on the subsets of a finite set, chosen as one that satisfies   *)
(* its equation: FoldExists shows that there is one, so that the equation  *)
(* may be used, and RecursionExists the same of functions on the naturals  *)
(* that call themselves on smaller arguments.  Induction is by the least   *)
(* counterexample.                                                         *)
(***************************************************************************)
EXTENDS Integers, FiniteSets, FiniteSetsExt, FiniteSetTheorems, NaturalsInduction,
        WellFoundedInduction, TLAPS

(* A nonempty set of natural numbers has a least element. *)
LEMMA LeastNat ==
  ASSUME NEW S, S \subseteq Nat, S # {}
  PROVE  \E a \in S : \A b \in S : a <= b
<1>1. PICK a \in S : \A b \in S : ~(<<b, a>> \in OpToRel(<, Nat))
  BY NatLessThanWellFounded, WFMin
<1>2. \A b \in S : ~(b < a) BY <1>1 DEF OpToRel
<1>. QED BY <1>2

(* Induction over a set of natural numbers *)
LEMMA Induct ==
  ASSUME NEW S, 0 \in S, \A n \in Nat : n \in S => n + 1 \in S
  PROVE  \A n \in Nat : n \in S
<1>. SUFFICES ASSUME Nat \ S # {} PROVE FALSE OBVIOUS
<1>1. PICK a \in Nat \ S : \A b \in Nat \ S : a <= b BY LeastNat
<1>2. a # 0 /\ a \in Nat OBVIOUS
<1>3. a - 1 \in Nat /\ ~(a <= a - 1) /\ (a - 1) + 1 = a BY <1>2
<1>4. a - 1 \in S BY <1>1, <1>3
<1>. QED BY <1>3, <1>4

(* Max of a nonempty set with an upper bound is in it, and no smaller than *)
(* any other element.                                                      *)
LEMMA MaxIn ==
  ASSUME NEW S, S \subseteq Nat, S # {}, NEW m \in Nat, \A n \in S : n <= m
  PROVE  Max(S) \in S /\ \A n \in S : n <= Max(S)
<1>. DEFINE U == {k \in Nat : \A n \in S : n <= k}
<1>1. PICK a \in U : \A b \in U : a <= b
  <2>1. m \in U OBVIOUS
  <2>. QED BY <2>1, LeastNat
<1>2. a \in S
  <2>. SUFFICES ASSUME a \notin S PROVE FALSE OBVIOUS
  <2>1. \A n \in S : n < a /\ n \in Nat OBVIOUS
  <2>2. a - 1 \in Nat /\ ~(a <= a - 1)
    <3>1. PICK n \in S : TRUE OBVIOUS
    <3>2. n \in Nat /\ a \in Nat /\ n < a BY <2>1
    <3>. QED BY <3>2
  <2>3. \A n \in S : n <= a - 1 BY <2>1, <2>2
  <2>. QED BY <1>1, <2>2, <2>3
<1>3. \A n \in S : a >= n OBVIOUS
<1>4. Max(S) \in S /\ \A n \in S : Max(S) >= n BY <1>2, <1>3 DEF Max
<1>. QED BY <1>4

LEMMA MaxUpTo ==
  ASSUME NEW n \in Nat, n # 0
  PROVE  Max(1 .. n) = n /\ (1 .. n) \ {n} = 1 .. n - 1
<1>1. n \in 1 .. n /\ 1 .. n \subseteq Nat /\ \A k \in 1 .. n : k <= n OBVIOUS
<1>. DEFINE S == 1 .. n
<1>2. Max(S) \in S /\ \A k \in S : k <= Max(S)
  <2>. HIDE DEF S
  <2>1. n \in S /\ S \subseteq Nat /\ \A k \in S : k <= n BY <1>1 DEF S
  <2>. QED BY <2>1, MaxIn
<1>. QED BY <1>1, <1>2

(* The equation of a fold over D that takes element ch[T] of T first has a *)
(* solution.                                                               *)
Chooses(ch, D) == \A T \in SUBSET D : T # {} => ch[T] \in T

IsFold(f, D, X, base, step, ch) ==
  /\ f \in [SUBSET D -> X]
  /\ \A T \in SUBSET D : f[T] = IF T = {} THEN base ELSE step[<<ch[T], f[T \ {ch[T]}]>>]

LEMMA FoldExists ==
  ASSUME NEW D, IsFiniteSet(D), NEW X, NEW base, base \in X,
         NEW step, step \in [D \X X -> X], NEW ch, Chooses(ch, D)
  PROVE  \E f : IsFold(f, D, X, base, step, ch)
<1>. DEFINE Small(n) == {T \in SUBSET D : Cardinality(T) <= n}
            Next(g, T) == IF T = {} THEN base ELSE step[<<ch[T], g[T \ {ch[T]}]>>]
            Good == {n \in Nat : \E g \in [Small(n) -> X] : \A T \in Small(n) : g[T] = Next(g, T)}
<1>1. \A T \in SUBSET D : IsFiniteSet(T) /\ Cardinality(T) \in Nat
  BY FS_Subset, FS_CardinalityType
<1>2. ASSUME NEW T \in SUBSET D, T # {}
      PROVE  /\ ch[T] \in T /\ ch[T] \in D /\ T \ {ch[T]} \in SUBSET D
             /\ Cardinality(T \ {ch[T]}) = Cardinality(T) - 1
  BY <1>1, <1>2, FS_RemoveElement DEF Chooses
<1>3. \A T \in SUBSET D : Cardinality(T) = 0 <=> T = {} BY <1>1, FS_EmptySet
<1>4. 0 \in Good
  <2>. DEFINE g == [T \in Small(0) |-> base]
  <2>1. \A T \in Small(0) : T = {} BY <1>1, <1>3
  <2>2. g \in [Small(0) -> X] /\ \A T \in Small(0) : g[T] = Next(g, T) BY <2>1
  <2>. HIDE DEF g
  <2>. QED BY <2>2
<1>5. ASSUME NEW n \in Nat, n \in Good PROVE n + 1 \in Good
  <2>1. PICK g \in [Small(n) -> X] : \A T \in Small(n) : g[T] = Next(g, T) BY <1>5
  <2>. DEFINE h == [T \in Small(n + 1) |-> Next(g, T)]
  <2>2. ASSUME NEW T \in Small(n + 1), T # {}
        PROVE  T \ {ch[T]} \in Small(n) /\ ch[T] \in D
    <3>1. /\ ch[T] \in D /\ T \ {ch[T]} \in SUBSET D
          /\ Cardinality(T \ {ch[T]}) = Cardinality(T) - 1 BY <1>2, <2>2
    <3>2. Cardinality(T) \in Nat /\ Cardinality(T) <= n + 1 BY <1>1
    <3>3. Cardinality(T) - 1 <= n BY <3>2
    <3>. QED BY <3>1, <3>3
  <2>3. h \in [Small(n + 1) -> X]
    <3>1. ASSUME NEW T \in Small(n + 1) PROVE Next(g, T) \in X
      <4>1. CASE T = {} BY <4>1
      <4>2. CASE T # {}
        <5>1. g[T \ {ch[T]}] \in X /\ ch[T] \in D BY <2>1, <2>2, <4>2
        <5>2. <<ch[T], g[T \ {ch[T]}]>> \in D \X X BY <5>1
        <5>. QED BY <4>2, <5>2
      <4>. QED BY <4>1, <4>2
    <3>. QED BY <3>1
  <2>4. Small(n) \subseteq Small(n + 1)
    <3>1. \A T \in SUBSET D : Cardinality(T) <= n => Cardinality(T) <= n + 1 BY <1>1
    <3>. QED BY <3>1
  <2>5. \A T \in Small(n) : h[T] = g[T] BY <2>1, <2>4
  <2>6. ASSUME NEW T \in Small(n + 1) PROVE h[T] = Next(h, T)
    <3>1. CASE T = {} BY <3>1
    <3>2. CASE T # {}
      <4>1. T \ {ch[T]} \in Small(n) BY <2>2, <3>2
      <4>2. h[T \ {ch[T]}] = g[T \ {ch[T]}] BY <2>5, <4>1
      <4>3. h[T] = step[<<ch[T], g[T \ {ch[T]}]>>] BY <3>2
      <4>. HIDE DEF h
      <4>. QED BY <3>2, <4>2, <4>3
    <3>. QED BY <3>1, <3>2
  <2>. HIDE DEF h, Next, Small
  <2>. QED BY <2>3, <2>6
<1>. DEFINE k == Cardinality(D)
<1>6. k \in Nat /\ \A T \in SUBSET D : Cardinality(T) <= k
  BY FS_Subset, FS_CardinalityType
<1>7. Small(k) = SUBSET D BY <1>6
<1>8. k \in Good
  <2>. HIDE DEF Good
  <2>. QED BY <1>4, <1>5, <1>6, Induct
<1>. HIDE DEF k, Small
<1>. QED BY <1>7, <1>8 DEF IsFold

(* The fold over a sequence of length n, which takes the last element of   *)
(* a set of indices first: its equation has a solution, too.               *)
IsSeqFold(f, n, X, base, step) ==
  /\ f \in [SUBSET (1 .. n) -> X]
  /\ \A T \in SUBSET (1 .. n) :
       f[T] = IF T = {} THEN base ELSE step[<<Max(T), f[T \ {Max(T)}]>>]

LEMMA SeqFold ==
  ASSUME NEW n \in Nat, NEW X, NEW base, base \in X,
         NEW step, step \in [(1 .. n) \X X -> X]
  PROVE  \E f : IsSeqFold(f, n, X, base, step)
<1>. DEFINE D == 1 .. n
            ch == [T \in SUBSET D |-> Max(T)]
<1>1. IsFiniteSet(D) BY FS_Interval
<1>2. ASSUME NEW T \in SUBSET D, T # {} PROVE ch[T] \in T
  <2>1. T \subseteq Nat /\ \A k \in T : k <= n OBVIOUS
  <2>2. Max(T) \in T BY <1>2, <2>1, MaxIn
  <2>. QED BY <2>2
<1>3. Chooses(ch, D) BY <1>2 DEF Chooses
<1>4. \A T \in SUBSET D : ch[T] = Max(T) OBVIOUS
<1>5. step \in [D \X X -> X] OBVIOUS
<1>. HIDE DEF D, ch
<1>6. PICK f : IsFold(f, D, X, base, step, ch) BY <1>1, <1>3, <1>5, FoldExists, Zenon
<1>7. f \in [SUBSET D -> X] BY <1>6 DEF IsFold
<1>8. \A T \in SUBSET D : f[T] = IF T = {} THEN base ELSE step[<<Max(T), f[T \ {Max(T)}]>>]
  BY <1>4, <1>6 DEF IsFold
<1>. QED BY <1>7, <1>8 DEF D, IsSeqFold

(* Any g that takes the same steps ends in X. *)
LEMMA SeqFoldIn ==
  ASSUME NEW n \in Nat, NEW X, NEW g, g[{}] \in X,
         \A k \in 1 .. n : g[1 .. k - 1] \in X => g[1 .. k] \in X
  PROVE  g[1 .. n] \in X
<1>. DEFINE S == {k \in Nat : k <= n => g[1 .. k] \in X}
<1>1. 0 \in S
  <2>1. 1 .. 0 = {} OBVIOUS
  <2>. QED BY <2>1
<1>2. ASSUME NEW k \in Nat, k \in S PROVE k + 1 \in S
  <2>. SUFFICES ASSUME k + 1 <= n PROVE g[1 .. k + 1] \in X OBVIOUS
  <2>. DEFINE j == k + 1
  <2>1. j \in 1 .. n /\ j - 1 = k /\ k <= n OBVIOUS
  <2>2. g[1 .. k] \in X BY <1>2, <2>1
  <2>. HIDE DEF j
  <2>3. g[1 .. j] \in X BY <2>1, <2>2
  <2>. QED BY <2>3 DEF j
<1>3. n \in S
  <2>. HIDE DEF S
  <2>. QED BY <1>1, <1>2, Induct
<1>. QED BY <1>3

(* The first k indices without the last one *)
LEMMA UpTo ==
  ASSUME NEW n \in Nat, NEW k \in 1 .. n
  PROVE  /\ 1 .. k \in SUBSET (1 .. n) /\ 1 .. k # {}
         /\ Max(1 .. k) = k /\ (1 .. k) \ {Max(1 .. k)} = 1 .. k - 1
<1>1. k \in Nat /\ k # 0 /\ k \in 1 .. k OBVIOUS
<1>2. Max(1 .. k) = k /\ (1 .. k) \ {k} = 1 .. k - 1 BY <1>1, MaxUpTo
<1>3. 1 .. k \in SUBSET (1 .. n) OBVIOUS
<1>. QED BY <1>1, <1>2, <1>3

(* Quotient and remainder by any positive number *)
LEMMA Quotient ==
  ASSUME NEW x \in Nat, NEW d \in Nat, d > 0
  PROVE  /\ x \div d \in Nat /\ x % d \in Nat /\ x % d < d
         /\ x = (x \div d) * d + (x % d)
         /\ x < d => x % d = x
OBVIOUS

-----------------------------------------------------------------------------
(* Sums: the element that MapThenSumSet takes next, its equation, and the  *)
(* sum of the numbers w[x] over a set.                                     *)
Pick(T) == CHOOSE x \in T : TRUE

IsSum(f, D, w) ==
  f = [T \in SUBSET D |-> IF T = {} THEN 0 ELSE w[Pick(T)] + f[T \ {Pick(T)}]]

Total(w, D) == (CHOOSE f : IsSum(f, D, w))[D]

Integral(w, D) == IsFiniteSet(D) /\ \A x \in D : w[x] \in Int

LEMMA SumExists ==
  ASSUME NEW D, NEW w, Integral(w, D)
  PROVE  \E f \in [SUBSET D -> Int] : IsSum(f, D, w)
<1>. DEFINE step == [p \in D \X Int |-> w[p[1]] + p[2]]
            ch == [T \in SUBSET D |-> Pick(T)]
<1>1. step \in [D \X Int -> Int] BY DEF Integral
<1>2. \A T \in SUBSET D : T # {} => ch[T] \in T BY DEF Pick
<1>3. IsFiniteSet(D) /\ 0 \in Int BY DEF Integral
<1>4. \A x \in D, y \in Int : step[<<x, y>>] = w[x] + y OBVIOUS
<1>5. \A T \in SUBSET D : ch[T] = Pick(T) OBVIOUS
<1>. HIDE DEF step, ch
<1>6. PICK f \in [SUBSET D -> Int] : \A T \in SUBSET D :
             f[T] = IF T = {} THEN 0 ELSE step[<<ch[T], f[T \ {ch[T]}]>>]
  <2>1. Chooses(ch, D) BY <1>2 DEF Chooses
  <2>2. \E f : IsFold(f, D, Int, 0, step, ch) BY <1>1, <1>3, <2>1, FoldExists, Zenon
  <2>. QED BY <2>2 DEF IsFold
<1>7. ASSUME NEW T \in SUBSET D
      PROVE  f[T] = IF T = {} THEN 0 ELSE w[Pick(T)] + f[T \ {Pick(T)}]
  <2>1. CASE T = {} BY <1>6, <2>1
  <2>2. CASE T # {}
    <3>1. Pick(T) \in D /\ f[T \ {Pick(T)}] \in Int BY <1>2, <1>5, <2>2
    <3>2. f[T] = step[<<Pick(T), f[T \ {Pick(T)}]>>] BY <1>5, <1>6, <2>2
    <3>. QED BY <1>4, <2>2, <3>1, <3>2
  <2>. QED BY <2>1, <2>2
<1>8. f = [T \in SUBSET D |-> f[T]] OBVIOUS
<1>9. IsSum(f, D, w) BY <1>7, <1>8 DEF IsSum
<1>. QED BY <1>9

(* The subsets that have fewer elements than a nonempty one *)
LEMMA Fewer ==
  ASSUME NEW T, IsFiniteSet(T), NEW x \in T
  PROVE  /\ Cardinality(T) \in Nat /\ Cardinality(T) # 0
         /\ IsFiniteSet(T \ {x}) /\ Cardinality(T \ {x}) + 1 = Cardinality(T)
         /\ Cardinality(T \ {x}) \in Nat
<1>1. Cardinality(T) \in Nat /\ Cardinality(T) # 0
  BY FS_CardinalityType, FS_EmptySet
<1>2. IsFiniteSet(T \ {x}) /\ Cardinality(T \ {x}) = Cardinality(T) - 1
  BY FS_RemoveElement
<1>3. Cardinality(T \ {x}) \in Nat BY <1>2, FS_CardinalityType
<1>. QED BY <1>1, <1>2, <1>3

(* Two sums of the same numbers agree on the sets they both cover. *)
LEMMA SumsAgree ==
  ASSUME NEW D, NEW E, NEW w, NEW v, NEW f, NEW g, IsSum(f, D, w), IsSum(g, E, v),
         NEW T, IsFiniteSet(T), T \subseteq D, T \subseteq E, \A x \in T : w[x] = v[x]
  PROVE  f[T] = g[T]
<1>. DEFINE S == {n \in Nat : \A U \in SUBSET T : Cardinality(U) = n => f[U] = g[U]}
<1>0. \A U \in SUBSET T : /\ IsFiniteSet(U) /\ U \in SUBSET D /\ U \in SUBSET E
                          /\ U = {} <=> Cardinality(U) = 0
  BY FS_Subset, FS_EmptySet
<1>1. 0 \in S
  <2>1. f[{}] = 0 /\ g[{}] = 0 BY DEF IsSum
  <2>. QED BY <1>0, <2>1
<1>2. ASSUME NEW n \in Nat, n \in S PROVE n + 1 \in S
  <2>. SUFFICES ASSUME NEW U \in SUBSET T, Cardinality(U) = n + 1 PROVE f[U] = g[U]
    OBVIOUS
  <2>1. U # {} BY <1>0
  <2>2. Pick(U) \in U BY <2>1 DEF Pick
  <2>3. Cardinality(U \ {Pick(U)}) = n /\ U \ {Pick(U)} \in SUBSET T
    <3>1. Cardinality(U \ {Pick(U)}) + 1 = n + 1 /\ Cardinality(U \ {Pick(U)}) \in Nat
      BY <1>0, <2>2, Fewer
    <3>. QED BY <3>1
  <2>4. f[U \ {Pick(U)}] = g[U \ {Pick(U)}] BY <1>2, <2>3
  <2>5. w[Pick(U)] = v[Pick(U)] BY <2>2
  <2>6. f[U] = w[Pick(U)] + f[U \ {Pick(U)}] /\ g[U] = v[Pick(U)] + g[U \ {Pick(U)}]
    BY <1>0, <2>1 DEF IsSum
  <2>. QED BY <2>4, <2>5, <2>6
<1>3. Cardinality(T) \in S
  <2>. HIDE DEF S
  <2>. QED BY <1>1, <1>2, Induct, FS_CardinalityType
<1>. QED BY <1>3

(* Any solution of the equation is the sum. *)
LEMMA TotalIs ==
  ASSUME NEW D, NEW w, Integral(w, D), NEW v, NEW f, IsSum(f, D, v),
         \A x \in D : v[x] = w[x], NEW T \in SUBSET D
  PROVE  f[T] = Total(w, T) /\ Total(w, T) \in Int
<1>1. Integral(w, T) BY FS_Subset DEF Integral
<1>. DEFINE g == CHOOSE g : IsSum(g, T, w)
<1>2. PICK h \in [SUBSET T -> Int] : IsSum(h, T, w) BY <1>1, SumExists
<1>3. IsSum(g, T, w) BY <1>2
<1>. HIDE DEF g
<1>4. IsFiniteSet(T) BY <1>1 DEF Integral
<1>5. f[T] = g[T] BY <1>3, <1>4, SumsAgree
<1>6. g[T] = h[T] BY <1>2, <1>3, <1>4, SumsAgree
<1>7. Total(w, T) = g[T] BY DEF Total, g
<1>. QED BY <1>2, <1>5, <1>6, <1>7

LEMMA TotalUnfold ==
  ASSUME NEW w, NEW T, Integral(w, T)
  PROVE  /\ Total(w, T) \in Int
         /\ T = {} => Total(w, T) = 0
         /\ T # {} => Total(w, T) = w[Pick(T)] + Total(w, T \ {Pick(T)})
<1>1. PICK f \in [SUBSET T -> Int] : IsSum(f, T, w) BY SumExists
<1>2. T \in SUBSET T /\ T \ {Pick(T)} \in SUBSET T OBVIOUS
<1>3. \A U \in SUBSET T : f[U] = Total(w, U) /\ Total(w, U) \in Int BY <1>1, TotalIs
<1>4. /\ T = {} => f[T] = 0
      /\ T # {} => f[T] = w[Pick(T)] + f[T \ {Pick(T)}]
  BY <1>1, <1>2 DEF IsSum
<1>. QED BY <1>2, <1>3, <1>4

(* The order does not matter: any element may be taken first. *)
LEMMA TotalRemove ==
  ASSUME NEW w, NEW T, Integral(w, T), NEW x \in T
  PROVE  Total(w, T) = w[x] + Total(w, T \ {x}) /\ Total(w, T \ {x}) \in Int
<1>. DEFINE S == {n \in Nat : \A U \in SUBSET T : Cardinality(U) = n =>
                    \A y \in U : Total(w, U) = w[y] + Total(w, U \ {y})}
<1>0. \A U \in SUBSET T : IsFiniteSet(U) /\ Integral(w, U) BY FS_Subset DEF Integral
<1>1. 0 \in S
  <2>1. \A U \in SUBSET T : Cardinality(U) = 0 => U = {} BY <1>0, FS_EmptySet
  <2>. QED BY <2>1
<1>2. ASSUME NEW n \in Nat, n \in S PROVE n + 1 \in S
  <2>. SUFFICES ASSUME NEW U \in SUBSET T, Cardinality(U) = n + 1, NEW y \in U
                PROVE  Total(w, U) = w[y] + Total(w, U \ {y})
    OBVIOUS
  <2>. DEFINE p == Pick(U)
  <2>1. p \in U BY DEF Pick
  <2>2. Total(w, U) = w[p] + Total(w, U \ {p}) BY <1>0, TotalUnfold
  <2>. HIDE DEF p
  <2>3. CASE y = p BY <2>2, <2>3
  <2>4. CASE y # p
    <3>1. \A z \in U : Cardinality(U \ {z}) = n
      <4>1. \A z \in U : Cardinality(U \ {z}) + 1 = n + 1 /\ Cardinality(U \ {z}) \in Nat
        BY <1>0, Fewer
      <4>. QED BY <4>1
    <3>2. U \ {p} \in SUBSET T /\ U \ {y} \in SUBSET T /\ y \in U \ {p} /\ p \in U \ {y}
      BY <2>1, <2>4
    <3>. DEFINE A == U \ {p}
                B == U \ {y}
                R == A \ {y}
    <3>3. B \ {p} = R OBVIOUS
    <3>4. Cardinality(A) = n /\ Cardinality(B) = n BY <2>1, <3>1
    <3>. HIDE DEF A, B, R
    <3>5. Total(w, A) = w[y] + Total(w, R) BY <1>2, <3>2, <3>4 DEF A, R
    <3>6. Total(w, B) = w[p] + Total(w, R)
      <4>1. Total(w, B) = w[p] + Total(w, B \ {p}) BY <1>2, <3>2, <3>4 DEF B
      <4>. QED BY <3>3, <4>1
    <3>7. w[y] \in Int /\ w[p] \in Int /\ Total(w, R) \in Int
      <4>1. R \in SUBSET T BY DEF R, A
      <4>2. Integral(w, R) BY <1>0, <4>1
      <4>3. Total(w, R) \in Int BY <4>2, TotalUnfold
      <4>. QED BY <2>1, <4>3 DEF Integral
    <3>8. Total(w, U) = w[p] + Total(w, A) BY <2>2 DEF A
    <3>9. w[p] + (w[y] + Total(w, R)) = w[y] + (w[p] + Total(w, R)) BY <3>7
    <3>. QED BY <3>5, <3>6, <3>8, <3>9 DEF B
  <2>. QED BY <2>3, <2>4
<1>3. Cardinality(T) \in S
  <2>. HIDE DEF S
  <2>. QED BY <1>0, <1>1, <1>2, Induct, FS_CardinalityType
<1>4. Total(w, T \ {x}) \in Int
  <2>1. T \ {x} \in SUBSET T OBVIOUS
  <2>. QED BY <1>0, <2>1, TotalUnfold
<1>. QED BY <1>3, <1>4

(* A sum depends on the numbers of its elements alone. *)
LEMMA TotalSame ==
  ASSUME NEW T, NEW w, NEW v, Integral(w, T), \A x \in T : v[x] = w[x]
  PROVE  Total(v, T) = Total(w, T)
<1>1. Integral(v, T) BY DEF Integral
<1>2. PICK f \in [SUBSET T -> Int] : IsSum(f, T, v) BY <1>1, SumExists
<1>3. T \in SUBSET T /\ \A x \in T : v[x] = v[x] OBVIOUS
<1>4. f[T] = Total(v, T) BY <1>1, <1>2, <1>3, TotalIs
<1>5. f[T] = Total(w, T) BY <1>2, <1>3, TotalIs
<1>. QED BY <1>4, <1>5

(* The sum over a set with one more element *)
LEMMA TotalAdd ==
  ASSUME NEW T, NEW w, NEW v, NEW x, x \notin T, Integral(w, T),
         v[x] \in Int, \A y \in T : v[y] = w[y]
  PROVE  Integral(v, T \cup {x}) /\ Total(v, T \cup {x}) = Total(w, T) + v[x]
<1>. DEFINE U == T \cup {x}
<1>1. Integral(v, U) BY FS_AddElement DEF Integral
<1>2. U \ {x} = T /\ x \in U OBVIOUS
<1>. HIDE DEF U
<1>3. Total(v, U) = v[x] + Total(v, T) BY <1>1, <1>2, TotalRemove
<1>4. Total(v, T) = Total(w, T) BY TotalSame
<1>5. Total(w, T) \in Int BY TotalUnfold
<1>6. Total(v, U) = Total(w, T) + v[x] BY <1>3, <1>4, <1>5
<1>. QED BY <1>1, <1>6 DEF U

(* A sum of numbers that are not negative is not negative. *)
LEMMA TotalNat ==
  ASSUME NEW T, NEW w, IsFiniteSet(T), \A x \in T : w[x] \in Nat
  PROVE  Total(w, T) \in Nat
<1>. DEFINE S == {n \in Nat : \A U \in SUBSET T : Cardinality(U) = n => Total(w, U) \in Nat}
<1>0. \A U \in SUBSET T : IsFiniteSet(U) /\ Integral(w, U) BY FS_Subset DEF Integral
<1>1. 0 \in S
  <2>1. \A U \in SUBSET T : Cardinality(U) = 0 => U = {} BY <1>0, FS_EmptySet
  <2>2. \A U \in SUBSET T : U = {} => Total(w, U) = 0 BY <1>0, TotalUnfold
  <2>. QED BY <2>1, <2>2
<1>2. ASSUME NEW n \in Nat, n \in S PROVE n + 1 \in S
  <2>. SUFFICES ASSUME NEW U \in SUBSET T, Cardinality(U) = n + 1
                PROVE  Total(w, U) \in Nat
    OBVIOUS
  <2>1. PICK x \in U : TRUE BY <1>0, FS_EmptySet
  <2>2. Total(w, U) = w[x] + Total(w, U \ {x}) BY <1>0, TotalRemove
  <2>3. Cardinality(U \ {x}) + 1 = n + 1 /\ Cardinality(U \ {x}) \in Nat
    BY <1>0, Fewer
  <2>4. Cardinality(U \ {x}) = n BY <2>3
  <2>5. Total(w, U \ {x}) \in Nat BY <1>2, <2>4
  <2>. QED BY <2>2, <2>5
<1>3. Cardinality(T) \in S
  <2>. HIDE DEF S
  <2>. QED BY <1>0, <1>1, <1>2, Induct, FS_CardinalityType
<1>. QED BY <1>3

(* The sum of numbers that have a second part on some elements *)
LEMMA TotalParts ==
  ASSUME NEW T, NEW S, NEW w, NEW u, NEW v, IsFiniteSet(T), S \subseteq T,
         \A x \in T : u[x] \in Int, \A x \in S : v[x] \in Int,
         \A x \in T : w[x] = u[x] + (IF x \in S THEN v[x] ELSE 0)
  PROVE  Total(w, T) = Total(u, T) + Total(v, S)
<1>. DEFINE N == {n \in Nat : \A U \in SUBSET T : Cardinality(U) = n =>
                    Total(w, U) = Total(u, U) + Total(v, U \cap S)}
<1>0. \A U \in SUBSET T : /\ IsFiniteSet(U) /\ Integral(w, U) /\ Integral(u, U)
                           /\ Integral(v, U \cap S)
  BY FS_Subset DEF Integral
<1>1. 0 \in N
  <2>1. \A U \in SUBSET T : Cardinality(U) = 0 => U = {} /\ U \cap S = {}
    BY <1>0, FS_EmptySet
  <2>2. \A U \in SUBSET T : U = {} => /\ Total(w, U) = 0 /\ Total(u, U) = 0
                                     /\ Total(v, U \cap S) = 0
    <3>1. \A U \in SUBSET T : U = {} => Total(w, U) = 0 /\ Total(u, U) = 0
      BY <1>0, TotalUnfold
    <3>2. \A U \in SUBSET T : U \cap S = {} => Total(v, U \cap S) = 0
      BY <1>0, TotalUnfold
    <3>. QED BY <3>1, <3>2
  <2>. QED BY <2>1, <2>2
<1>2. ASSUME NEW n \in Nat, n \in N PROVE n + 1 \in N
  <2>. SUFFICES ASSUME NEW U \in SUBSET T, Cardinality(U) = n + 1
                PROVE  Total(w, U) = Total(u, U) + Total(v, U \cap S)
    OBVIOUS
  <2>1. PICK x \in U : TRUE BY <1>0, FS_EmptySet
  <2>. DEFINE R == U \ {x}
              V == U \cap S
              Q == R \cap S
  <2>2. Cardinality(R) + 1 = n + 1 /\ Cardinality(R) \in Nat BY <1>0, Fewer
  <2>3. Total(w, R) = Total(u, R) + Total(v, Q) BY <1>2, <2>2
  <2>4. Integral(w, U) /\ Integral(u, U) /\ Integral(v, V) /\ Integral(v, Q)
    <3>1. R \in SUBSET T OBVIOUS
    <3>. QED BY <1>0, <3>1
  <2>5. (x \in S => x \in V /\ V \ {x} = Q) /\ (x \notin S => V = Q) OBVIOUS
  <2>6. w[x] = u[x] + (IF x \in S THEN v[x] ELSE 0) /\ u[x] \in Int OBVIOUS
  <2>. HIDE DEF V, Q, R
  <2>7. /\ Total(w, U) = w[x] + Total(w, R) /\ Total(u, U) = u[x] + Total(u, R)
        /\ Total(u, R) \in Int
    BY <2>4, TotalRemove DEF R
  <2>8. Total(v, Q) \in Int BY <2>4, TotalUnfold
  <2>9. CASE x \in S
    <3>1. Total(v, V) = v[x] + Total(v, V \ {x}) BY <2>4, <2>5, <2>9, TotalRemove
    <3>2. v[x] \in Int BY <2>4, <2>5, <2>9 DEF Integral
    <3>3. Total(v, V) = v[x] + Total(v, Q) BY <2>5, <2>9, <3>1
    <3>4. w[x] = u[x] + v[x] BY <2>6, <2>9
    <3>. QED BY <2>3, <2>6, <2>7, <2>8, <3>2, <3>3, <3>4 DEF V
  <2>10. CASE x \notin S
    <3>1. w[x] = u[x] BY <2>6, <2>10
    <3>. QED BY <2>3, <2>5, <2>6, <2>7, <2>8, <2>10, <3>1, SMTT(30) DEF V
  <2>. QED BY <2>9, <2>10
<1>3. Cardinality(T) \in N
  <2>. HIDE DEF N
  <2>. QED BY <1>0, <1>1, <1>2, Induct, FS_CardinalityType
<1>4. T \cap S = S OBVIOUS
<1>. QED BY <1>3, <1>4

-----------------------------------------------------------------------------
(* Recursive functions on the natural numbers: f[n] is made from the value *)
(* at a smaller number before[n].  The first n values fix one another, so  *)
(* that the equation has a solution.                                       *)
IsRecursion(f, D, base, before, step) ==
  \A n \in D : f[n] = IF n = 0 THEN base ELSE step[<<n, f[before[n]]>>]

Descends(before) ==
  before \in [Nat -> Nat] /\ \A n \in Nat : n # 0 => before[n] < n

LEMMA PrefixExists ==
  ASSUME NEW X, NEW base \in X, NEW step \in [Nat \X X -> X], NEW before, Descends(before)
  PROVE  \A n \in Nat : \E f \in [0 .. n -> X] : IsRecursion(f, 0 .. n, base, before, step)
<1>. DEFINE S == {n \in Nat : \E f \in [0 .. n -> X] : IsRecursion(f, 0 .. n, base, before, step)}
<1>1. 0 \in S
  <2>. DEFINE f == [i \in 0 .. 0 |-> base]
  <2>1. f \in [0 .. 0 -> X] /\ IsRecursion(f, 0 .. 0, base, before, step) BY DEF IsRecursion
  <2>. HIDE DEF f
  <2>. QED BY <2>1
<1>2. ASSUME NEW n \in Nat, n \in S PROVE n + 1 \in S
  <2>1. PICK f \in [0 .. n -> X] : IsRecursion(f, 0 .. n, base, before, step) BY <1>2
  <2>. DEFINE m == n + 1
              g == [i \in 0 .. m |-> IF i = m THEN step[<<m, f[before[m]]>>] ELSE f[i]]
  <2>2. m \in Nat /\ m # 0 /\ before[m] \in 0 .. n BY SMTT(30) DEF Descends
  <2>3. \A i \in 0 .. m : i # m => i \in 0 .. n /\ i \in Nat OBVIOUS
  <2>4. step[<<m, f[before[m]]>>] \in X
    <3>1. f[before[m]] \in X BY <2>1, <2>2
    <3>2. <<m, f[before[m]]>> \in Nat \X X BY <2>2, <3>1
    <3>. QED BY <3>2
  <2>5. g \in [0 .. m -> X] BY <2>1, <2>3, <2>4
  <2>6. \A i \in 0 .. n : g[i] = f[i] OBVIOUS
  <2>7. g[m] = step[<<m, f[before[m]]>>] OBVIOUS
  <2>. HIDE DEF g, m
  <2>8. ASSUME NEW i \in 0 .. m
        PROVE  g[i] = IF i = 0 THEN base ELSE step[<<i, g[before[i]]>>]
    <3>1. CASE i = m BY <2>2, <2>6, <2>7, <3>1
    <3>2. CASE i # m
      <4>1. i \in 0 .. n /\ i \in Nat BY <2>3, <3>2
      <4>2. i # 0 => before[i] \in 0 .. n BY <4>1 DEF Descends
      <4>3. f[i] = IF i = 0 THEN base ELSE step[<<i, f[before[i]]>>]
        BY <2>1, <4>1 DEF IsRecursion
      <4>. QED BY <2>6, <4>1, <4>2, <4>3
    <3>. QED BY <3>1, <3>2
  <2>9. IsRecursion(g, 0 .. m, base, before, step) BY <2>8 DEF IsRecursion
  <2>10. m \in S BY <2>2, <2>5, <2>9
  <2>. QED BY <2>10 DEF m
<1>3. \A n \in Nat : n \in S
  <2>. HIDE DEF S
  <2>. QED BY <1>1, <1>2, Induct
<1>. QED BY <1>3

LEMMA RecursionExists ==
  ASSUME NEW X, NEW base \in X, NEW step \in [Nat \X X -> X], NEW before, Descends(before)
  PROVE  \E f \in [Nat -> X] : IsRecursion(f, Nat, base, before, step)
<1>. DEFINE Is(n, f) == f \in [0 .. n -> X] /\ IsRecursion(f, 0 .. n, base, before, step)
            first == [n \in Nat |-> CHOOSE f : Is(n, f)]
            f == [n \in Nat |-> first[n][n]]
<1>1. ASSUME NEW n \in Nat
      PROVE  first[n] \in [0 .. n -> X] /\ IsRecursion(first[n], 0 .. n, base, before, step)
  <2>1. \E g : Is(n, g) BY PrefixExists
  <2>2. first[n] = CHOOSE g : Is(n, g) OBVIOUS
  <2>. HIDE DEF Is, first
  <2>3. Is(n, first[n]) BY <2>1, <2>2
  <2>. QED BY <2>3 DEF Is
<1>. HIDE DEF first
<1>2. ASSUME NEW n \in Nat, NEW k \in 0 .. n PROVE first[n][k] = first[k][k]
  <2>. DEFINE F == first[n]
              G == first[k]
              Bad == {i \in Nat : i <= k /\ F[i] # G[i]}
  <2>. SUFFICES ASSUME Bad # {} PROVE FALSE OBVIOUS
  <2>1. PICK i \in Bad : \A j \in Bad : i <= j
    <3>1. Bad \subseteq Nat OBVIOUS
    <3>. HIDE DEF Bad
    <3>. QED BY <3>1, LeastNat
  <2>2. /\ IsRecursion(F, 0 .. n, base, before, step)
        /\ IsRecursion(G, 0 .. k, base, before, step)
    BY <1>1
  <2>. HIDE DEF F, G
  <2>3. i \in Nat /\ i \in 0 .. n /\ i \in 0 .. k /\ F[i] # G[i] OBVIOUS
  <2>4. i # 0 BY <2>2, <2>3 DEF IsRecursion
  <2>5. before[i] \in Nat /\ before[i] < i BY <2>3, <2>4 DEF Descends
  <2>6. before[i] \notin Bad BY <2>1, <2>3, <2>5
  <2>7. F[before[i]] = G[before[i]] BY <2>3, <2>5, <2>6
  <2>8. F[i] = step[<<i, F[before[i]]>>] BY <2>2, <2>3, <2>4 DEF IsRecursion
  <2>9. G[i] = step[<<i, G[before[i]]>>] BY <2>2, <2>3, <2>4 DEF IsRecursion
  <2>. QED BY <2>3, <2>7, <2>8, <2>9
<1>3. f \in [Nat -> X] BY <1>1
<1>4. ASSUME NEW n \in Nat
      PROVE  f[n] = IF n = 0 THEN base ELSE step[<<n, f[before[n]]>>]
  <2>1. n \in 0 .. n /\ f[n] = first[n][n] OBVIOUS
  <2>2. first[n][n] = IF n = 0 THEN base ELSE step[<<n, first[n][before[n]]>>]
    BY <1>1, <2>1 DEF IsRecursion
  <2>3. CASE n = 0 BY <2>1, <2>2, <2>3
  <2>4. CASE n # 0
    <3>1. before[n] \in Nat /\ before[n] \in 0 .. n BY <2>4 DEF Descends
    <3>2. first[n][before[n]] = f[before[n]] BY <1>2, <3>1
    <3>. HIDE DEF f
    <3>. QED BY <2>1, <2>2, <2>4, <3>2
  <2>. QED BY <2>3, <2>4
<1>. HIDE DEF f
<1>5. IsRecursion(f, Nat, base, before, step) BY <1>4 DEF IsRecursion
<1>. QED BY <1>3, <1>5
=============================================================================
