--------------------------- MODULE FiniteNumbers ---------------------------
(***************************************************************************)
(* Facts about finite sets that the proofs of several components need:     *)
(* induction over the naturals, the extremes of a finite set of numbers,   *)
(* the sum of the weights of finitely many things, and the fold of a set   *)
(* of numbers in their order.  All by the minimal element that a           *)
(* well-founded relation, strict inclusion, has in a set of sets: the      *)
(* induction theorems of the library take an operator.                     *)
(***************************************************************************)
EXTENDS Integers, FiniteSets, FiniteSetsExt, FiniteSetTheorems, WellFoundedInduction, TLAPS

\* Induction, for sets: the strict inclusion of the intervals is well-founded.
LEMMA SetInduction ==
  ASSUME NEW S \in SUBSET Nat, 0 \in S, \A n \in S : n + 1 \in S
  PROVE  Nat \subseteq S
<1> SUFFICES ASSUME Nat \ S # {} PROVE FALSE
  OBVIOUS
<1> DEFINE Initial == {1..n : n \in Nat \ S}
<1>1. Initial \subseteq FiniteSubsetsOf(Nat) /\ Initial # {}
  <2>1. \A n \in Nat : 1..n \subseteq Nat /\ IsFiniteSet(1..n)
    BY FS_Interval
  <2> QED
    BY <2>1 DEF FiniteSubsetsOf
<1>2. PICK X \in Initial : \A Y \in Initial : <<Y, X>> \notin StrictSubsetOrdering(Nat)
  <2>1. IsWellFoundedOn(StrictSubsetOrdering(Nat), FiniteSubsetsOf(Nat))
    BY FS_StrictSubsetOrderingWellFounded
  <2> HIDE DEF Initial
  <2> QED
    BY <1>1, <2>1, WFMin
<1>3. PICK m \in Nat \ S : X = 1..m
  OBVIOUS
<1>4. m # 0 /\ m - 1 \in Nat \ S
  OBVIOUS
<1>5. <<1..(m - 1), 1..m>> \in StrictSubsetOrdering(Nat)
  BY <1>4 DEF StrictSubsetOrdering
<1> QED
  BY <1>2, <1>3, <1>4, <1>5

\* A finite set of numbers has a least and a greatest element.
LEMMA Extremes ==
  ASSUME NEW S \in SUBSET Nat, IsFiniteSet(S), S # {}
  PROVE  /\ Min(S) \in S /\ \A x \in S : Min(S) <= x
         /\ Max(S) \in S /\ \A x \in S : x <= Max(S)
<1> DEFINE below(x) == {y \in S : y < x}
           above(x) == {y \in S : x < y}
<1>1. IsWellFoundedOn(StrictSubsetOrdering(S), FiniteSubsetsOf(S))
  BY FS_StrictSubsetOrderingWellFounded
<1>2. \E x \in S : \A y \in S : x <= y
  <2> DEFINE family == {below(x) : x \in S}
  <2>1. family \subseteq FiniteSubsetsOf(S) /\ family # {}
    <3>1. \A x \in S : below(x) \subseteq S /\ IsFiniteSet(below(x))
      BY FS_Subset
    <3> HIDE DEF below
    <3> QED
      BY <3>1 DEF FiniteSubsetsOf
  <2> HIDE DEF family
  <2>2. PICK X \in family : \A Y \in family : <<Y, X>> \notin StrictSubsetOrdering(S)
    BY <1>1, <2>1, WFMin
  <2>3. PICK x \in S : X = below(x)
    BY DEF family
  <2>4. ASSUME NEW y \in S, y < x PROVE FALSE
    <3>0. S \subseteq Nat
      OBVIOUS
    <3>2. \A z \in S : z < y => z < x
      BY <2>4, <3>0
    <3>4. x \in S /\ y \in S /\ ~(y < y)
      BY <3>0
    <3>1. below(y) \subseteq below(x) /\ y \in below(x) /\ y \notin below(y)
      BY <2>4, <3>2, <3>4
    <3>3. below(x) \subseteq S /\ below(y) \subseteq S
      OBVIOUS
    <3> HIDE DEF below
    <3>5. <<below(y), below(x)>> \in StrictSubsetOrdering(S)
      BY <3>1, <3>3 DEF StrictSubsetOrdering
    <3> QED
      BY <2>2, <2>3, <3>5 DEF family
  <2>5. \A y \in S : x <= y
    <3> SUFFICES ASSUME NEW y \in S PROVE x <= y
      OBVIOUS
    <3>1. x \in Nat /\ y \in Nat /\ ~(y < x)
      BY <2>4
    <3> QED
      BY <3>1
  <2> QED
    BY <2>5
<1>3. \E x \in S : \A y \in S : y <= x
  <2> DEFINE family == {above(x) : x \in S}
  <2>1. family \subseteq FiniteSubsetsOf(S) /\ family # {}
    <3>1. \A x \in S : above(x) \subseteq S /\ IsFiniteSet(above(x))
      BY FS_Subset
    <3> HIDE DEF above
    <3> QED
      BY <3>1 DEF FiniteSubsetsOf
  <2> HIDE DEF family
  <2>2. PICK X \in family : \A Y \in family : <<Y, X>> \notin StrictSubsetOrdering(S)
    BY <1>1, <2>1, WFMin
  <2>3. PICK x \in S : X = above(x)
    BY DEF family
  <2>4. ASSUME NEW y \in S, x < y PROVE FALSE
    <3>0. S \subseteq Nat
      OBVIOUS
    <3>2. \A z \in S : y < z => x < z
      BY <2>4, <3>0
    <3>4. x \in S /\ y \in S /\ ~(y < y)
      BY <3>0
    <3>1. above(y) \subseteq above(x) /\ y \in above(x) /\ y \notin above(y)
      BY <2>4, <3>2, <3>4
    <3>3. above(x) \subseteq S /\ above(y) \subseteq S
      OBVIOUS
    <3> HIDE DEF above
    <3>5. <<above(y), above(x)>> \in StrictSubsetOrdering(S)
      BY <3>1, <3>3 DEF StrictSubsetOrdering
    <3> QED
      BY <2>2, <2>3, <3>5 DEF family
  <2>5. \A y \in S : y <= x
    <3> SUFFICES ASSUME NEW y \in S PROVE y <= x
      OBVIOUS
    <3>1. x \in Nat /\ y \in Nat /\ ~(x < y)
      BY <2>4
    <3> QED
      BY <3>1
  <2> QED
    BY <2>5
<1> QED
  BY <1>2, <1>3 DEF Min, Max

-----------------------------------------------------------------------------
\* sum gives the subsets of T the sums of the weights f of their members.
IsSum(sum, f, T) ==
  /\ sum \in [SUBSET T -> Nat]
  /\ sum[{}] = 0
  /\ \A S \in SUBSET T : \A x \in T \ S : sum[S \cup {x}] = sum[S] + f[x]

\* From the sums of a set to those of a set with one more member.
LEMMA SumWithOneMore ==
  ASSUME NEW X, NEW x \in X, NEW f \in [X -> Nat], NEW g, IsSum(g, f, X \ {x})
  PROVE  \E h : IsSum(h, f, X)
<1> DEFINE Y == X \ {x}
           h == [S \in SUBSET X |-> IF x \in S THEN g[S \ {x}] + f[x] ELSE g[S]]
<1>1. /\ g \in [SUBSET Y -> Nat] /\ g[{}] = 0 /\ f[x] \in Nat
      /\ \A S \in SUBSET Y : \A y \in Y \ S : g[S \cup {y}] = g[S] + f[y]
  BY DEF IsSum
<1>2. \A S \in SUBSET X : S \ {x} \in SUBSET Y /\ (x \notin S => S \in SUBSET Y)
  OBVIOUS
<1>3. \A S \in SUBSET Y : g[S] \in Nat
  BY <1>1
<1>4. h \in [SUBSET X -> Nat]
  BY <1>1, <1>2, <1>3
<1>5. h[{}] = 0
  BY <1>1
<1>6. ASSUME NEW S \in SUBSET X, NEW y \in X \ S PROVE h[S \cup {y}] = h[S] + f[y]
  <2>1. S \cup {y} \in SUBSET X
    OBVIOUS
  <2>2. CASE y = x
    <3>1. (S \cup {y}) \ {x} = S
      BY <2>2
    <3> QED
      BY <2>1, <2>2, <3>1
  <2>3. CASE y # x /\ x \in S
    <3>1. (S \cup {y}) \ {x} = (S \ {x}) \cup {y} /\ y \in Y \ (S \ {x}) /\ S \ {x} \in SUBSET Y
      BY <2>3
    <3>2. g[(S \ {x}) \cup {y}] = g[S \ {x}] + f[y]
      BY <1>1, <3>1
    <3>3. g[S \ {x}] \in Nat /\ f[y] \in Nat
      BY <1>3, <3>1
    <3>4. h[S \cup {y}] = g[(S \ {x}) \cup {y}] + f[x] /\ h[S] = g[S \ {x}] + f[x]
      BY <2>1, <2>3, <3>1
    <3> HIDE DEF h, Y
    <3> QED
      BY <1>1, <3>2, <3>3, <3>4
  <2>4. CASE y # x /\ x \notin S
    <3>1. S \in SUBSET Y /\ y \in Y \ S /\ x \notin S \cup {y}
      BY <2>4
    <3> QED
      BY <1>1, <2>1, <2>4, <3>1
  <2> QED
    BY <2>2, <2>3, <2>4
<1> HIDE DEF h
<1>7. IsSum(h, f, X)
  <2>1. \A S \in SUBSET X : \A y \in X \ S : h[S \cup {y}] = h[S] + f[y]
    BY <1>6
  <2> QED
    BY <1>4, <1>5, <2>1 DEF IsSum
<1> QED
  BY <1>7

\* Every finite set has its sums.
LEMMA SumExists ==
  ASSUME NEW T, IsFiniteSet(T), NEW f \in [T -> Nat]
  PROVE  \E sum : IsSum(sum, f, T)
<1> DEFINE bad == {S \in SUBSET T : ~ \E sum : IsSum(sum, f, S)}
<1> SUFFICES ASSUME bad # {} PROVE FALSE
  OBVIOUS
<1>1. IsWellFoundedOn(StrictSubsetOrdering(T), FiniteSubsetsOf(T))
  BY FS_StrictSubsetOrderingWellFounded
<1>2. bad \subseteq FiniteSubsetsOf(T)
  BY FS_Subset DEF FiniteSubsetsOf
<1> HIDE DEF bad
<1>3. PICK X \in bad : \A Y \in bad : <<Y, X>> \notin StrictSubsetOrdering(T)
  BY <1>1, <1>2, WFMin
<1>4. X \subseteq T /\ ~ \E sum : IsSum(sum, f, X)
  BY DEF bad
<1>5. X # {}
  <2> SUFFICES ASSUME X = {} PROVE FALSE
    OBVIOUS
  <2>1. IsSum([S \in {{}} |-> 0], f, {})
    BY DEF IsSum
  <2> QED
    BY <1>4, <2>1
<1>6. PICK x \in X : TRUE
  BY <1>5
<1>7. X \ {x} \notin bad
  BY <1>3, <1>4 DEF StrictSubsetOrdering
<1>8. PICK g : IsSum(g, f, X \ {x})
  BY <1>4, <1>7 DEF bad
<1>9. [z \in X |-> f[z]] \in [X -> Nat] /\ \A z \in X : [w \in X |-> f[w]][z] = f[z]
  BY <1>4
<1>10. IsSum(g, [z \in X |-> f[z]], X \ {x})
  BY <1>8, <1>9 DEF IsSum
<1>11. PICK h : IsSum(h, [z \in X |-> f[z]], X)
  BY <1>9, <1>10, SumWithOneMore
<1>12. IsSum(h, f, X)
  BY <1>9, <1>11 DEF IsSum
<1> QED
  BY <1>4, <1>12

\* The sums obey the recursion that takes the members of a set one by one, in
\* any order, and are the only ones that do.
LEMMA SumIsRecursive ==
  ASSUME NEW T, IsFiniteSet(T), NEW f \in [T -> Nat], NEW sum, IsSum(sum, f, T), NEW g
  PROVE  g = [S \in SUBSET T |->
                IF S = {} THEN 0
                ELSE LET x == CHOOSE x \in S : TRUE IN f[x] + g[S \ {x}]]
         <=> g = sum
<1> DEFINE any(S) == CHOOSE x \in S : TRUE
<1>0. \A S \in SUBSET T : S # {} => any(S) \in S
  OBVIOUS
<1> HIDE DEF any
<1>1. /\ sum \in [SUBSET T -> Nat] /\ sum[{}] = 0
      /\ \A S \in SUBSET T : S # {} => sum[S] = f[any(S)] + sum[S \ {any(S)}]
  <2>1. ASSUME NEW S \in SUBSET T, S # {} PROVE sum[S] = f[any(S)] + sum[S \ {any(S)}]
    <3>1. any(S) \in S /\ any(S) \in T /\ S \ {any(S)} \in SUBSET T
      BY <1>0, <2>1
    <3>2. (S \ {any(S)}) \cup {any(S)} = S /\ any(S) \in T \ (S \ {any(S)})
      BY <3>1
    <3>3. sum[(S \ {any(S)}) \cup {any(S)}] = sum[S \ {any(S)}] + f[any(S)]
      BY <3>1, <3>2 DEF IsSum
    <3>4. sum[S \ {any(S)}] \in Nat /\ f[any(S)] \in Nat
      BY <3>1 DEF IsSum
    <3>5. sum[S] = sum[S \ {any(S)}] + f[any(S)]
      BY <3>2, <3>3
    <3>6. \A m, n \in Nat : m + n = n + m
      OBVIOUS
    <3> QED
      BY <3>4, <3>5, <3>6
  <2> QED
    BY <2>1 DEF IsSum
<1>2. sum = [S \in SUBSET T |-> IF S = {} THEN 0 ELSE f[any(S)] + sum[S \ {any(S)}]]
  BY <1>1
<1>3. ASSUME g = [S \in SUBSET T |-> IF S = {} THEN 0 ELSE f[any(S)] + g[S \ {any(S)}]]
      PROVE  g = sum
  <2> DEFINE bad == {S \in SUBSET T : g[S] # sum[S]}
  <2>1. ASSUME bad # {} PROVE FALSE
    <3>1. IsWellFoundedOn(StrictSubsetOrdering(T), FiniteSubsetsOf(T))
      BY FS_StrictSubsetOrderingWellFounded
    <3>2. bad \subseteq FiniteSubsetsOf(T)
      BY FS_Subset DEF FiniteSubsetsOf
    <3> HIDE DEF bad
    <3>3. PICK S \in bad : \A R \in bad : <<R, S>> \notin StrictSubsetOrdering(T)
      BY <2>1, <3>1, <3>2, WFMin
    <3>4. S \in SUBSET T /\ g[S] # sum[S]
      BY DEF bad
    <3>5. g[{}] = 0 /\ \A R \in SUBSET T : R # {} => g[R] = f[any(R)] + g[R \ {any(R)}]
      BY <1>3
    <3>6. S # {} /\ any(S) \in S
      BY <1>0, <1>1, <3>4, <3>5
    <3>7. <<S \ {any(S)}, S>> \in StrictSubsetOrdering(T) /\ S \ {any(S)} \in SUBSET T
      BY <3>4, <3>6 DEF StrictSubsetOrdering
    <3>8. g[S \ {any(S)}] = sum[S \ {any(S)}]
      BY <3>3, <3>7 DEF bad
    <3> QED
      BY <1>1, <3>4, <3>5, <3>6, <3>8
  <2>2. \A S \in SUBSET T : g[S] = sum[S]
    BY <2>1
  <2>3. DOMAIN g = SUBSET T /\ g = [S \in DOMAIN g |-> g[S]]
    BY <1>3
  <2>4. sum = [S \in SUBSET T |-> sum[S]]
    BY <1>1
  <2> QED
    BY <2>2, <2>3, <2>4
<1> QED
  BY <1>2, <1>3 DEF any

-----------------------------------------------------------------------------
\* g folds the members of each subset of T, the greatest last.
IsFold(g, base, step, T) ==
  /\ g[{}] = base
  /\ \A S \in SUBSET T : S # {} => g[S] = step[Max(S)][g[S \ {Max(S)}]]

\* What holds of the base and survives each step holds of the fold.
LEMMA FoldKeeps ==
  ASSUME NEW T \in SUBSET Nat, IsFiniteSet(T), NEW D, NEW g, g[{}] \in D,
         \A S \in SUBSET T : S # {} /\ g[S \ {Max(S)}] \in D => g[S] \in D
  PROVE  \A S \in SUBSET T : g[S] \in D
<1> DEFINE bad == {S \in SUBSET T : g[S] \notin D}
<1> SUFFICES ASSUME bad # {} PROVE FALSE
  OBVIOUS
<1>1. IsWellFoundedOn(StrictSubsetOrdering(T), FiniteSubsetsOf(T))
  BY FS_StrictSubsetOrderingWellFounded
<1>2. bad \subseteq FiniteSubsetsOf(T)
  BY FS_Subset DEF FiniteSubsetsOf
<1> HIDE DEF bad
<1>3. PICK S \in bad : \A R \in bad : <<R, S>> \notin StrictSubsetOrdering(T)
  BY <1>1, <1>2, WFMin
<1>4. S \in SUBSET T /\ g[S] \notin D /\ S # {}
  BY DEF bad
<1>5. IsFiniteSet(S) /\ S \in SUBSET Nat
  BY <1>4, FS_Subset
<1> DEFINE m == Max(S)
<1>6. m \in S
  BY <1>4, <1>5, Extremes
<1>7. S \ {m} \notin bad
  <2> HIDE DEF m
  <2>1. <<S \ {m}, S>> \in StrictSubsetOrdering(T)
    BY <1>4, <1>6 DEF StrictSubsetOrdering
  <2> QED
    BY <1>3, <2>1
<1> QED
  BY <1>4, <1>7 DEF bad

\* Every finite set of numbers has its fold.
LEMMA FoldExists ==
  ASSUME NEW T \in SUBSET Nat, IsFiniteSet(T), NEW D, NEW base \in D, NEW step \in [T -> [D -> D]]
  PROVE  \E g \in [SUBSET T -> D] : IsFold(g, base, step, T)
<1> DEFINE bad == {S \in SUBSET T : ~ \E g \in [SUBSET S -> D] : IsFold(g, base, step, S)}
<1> SUFFICES ASSUME bad # {} PROVE FALSE
  OBVIOUS
<1>1. IsWellFoundedOn(StrictSubsetOrdering(T), FiniteSubsetsOf(T))
  BY FS_StrictSubsetOrderingWellFounded
<1>2. bad \subseteq FiniteSubsetsOf(T)
  BY FS_Subset DEF FiniteSubsetsOf
<1> HIDE DEF bad
<1>3. PICK X \in bad : \A Y \in bad : <<Y, X>> \notin StrictSubsetOrdering(T)
  BY <1>1, <1>2, WFMin
<1>4. X \in SUBSET T /\ ~ \E g \in [SUBSET X -> D] : IsFold(g, base, step, X)
  BY DEF bad
<1>5. X # {}
  <2> SUFFICES ASSUME X = {} PROVE FALSE
    OBVIOUS
  <2>1. [S \in SUBSET {} |-> base] \in [SUBSET {} -> D]
    OBVIOUS
  <2>2. IsFold([S \in SUBSET {} |-> base], base, step, {})
    BY DEF IsFold
  <2> QED
    BY <1>4, <2>1, <2>2
<1> DEFINE x == Max(X)
           Y == X \ {x}
<1>6. x \in X /\ x \in T /\ \A y \in X : y <= x
  BY <1>4, <1>5, Extremes, FS_Subset
<1>7. Y \notin bad
  BY <1>3, <1>4, <1>6 DEF StrictSubsetOrdering
<1>8. PICK g \in [SUBSET Y -> D] : IsFold(g, base, step, Y)
  BY <1>4, <1>7 DEF bad
<1>9. \A S \in SUBSET X : x \in S => Max(S) = x
  <2> SUFFICES ASSUME NEW S \in SUBSET X, x \in S PROVE Max(S) = x
    OBVIOUS
  <2>1. S \in SUBSET Nat /\ IsFiniteSet(S) /\ S # {}
    BY <1>4, FS_Subset
  <2>2. Max(S) \in S /\ x <= Max(S)
    BY <2>1, Extremes
  <2>3. Max(S) \in Nat /\ x \in Nat /\ Max(S) <= x
    BY <1>6, <2>1, <2>2
  <2> HIDE DEF x
  <2> QED
    BY <2>2, <2>3
<1> HIDE DEF x
<1> DEFINE h == [S \in SUBSET X |-> IF x \in S THEN step[x][g[S \ {x}]] ELSE g[S]]
<1>10. \A S \in SUBSET X : S \ {x} \in SUBSET Y /\ (x \notin S => S \in SUBSET Y)
  OBVIOUS
<1>11. h \in [SUBSET X -> D]
  BY <1>6, <1>8, <1>10
<1>12. IsFold(h, base, step, X)
  <2>1. h[{}] = base
    BY <1>8 DEF IsFold
  <2>2. ASSUME NEW S \in SUBSET X, S # {} PROVE h[S] = step[Max(S)][h[S \ {Max(S)}]]
    <3>1. CASE x \in S
      BY <1>9, <1>10, <3>1
    <3>2. CASE x \notin S
      <4>1. S \in SUBSET Y /\ S \ {Max(S)} \in SUBSET X /\ x \notin S \ {Max(S)}
        BY <1>10, <3>2
      <4>2. g[S] = step[Max(S)][g[S \ {Max(S)}]]
        BY <1>8, <2>2, <4>1 DEF IsFold
      <4> QED
        BY <3>2, <4>1, <4>2
    <3> QED
      BY <3>1, <3>2
  <2> HIDE DEF h
  <2> QED
    BY <2>1, <2>2 DEF IsFold
<1> QED
  BY <1>4, <1>11, <1>12
=============================================================================
