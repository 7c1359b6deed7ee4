---------------------------- MODULE MemoryProofs ----------------------------
(***************************************************************************)
(* The shared memory, for any clients, scopes, keys and bounds.  A log is  *)
(* in the order of the puts: no record lies behind one that had begun only *)
(* after it had returned, though overlapping puts may be stamped in the    *)
(* other order.  Appending keeps that order, because what returned before  *)
(* the new record began is in the log already or nowhere; so do cutting    *)
(* off the front and sorting by stamp.                                     *)
(***************************************************************************)
EXTENDS Memory, FiniteNumbers, FunctionTheorems, SequenceTheorems

-----------------------------------------------------------------------------
(***************************************************************************)
(* The operators on logs.                                                  *)
(***************************************************************************)
LEMMA SeqFacts ==
  ASSUME NEW S, NEW q \in Seq(S)
  PROVE  Len(q) \in Nat /\ DOMAIN q = 1..Len(q) /\ \A i \in 1..Len(q) : q[i] \in S
OBVIOUS

\* The end of a log.
LEMMA SuffixFacts ==
  ASSUME NEW q \in Seq(Stamp), NEW n \in Nat
  PROVE  \E k \in 0..Len(q) :
           /\ IF Len(q) > n THEN Len(q) = n + k ELSE k = 0
           /\ Suffix(q, n) \in Seq(Stamp) /\ Len(Suffix(q, n)) = Len(q) - k
           /\ \A i \in 1..(Len(q) - k) : Suffix(q, n)[i] = q[i + k]
<1>0. Len(q) \in Nat
  OBVIOUS
<1>1. CASE Len(q) > n
  <2> DEFINE k == Len(q) - n
  <2>1. k \in 0..Len(q) /\ k + 1 \in 1..(Len(q) + 1) /\ Len(q) = n + k /\ Len(q) - n + 1 = k + 1
    <3>1. \A l, m \in Nat : l > m => l - m \in 0..l /\ l - m + 1 \in 1..(l + 1) /\ l = m + (l - m)
      OBVIOUS
    <3> QED
      BY <1>0, <1>1, <3>1
  <2>2. Suffix(q, n) = SubSeq(q, k + 1, Len(q))
    BY <1>1, <2>1 DEF Suffix
  <2> HIDE DEF k
  <2>3. Suffix(q, n) \in Seq(Stamp) /\ Len(Suffix(q, n)) = Len(q) - k
    BY <1>0, <2>1, <2>2
  <2>4. \A i \in 1..(Len(q) - k) : Suffix(q, n)[i] = q[i + k]
    BY <1>0, <2>1, <2>2
  <2> QED
    BY <1>1, <2>1, <2>3, <2>4
<1>2. CASE ~(Len(q) > n)
  BY <1>0, <1>2 DEF Suffix
<1> QED
  BY <1>1, <1>2

\* Every finite set of stamps has its sequence in their order.
LEMMA SortFacts ==
  ASSUME NEW R \in SUBSET Nat, IsFiniteSet(R)
  PROVE  /\ ByStamp(R) \in Seq(R)
         /\ StampsOf(ByStamp(R)) = R
         /\ \A i, j \in 1..Len(ByStamp(R)) : i < j => ByStamp(R)[i] < ByStamp(R)[j]
<1> DEFINE Sorts(q, S) == /\ q \in [1..Cardinality(S) -> S]
                          /\ StampsOf(q) = S
                          /\ \A i, j \in DOMAIN q : i < j => q[i] < q[j]
           K == {n \in Nat : \A S \in SUBSET Nat :
                   IsFiniteSet(S) /\ Cardinality(S) = n => \E q : Sorts(q, S)}
<1>1. 0 \in K
  <2> SUFFICES ASSUME NEW S \in SUBSET Nat, IsFiniteSet(S), Cardinality(S) = 0
               PROVE  \E q : Sorts(q, S)
    OBVIOUS
  <2>1. S = {}
    BY FS_EmptySet
  <2>2. Sorts(<<>>, S)
    BY <2>1 DEF StampsOf
  <2> QED
    BY <2>2
<1>2. ASSUME NEW n \in K PROVE n + 1 \in K
  <2> SUFFICES ASSUME NEW S \in SUBSET Nat, IsFiniteSet(S), Cardinality(S) = n + 1
               PROVE  \E q : Sorts(q, S)
    OBVIOUS
  <2> DEFINE m == Max(S)
             T == S \ {m}
  <2>0. n \in Nat
    OBVIOUS
  <2>1. m \in S /\ \A x \in S : x <= m
    <3>1. S # {}
      BY <2>0, FS_EmptySet
    <3> QED
      BY <3>1, Extremes
  <2> HIDE DEF m
  <2>2. T \in SUBSET Nat /\ IsFiniteSet(T) /\ Cardinality(T) = n
    <3>1. IsFiniteSet(T) /\ Cardinality(T) = Cardinality(S) - 1
      BY <2>1, FS_RemoveElement
    <3>2. T \in SUBSET Nat
      OBVIOUS
    <3> HIDE DEF T
    <3> QED
      BY <2>0, <3>1, <3>2
  <2> HIDE DEF T
  <2>3. PICK q : Sorts(q, T)
    <3> HIDE DEF Sorts
    <3> QED
      BY <2>2
  <2> DEFINE r == [i \in 1..(n + 1) |-> IF i = n + 1 THEN m ELSE q[i]]
  <2>4. DOMAIN q = 1..n /\ \A i \in 1..n : q[i] \in T /\ q[i] < m
    <3>1. \A x \in T : x < m
      BY <2>1 DEF T
    <3> QED
      BY <2>2, <2>3, <3>1
  <2>5. r \in [1..(n + 1) -> S] /\ r[n + 1] = m /\ \A i \in 1..n : r[i] = q[i]
    BY <2>0, <2>1, <2>4 DEF T
  <2> HIDE DEF r
  <2>6. StampsOf(r) = S
    <3>1. StampsOf(q) = T /\ StampsOf(q) = {q[i] : i \in 1..n}
      BY <2>3, <2>4 DEF StampsOf
    <3>2. StampsOf(r) = {r[i] : i \in 1..(n + 1)}
      BY <2>5 DEF StampsOf
    <3>3. \A i \in 1..(n + 1) : i \in 1..n \/ i = n + 1
      BY <2>0
    <3>4. {r[i] : i \in 1..(n + 1)} = {q[i] : i \in 1..n} \cup {m}
      BY <2>0, <2>5, <3>3
    <3> QED
      BY <2>1, <3>1, <3>2, <3>4 DEF T
  <2>7. \A i, j \in 1..(n + 1) : i < j => r[i] < r[j]
    <3> SUFFICES ASSUME NEW i \in 1..(n + 1), NEW j \in 1..(n + 1), i < j
                 PROVE  r[i] < r[j]
      OBVIOUS
    <3>1. i \in 1..n /\ (j \in 1..n \/ j = n + 1)
      BY <2>0
    <3>2. j \in 1..n => q[i] < q[j]
      BY <2>3, <2>4, <3>1
    <3> QED
      BY <2>4, <2>5, <3>1, <3>2
  <2>8. Sorts(r, S)
    BY <2>5, <2>6, <2>7
  <2> QED
    BY <2>8
<1>3. PICK q : Sorts(q, R)
  <2>1. Cardinality(R) \in K
    <3>1. Cardinality(R) \in Nat /\ K \subseteq Nat
      BY FS_CardinalityType
    <3> HIDE DEF K
    <3> QED
      BY <1>1, <1>2, <3>1, SetInduction
  <2> HIDE DEF Sorts
  <2> QED
    BY <2>1
<1>4. Sorts(ByStamp(R), R)
  BY <1>3 DEF ByStamp
<1>5. Cardinality(R) \in Nat
  BY FS_CardinalityType
<1> QED
  BY <1>4, <1>5

\* The newest of a set of records.
LEMMA NewestFacts ==
  ASSUME NEW R \in SUBSET Nat, IsFiniteSet(R), NEW n \in Nat
  PROVE  LET W == NewestOf(R, n) IN
         /\ W \subseteq R /\ IsFiniteSet(W) /\ Cardinality(W) <= n
         /\ \A t \in R \ W : Cardinality({u \in R : u > t}) >= n
         /\ \A t \in W, u \in R : u > t => u \in W
<1> DEFINE W == NewestOf(R, n)
           above(t) == {u \in R : u > t}
<1>1. \A t \in Nat : IsFiniteSet(above(t)) /\ Cardinality(above(t)) \in Nat
  BY FS_Subset, FS_CardinalityType
<1>2. W = {t \in R : Cardinality(above(t)) < n}
  BY DEF NewestOf
<1>3. W \subseteq R /\ IsFiniteSet(W)
  BY <1>2, FS_Subset
<1>4. \A t \in R \ W : Cardinality(above(t)) >= n
  <2> HIDE DEF W, above
  <2> QED
    BY <1>1, <1>2
<1>5. ASSUME NEW t \in W, NEW u \in R, u > t PROVE u \in W
  <2>0. t \in Nat /\ u \in Nat
    BY <1>3, <1>5
  <2>1. above(u) \subseteq above(t)
    <3>1. \A x \in Nat : x > u => x > t
      BY <1>5, <2>0
    <3> QED
      BY <3>1
  <2>2. Cardinality(above(u)) <= Cardinality(above(t))
    BY <1>1, <2>1, FS_Subset
  <2> HIDE DEF W, above
  <2> QED
    BY <1>1, <1>2, <1>3, <1>5, <2>0, <2>1, <2>2
<1>6. Cardinality(W) <= n
  <2>1. CASE W = {}
    BY <2>1, FS_EmptySet
  <2>2. CASE W # {}
    <3> DEFINE m == Min(W)
    <3>1. m \in W /\ \A x \in W : m <= x
      BY <1>3, <2>2, Extremes
    <3> HIDE DEF m
    <3>0. m \in Nat /\ W \subseteq Nat
      <4> HIDE DEF W
      <4> QED
        BY <1>3, <3>1
    <3>2. W \subseteq above(m) \cup {m}
      <4>1. \A x \in Nat : m <= x => x = m \/ x > m
        BY <3>0
      <4> QED
        BY <1>3, <3>0, <3>1, <4>1
    <3>3. m \in Nat /\ m \notin above(m)
      BY <3>0
    <3>4. /\ IsFiniteSet(above(m) \cup {m})
          /\ Cardinality(above(m) \cup {m}) = Cardinality(above(m)) + 1
      BY <1>1, <3>3, FS_AddElement
    <3>5. Cardinality(W) <= Cardinality(above(m) \cup {m})
      BY <3>2, <3>4, FS_Subset
    <3>6. Cardinality(above(m)) < n
      BY <1>2, <3>1
    <3>7. Cardinality(W) \in Nat
      BY <1>3, FS_CardinalityType
    <3> HIDE DEF W, above
    <3> QED
      BY <1>1, <3>3, <3>4, <3>5, <3>6, <3>7
  <2> QED
    BY <2>1, <2>2
<1> QED
  BY <1>3, <1>4, <1>5, <1>6

\* The last n records of a log in which no two are the same.
LEMMA EndIsCounted ==
  ASSUME NEW S, NEW q \in Seq(S), NEW k \in 0..Len(q),
         \A i, j \in 1..Len(q) : i < j => q[i] # q[j]
  PROVE  LET W == {q[i] : i \in (k + 1)..Len(q)} IN
         IsFiniteSet(W) /\ Cardinality(W) = Len(q) - k
<1> DEFINE I == (k + 1)..Len(q)
           f == [i \in I |-> q[i]]
           W == {q[i] : i \in I}
<1>0. Len(q) \in Nat /\ k \in Nat /\ k <= Len(q) /\ I \subseteq 1..Len(q)
  OBVIOUS
<1>1. IsFiniteSet(I) /\ Cardinality(I) = Len(q) - k
  <2>1. \A l, m \in Nat : m <= l =>
          m + 1 \in Int /\ l \in Int /\ (IF m + 1 > l THEN 0 ELSE l - (m + 1) + 1) = l - m
    OBVIOUS
  <2>2. k + 1 \in Int /\ Len(q) \in Int
    BY <1>0
  <2>3. /\ IsFiniteSet((k + 1)..Len(q))
        /\ Cardinality((k + 1)..Len(q)) = IF k + 1 > Len(q) THEN 0 ELSE Len(q) - (k + 1) + 1
    BY ONLY <2>2, FS_Interval
  <2> QED
    BY <1>0, <2>1, <2>3
<1>2. \A i, j \in I : i # j => q[i] # q[j]
  <2> SUFFICES ASSUME NEW i \in I, NEW j \in I, i # j PROVE q[i] # q[j]
    OBVIOUS
  <2>1. i < j \/ j < i
    BY <1>0
  <2> QED
    BY <1>0, <2>1
<1>3. f \in Bijection(I, W)
  <2>1. f \in [I -> W]
    OBVIOUS
  <2>2. \A i, j \in I : f[i] = f[j] => i = j
    BY <1>2
  <2>3. \A w \in W : \E i \in I : f[i] = w
    OBVIOUS
  <2>4. DOMAIN f = I
    OBVIOUS
  <2> HIDE DEF f, W, I
  <2> QED
    BY <2>1, <2>2, <2>3, <2>4 DEF Bijection, Injection, IsInjective, Surjection
<1>4. ExistsBijection(I, W)
  BY <1>3 DEF ExistsBijection
<1> HIDE DEF I, W
<1>5. IsFiniteSet(W) /\ Cardinality(W) = Cardinality(I)
  BY <1>1, <1>4, FS_Bijection
<1> QED
  BY <1>1, <1>5 DEF W, I

-----------------------------------------------------------------------------
(***************************************************************************)
(* Logs in the order of the puts.                                          *)
(***************************************************************************)
\* q holds records of a scope, all of them done, no two the same, and none
\* behind one that it was prior to.
IsLog(q, s, done, prior) ==
  /\ q \in Seq(Stamp)
  /\ \A i \in 1..Len(q) : ScopeOf[q[i]] = s /\ q[i] \in done
  /\ \A i, j \in 1..Len(q) : i < j => q[i] # q[j] /\ q[j] \notin prior[q[i]]

LEMMA StampFacts == Stamp \in SUBSET Nat /\ IsFiniteSet(Stamp) /\ 0 \notin Stamp
BY MemoryAssumption, FS_Interval DEF Stamp

LEMMA StampsOfLog ==
  ASSUME NEW S, NEW q \in Seq(S)
  PROVE  StampsOf(q) = {q[i] : i \in 1..Len(q)} /\ StampsOf(q) \subseteq S
BY SeqFacts DEF StampsOf

LEMMA LogRecords ==
  ASSUME NEW q, NEW s, NEW done, NEW prior, IsLog(q, s, done, prior)
  PROVE  /\ q \in Seq(Stamp) /\ Len(q) \in Nat /\ StampsOf(q) = {q[i] : i \in 1..Len(q)}
         /\ StampsOf(q) \subseteq Stamp /\ StampsOf(q) \subseteq done
         /\ \A t \in StampsOf(q) : ScopeOf[t] = s
<1>1. q \in Seq(Stamp) /\ \A i \in 1..Len(q) : ScopeOf[q[i]] = s /\ q[i] \in done
  BY DEF IsLog
<1>2. /\ Len(q) \in Nat /\ StampsOf(q) = {q[i] : i \in 1..Len(q)}
      /\ StampsOf(q) \subseteq Stamp
  BY <1>1, StampsOfLog
<1> QED
  BY <1>1, <1>2

LEMMA AppendedRecords ==
  ASSUME NEW q \in Seq(Stamp), NEW t \in Stamp
  PROVE  StampsOf(Append(q, t)) = StampsOf(q) \cup {t}
<1> DEFINE r == Append(q, t)
<1>1. Len(q) \in Nat /\ r \in Seq(Stamp) /\ Len(r) = Len(q) + 1
  OBVIOUS
<1>2. (\A i \in 1..Len(q) : r[i] = q[i]) /\ r[Len(q) + 1] = t
  OBVIOUS
<1>3. StampsOf(r) = {r[i] : i \in 1..(Len(q) + 1)} /\ StampsOf(q) = {q[i] : i \in 1..Len(q)}
  BY <1>1, StampsOfLog
<1>4. /\ Len(q) + 1 \in 1..(Len(q) + 1) /\ 1..Len(q) \subseteq 1..(Len(q) + 1)
      /\ \A i \in 1..(Len(q) + 1) : i \in 1..Len(q) \/ i = Len(q) + 1
  BY <1>1
<1> HIDE DEF r
<1>5. StampsOf(r) = StampsOf(q) \cup {t}
  BY <1>2, <1>3, <1>4
<1> QED
  BY <1>5 DEF r

\* A record that is not done yet may follow all those that are.
LEMMA AppendedIsLog ==
  ASSUME NEW q, NEW s, NEW done, NEW prior, IsLog(q, s, done, prior),
         NEW t \in Stamp, t \notin done, ScopeOf[t] = s,
         \A u \in Stamp : prior[u] \subseteq done
  PROVE  IsLog(Append(q, t), s, done \cup {t}, prior)
<1> DEFINE r == Append(q, t)
<1>1. /\ q \in Seq(Stamp) /\ Len(q) \in Nat
      /\ \A i \in 1..Len(q) : q[i] \in Stamp /\ ScopeOf[q[i]] = s /\ q[i] \in done
      /\ \A i, j \in 1..Len(q) : i < j => q[i] # q[j] /\ q[j] \notin prior[q[i]]
  BY DEF IsLog
<1>2. /\ r \in Seq(Stamp) /\ Len(r) = Len(q) + 1
      /\ \A i \in 1..Len(q) : r[i] = q[i]
      /\ r[Len(q) + 1] = t
  BY <1>1
<1> HIDE DEF r
<1>3. \A i \in 1..(Len(q) + 1) : i \in 1..Len(q) \/ i = Len(q) + 1
  BY <1>1
<1>4. \A i \in 1..Len(r) : ScopeOf[r[i]] = s /\ r[i] \in done \cup {t}
  BY <1>1, <1>2, <1>3
<1>5. ASSUME NEW i \in 1..Len(r), NEW j \in 1..Len(r), i < j
      PROVE  r[i] # r[j] /\ r[j] \notin prior[r[i]]
  <2>1. i \in 1..Len(q) /\ (j \in 1..Len(q) \/ j = Len(q) + 1)
    BY <1>1, <1>2, <1>5
  <2> QED
    BY <1>1, <1>2, <1>5, <2>1
<1> QED
  BY <1>2, <1>4, <1>5 DEF IsLog, r

\* A log stays one as more puts begin and return.
LEMMA LogStaysLog ==
  ASSUME NEW q, NEW s, NEW done, NEW prior, IsLog(q, s, done, prior),
         NEW later, NEW prior2, done \subseteq later, \A t \in done : prior2[t] = prior[t]
  PROVE  IsLog(q, s, later, prior2)
BY DEF IsLog

\* The end of a log is a log.
LEMMA SuffixIsLog ==
  ASSUME NEW q, NEW s, NEW done, NEW prior, IsLog(q, s, done, prior), NEW n \in Nat
  PROVE  IsLog(Suffix(q, n), s, done, prior)
<1>1. q \in Seq(Stamp) /\ Len(q) \in Nat
  BY DEF IsLog
<1>2. PICK k \in 0..Len(q) :
        /\ IF Len(q) > n THEN Len(q) = n + k ELSE k = 0
        /\ Suffix(q, n) \in Seq(Stamp) /\ Len(Suffix(q, n)) = Len(q) - k
        /\ \A i \in 1..(Len(q) - k) : Suffix(q, n)[i] = q[i + k]
  BY <1>1, SuffixFacts
<1>3. \A i \in 1..(Len(q) - k) : i + k \in 1..Len(q)
  BY <1>1
<1>4. \A i, j \in 1..(Len(q) - k) : i < j => i + k < j + k
  BY <1>1
<1> DEFINE r == Suffix(q, n)
<1> HIDE DEF r
<1>5. r \in Seq(Stamp) /\ Len(r) = Len(q) - k /\ \A i \in 1..(Len(q) - k) : r[i] = q[i + k]
  BY <1>2 DEF r
<1>6. \A i \in 1..Len(r) : ScopeOf[r[i]] = s /\ r[i] \in done
  <2>1. \A i \in 1..Len(q) : ScopeOf[q[i]] = s /\ q[i] \in done
    BY DEF IsLog
  <2> QED
    BY <1>3, <1>5, <2>1
<1>7. \A i, j \in 1..Len(r) : i < j => r[i] # r[j] /\ r[j] \notin prior[r[i]]
  <2>1. \A i, j \in 1..Len(q) : i < j => q[i] # q[j] /\ q[j] \notin prior[q[i]]
    BY DEF IsLog
  <2> QED
    BY <1>3, <1>4, <1>5, <2>1
<1>8. IsLog(r, s, done, prior)
  BY <1>5, <1>6, <1>7 DEF IsLog
<1> QED
  BY <1>8 DEF r

\* What gc keeps of a log of the file store: the newest, by their stamps.
LEMMA NewestIsLog ==
  ASSUME NEW q, NEW s, NEW done, NEW prior, IsLog(q, s, done, prior),
         \A t \in Stamp : \A u \in prior[t] : u < t
  PROVE  /\ IsLog(Newest(q), s, done, prior)
         /\ StampsOf(Newest(q)) = NewestOf(StampsOf(q), MaxItems)
         /\ \A i, j \in 1..Len(Newest(q)) : i < j => Newest(q)[i] < Newest(q)[j]
<1> DEFINE R == NewestOf(StampsOf(q), MaxItems)
           r == Newest(q)
<1>1. q \in Seq(Stamp)
  BY DEF IsLog
<1>2. StampsOf(q) \subseteq Stamp /\ StampsOf(q) \in SUBSET Nat /\ IsFiniteSet(StampsOf(q))
  BY <1>1, StampsOfLog, StampFacts, FS_Subset
<1>3. R \subseteq StampsOf(q) /\ IsFiniteSet(R)
  BY <1>2, NewestFacts, MemoryAssumption
<1>4. R \in SUBSET Nat
  BY <1>2, <1>3
<1>5. /\ r \in Seq(R) /\ StampsOf(r) = R
      /\ \A i, j \in 1..Len(r) : i < j => r[i] < r[j]
  BY <1>3, <1>4, SortFacts DEF Newest
<1> HIDE DEF R, r
<1>6. r \in Seq(Stamp) /\ \A i \in 1..Len(r) : r[i] \in R
  <2>1. R \subseteq Stamp
    BY <1>2, <1>3
  <2> QED
    BY <1>5, <2>1, SeqFacts
<1>7. \A t \in StampsOf(q) : ScopeOf[t] = s /\ t \in done
  BY <1>1, StampsOfLog DEF IsLog
<1>8. \A i, j \in 1..Len(r) : i < j => r[i] # r[j] /\ r[j] \notin prior[r[i]]
  <2>1. \A t, u \in Nat : t < u => t # u /\ ~(u < t)
    OBVIOUS
  <2>2. \A i \in 1..Len(r) : r[i] \in Stamp /\ r[i] \in Nat
    BY <1>2, <1>3, <1>6
  <2> QED
    BY <1>5, <2>1, <2>2
<1>9. IsLog(r, s, done, prior)
  BY <1>3, <1>6, <1>7, <1>8 DEF IsLog
<1> QED
  BY <1>5, <1>9 DEF R, r

-----------------------------------------------------------------------------
(***************************************************************************)
(* The inductive invariant.                                                *)
(***************************************************************************)
\* The logs hold returned puts, in their order.
LogsInv == \A s \in Scope : IsLog(log[s], s, returned, before)

\* A put is in the hands of one client and nowhere else until it returns; what
\* had returned when it began was stamped before it.
PutsInv ==
  /\ returned \subseteq 1..puts /\ lost \subseteq returned
  /\ \A t \in Stamp : before[t] \subseteq returned /\ \A u \in before[t] : u < t
  /\ \A c \in Client :
       /\ new[c] \in 0..puts /\ new[c] \notin returned
       /\ pc[c] \in {"put", "append", "orphan"} => new[c] # 0
  /\ \A c, d \in Client : new[c] = new[d] /\ new[c] # 0 => c = d

\* Who has the file store's log open has its lock.
LockInv ==
  /\ flock \in Client \cup {NoClient}
  /\ \A c \in Client :
       /\ pc[c] \in {"append", "orphan", "rewrite"} => lane = "file" /\ flock = c
       /\ pc[c] = "collect" => lane \in {"file", "redis"} /\ (lane = "file" => flock = c)
       /\ flock = c => pc[c] \in {"append", "orphan", "collect", "rewrite"}

\* What a gc has read is what the log holds, unless it was cleared since.
SeenInv ==
  \A c \in Client : pc[c] = "rewrite" =>
    LET s == ScopeOf[seen[c][1]] IN
    /\ seen[c] # <<>> /\ IsLog(seen[c], s, returned, before)
    /\ \/ log[s] = seen[c]
       \/ log[s] = <<>> /\ StampsOf(seen[c]) \subseteq lost

\* A gc or a clear has begun.
ClearsInv == \A c \in Client : pc[c] \in {"gc", "collect", "rewrite"} => clears > 0

MemInv ==
  /\ MemoryTypeOK
  /\ LogsInv
  /\ PutsInv
  /\ LockInv
  /\ SeenInv
  /\ ClearsInv
  /\ ReturnedIsKept

-----------------------------------------------------------------------------
(***************************************************************************)
(* The steps.                                                              *)
(***************************************************************************)
LEMMA InitHolds == Init => MemInv
<1> SUFFICES ASSUME Init PROVE MemInv
  OBVIOUS
<1> USE DEF Init
<1>1. MemoryTypeOK
  BY MemoryAssumption DEF MemoryTypeOK, Point
<1>2. LogsInv
  BY DEF LogsInv, IsLog
<1>3. PutsInv /\ LockInv /\ SeenInv /\ ClearsInv
  BY MemoryAssumption DEF PutsInv, LockInv, SeenInv, ClearsInv
<1>4. ReturnedIsKept
  BY DEF ReturnedIsKept
<1> QED
  BY <1>1, <1>2, <1>3, <1>4 DEF MemInv

\* The lock and the clears.
LEMMA LockStep == ASSUME MemInv, Next PROVE LockInv' /\ ClearsInv'
<1> USE MemoryAssumption DEF MemInv, MemoryTypeOK, LockInv, ClearsInv
<1>1. ASSUME NEW c \in Client, Put(c) PROVE LockInv' /\ ClearsInv'
  BY <1>1 DEF Put
<1>2. ASSUME NEW c \in Client, OpenLog(c) PROVE LockInv' /\ ClearsInv'
  BY <1>2 DEF OpenLog, LockFree
<1>3. ASSUME NEW c \in Client, WriteLine(c) PROVE LockInv' /\ ClearsInv'
  BY <1>3 DEF WriteLine, Returns, Unlocked
<1>4. ASSUME NEW c \in Client, Push(c) PROVE LockInv' /\ ClearsInv'
  BY <1>4 DEF Push, Returns
<1>5. ASSUME NEW c \in Client, Gc(c) PROVE LockInv' /\ ClearsInv'
  BY <1>5 DEF Gc
<1>6. ASSUME NEW c \in Client, Enter(c) PROVE LockInv' /\ ClearsInv'
  BY <1>6 DEF Enter, LockFree
<1>7. ASSUME NEW c \in Client, ReadLog(c) PROVE LockInv' /\ ClearsInv'
  BY <1>7 DEF ReadLog
<1>8. ASSUME NEW c \in Client, Rewrite(c) PROVE LockInv' /\ ClearsInv'
  BY <1>8 DEF Rewrite
<1>9. ASSUME NEW c \in Client, TrimLog(c) PROVE LockInv' /\ ClearsInv'
  BY <1>9 DEF TrimLog
<1>10. ASSUME NEW c \in Client, Leave(c) PROVE LockInv' /\ ClearsInv'
  BY <1>10 DEF Leave, Unlocked
<1>11. ASSUME NEW c \in Client, DeleteRows(c) PROVE LockInv' /\ ClearsInv'
  BY <1>11 DEF DeleteRows
<1>12. ASSUME NEW c \in Client, Die(c) PROVE LockInv' /\ ClearsInv'
  BY <1>12 DEF Die, Unlocked
<1>13. ASSUME NEW s \in Scope, Clear(s) PROVE LockInv' /\ ClearsInv'
  BY <1>13 DEF Clear
<1> QED
  BY <1>1, <1>2, <1>3, <1>4, <1>5, <1>6, <1>7, <1>8, <1>9, <1>10, <1>11, <1>12, <1>13 DEF Next

LEMMA PutReturns ==
  ASSUME MemInv, NEW c \in Client, Returns(c), pc[c] \in {"put", "append", "orphan"},
         puts' = puts, before' = before, lost' \subseteq lost \cup {new[c]}
  PROVE  /\ new[c] \in Stamp /\ new[c] \notin returned /\ returned' = returned \cup {new[c]}
         /\ PutsInv'
<1>1. /\ new[c] \in 0..puts /\ new[c] # 0 /\ puts \in Nat /\ puts <= MaxPuts /\ MaxPuts \in Nat
      /\ new[c] \notin returned
  BY MemoryAssumption DEF MemInv, PutsInv, MemoryTypeOK
<1>2. new[c] \in 1..puts /\ new[c] \in Stamp
  BY <1>1 DEF Stamp
<1>3. /\ returned' = returned \cup {new[c]}
      /\ \A d \in Client : new'[d] = IF d = c THEN 0 ELSE new[d]
      /\ \A d \in Client : pc'[d] = IF d = c THEN "idle" ELSE pc[d]
  BY DEF Returns, MemInv, MemoryTypeOK
<1>4. returned' \subseteq 1..puts' /\ lost' \subseteq returned'
  BY <1>2, <1>3 DEF MemInv, PutsInv
<1>5. \A t \in Stamp : before'[t] \subseteq returned' /\ \A u \in before'[t] : u < t
  BY <1>3 DEF MemInv, PutsInv
<1>6. \A d \in Client :
        /\ new'[d] \in 0..puts' /\ new'[d] \notin returned'
        /\ pc'[d] \in {"put", "append", "orphan"} => new'[d] # 0
  <2>1. 0 \notin returned
    BY DEF MemInv, PutsInv
  <2>2. 0 \in 0..puts'
    BY <1>1
  <2> QED
    BY <1>1, <1>3, <2>1, <2>2 DEF MemInv, PutsInv
<1>7. \A d, e \in Client : new'[d] = new'[e] /\ new'[d] # 0 => d = e
  BY <1>3 DEF MemInv, PutsInv
<1> QED
  BY <1>1, <1>2, <1>3, <1>4, <1>5, <1>6, <1>7 DEF PutsInv

\* The puts in hand and those that have returned.
LEMMA PutsStep == ASSUME MemInv, Next PROVE PutsInv'
<1> USE MemoryAssumption DEF MemInv, MemoryTypeOK, PutsInv
<1>1. ASSUME NEW c \in Client, Put(c) PROVE PutsInv'
  BY <1>1, StampFacts DEF Put, Stamp
<1>2. ASSUME NEW c \in Client, OpenLog(c) PROVE PutsInv'
  BY <1>2 DEF OpenLog
<1>3. ASSUME NEW c \in Client, WriteLine(c) PROVE PutsInv'
  BY <1>3, PutReturns DEF WriteLine
<1>4. ASSUME NEW c \in Client, Push(c) PROVE PutsInv'
  BY <1>4, PutReturns DEF Push
<1>5. ASSUME NEW c \in Client, Gc(c) PROVE PutsInv'
  BY <1>5 DEF Gc
<1>6. ASSUME NEW c \in Client, Enter(c) PROVE PutsInv'
  BY <1>6 DEF Enter
<1>7. ASSUME NEW c \in Client, ReadLog(c) PROVE PutsInv'
  BY <1>7 DEF ReadLog
<1>8. ASSUME NEW c \in Client, Rewrite(c) PROVE PutsInv'
  BY <1>8 DEF Rewrite
<1>9. ASSUME NEW c \in Client, TrimLog(c) PROVE PutsInv'
  BY <1>9 DEF TrimLog
<1>10. ASSUME NEW c \in Client, Leave(c) PROVE PutsInv'
  BY <1>10 DEF Leave
<1>11. ASSUME NEW c \in Client, DeleteRows(c) PROVE PutsInv'
  BY <1>11 DEF DeleteRows
<1>12. ASSUME NEW c \in Client, Die(c) PROVE PutsInv'
  BY <1>12 DEF Die
<1>13. ASSUME NEW s \in Scope, Clear(s) PROVE PutsInv'
  <2>1. StampsOf(log[s]) \subseteq returned
    BY LogRecords DEF LogsInv
  <2> QED
    BY <1>13, <2>1 DEF Clear
<1> QED
  BY <1>1, <1>2, <1>3, <1>4, <1>5, <1>6, <1>7, <1>8, <1>9, <1>10, <1>11, <1>12, <1>13 DEF Next

\* The types.
LEMMA TypeStep == ASSUME MemInv, Next PROVE MemoryTypeOK'
<1>0. flock' # NoClient => pc'[flock'] \in {"append", "orphan", "collect", "rewrite"}
  BY LockStep DEF LockInv
<1>1. \A s \in Scope : Suffix(log[s], MaxItems) \in Seq(Stamp)
  BY SuffixFacts, MemoryAssumption DEF MemInv, MemoryTypeOK
<1> USE MemoryAssumption, <1>0 DEF MemInv, MemoryTypeOK, Point
<1>2. ASSUME NEW c \in Client, Put(c) PROVE MemoryTypeOK'
  BY <1>2 DEF Put, Stamp
<1>3. ASSUME NEW c \in Client, OpenLog(c) PROVE MemoryTypeOK'
  BY <1>3 DEF OpenLog
<1>4. ASSUME NEW c \in Client, NEW q \in Seq(Stamp), NEW s \in Scope, new[c] \in Stamp,
             log' = [log EXCEPT ![s] = Append(@, new[c])]
      PROVE  log' \in [Scope -> Seq(Stamp)]
  BY <1>4
<1>5. ASSUME NEW c \in Client, pc[c] \in {"put", "append", "orphan"}
      PROVE  new[c] \in Stamp /\ ScopeOf[new[c]] \in Scope /\ 0 \in 0..MaxPuts
  BY <1>5 DEF PutsInv, Stamp
<1>6. ASSUME NEW c \in Client, WriteLine(c) PROVE MemoryTypeOK'
  <2>1. new[c] \in Stamp /\ ScopeOf[new[c]] \in Scope /\ 0 \in 0..MaxPuts
    BY <1>5, <1>6 DEF WriteLine
  <2>2. log' \in [Scope -> Seq(Stamp)]
    BY <1>4, <1>6, <2>1 DEF WriteLine, Appended
  <2> QED
    BY <1>6, <2>1, <2>2 DEF WriteLine, Returns, Unlocked
<1>7. ASSUME NEW c \in Client, Push(c) PROVE MemoryTypeOK'
  BY <1>4, <1>5, <1>7 DEF Push, Returns, Appended
<1>8. ASSUME NEW c \in Client, Gc(c) PROVE MemoryTypeOK'
  BY <1>8 DEF Gc
<1>9. ASSUME NEW c \in Client, Enter(c) PROVE MemoryTypeOK'
  BY <1>9 DEF Enter
<1>10. ASSUME NEW c \in Client, ReadLog(c) PROVE MemoryTypeOK'
  <2>1. PICK s \in todo[c] :
          /\ todo' = [todo EXCEPT ![c] = @ \ {s}]
          /\ IF Len(log[s]) > MaxItems
             THEN /\ seen' = [seen EXCEPT ![c] = log[s]]
                  /\ pc' = [pc EXCEPT ![c] = "rewrite"]
             ELSE UNCHANGED <<seen, pc>>
    BY <1>10 DEF ReadLog
  <2>2. s \in Scope /\ log[s] \in Seq(Stamp)
    OBVIOUS
  <2>3. todo' \in [Client -> SUBSET Scope] /\ seen' \in [Client -> Seq(Stamp)]
        /\ pc' \in [Client -> Point]
    BY <2>1, <2>2
  <2> QED
    BY <1>10, <2>3 DEF ReadLog
<1>11. ASSUME NEW c \in Client, Rewrite(c) PROVE MemoryTypeOK'
  <2>1. Newest(seen[c]) \in Seq(Stamp)
    <3>1. IsLog(seen[c], ScopeOf[seen[c][1]], returned, before)
      BY <1>11 DEF Rewrite, SeenInv
    <3>2. \A t \in Stamp : \A u \in before[t] : u < t
      BY DEF PutsInv
    <3>3. IsLog(Newest(seen[c]), ScopeOf[seen[c][1]], returned, before)
      BY <3>1, <3>2, NewestIsLog
    <3> QED
      BY <3>3, LogRecords
  <2>2. ScopeOf[seen[c][1]] \in Scope
    BY <1>11 DEF Rewrite, SeenInv
  <2> QED
    BY <1>11, <2>1, <2>2 DEF Rewrite
<1>12. ASSUME NEW c \in Client, TrimLog(c) PROVE MemoryTypeOK'
  BY <1>1, <1>12 DEF TrimLog
<1>13. ASSUME NEW c \in Client, Leave(c) PROVE MemoryTypeOK'
  BY <1>13 DEF Leave, Unlocked
<1>14. ASSUME NEW c \in Client, DeleteRows(c) PROVE MemoryTypeOK'
  BY <1>1, <1>14 DEF DeleteRows
<1>15. ASSUME NEW c \in Client, Die(c) PROVE MemoryTypeOK'
  BY <1>15 DEF Die, Unlocked
<1>16. ASSUME NEW s \in Scope, Clear(s) PROVE MemoryTypeOK'
  <2>1. StampsOf(log[s]) \subseteq Stamp
    BY StampsOfLog
  <2> QED
    BY <1>16, <2>1 DEF Clear
<1> QED
  BY <1>2, <1>3, <1>6, <1>7, <1>8, <1>9, <1>10, <1>11, <1>12, <1>13, <1>14, <1>15, <1>16 DEF Next

\* What is recorded of the puts that have returned stays.
LEMMA HistoryStep ==
  ASSUME MemInv, Next
  PROVE  /\ returned \subseteq returned' /\ puts' \in Nat /\ puts <= puts'
         /\ clears' \in Nat /\ clears <= clears'
         /\ \A t \in returned : before'[t] = before[t]
         /\ \A q, s : IsLog(q, s, returned, before) => IsLog(q, s, returned', before')
<1> USE MemoryAssumption DEF MemInv, MemoryTypeOK
<1> DEFINE Stays == /\ returned \subseteq returned' /\ puts' \in Nat /\ puts <= puts'
                    /\ clears' \in Nat /\ clears <= clears'
                    /\ \A t \in returned : before'[t] = before[t]
<1>1. ASSUME NEW c \in Client, Put(c) PROVE Stays
  BY <1>1 DEF Put, PutsInv, Stamp
<1>2. ASSUME NEW c \in Client, WriteLine(c) \/ Push(c) PROVE Stays
  BY <1>2 DEF WriteLine, Push, Returns
<1>3. ASSUME NEW c \in Client, Gc(c) PROVE Stays
  BY <1>3 DEF Gc
<1>4. ASSUME NEW s \in Scope, Clear(s) PROVE Stays
  BY <1>4 DEF Clear
<1>5. ASSUME NEW c \in Client,
             \/ OpenLog(c) \/ Enter(c) \/ ReadLog(c) \/ Rewrite(c) \/ TrimLog(c) \/ Leave(c)
             \/ DeleteRows(c) \/ Die(c)
      PROVE  Stays
  BY <1>5 DEF OpenLog, Enter, ReadLog, Rewrite, TrimLog, Leave, DeleteRows, Die
<1>6. Stays
  BY <1>1, <1>2, <1>3, <1>4, <1>5 DEF Next
<1>7. ASSUME NEW q, NEW s, IsLog(q, s, returned, before) PROVE IsLog(q, s, returned', before')
  BY <1>6, <1>7, LogStaysLog
<1> QED
  BY <1>6, <1>7

\* What the steps do to a log: a put appends to it; gc keeps its end, or the
\* newest of what it has read of it; a clear empties it.
Appends(s) ==
  \E c \in Client :
    /\ pc[c] \in {"put", "append"} /\ new[c] \in Stamp /\ new[c] \notin returned
    /\ ScopeOf[new[c]] = s /\ log'[s] = Append(log[s], new[c])
    /\ returned' = returned \cup {new[c]} /\ before' = before

Trims(s) == log'[s] = Suffix(log[s], MaxItems) /\ clears > 0 /\ UNCHANGED <<puts, returned>>

Collects(s) ==
  \E c \in Client :
    /\ pc[c] = "rewrite" /\ s = ScopeOf[seen[c][1]] /\ clears > 0
    /\ log'[s] = Newest(seen[c]) /\ UNCHANGED <<puts, returned>>

Empties(s) == log'[s] = <<>> /\ StampsOf(log[s]) \subseteq lost' /\ UNCHANGED <<puts, returned>>

LEMMA LogsMove ==
  ASSUME MemInv, Next, NEW s \in Scope
  PROVE  log'[s] = log[s] \/ Appends(s) \/ Trims(s) \/ Collects(s) \/ Empties(s)
<1> USE DEF MemInv, MemoryTypeOK
<1> DEFINE Moves == log'[s] = log[s] \/ Appends(s) \/ Trims(s) \/ Collects(s) \/ Empties(s)
<1>1. ASSUME NEW c \in Client,
             \/ Put(c) \/ OpenLog(c) \/ Gc(c) \/ Enter(c) \/ ReadLog(c) \/ Leave(c) \/ Die(c)
      PROVE  log'[s] = log[s]
  BY <1>1 DEF Put, OpenLog, Gc, Enter, ReadLog, Leave, Die
<1>2. ASSUME NEW c \in Client, pc[c] \in {"put", "append"}, Appended(c), Returns(c), before' = before
      PROVE  log'[s] = log[s] \/ Appends(s)
  <2>1. new[c] \in Stamp /\ new[c] \notin returned
    BY <1>2, MemoryAssumption DEF PutsInv, Stamp
  <2>2. CASE ScopeOf[new[c]] = s
    <3>1. log'[s] = Append(log[s], new[c])
      BY <1>2, <2>2 DEF Appended
    <3> QED
      BY <1>2, <2>1, <2>2, <3>1 DEF Appends, Returns
  <2>3. CASE ScopeOf[new[c]] # s
    BY <1>2, <2>3 DEF Appended
  <2> QED
    BY <2>2, <2>3
<1>3. ASSUME NEW c \in Client, WriteLine(c) PROVE log'[s] = log[s] \/ Appends(s)
  <2>1. CASE pc[c] = "append"
    BY <1>2, <1>3, <2>1 DEF WriteLine
  <2>2. CASE pc[c] # "append"
    BY <1>3, <2>2 DEF WriteLine
  <2> QED
    BY <2>1, <2>2
<1>4. ASSUME NEW c \in Client, Push(c) PROVE log'[s] = log[s] \/ Appends(s)
  BY <1>2, <1>4 DEF Push
<1>5. ASSUME NEW c \in Client, Rewrite(c) PROVE log'[s] = log[s] \/ Collects(s)
  <2>1. clears > 0 /\ UNCHANGED <<puts, returned>> /\ pc[c] = "rewrite"
    BY <1>5 DEF Rewrite, ClearsInv
  <2>2. CASE s = ScopeOf[seen[c][1]]
    <3>1. log'[s] = Newest(seen[c])
      BY <1>5, <2>2 DEF Rewrite
    <3> QED
      BY <2>1, <2>2, <3>1 DEF Collects
  <2>3. CASE s # ScopeOf[seen[c][1]]
    BY <1>5, <2>3 DEF Rewrite
  <2> QED
    BY <2>2, <2>3
<1>6. ASSUME NEW c \in Client, TrimLog(c) PROVE log'[s] = log[s] \/ Trims(s)
  <2>1. clears > 0
    BY <1>6 DEF TrimLog, ClearsInv
  <2> QED
    BY <1>6, <2>1 DEF TrimLog, Trims
<1>7. ASSUME NEW c \in Client, DeleteRows(c) PROVE Trims(s)
  <2>1. clears > 0
    BY <1>7 DEF DeleteRows, ClearsInv
  <2> QED
    BY <1>7, <2>1 DEF DeleteRows, Trims
<1>8. ASSUME NEW r \in Scope, Clear(r) PROVE log'[s] = log[s] \/ Empties(s)
  BY <1>8 DEF Clear, Empties
<1> QED
  BY <1>1, <1>3, <1>4, <1>5, <1>6, <1>7, <1>8 DEF Next

\* The logs stay in the order of the puts.
LEMMA LogsStep == ASSUME MemInv, Next PROVE LogsInv'
<1> SUFFICES ASSUME NEW s \in Scope PROVE IsLog(log'[s], s, returned', before')
  BY DEF LogsInv
<1>1. IsLog(log[s], s, returned, before)
  BY DEF MemInv, LogsInv
<1>2. \A t \in Stamp : before[t] \subseteq returned /\ \A u \in before[t] : u < t
  BY DEF MemInv, PutsInv
<1>3. CASE log'[s] = log[s]
  BY <1>1, <1>3, HistoryStep
<1>4. CASE Appends(s)
  BY <1>1, <1>2, <1>4, AppendedIsLog DEF Appends
<1>5. CASE Trims(s)
  BY <1>1, <1>5, SuffixIsLog, HistoryStep, MemoryAssumption DEF Trims
<1>6. CASE Collects(s)
  <2>1. PICK c \in Client : pc[c] = "rewrite" /\ s = ScopeOf[seen[c][1]] /\ log'[s] = Newest(seen[c])
    BY <1>6 DEF Collects
  <2>2. IsLog(seen[c], s, returned, before)
    BY <2>1 DEF MemInv, SeenInv
  <2> QED
    BY <1>2, <2>1, <2>2, NewestIsLog, HistoryStep
<1>7. CASE Empties(s)
  BY <1>7 DEF Empties, IsLog
<1> QED
  BY <1>3, <1>4, <1>5, <1>6, <1>7, LogsMove

\* While a gc rewrites a log, nobody but a clear touches it.
LEMMA SeenStep == ASSUME MemInv, Next PROVE SeenInv'
<1> USE DEF MemInv, MemoryTypeOK
<1> SUFFICES ASSUME NEW c \in Client, pc'[c] = "rewrite"
             PROVE  LET s == ScopeOf[seen'[c][1]] IN
                    /\ seen'[c] # <<>> /\ IsLog(seen'[c], s, returned', before')
                    /\ \/ log'[s] = seen'[c]
                       \/ log'[s] = <<>> /\ StampsOf(seen'[c]) \subseteq lost'
  BY DEF SeenInv
<1>1. CASE pc[c] # "rewrite"
  <2>1. ReadLog(c)
    BY <1>1 DEF Next, Put, OpenLog, WriteLine, Push, Returns, Gc, Enter, ReadLog, Rewrite, TrimLog,
                Leave, DeleteRows, Die, Clear
  <2>2. PICK s \in Scope : seen'[c] = log[s] /\ log'[s] = log[s] /\ log[s] # <<>>
    BY <1>1, <2>1 DEF ReadLog
  <2>3. IsLog(log[s], s, returned, before)
    BY DEF LogsInv
  <2>4. ScopeOf[log[s][1]] = s
    BY <2>2, <2>3 DEF IsLog
  <2>5. IsLog(log[s], s, returned', before')
    BY <2>3, HistoryStep
  <2> QED
    BY <2>2, <2>4, <2>5
<1>2. CASE pc[c] = "rewrite"
  <2> DEFINE s == ScopeOf[seen[c][1]]
  <2>1. /\ lane = "file" /\ flock = c
        /\ seen[c] # <<>> /\ IsLog(seen[c], s, returned, before)
        /\ \/ log[s] = seen[c]
           \/ log[s] = <<>> /\ StampsOf(seen[c]) \subseteq lost
    BY <1>2 DEF SeenInv, LockInv
  <2>2. IsLog(seen[c], s, returned', before')
    BY <2>1, HistoryStep
  <2>3. \/ UNCHANGED <<log, lost, seen>>
        \/ \E d \in Client : d # c /\ Die(d)
        \/ \E r \in Scope : Clear(r)
    <3>1. ASSUME NEW d \in Client, Put(d) \/ Gc(d) PROVE UNCHANGED <<log, lost, seen>>
      BY <3>1 DEF Put, Gc
    <3>2. ASSUME NEW d \in Client, WriteLine(d) \/ Rewrite(d) \/ ReadLog(d) PROVE FALSE
      <4>1. flock = d
        BY <2>1, <3>2 DEF WriteLine, Rewrite, ReadLog, LockInv
      <4>2. d = c
        BY <2>1, <4>1
      <4> QED
        BY <1>2, <3>2, <4>2 DEF WriteLine, Rewrite, ReadLog, Returns
    <3>3. ASSUME NEW d \in Client, OpenLog(d) \/ Enter(d) \/ Push(d) \/ TrimLog(d) \/ DeleteRows(d)
          PROVE  FALSE
      BY <2>1, <3>3, MemoryAssumption
         DEF OpenLog, Enter, Push, TrimLog, DeleteRows, LockFree, LockInv
    <3>4. ASSUME NEW d \in Client, Leave(d) PROVE UNCHANGED <<log, lost, seen>>
      BY <3>4 DEF Leave
    <3>5. ASSUME Die(c) PROVE FALSE
      BY <3>5 DEF Die
    <3> QED
      BY <3>1, <3>2, <3>3, <3>4, <3>5 DEF Next
  <2>4. CASE UNCHANGED <<log, lost, seen>>
    BY <2>1, <2>2, <2>4
  <2>5. ASSUME NEW d \in Client, d # c, Die(d)
        PROVE  seen'[c] = seen[c] /\ UNCHANGED <<log, lost>>
    BY <2>5 DEF Die
  <2>6. ASSUME NEW r \in Scope, Clear(r)
        PROVE  /\ seen'[c] = seen[c] /\ lost' = lost \cup StampsOf(log[r])
               /\ r # s => log'[s] = log[s]
               /\ r = s => log'[s] = <<>>
    BY <2>6 DEF Clear
  <2>7. ASSUME NEW r \in Scope, Clear(r)
        PROVE  \/ log'[s] = seen[c]
               \/ log'[s] = <<>> /\ StampsOf(seen[c]) \subseteq lost'
    BY <2>1, <2>6, <2>7
  <2> QED
    BY <2>1, <2>2, <2>3, <2>4, <2>5, <2>6, <2>7
<1> QED
  BY <1>1, <1>2

\* The puts that t overlapped, or that came after it.
Rivals(t) == {u \in Recent \ {t} : u \notin before[t]}

LEMMA RivalsCount ==
  ASSUME MemInv, NEW t, NEW W \in SUBSET returned, t \notin W, \A u \in W : u \notin before[t]
  PROVE  /\ IsFiniteSet(Rivals(t)) /\ Cardinality(Rivals(t)) \in Nat
         /\ IsFiniteSet(W) /\ Cardinality(W) \in Nat /\ Cardinality(W) <= Cardinality(Rivals(t))
<1>1. IsFiniteSet(Rivals(t))
  BY StampFacts, FS_Subset DEF Rivals, Recent
<1>2. W \subseteq Rivals(t)
  <2>1. returned \subseteq Recent
    BY MemoryAssumption DEF MemInv, MemoryTypeOK, PutsInv, Recent, Stamp
  <2> QED
    BY <2>1 DEF Rivals
<1> QED
  BY <1>1, <1>2, FS_Subset, FS_CardinalityType

\* What gc drops, it drops for others that came no earlier.
LEMMA DroppedHasRivals ==
  ASSUME MemInv, Next, NEW s \in Scope, NEW t \in StampsOf(log[s]), t \notin StampsOf(log'[s]),
         Trims(s) \/ Collects(s)
  PROVE  Cardinality(Rivals(t)) >= MaxItems
<1> DEFINE q == log[s]
<1>1. IsLog(q, s, returned, before)
  BY DEF MemInv, LogsInv
<1>2. /\ q \in Seq(Stamp) /\ Len(q) \in Nat /\ StampsOf(q) = {q[i] : i \in 1..Len(q)}
      /\ StampsOf(q) \subseteq returned /\ StampsOf(q) \subseteq Stamp
  BY <1>1, LogRecords
<1>3. MaxItems \in Nat /\ \A u \in Stamp : \A v \in before[u] : v < u
  BY MemoryAssumption DEF MemInv, PutsInv
<1>4. CASE Trims(s)
  <2>1. PICK k \in 0..Len(q) :
          /\ IF Len(q) > MaxItems THEN Len(q) = MaxItems + k ELSE k = 0
          /\ Suffix(q, MaxItems) \in Seq(Stamp) /\ Len(Suffix(q, MaxItems)) = Len(q) - k
          /\ \A i \in 1..(Len(q) - k) : Suffix(q, MaxItems)[i] = q[i + k]
    BY <1>2, <1>3, SuffixFacts
  <2> DEFINE r == Suffix(q, MaxItems)
             W == {q[i] : i \in (k + 1)..Len(q)}
  <2>2. log'[s] = r
    BY <1>4 DEF Trims
  <2>3. StampsOf(r) = {r[i] : i \in 1..(Len(q) - k)}
    BY <2>1, StampsOfLog
  <2> HIDE DEF r
  <2>4. W \subseteq StampsOf(r)
    <3> SUFFICES ASSUME NEW i \in (k + 1)..Len(q) PROVE q[i] \in StampsOf(r)
      OBVIOUS
    <3>1. i - k \in 1..(Len(q) - k) /\ (i - k) + k = i
      BY <1>2
    <3>2. r[i - k] = q[i]
      BY <2>1, <3>1 DEF r
    <3> QED
      BY <2>3, <3>1, <3>2
  <2>5. PICK j \in 1..Len(q) : q[j] = t
    BY <1>2
  <2>6. j <= k
    <3> SUFFICES ASSUME j > k PROVE FALSE
      BY <1>2
    <3>1. j \in (k + 1)..Len(q)
      BY <1>2
    <3> QED
      BY <2>2, <2>4, <2>5, <3>1
  <2>7. \A u \in W : u # t /\ u \notin before[t]
    <3> SUFFICES ASSUME NEW i \in (k + 1)..Len(q) PROVE q[i] # t /\ q[i] \notin before[t]
      OBVIOUS
    <3>1. i \in 1..Len(q) /\ j < i
      BY <1>2, <2>6
    <3> HIDE DEF q
    <3> QED
      BY <1>1, <2>5, <3>1 DEF IsLog
  <2>8. W \subseteq returned
    <3>1. (k + 1)..Len(q) \subseteq 1..Len(q)
      BY <1>2
    <3> QED
      BY <1>2, <3>1
  <2>9. Cardinality(W) = MaxItems
    <3>1. Len(q) = MaxItems + k /\ Len(q) - k = MaxItems
      BY <1>2, <1>3, <2>1, <2>6
    <3>2. \A i, l \in 1..Len(q) : i < l => q[i] # q[l]
      BY <1>1 DEF IsLog
    <3> HIDE DEF q
    <3> QED
      BY <1>2, <3>1, <3>2, EndIsCounted
  <2> HIDE DEF W
  <2> QED
    BY <1>3, <2>7, <2>8, <2>9, RivalsCount
<1>5. CASE Collects(s)
  <2>1. PICK c \in Client : pc[c] = "rewrite" /\ s = ScopeOf[seen[c][1]] /\ log'[s] = Newest(seen[c])
    BY <1>5 DEF Collects
  <2>2. seen[c] = q
    <3>1. q # <<>>
      BY <1>2
    <3> QED
      BY <2>1, <3>1 DEF MemInv, SeenInv
  <2> DEFINE R == StampsOf(q)
             W == {u \in R : u > t}
  <2>3. t \in R \ NewestOf(R, MaxItems)
    BY <1>1, <1>3, <2>1, <2>2, NewestIsLog
  <2>4. R \in SUBSET Nat /\ IsFiniteSet(R)
    BY <1>2, StampFacts, FS_Subset
  <2>5. Cardinality(W) >= MaxItems
    BY <1>3, <2>3, <2>4, NewestFacts
  <2>6. W \subseteq returned /\ \A u \in W : u # t /\ u \notin before[t]
    <3>1. \A u, v \in Nat : u > v => u # v /\ ~(u < v)
      OBVIOUS
    <3>2. t \in Nat /\ t \in Stamp
      BY <1>2, <2>3, <2>4
    <3> HIDE DEF R
    <3> QED
      BY <1>2, <1>3, <2>4, <3>1, <3>2 DEF R
  <2> HIDE DEF W
  <2> QED
    BY <1>3, <2>5, <2>6, RivalsCount
<1> QED
  BY <1>4, <1>5

\* A record that a clear took is lost or back in its log; a put that returns is
\* in its log or lost.
LEMMA LostStep ==
  ASSUME MemInv, Next
  PROVE  \A t \in lost \cup (returned' \ returned) : t \in lost' \/ t \in AllStamps'
<1> USE DEF MemInv, MemoryTypeOK
<1>1. ASSUME NEW c \in Client, Rewrite(c) PROVE \A t \in lost : t \in lost' \/ t \in AllStamps'
  <2>1. ScopeOf[seen[c][1]] \in Scope
    BY <1>1, MemoryAssumption DEF Rewrite, SeenInv, IsLog
  <2>2. log'[ScopeOf[seen[c][1]]] = Newest(seen[c]) /\ lost' = lost \ StampsOf(Newest(seen[c]))
    BY <1>1, <2>1 DEF Rewrite
  <2> QED
    BY <2>1, <2>2 DEF AllStamps
<1>2. ASSUME NEW c \in Client, pc[c] \in {"put", "append"}, Appended(c), Returns(c)
      PROVE  \A t \in returned' \ returned : t \in AllStamps'
  <2>1. new[c] \in Stamp /\ new[c] \notin returned
    BY <1>2, MemoryAssumption DEF PutsInv, Stamp
  <2> DEFINE s == ScopeOf[new[c]]
  <2>2. s \in Scope
    BY <2>1, MemoryAssumption
  <2>3. log'[s] = Append(log[s], new[c]) /\ IsLog(log[s], s, returned, before)
    BY <1>2, <2>2 DEF Appended, LogsInv
  <2>4. new[c] \in StampsOf(log'[s])
    <3>1. log[s] \in Seq(Stamp)
      BY <2>3 DEF IsLog
    <3> QED
      BY <2>1, <2>3, <3>1, AppendedRecords
  <2> QED
    BY <1>2, <2>2, <2>4 DEF AllStamps, Returns
<1>3. ASSUME NEW c \in Client, WriteLine(c)
      PROVE  \A t \in lost \cup (returned' \ returned) : t \in lost' \/ t \in AllStamps'
  <2>1. CASE pc[c] = "append"
    BY <1>2, <1>3, <2>1 DEF WriteLine
  <2>2. CASE pc[c] # "append"
    BY <1>3, <2>2 DEF WriteLine, Returns
  <2> QED
    BY <2>1, <2>2
<1>4. ASSUME NEW c \in Client, Push(c)
      PROVE  \A t \in lost \cup (returned' \ returned) : t \in lost' \/ t \in AllStamps'
  BY <1>2, <1>4 DEF Push
<1>5. ASSUME NEW c \in Client,
             \/ Put(c) \/ OpenLog(c) \/ Gc(c) \/ Enter(c) \/ ReadLog(c) \/ TrimLog(c) \/ Leave(c)
             \/ DeleteRows(c) \/ Die(c)
      PROVE  UNCHANGED <<lost, returned>>
  BY <1>5 DEF Put, OpenLog, Gc, Enter, ReadLog, TrimLog, Leave, DeleteRows, Die
<1>6. ASSUME NEW s \in Scope, Clear(s) PROVE lost \subseteq lost' /\ returned' = returned
  BY <1>6 DEF Clear
<1>7. ASSUME NEW c \in Client, Rewrite(c) PROVE returned' = returned
  BY <1>7 DEF Rewrite
<1> QED
  BY <1>1, <1>3, <1>4, <1>5, <1>6, <1>7 DEF Next

\* No put that has returned disappears.
LEMMA KeptStep == ASSUME MemInv, Next PROVE ReturnedIsKept'
<1> SUFFICES ASSUME NEW t \in returned'
             PROVE  \/ t \in AllStamps' \/ t \in lost'
                    \/ /\ clears' > 0
                       /\ Cardinality({u \in Recent' \ {t} : u \notin before'[t]}) >= MaxItems
  BY DEF ReturnedIsKept
<1>1. CASE t \notin returned
  BY <1>1, LostStep
<1>2. CASE t \in lost
  BY <1>2, LostStep
<1>3. ASSUME t \in returned, clears > 0, Cardinality(Rivals(t)) >= MaxItems
      PROVE  clears' > 0 /\ Cardinality({u \in Recent' \ {t} : u \notin before'[t]}) >= MaxItems
  <2> DEFINE more == {u \in Recent' \ {t} : u \notin before'[t]}
  <2>1. IsFiniteSet(more)
    BY StampFacts, FS_Subset DEF Recent
  <2>2. puts \in Nat /\ clears \in Nat /\ MaxItems \in Nat
    BY MemoryAssumption DEF MemInv, MemoryTypeOK
  <2>3. Rivals(t) \subseteq more
    <3>1. Recent \subseteq Recent'
      <4>1. puts' \in Nat /\ puts <= puts'
        BY HistoryStep
      <4>2. \A u \in Stamp : u \in Nat
        BY StampFacts
      <4> QED
        BY <2>2, <4>1, <4>2 DEF Recent
    <3> QED
      BY <1>3, <3>1, HistoryStep DEF Rivals
  <2> HIDE DEF more
  <2>4. /\ Cardinality(Rivals(t)) <= Cardinality(more)
        /\ Cardinality(Rivals(t)) \in Nat /\ Cardinality(more) \in Nat
    BY <2>1, <2>3, FS_Subset, FS_CardinalityType
  <2>5. Cardinality(more) >= MaxItems
    BY <1>3, <2>2, <2>4
  <2>6. clears' > 0
    BY <1>3, <2>2, HistoryStep
  <2> QED
    BY <2>5, <2>6 DEF more
<1>4. ASSUME t \in returned, NEW s \in Scope, t \in StampsOf(log[s])
      PROVE  \/ t \in StampsOf(log'[s]) \/ t \in lost'
             \/ clears > 0 /\ Cardinality(Rivals(t)) >= MaxItems
  <2>1. CASE log'[s] = log[s]
    BY <1>4, <2>1
  <2>2. CASE Appends(s)
    <3>1. log[s] \in Seq(Stamp)
      BY DEF MemInv, LogsInv, IsLog
    <3>2. StampsOf(log[s]) \subseteq StampsOf(log'[s])
      <4>1. PICK c \in Client :
              /\ new[c] \in Stamp /\ new[c] \notin returned
              /\ ScopeOf[new[c]] = s /\ log'[s] = Append(log[s], new[c])
        BY <2>2 DEF Appends
      <4> QED
        BY <3>1, <4>1, AppendedRecords
    <3> QED
      BY <1>4, <3>2
  <2>3. CASE Trims(s) \/ Collects(s)
    <3>1. clears > 0
      BY <2>3 DEF Trims, Collects
    <3> QED
      BY <1>4, <2>3, <3>1, DroppedHasRivals
  <2>4. CASE Empties(s)
    BY <1>4, <2>4 DEF Empties
  <2> QED
    BY <2>1, <2>2, <2>3, <2>4, LogsMove
<1>5. CASE t \in returned
  <2>1. \/ t \in AllStamps \/ t \in lost
        \/ clears > 0 /\ Cardinality(Rivals(t)) >= MaxItems
    BY <1>5 DEF MemInv, ReturnedIsKept, Rivals
  <2>2. CASE t \in AllStamps
    <3>1. PICK s \in Scope : t \in StampsOf(log[s])
      BY <2>2 DEF AllStamps
    <3>2. t \in StampsOf(log'[s]) => t \in AllStamps'
      BY DEF AllStamps
    <3> QED
      BY <1>3, <1>4, <1>5, <3>1, <3>2
  <2> QED
    BY <1>2, <1>3, <1>5, <2>1, <2>2
<1> QED
  BY <1>1, <1>5

-----------------------------------------------------------------------------
(***************************************************************************)
(* What the readers see.                                                   *)
(***************************************************************************)
\* v is the last record of a key in a log, or 0 if it has none.
IsLast(v, q, k) ==
  \/ v = 0 /\ \A i \in 1..Len(q) : KeyOf[q[i]] # k
  \/ \E i \in 1..Len(q) :
       v = q[i] /\ KeyOf[q[i]] = k /\ \A j \in 1..Len(q) : KeyOf[q[j]] = k => j <= i

LEMMA LastFacts ==
  ASSUME NEW q \in Seq(Stamp), NEW k
  PROVE  LET places == {i \in DOMAIN q : KeyOf[q[i]] = k}
         IN  IsLast(IF places = {} THEN 0 ELSE q[Max(places)], q, k)
<1> DEFINE places == {i \in 1..Len(q) : KeyOf[q[i]] = k}
<1>1. Len(q) \in Nat /\ DOMAIN q = 1..Len(q)
  OBVIOUS
<1>2. CASE places = {}
  BY <1>1, <1>2 DEF IsLast
<1>3. CASE places # {}
  <2>1. places \in SUBSET Nat /\ IsFiniteSet(places)
    <3>1. IsFiniteSet(1..Len(q)) /\ 1..Len(q) \subseteq Nat
      BY <1>1, FS_Interval
    <3> QED
      BY <3>1, FS_Subset
  <2> DEFINE i == Max(places)
  <2>2. i \in places /\ \A j \in places : j <= i
    BY <1>3, <2>1, Extremes
  <2> HIDE DEF i
  <2>3. IsLast(q[i], q, k)
    BY <2>2 DEF IsLast
  <2> QED
    BY <1>1, <1>3, <2>3 DEF i
<1> QED
  BY <1>2, <1>3

LEMMA GetFacts ==
  ASSUME MemInv, NEW s \in Scope, NEW k
  PROVE  IsLast(Get(s, k), log[s], k)
BY LastFacts DEF Get, MemInv, MemoryTypeOK

LEMMA GetFactsNext ==
  ASSUME MemoryTypeOK', NEW s \in Scope, NEW k
  PROVE  IsLast(Get(s, k)', log'[s], k)
BY LastFacts DEF Get, MemoryTypeOK

LEMMA GetIsCurrentHere == ASSUME MemInv PROVE GetIsCurrent
<1> SUFFICES ASSUME NEW s \in Scope, NEW r \in StampsOf(log[s])
             PROVE  Get(s, KeyOf[r]) \notin before[r]
  BY DEF GetIsCurrent
<1> DEFINE q == log[s]
           v == Get(s, KeyOf[r])
<1>1. /\ IsLog(q, s, returned, before)
      /\ \A t \in Stamp : before[t] \subseteq Nat /\ \A u \in before[t] : u < t
  BY MemoryAssumption, StampFacts DEF MemInv, LogsInv, PutsInv, MemoryTypeOK
<1>2. PICK j \in 1..Len(q) : q[j] = r
  BY <1>1, LogRecords
<1>3. r \in Stamp /\ r \in Nat /\ Len(q) \in Nat
  BY <1>1, LogRecords, StampFacts
<1>4. PICK i \in 1..Len(q) : v = q[i] /\ j <= i
  <2>1. IsLast(v, q, KeyOf[r])
    BY GetFacts
  <2> HIDE DEF q, v
  <2> QED
    BY <1>2, <2>1 DEF IsLast
<1> HIDE DEF q, v
<1>5. CASE i = j
  <2>1. ~(r < r)
    BY <1>3
  <2> QED
    BY <1>1, <1>2, <1>3, <1>4, <1>5, <2>1 DEF v
<1>6. CASE i # j
  <2>1. j < i
    BY <1>3, <1>4, <1>6
  <2> QED
    BY <1>1, <1>2, <1>4, <2>1 DEF IsLog, v
<1> QED
  BY <1>5, <1>6

LEMMA QueriesAgreeHere == ASSUME MemInv PROVE QueriesAgree
<1> SUFFICES ASSUME NEW s \in Scope, NEW n \in 0..MaxPuts,
                    NEW t \in FileQuery(s, n) \ StampsOf(ListQuery(s, n))
             PROVE  \E u \in StampsOf(ListQuery(s, n)) \ FileQuery(s, n) : Overlap(t, u)
  BY DEF QueriesAgree
<1> DEFINE q == log[s]
           R == StampsOf(q)
           W == NewestOf(R, n)
           r == Suffix(q, n)
<1>1. /\ IsLog(q, s, returned, before)
      /\ \A v \in Stamp : before[v] \subseteq Nat /\ \A u \in before[v] : u < v
  BY MemoryAssumption, StampFacts DEF MemInv, LogsInv, PutsInv, MemoryTypeOK
<1>2. /\ q \in Seq(Stamp) /\ Len(q) \in Nat /\ R = {q[i] : i \in 1..Len(q)}
      /\ R \subseteq Stamp /\ R \in SUBSET Nat /\ IsFiniteSet(R)
  BY <1>1, LogRecords, StampFacts, FS_Subset
<1>3. n \in Nat
  BY MemoryAssumption
<1>4. n # 0 /\ FileQuery(s, n) = W /\ ListQuery(s, n) = r /\ t \in W /\ t \notin StampsOf(r)
  BY DEF FileQuery, ListQuery
<1>5. /\ W \subseteq R /\ IsFiniteSet(W) /\ Cardinality(W) <= n
      /\ \A x \in W, y \in R : y > x => y \in W
  BY <1>2, <1>3, NewestFacts
<1>6. PICK k \in 0..Len(q) :
        /\ IF Len(q) > n THEN Len(q) = n + k ELSE k = 0
        /\ r \in Seq(Stamp) /\ Len(r) = Len(q) - k
        /\ \A i \in 1..(Len(q) - k) : r[i] = q[i + k]
  BY <1>2, <1>3, SuffixFacts
<1>7. StampsOf(r) = {r[i] : i \in 1..(Len(q) - k)}
  BY <1>6, StampsOfLog
<1> DEFINE B == {q[i] : i \in (k + 1)..Len(q)}
<1> HIDE DEF r, W, R, q
<1>8. B = StampsOf(r)
  <2>1. ASSUME NEW i \in (k + 1)..Len(q) PROVE q[i] \in StampsOf(r)
    <3>1. i - k \in 1..(Len(q) - k) /\ (i - k) + k = i
      BY <1>2
    <3>2. r[i - k] = q[i]
      BY <1>6, <3>1
    <3> QED
      BY <1>7, <3>1, <3>2
  <2>2. ASSUME NEW i \in 1..(Len(q) - k) PROVE r[i] \in B
    <3>1. i + k \in (k + 1)..Len(q)
      BY <1>2
    <3> QED
      BY <1>6, <3>1
  <2> QED
    BY <1>7, <2>1, <2>2
<1>9. PICK j \in 1..Len(q) : q[j] = t
  BY <1>2, <1>4, <1>5
<1>10. j <= k
  <2> SUFFICES ASSUME j > k PROVE FALSE
    BY <1>2
  <2>1. j \in (k + 1)..Len(q)
    BY <1>2
  <2> QED
    BY <1>4, <1>8, <1>9, <2>1
<1>11. IsFiniteSet(B) /\ Cardinality(B) = n
  <2>1. Len(q) - k = n
    BY <1>2, <1>3, <1>6, <1>10
  <2>2. \A i, l \in 1..Len(q) : i < l => q[i] # q[l]
    BY <1>1 DEF IsLog
  <2> QED
    BY <1>2, <2>1, <2>2, EndIsCounted
<1>12. PICK i \in (k + 1)..Len(q) : q[i] \notin W
  <2> SUFFICES ASSUME B \subseteq W PROVE FALSE
    OBVIOUS
  <2>1. Cardinality(W) \in Nat /\ Cardinality(B) <= Cardinality(W)
    BY <1>5, FS_Subset, FS_CardinalityType
  <2>2. Cardinality(W) = Cardinality(B)
    BY <1>3, <1>5, <1>11, <2>1
  <2>3. B = W
    BY <1>5, <2>2, FS_Subset
  <2> QED
    BY <1>4, <1>8, <2>3
<1> DEFINE u == q[i]
<1>13. i \in 1..Len(q) /\ j < i
  BY <1>2, <1>10
<1>14. u \in R /\ u \in StampsOf(r) /\ u \notin W
  BY <1>2, <1>8, <1>12, <1>13
<1>15. u \notin before[t] /\ u # t
  BY <1>1, <1>9, <1>13 DEF IsLog
<1>16. t \notin before[u]
  <2>1. t \in Nat /\ u \in Nat /\ u \in Stamp
    BY <1>2, <1>4, <1>5, <1>14
  <2>2. ~(u > t)
    BY <1>4, <1>5, <1>14
  <2>3. ~(t < u)
    BY <2>1, <2>2
  <2> QED
    BY <1>1, <2>1, <2>3
<1> QED
  BY <1>4, <1>14, <1>15, <1>16 DEF Overlap

\* What gc leaves of a key's record is that record, or one that it overlapped.
Keeps(s, k) ==
  \/ Get(s, k) = 0 \/ Get(s, k)' \in {Get(s, k), 0}
  \/ Overlap(Get(s, k), Get(s, k)')

\* The end of a log ends in the same record of a key.
LEMMA LastOfSuffix ==
  ASSUME NEW q \in Seq(Stamp), NEW n \in Nat, NEW k, NEW v, NEW w,
         IsLast(v, q, k), IsLast(w, Suffix(q, n), k), w # 0
  PROVE  v = w
<1> DEFINE r == Suffix(q, n)
<1>1. Len(q) \in Nat
  OBVIOUS
<1>2. PICK d \in 0..Len(q) :
        /\ IF Len(q) > n THEN Len(q) = n + d ELSE d = 0
        /\ r \in Seq(Stamp) /\ Len(r) = Len(q) - d
        /\ \A i \in 1..(Len(q) - d) : r[i] = q[i + d]
  BY SuffixFacts
<1> HIDE DEF r
<1>3. PICK i \in 1..(Len(q) - d) :
        w = r[i] /\ KeyOf[r[i]] = k /\ \A j \in 1..(Len(q) - d) : KeyOf[r[j]] = k => j <= i
  BY <1>2 DEF IsLast, r
<1>4. i + d \in 1..Len(q) /\ w = q[i + d] /\ KeyOf[q[i + d]] = k
  BY <1>1, <1>2, <1>3
<1>5. PICK j \in 1..Len(q) :
        v = q[j] /\ KeyOf[q[j]] = k /\ \A l \in 1..Len(q) : KeyOf[q[l]] = k => l <= j
  BY <1>4 DEF IsLast
<1>6. j >= i + d
  BY <1>4, <1>5
<1>7. j - d \in 1..(Len(q) - d) /\ (j - d) + d = j
  BY <1>1, <1>6
<1>8. r[j - d] = q[j]
  BY <1>2, <1>7
<1>9. j - d <= i
  BY <1>3, <1>5, <1>7, <1>8
<1>10. j = i + d
  BY <1>1, <1>6, <1>9
<1> QED
  BY <1>4, <1>5, <1>10

\* The newest of a log end in the same record of a key, or in one that lies
\* before it and was stamped after it.
LEMMA LastOfNewest ==
  ASSUME NEW q, NEW s, IsLog(q, s, returned, before),
         \A t \in Stamp : before[t] \subseteq Nat /\ \A u \in before[t] : u < t,
         NEW k, NEW v, NEW w, IsLast(v, q, k), IsLast(w, Newest(q), k), w # 0, v # w
  PROVE  Overlap(v, w)
<1> DEFINE r == Newest(q)
           R == StampsOf(q)
           W == NewestOf(R, MaxItems)
<1>1. /\ IsLog(r, s, returned, before) /\ StampsOf(r) = W
      /\ \A i, j \in 1..Len(r) : i < j => r[i] < r[j]
  BY NewestIsLog
<1>2. /\ Len(q) \in Nat /\ R = {q[i] : i \in 1..Len(q)}
      /\ R \subseteq Stamp /\ R \in SUBSET Nat /\ IsFiniteSet(R)
  BY LogRecords, StampFacts, FS_Subset
<1>3. Len(r) \in Nat /\ StampsOf(r) = {r[i] : i \in 1..Len(r)}
  BY <1>1, LogRecords
<1>4. W \subseteq R /\ \A x \in W, y \in R : y > x => y \in W
  BY <1>2, NewestFacts, MemoryAssumption
<1> HIDE DEF r, R, W
<1>5. PICK i \in 1..Len(r) :
        w = r[i] /\ KeyOf[r[i]] = k /\ \A j \in 1..Len(r) : KeyOf[r[j]] = k => j <= i
  BY DEF IsLast, r
<1>6. w \in W /\ w \in R /\ KeyOf[w] = k
  BY <1>1, <1>3, <1>4, <1>5
<1>7. PICK m \in 1..Len(q) : w = q[m]
  BY <1>2, <1>6
<1>8. PICK j \in 1..Len(q) :
        v = q[j] /\ KeyOf[q[j]] = k /\ \A l \in 1..Len(q) : KeyOf[q[l]] = k => l <= j
  BY <1>6, <1>7 DEF IsLast
<1>9. m < j
  BY <1>2, <1>6, <1>7, <1>8
<1>10. v \notin before[w]
  BY <1>7, <1>8, <1>9 DEF IsLog
<1>11. /\ v \in R /\ v \in Stamp /\ v \in Nat /\ w \in Nat
       /\ KeyOf[v] = k
  BY <1>2, <1>6, <1>8
<1>12. v < w
  <2>1. CASE v \in W
    <3>1. PICK l \in 1..Len(r) : v = r[l]
      BY <1>1, <1>3, <2>1
    <3>2. l < i
      BY <1>3, <1>5, <1>11, <3>1
    <3> QED
      BY <1>1, <1>5, <3>1, <3>2
  <2>2. CASE v \notin W
    BY <1>4, <1>6, <1>11, <2>2
  <2> QED
    BY <2>1, <2>2
<1>13. w \notin before[v]
  BY <1>11, <1>12
<1> QED
  BY <1>10, <1>13 DEF Overlap

LEMMA ValuesStep ==
  ASSUME MemInv, MemInv', [Next]_vars, puts' = puts, returned' = returned,
         NEW s \in Scope, NEW k \in Key
  PROVE  Keeps(s, k)
<1> DEFINE q == log[s]
           v == Get(s, k)
           w == Get(s, k)'
<1>1. IsLast(v, q, k) /\ IsLast(w, log'[s], k)
  BY GetFacts, GetFactsNext DEF MemInv
<1>2. /\ q \in Seq(Stamp) /\ IsLog(q, s, returned, before) /\ MaxItems \in Nat
      /\ \A t \in Stamp : before[t] \subseteq Nat /\ \A u \in before[t] : u < t
  BY MemoryAssumption, StampFacts DEF MemInv, LogsInv, PutsInv, MemoryTypeOK
<1>3. ASSUME log'[s] = log[s] PROVE v = w
  BY <1>3 DEF Get
<1>4. CASE UNCHANGED vars
  BY <1>3, <1>4 DEF vars, Keeps
<1>5. ASSUME Next, Appends(s) PROVE FALSE
  BY <1>5 DEF Appends
<1>6. ASSUME Next, Trims(s), w # 0 PROVE v = w
  BY <1>1, <1>2, <1>6, LastOfSuffix DEF Trims
<1>7. ASSUME Next, Collects(s), w # 0, v # 0, v # w PROVE Overlap(v, w)
  <2>1. PICK c \in Client : pc[c] = "rewrite" /\ s = ScopeOf[seen[c][1]] /\ log'[s] = Newest(seen[c])
    BY <1>7 DEF Collects
  <2>2. q # <<>>
    BY <1>1, <1>7 DEF IsLast
  <2>3. seen[c] = q
    BY <2>1, <2>2 DEF MemInv, SeenInv
  <2> HIDE DEF q, v, w
  <2> QED
    BY <1>1, <1>2, <1>7, <2>1, <2>3, LastOfNewest
<1>8. ASSUME Next, Empties(s) PROVE w = 0
  BY <1>1, <1>8 DEF Empties, IsLast
<1> HIDE DEF v, w
<1>9. CASE Next
  BY <1>3, <1>5, <1>6, <1>7, <1>8, <1>9, LogsMove DEF Keeps, v, w
<1> QED
  BY <1>4, <1>9

-----------------------------------------------------------------------------
(***************************************************************************)
(* The theorems.                                                           *)
(***************************************************************************)
\* The invariant holds throughout.
LEMMA MemoryIsInductive == Spec => []MemInv
<1>1. ASSUME MemInv, UNCHANGED vars PROVE MemInv'
  <2> USE <1>1 DEF vars, MemInv
  <2>1. MemoryTypeOK' /\ LockInv' /\ ClearsInv' /\ PutsInv'
    BY DEF MemoryTypeOK, LockInv, ClearsInv, PutsInv
  <2>2. LogsInv' /\ SeenInv'
    BY DEF LogsInv, SeenInv
  <2>3. ReturnedIsKept'
    BY DEF ReturnedIsKept, AllStamps, Recent
  <2> QED
    BY <2>1, <2>2, <2>3
<1>2. ASSUME MemInv, Next PROVE MemInv'
  BY <1>2, TypeStep, LogsStep, PutsStep, LockStep, SeenStep, KeptStep DEF MemInv
<1> QED
  BY <1>1, <1>2, InitHolds, PTL DEF Spec

\* get() never returns a value that a later put of the key has replaced, and
\* both kinds of store answer a limited query with the same records up to puts
\* that overlapped.
THEOREM ReadersSeeTheCurrent == Spec => []MemoryInv
<1>1. MemInv => MemoryInv
  BY GetIsCurrentHere, QueriesAgreeHere DEF MemInv, MemoryInv
<1> QED
  BY <1>1, MemoryIsInductive, PTL

\* A put that has returned is in its log, unless a clear took it or gc kept
\* maxItems others that had not returned when it began.
THEOREM NoRecordIsLost == Spec => []ReturnedIsKept
<1>1. MemInv => ReturnedIsKept
  BY DEF MemInv
<1> QED
  BY <1>1, MemoryIsInductive, PTL

\* gc never makes get() return another value of a key, unless the puts of the
\* two overlapped.
THEOREM GcLeavesTheCurrent == Spec => GcKeepsValues
<1>1. MemInv /\ MemInv' /\ [Next]_vars =>
        [puts' = puts /\ returned' = returned =>
           \A s \in Scope, k \in Key :
             \/ Get(s, k) = 0 \/ Get(s, k)' \in {Get(s, k), 0}
             \/ Overlap(Get(s, k), Get(s, k)')]_vars
  BY ValuesStep DEF Keeps
<1> QED
  BY <1>1, MemoryIsInductive, PTL DEF Spec, GcKeepsValues
=============================================================================
