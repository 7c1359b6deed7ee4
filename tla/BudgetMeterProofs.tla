------------------------- MODULE BudgetMeterProofs -------------------------
(***************************************************************************)
(* A meter never grants more than the limit in a window, and its counter   *)
(* is exactly what it has granted, for any processes, meters, estimates    *)
(* and limits.  What could go wrong lies between the load of an entry and  *)
(* its save: the invariant says that the entry in a process's hands is     *)
(* then worth what the meter has granted for the window it belongs to,     *)
(* even when midnight has passed since.  The turns and the reviews of a    *)
(* day are sums over the processes that still have one in hand.            *)
(***************************************************************************)
EXTENDS BudgetMeter, FiniteNumbers, FunctionTheorems

\* The processes in can_spend are those that hold their meter's lock.
LockInv ==
  \A p \in Process : /\ pc[p] = "reserve" <=> lock[MeterOf[p]] = p
                     /\ pc[p] = "reserve" => limit # NoLimit

\* An entry is of this window or of an earlier one.
InWindow(entry) ==
  /\ entry.window_start \in 0..now
  /\ window # "daily" => entry.window_start = 0

\* An entry counts what was granted for its window, and nothing was granted for
\* a later one.
FileInv ==
  \A m \in Meter :
    /\ InWindow(file[m])
    /\ file[m].used = granted[m][file[m].window_start]
    /\ \A d \in Day : d > file[m].window_start => granted[m][d] = 0

\* So does the entry in the hands of can_spend, which is not older.
DataInv ==
  \A p \in Process : pc[p] = "reserve" =>
    /\ InWindow(data[p])
    /\ data[p].window_start >= file[MeterOf[p]].window_start
    /\ data[p].used = granted[MeterOf[p]][data[p].window_start]

\* The inductive invariant.
MeterInv == BudgetTypeOK /\ LockInv /\ FileInv /\ DataInv /\ NeverOverspent

-----------------------------------------------------------------------------
LEMMA NothingType == Nothing \in Entry /\ Nothing.used = 0 /\ Nothing.window_start = 0
BY DEF Nothing, Entry

LEMMA DaysSoFar ==
  ASSUME BudgetTypeOK
  PROVE  now \in Nat /\ now \in Day /\ 0..now \subseteq Day /\ Day \subseteq Nat
BY BudgetAssumption DEF BudgetTypeOK, Day

\* A rollover keeps the entry, or begins the window of the clock.
LEMMA RolloverValue ==
  ASSUME BudgetTypeOK, NEW entry \in Entry, InWindow(entry)
  PROVE  /\ Rollover(entry) \in Entry
         /\ InWindow(Rollover(entry))
         /\ \/ Rollover(entry) = entry
            \/ /\ Rollover(entry).used = 0
               /\ Rollover(entry).window_start = now
               /\ now > entry.window_start
         /\ window = "daily" => Rollover(entry).window_start = now
BY DEF BudgetTypeOK, Day, Entry, InWindow, Rollover, WindowStart

LEMMA MeterInit == Init => MeterInv
<1> SUFFICES ASSUME Init PROVE MeterInv
  OBVIOUS
<1>1. BudgetTypeOK
  BY NothingType, BudgetAssumption DEF Init, BudgetTypeOK, Point, Day
<1>2. LockInv /\ DataInv
  BY BudgetAssumption DEF Init, LockInv, DataInv
<1>3. FileInv
  BY NothingType, BudgetAssumption DEF Init, FileInv, InWindow, Day
<1>4. NeverOverspent
  BY BudgetAssumption DEF Init, NeverOverspent, Day
<1> QED
  BY <1>1, <1>2, <1>3, <1>4 DEF MeterInv

-----------------------------------------------------------------------------
\* The steps that touch neither an entry nor a lock, of a process that is not in
\* can_spend and does not enter it.
LEMMA OutsideKeeps ==
  ASSUME MeterInv, NEW p \in Process, Launch(p) \/ AskUnlimited(p) \/ Turn(p) \/ Review(p) \/ Leave(p)
  PROVE  MeterInv'
<1>1. /\ UNCHANGED <<limit, window, on_exceed, now, file, lock, data, resets, deaths, granted>>
      /\ pc[p] # "reserve"
      /\ \E point \in Point \ {"reserve"} : pc' = [pc EXCEPT ![p] = point]
      /\ launches' \in Nat
  BY DEF MeterInv, BudgetTypeOK, Launch, AskUnlimited, Turn, Review, Leave, Point
<1>2. begun' \in [Meter -> Nat] /\ reviewed' \in [Meter -> Nat]
  <2>1. MeterOf[p] \in Meter /\ Estimate[p] \in Nat
    BY BudgetAssumption
  <2>2. CASE Turn(p)
    BY <2>1, <2>2 DEF MeterInv, BudgetTypeOK, Turn
  <2>3. CASE Review(p)
    BY <2>1, <2>3 DEF MeterInv, BudgetTypeOK, Review
  <2>4. CASE Launch(p) \/ AskUnlimited(p) \/ Leave(p)
    BY <2>4 DEF MeterInv, BudgetTypeOK, Launch, AskUnlimited, Leave
  <2> QED
    BY <2>2, <2>3, <2>4
<1>3. BudgetTypeOK'
  BY <1>1, <1>2 DEF MeterInv, BudgetTypeOK, Point
<1>4. LockInv' /\ DataInv'
  BY <1>1 DEF MeterInv, BudgetTypeOK, LockInv, DataInv, InWindow
<1>5. FileInv' /\ NeverOverspent'
  BY <1>1 DEF MeterInv, FileInv, InWindow, NeverOverspent
<1> QED
  BY <1>3, <1>4, <1>5 DEF MeterInv

\* The entry that can_spend begins with.
LEMMA AskKeeps ==
  ASSUME MeterInv, NEW p \in Process, Ask(p) PROVE MeterInv'
<1> DEFINE m == MeterOf[p]
           entry == Rollover(file[m])
<1>0. m \in Meter
  BY BudgetAssumption
<1>1. /\ UNCHANGED <<limit, window, on_exceed, now, file, launches, resets, deaths, granted, begun, reviewed>>
      /\ pc[p] = "ask" /\ limit # NoLimit /\ lock[m] = NoProcess
      /\ lock' = [lock EXCEPT ![m] = p]
      /\ data' = [data EXCEPT ![p] = entry]
      /\ pc' = [pc EXCEPT ![p] = "reserve"]
  BY DEF Ask, LockFree
<1>2. /\ entry \in Entry /\ InWindow(entry)
      /\ entry.window_start >= file[m].window_start
      /\ entry.used = granted[m][entry.window_start]
  <2>1. file[m] \in Entry /\ InWindow(file[m])
    BY <1>0 DEF MeterInv, BudgetTypeOK, FileInv
  <2>2. entry \in Entry /\ InWindow(entry)
    BY <2>1, RolloverValue DEF MeterInv
  <2>3. CASE entry = file[m]
    BY <1>0, <2>1, <2>3 DEF MeterInv, FileInv, Entry
  <2>4. CASE /\ entry.used = 0
             /\ entry.window_start = now
             /\ now > file[m].window_start
    <3>1. granted[m][now] = 0
      BY <1>0, <2>4, DaysSoFar DEF MeterInv, FileInv
    <3>2. now >= file[m].window_start
      BY <2>1, <2>4, DaysSoFar DEF MeterInv, InWindow
    <3> HIDE DEF entry
    <3> QED
      BY <2>2, <2>4, <3>1, <3>2
  <2> QED
    BY <2>1, <2>3, <2>4, RolloverValue DEF MeterInv
<1> HIDE DEF entry
<1>3. BudgetTypeOK'
  BY <1>0, <1>1, <1>2, BudgetAssumption DEF MeterInv, BudgetTypeOK, LockInv, Point
<1>4. LockInv'
  BY <1>0, <1>1, BudgetAssumption DEF MeterInv, BudgetTypeOK, LockInv
<1>5. DataInv'
  BY <1>0, <1>1, <1>2 DEF MeterInv, BudgetTypeOK, DataInv, InWindow
<1>6. FileInv' /\ NeverOverspent'
  BY <1>1 DEF MeterInv, FileInv, InWindow, NeverOverspent
<1> QED
  BY <1>3, <1>4, <1>5, <1>6 DEF MeterInv

\* The lock keeps everybody else out of the meter between its load and its save.
LEMMA AloneInMeter ==
  ASSUME MeterInv, NEW p \in Process, NEW q \in Process,
         pc[p] = "reserve", pc[q] = "reserve", MeterOf[p] = MeterOf[q]
  PROVE  p = q
BY DEF MeterInv, LockInv

\* The grant fits, and it is the entry's only one.
LEMMA GrantKeeps ==
  ASSUME MeterInv, NEW p \in Process, Grant(p) PROVE MeterInv'
<1> DEFINE m == MeterOf[p]
           d == data[p].window_start
           est == Estimate[p]
<1>0. m \in Meter /\ est \in Nat /\ est > 0
  BY BudgetAssumption
<1>1. /\ UNCHANGED <<limit, window, on_exceed, now, data, launches, resets, deaths, begun, reviewed>>
      /\ pc[p] = "reserve" /\ lock[m] = p
      /\ data[p].used + est <= limit
      /\ file' = [file EXCEPT ![m] = [data[p] EXCEPT !.used = @ + est]]
      /\ granted' = [granted EXCEPT ![m][d] = @ + est]
      /\ lock' = [lock EXCEPT ![m] = NoProcess]
      /\ pc' = [pc EXCEPT ![p] = "turn"]
  BY DEF Grant, Fits, Unlock, MeterInv, LockInv
<1>2. /\ data[p] \in Entry /\ InWindow(data[p])
      /\ d >= file[m].window_start
      /\ data[p].used = granted[m][d]
      /\ limit \in Nat
  BY <1>1, BudgetAssumption DEF MeterInv, BudgetTypeOK, DataInv, LockInv
<1>3. d \in Day /\ d \in Nat
  BY <1>2, DaysSoFar DEF MeterInv, InWindow
<1>4. /\ file'[m] \in Entry
      /\ file'[m].used = data[p].used + est
      /\ file'[m].window_start = d
      /\ \A n \in Meter \ {m} : file'[n] = file[n]
  BY <1>0, <1>1, <1>2 DEF MeterInv, BudgetTypeOK, Entry
<1>5. /\ granted' \in [Meter -> [Day -> Nat]]
      /\ granted'[m][d] = granted[m][d] + est
      /\ \A n \in Meter, e \in Day : n # m \/ e # d => granted'[n][e] = granted[n][e]
  BY <1>0, <1>1, <1>3 DEF MeterInv, BudgetTypeOK
<1> HIDE DEF m, d, est
<1>6. BudgetTypeOK'
  <2>1. file' \in [Meter -> Entry]
    BY <1>1, <1>4 DEF MeterInv, BudgetTypeOK
  <2>2. \A n \in Meter : lock'[n] # NoProcess => pc'[lock'[n]] = "reserve" /\ MeterOf[lock'[n]] = n
    BY <1>0, <1>1 DEF MeterInv, BudgetTypeOK, m
  <2> QED
    BY <1>0, <1>1, <1>5, <2>1, <2>2 DEF MeterInv, BudgetTypeOK, Point
<1>7. LockInv'
  <2> SUFFICES ASSUME NEW q \in Process
               PROVE  /\ pc'[q] = "reserve" <=> lock'[MeterOf[q]] = q
                      /\ pc'[q] = "reserve" => limit' # NoLimit
    BY DEF LockInv
  <2>1. MeterOf[q] \in Meter /\ q # NoProcess
    BY BudgetAssumption
  <2> QED
    BY <1>0, <1>1, <2>1 DEF MeterInv, BudgetTypeOK, LockInv, m
<1>8. FileInv'
  <2> SUFFICES ASSUME NEW n \in Meter
               PROVE  /\ InWindow(file[n])'
                      /\ file'[n].used = granted'[n][file'[n].window_start]
                      /\ \A e \in Day : e > file'[n].window_start => granted'[n][e] = 0
    BY DEF FileInv
  <2>1. CASE n = m
    <3>1. InWindow(file[m])'
      BY <1>1, <1>2, <1>4 DEF InWindow, d
    <3>2. file'[m].used = granted'[m][file'[m].window_start]
      BY <1>2, <1>4, <1>5
    <3>3. ASSUME NEW e \in Day, e > d PROVE granted'[m][e] = 0
      <4>1. e > file[m].window_start
        BY <1>0, <1>2, <1>3, <3>3, DaysSoFar DEF MeterInv, BudgetTypeOK, Entry
      <4>2. e # d
        BY <1>3, <3>3
      <4> QED
        BY <1>0, <1>5, <4>1, <4>2 DEF MeterInv, FileInv
    <3> QED
      BY <1>4, <2>1, <3>1, <3>2, <3>3
  <2>2. CASE n # m
    <3>1. file'[n] = file[n] /\ file[n].window_start \in Day
      BY <1>4, <2>2, DaysSoFar DEF MeterInv, FileInv, InWindow
    <3> QED
      BY <1>1, <1>5, <2>2, <3>1 DEF MeterInv, FileInv, InWindow
  <2> QED
    BY <2>1, <2>2
<1>9. DataInv'
  <2> SUFFICES ASSUME NEW q \in Process, pc'[q] = "reserve"
               PROVE  /\ InWindow(data[q])'
                      /\ data'[q].window_start >= file'[MeterOf[q]].window_start
                      /\ data'[q].used = granted'[MeterOf[q]][data'[q].window_start]
    BY DEF DataInv
  <2>1. q # p /\ pc[q] = "reserve"
    BY <1>1 DEF MeterInv, BudgetTypeOK
  <2>2. MeterOf[q] \in Meter \ {m}
    BY <1>1, <2>1, AloneInMeter, BudgetAssumption DEF m
  <2>3. data[q].window_start \in Day
    BY <2>1, DaysSoFar DEF MeterInv, DataInv, InWindow
  <2> QED
    BY <1>1, <1>4, <1>5, <2>1, <2>2, <2>3 DEF MeterInv, DataInv, InWindow
<1>10. NeverOverspent'
  BY <1>0, <1>1, <1>2, <1>3, <1>5 DEF MeterInv, BudgetTypeOK, NeverOverspent
<1> QED
  BY <1>6, <1>7, <1>8, <1>9, <1>10 DEF MeterInv

\* A process leaves can_spend without a save: denied, or dead.
LEMMA LeavingKeeps ==
  ASSUME MeterInv, NEW p \in Process, Deny(p) \/ Die(p) PROVE MeterInv'
<1> DEFINE m == MeterOf[p]
<1>0. m \in Meter /\ p # NoProcess
  BY BudgetAssumption
<1>1. /\ UNCHANGED <<limit, window, on_exceed, now, file, data, launches, resets, granted, begun, reviewed>>
      /\ \E point \in {"turn", "ask", "out"} : pc' = [pc EXCEPT ![p] = point]
      /\ lock' = IF lock[m] = p THEN [lock EXCEPT ![m] = NoProcess] ELSE lock
      /\ deaths' \in Nat
  <2>1. CASE Deny(p)
    BY <1>0, <2>1 DEF Deny, Unlock, MeterInv, BudgetTypeOK, LockInv
  <2>2. CASE Die(p)
    <3>1. pc' = [pc EXCEPT ![p] = "out"]
      BY <2>2 DEF Die
    <3>2. deaths' \in Nat
      BY <2>2 DEF Die, MeterInv, BudgetTypeOK
    <3> QED
      BY <2>2, <3>1, <3>2 DEF Die
  <2> QED
    BY <2>1, <2>2
<1>2. BudgetTypeOK'
  BY <1>0, <1>1 DEF MeterInv, BudgetTypeOK, Point
<1>3. LockInv'
  BY <1>0, <1>1, BudgetAssumption DEF MeterInv, BudgetTypeOK, LockInv
<1>4. FileInv' /\ NeverOverspent'
  BY <1>1 DEF MeterInv, FileInv, InWindow, NeverOverspent
<1>5. DataInv'
  BY <1>1 DEF MeterInv, BudgetTypeOK, DataInv, InWindow
<1> QED
  BY <1>2, <1>3, <1>4, <1>5 DEF MeterInv

\* A reset waits for the lock, so nobody holds an entry of the meter.
LEMMA ResetKeeps ==
  ASSUME MeterInv, NEW m \in Meter, Reset(m) PROVE MeterInv'
<1>1. /\ UNCHANGED <<limit, window, on_exceed, now, lock, pc, data, launches, deaths, begun, reviewed>>
      /\ lock[m] = NoProcess
      /\ resets' \in Nat
      /\ file' = [file EXCEPT ![m] = Nothing]
      /\ granted' = [granted EXCEPT ![m] = [d \in Day |-> 0]]
  BY DEF Reset, LockFree, MeterInv, BudgetTypeOK
<1>2. now \in Day /\ now \in Nat
  BY BudgetAssumption DEF MeterInv, BudgetTypeOK, Day
<1>3. BudgetTypeOK'
  BY <1>1, NothingType DEF MeterInv, BudgetTypeOK
<1>4. LockInv'
  BY <1>1 DEF MeterInv, LockInv
<1>5. FileInv'
  <2> SUFFICES ASSUME NEW n \in Meter
               PROVE  /\ InWindow(file[n])'
                      /\ file'[n].used = granted'[n][file'[n].window_start]
                      /\ \A e \in Day : e > file'[n].window_start => granted'[n][e] = 0
    BY DEF FileInv
  <2>1. CASE n = m
    <3>1. file'[n] = Nothing /\ \A e \in Day : granted'[n][e] = 0
      BY <1>1, <2>1 DEF MeterInv, BudgetTypeOK
    <3>2. 0 \in Day /\ 0 \in 0..now
      BY <1>2, DaysSoFar DEF MeterInv
    <3> QED
      BY <1>1, <3>1, <3>2, NothingType DEF InWindow
  <2>2. CASE n # m
    <3>1. file'[n] = file[n] /\ granted'[n] = granted[n]
      BY <1>1, <2>2 DEF MeterInv, BudgetTypeOK
    <3> QED
      BY <1>1, <3>1 DEF MeterInv, FileInv, InWindow
  <2> QED
    BY <2>1, <2>2
<1>6. DataInv'
  <2> SUFFICES ASSUME NEW p \in Process, pc[p] = "reserve"
               PROVE  /\ InWindow(data[p])'
                      /\ data'[p].window_start >= file'[MeterOf[p]].window_start
                      /\ data'[p].used = granted'[MeterOf[p]][data'[p].window_start]
    BY <1>1 DEF DataInv
  <2>1. MeterOf[p] \in Meter \ {m}
    BY <1>1, BudgetAssumption DEF MeterInv, LockInv
  <2> QED
    BY <1>1, <2>1 DEF MeterInv, BudgetTypeOK, DataInv, InWindow
<1>7. NeverOverspent'
  BY <1>1, BudgetAssumption DEF MeterInv, BudgetTypeOK, NeverOverspent, Day
<1> QED
  BY <1>3, <1>4, <1>5, <1>6, <1>7 DEF MeterInv

\* Entries grow older, wherever they are.
LEMMA MidnightKeeps ==
  ASSUME MeterInv, Midnight PROVE MeterInv'
<1>1. /\ UNCHANGED <<limit, window, on_exceed, file, lock, pc, data, launches, resets, deaths, granted>>
      /\ now \in Nat /\ now' = now + 1 /\ now' \in Day
      /\ begun' \in [Meter -> Nat] /\ reviewed' \in [Meter -> Nat]
  BY BudgetAssumption DEF Midnight, MeterInv, BudgetTypeOK, Day
<1>2. \A entry : InWindow(entry) => InWindow(entry)'
  BY <1>1 DEF InWindow
<1>3. BudgetTypeOK' /\ LockInv' /\ NeverOverspent'
  BY <1>1 DEF MeterInv, BudgetTypeOK, LockInv, NeverOverspent
<1>4. FileInv' /\ DataInv'
  BY <1>1 DEF MeterInv, FileInv, DataInv, InWindow
<1> QED
  BY <1>3, <1>4 DEF MeterInv

LEMMA MeterStep == MeterInv /\ [Next]_vars => MeterInv'
<1> SUFFICES ASSUME MeterInv, [Next]_vars PROVE MeterInv'
  OBVIOUS
<1>1. ASSUME NEW p \in Process,
             \/ Launch(p) \/ AskUnlimited(p) \/ Ask(p) \/ Grant(p) \/ Deny(p)
             \/ Turn(p) \/ Review(p) \/ Leave(p) \/ Die(p)
      PROVE  MeterInv'
  BY <1>1, OutsideKeeps, AskKeeps, GrantKeeps, LeavingKeeps
<1>2. CASE \E m \in Meter : Reset(m)
  BY <1>2, ResetKeeps
<1>3. CASE Midnight
  BY <1>3, MidnightKeeps
<1>4. CASE UNCHANGED vars
  BY <1>4
     DEF vars, MeterInv, BudgetTypeOK, LockInv, FileInv, DataInv, InWindow, NeverOverspent
<1> QED
  BY <1>1, <1>2, <1>3, <1>4 DEF Next

\* No window's grants exceed the limit, and every reachable state is well typed:
\* for any number of processes that share a meter, die in can_spend, see midnight
\* pass there, or have their meter reset by an operator.
THEOREM GrantsStayInLimit == Spec => []BudgetInv
<1>1. MeterInv => BudgetInv
  BY DEF MeterInv, BudgetInv
<1> QED
  BY <1>1, MeterInit, MeterStep, PTL DEF Spec

\* What `karo budget status' shows is what was granted in the window of the
\* clock, neither more nor less; a session window holds all runs since the epoch.
THEOREM CounterIsExact == Spec => []UsedIsGranted
<1>1. MeterInv => UsedIsGranted
  <2> SUFFICES ASSUME MeterInv, NEW m \in Meter PROVE Used(m) = granted[m][WindowStart]
    BY DEF UsedIsGranted
  <2>1. /\ file[m] \in Entry /\ now \in Nat /\ now \in Day
        /\ file[m].window_start \in 0..now
        /\ window # "daily" => file[m].window_start = 0
        /\ file[m].used = granted[m][file[m].window_start]
        /\ \A d \in Day : d > file[m].window_start => granted[m][d] = 0
    BY BudgetAssumption DEF MeterInv, BudgetTypeOK, FileInv, InWindow, Day
  <2> QED
    BY <2>1 DEF Used, Rollover, WindowStart
<1> QED
  BY <1>1, MeterInit, MeterStep, PTL DEF Spec

-----------------------------------------------------------------------------
(***************************************************************************)
(* What a day's turns may cost: MaxEstimate, and sums of estimates.        *)
(***************************************************************************)
LEMMA MaxEstimateFacts ==
  /\ MaxEstimate \in Nat
  /\ \A p \in Process : Estimate[p] \in Nat /\ Estimate[p] <= MaxEstimate
<1> DEFINE S == {Estimate[p] : p \in Process}
<1>1. S \subseteq Nat /\ S # {} /\ \A p \in Process : Estimate[p] \in S
  BY BudgetAssumption
<1>2. IsFiniteSet(S)
  <2> DEFINE f == [p \in Process |-> Estimate[p]]
  <2>1. f \in Surjection(Process, S)
    BY DEF Surjection
  <2> HIDE DEF f, S
  <2> QED
    BY <2>1, BudgetAssumption, FS_Surjection
<1> HIDE DEF S
<1>3. Max(S) \in S /\ \A x \in S : x <= Max(S)
  BY <1>1, <1>2, Extremes
<1>4. \E n \in S : \A p \in Process : Estimate[p] <= n
  BY <1>1, <1>3
<1>5. MaxEstimate \in S /\ \A p \in Process : Estimate[p] <= MaxEstimate
  <2> DEFINE P(n) == \A p \in Process : Estimate[p] <= n
  <2>1. MaxEstimate = CHOOSE n \in S : P(n)
    BY DEF MaxEstimate, S
  <2> QED
    BY <1>4, <2>1
<1> QED
  BY <1>1, <1>5

\* The estimates of a set of processes, added up.
Total(S) == (CHOOSE sum : IsSum(sum, Estimate, Process))[S]

LEMMA TotalFacts ==
  /\ Total({}) = 0
  /\ \A S \in SUBSET Process :
       /\ Total(S) \in Nat
       /\ \A p \in Process \ S : Total(S \cup {p}) = Total(S) + Estimate[p]
<1> DEFINE sum == CHOOSE sum : IsSum(sum, Estimate, Process)
<1>1. Estimate \in [Process -> Nat]
  BY BudgetAssumption
<1>2. IsSum(sum, Estimate, Process)
  BY <1>1, BudgetAssumption, SumExists
<1>3. \A S : Total(S) = sum[S]
  BY DEF Total
<1> HIDE DEF sum
<1> QED
  BY <1>2, <1>3 DEF IsSum

\* The share of one process in a set.
Share(p, S, n) == IF p \in S THEN n ELSE 0

LEMMA Shares ==
  ASSUME NEW p \in Process, NEW S \in SUBSET Process
  PROVE  /\ Total(S \ {p}) \in Nat /\ Cardinality(S \ {p}) \in Nat
         /\ Total(S) = Total(S \ {p}) + Share(p, S, Estimate[p])
         /\ Cardinality(S) = Cardinality(S \ {p}) + Share(p, S, 1)
<1>1. IsFiniteSet(S) /\ IsFiniteSet(S \ {p})
  BY BudgetAssumption, FS_Subset
<1>2. Total(S \ {p}) \in Nat /\ Cardinality(S \ {p}) \in Nat
  BY <1>1, TotalFacts, FS_CardinalityType
<1>3. CASE p \in S
  <2>1. (S \ {p}) \cup {p} = S /\ p \in Process \ (S \ {p})
    BY <1>3
  <2>2. Total(S) = Total(S \ {p}) + Estimate[p]
    <3>1. S \ {p} \in SUBSET Process
      OBVIOUS
    <3>2. Total((S \ {p}) \cup {p}) = Total(S \ {p}) + Estimate[p]
      BY <2>1, <3>1, TotalFacts
    <3> QED
      BY <2>1, <3>2
  <2>3. Cardinality(S) = Cardinality(S \ {p}) + 1
    BY <1>1, <2>1, FS_AddElement
  <2> QED
    BY <1>2, <1>3, <2>2, <2>3 DEF Share
<1>4. CASE p \notin S
  <2>1. S \ {p} = S
    BY <1>4
  <2> QED
    BY <1>2, <1>4, <2>1 DEF Share
<1> QED
  BY <1>3, <1>4

LEMMA Products ==
  ASSUME NEW e \in Nat, NEW k \in Nat
  PROVE  e * k \in Nat /\ e * (k + 0) = e * k /\ e * (k + 1) = e * k + e
OBVIOUS

-----------------------------------------------------------------------------
(***************************************************************************)
(* A day's turns.                                                          *)
(***************************************************************************)
\* The processes of a meter; those that are about to take a turn that today
\* has paid for; those that have asked before midnight and have still to begin.
Of(m) == {p \in Process : MeterOf[p] = m}

Fresh(m) == {p \in Of(m) : pc[p] = "turn" /\ data[p].window_start = now}

Late(m) == {p \in Of(m) : pc[p] \in {"reserve", "turn"} /\ data[p].window_start < now}

\* What has begun today and what is about to is paid for by today, but for the
\* late turns: each process may have had one, or has one to come.
Room(m) ==
  begun[m] + Total(Fresh(m)) + MaxEstimate * Cardinality(Late(m))
    <= granted[m][now] + MaxEstimate * Cardinality(Of(m))

Counts == window = "daily" /\ on_exceed # "warn" /\ limit # NoLimit /\ resets = 0

DayInv ==
  /\ \A p \in Process : data[p].window_start <= now
  /\ Counts => \A m \in Meter : Room(m)

LEMMA SetFacts ==
  ASSUME NEW m
  PROVE  /\ Of(m) \subseteq Process /\ Fresh(m) \subseteq Process /\ Late(m) \subseteq Process
         /\ Late(m) \subseteq Of(m)
         /\ Cardinality(Of(m)) \in Nat /\ Cardinality(Late(m)) \in Nat
         /\ Cardinality(Late(m)) <= Cardinality(Of(m))
         /\ Total(Fresh(m)) \in Nat
<1>1. Of(m) \subseteq Process /\ Fresh(m) \subseteq Process /\ Late(m) \subseteq Of(m)
  BY DEF Of, Fresh, Late
<1>2. IsFiniteSet(Of(m)) /\ IsFiniteSet(Late(m))
  BY <1>1, BudgetAssumption, FS_Subset
<1>3. Cardinality(Late(m)) <= Cardinality(Of(m))
  BY <1>1, <1>2, FS_Subset
<1> QED
  BY <1>1, <1>2, <1>3, FS_CardinalityType, TotalFacts

LEMMA DayInit == Init => DayInv
<1> SUFFICES ASSUME Init PROVE DayInv
  OBVIOUS
<1>1. \A p \in Process : data[p].window_start <= now
  BY NothingType DEF Init
<1>2. ASSUME NEW m \in Meter PROVE Room(m)
  <2>1. Fresh(m) = {} /\ Late(m) = {}
    BY DEF Init, Fresh, Late, Of
  <2>2. begun[m] = 0 /\ granted[m][now] = 0
    BY BudgetAssumption DEF Init, Day
  <2>3. Total({}) = 0 /\ Cardinality({}) = 0
    BY TotalFacts, FS_EmptySet
  <2>4. MaxEstimate \in Nat /\ Cardinality(Of(m)) \in Nat
    BY MaxEstimateFacts, SetFacts
  <2>5. MaxEstimate * 0 = 0 /\ MaxEstimate * Cardinality(Of(m)) \in Nat
    BY <2>4
  <2> QED
    BY <2>1, <2>2, <2>3, <2>5 DEF Room
<1> QED
  BY <1>1, <1>2 DEF DayInv

\* A step of p changes the sets of its meter by p at most, and no others.
LEMMA OnlyOne ==
  ASSUME NEW p \in Process, now' = now,
         \A q \in Process : q # p => pc'[q] = pc[q] /\ data'[q] = data[q]
  PROVE  /\ \A m \in Meter \ {MeterOf[p]} : Fresh(m)' = Fresh(m) /\ Late(m)' = Late(m)
         /\ Fresh(MeterOf[p])' \ {p} = Fresh(MeterOf[p]) \ {p}
         /\ Late(MeterOf[p])' \ {p} = Late(MeterOf[p]) \ {p}
BY DEF Fresh, Late, Of

\* There is room for what is added to a day's turns, if p gives up its place
\* in the sets for it, or today has paid for it.
LEMMA RoomStep ==
  ASSUME MeterInv, MeterInv', NEW p \in Process, NEW m \in Meter, Room(m), now' = now,
         Fresh(m)' \ {p} = Fresh(m) \ {p}, Late(m)' \ {p} = Late(m) \ {p},
         begun'[m] + Share(p, Fresh(m)', Estimate[p]) + Share(p, Late(m)', MaxEstimate) + granted[m][now]
           <= begun[m] + Share(p, Fresh(m), Estimate[p]) + Share(p, Late(m), MaxEstimate) + granted'[m][now]
  PROVE  Room(m)'
<1> DEFINE est == Estimate[p]
           e == MaxEstimate
           t == Total(Fresh(m) \ {p})
           k == Cardinality(Late(m) \ {p})
           c == e * Cardinality(Of(m))
           f1 == Share(p, Fresh(m), est)
           f2 == Share(p, Fresh(m)', est)
           l1 == Share(p, Late(m), e)
           l2 == Share(p, Late(m)', e)
<1>1. Fresh(m) \subseteq Process /\ Late(m) \subseteq Process
      /\ Fresh(m)' \subseteq Process /\ Late(m)' \subseteq Process
  BY DEF Fresh, Late, Of
<1>2. /\ t \in Nat /\ k \in Nat
      /\ Total(Fresh(m)) = t + f1 /\ Total(Fresh(m)') = t + f2
      /\ Cardinality(Late(m)) = k + Share(p, Late(m), 1)
      /\ Cardinality(Late(m)') = k + Share(p, Late(m)', 1)
  BY <1>1, Shares
<1>3. est \in Nat /\ e \in Nat /\ e * k \in Nat
  BY <1>2, MaxEstimateFacts, Products
<1>4. e * Cardinality(Late(m)) = e * k + l1 /\ e * Cardinality(Late(m)') = e * k + l2
  BY <1>2, <1>3, Products DEF Share
<1>5. f1 \in Nat /\ f2 \in Nat /\ l1 \in Nat /\ l2 \in Nat
  BY <1>3 DEF Share
<1>6. c \in Nat
  <2>1. Cardinality(Of(m)) \in Nat
    BY SetFacts
  <2> QED
    BY <1>3, <2>1
<1>7. /\ begun[m] \in Nat /\ begun'[m] \in Nat /\ granted[m][now] \in Nat /\ granted'[m][now] \in Nat
  BY DEF MeterInv, BudgetTypeOK
<1>8. begun[m] + (t + f1) + (e * k + l1) <= granted[m][now] + c
  BY <1>2, <1>4 DEF Room
<1> DEFINE w == e * k
<1>9. w \in Nat /\ e * k = w
  BY <1>3
<1> HIDE DEF t, k, c, f1, f2, l1, l2, w, e, est
<1>10. begun'[m] + (t + f2) + (w + l2) <= granted'[m][now] + c
  <2>1. begun'[m] + f2 + l2 + granted[m][now] <= begun[m] + f1 + l1 + granted'[m][now]
    BY DEF f1, f2, l1, l2, e, est
  <2>2. begun[m] + (t + f1) + (w + l1) <= granted[m][now] + c
    BY <1>8, <1>9
  <2> QED
    BY <1>2, <1>5, <1>6, <1>7, <1>9, <2>1, <2>2
<1>11. Of(m)' = Of(m) /\ MaxEstimate' = MaxEstimate
  BY DEF Of, MaxEstimate
<1>12. begun'[m] + Total(Fresh(m)') + e * Cardinality(Late(m)') <= granted'[m][now] + c
  BY <1>2, <1>4, <1>9, <1>10
<1> QED
  BY <1>11, <1>12 DEF Room, Total, c, e

\* A process that has not entered can_spend, or leaves it without a grant, or
\* dies, takes nothing.
LEMMA DayKeeps ==
  ASSUME MeterInv, MeterInv', DayInv, NEW p \in Process,
         UNCHANGED <<limit, window, on_exceed, now, begun, granted, resets>>,
         \A q \in Process : q # p => pc'[q] = pc[q] /\ data'[q] = data[q],
         data'[p].window_start <= now,
         Counts => /\ pc'[p] # "turn"
                   /\ pc'[p] = "reserve" => data'[p].window_start = now
  PROVE  DayInv'
<1>1. \A q \in Process : data'[q].window_start <= now'
  BY DEF DayInv
<1>2. ASSUME Counts', NEW m \in Meter PROVE Room(m)'
  <2>1. Room(m) /\ Counts
    BY <1>2 DEF DayInv, Counts
  <2>2. CASE m # MeterOf[p]
    <3>1. Fresh(m)' = Fresh(m) /\ Late(m)' = Late(m) /\ Of(m)' = Of(m)
      BY <2>2, OnlyOne DEF Of
    <3> QED
      BY <2>1, <3>1 DEF Room, Total, MaxEstimate
  <2>3. CASE m = MeterOf[p]
    <3>1. p \notin Fresh(m)' /\ p \notin Late(m)'
      <4>1. now \in Nat
        BY BudgetAssumption DEF MeterInv, BudgetTypeOK, Day
      <4> QED
        BY <2>1, <4>1 DEF Fresh, Late
    <3>2. Share(p, Fresh(m)', Estimate[p]) = 0 /\ Share(p, Late(m)', MaxEstimate) = 0
      BY <3>1 DEF Share
    <3>3. Share(p, Fresh(m), Estimate[p]) \in Nat /\ Share(p, Late(m), MaxEstimate) \in Nat
      BY MaxEstimateFacts DEF Share
    <3>4. begun[m] \in Nat /\ granted[m][now] \in Nat
      BY DEF MeterInv, BudgetTypeOK
    <3>5. begun'[m] + Share(p, Fresh(m)', Estimate[p]) + Share(p, Late(m)', MaxEstimate) + granted[m][now]
            <= begun[m] + Share(p, Fresh(m), Estimate[p]) + Share(p, Late(m), MaxEstimate) + granted'[m][now]
      BY <3>2, <3>3, <3>4
    <3> QED
      BY <2>1, <2>3, <3>5, OnlyOne, RoomStep
  <2> QED
    BY <2>2, <2>3
<1> QED
  BY <1>1, <1>2 DEF DayInv

\* A grant and its turn: what the day pays for, or what p had before midnight.
LEMMA DayPays ==
  ASSUME MeterInv, MeterInv', DayInv, NEW p \in Process, Grant(p) \/ Turn(p)
  PROVE  DayInv'
<1> DEFINE m == MeterOf[p]
           est == Estimate[p]
           d == data[p].window_start
<1>1. /\ m \in Meter /\ est \in Nat /\ est <= MaxEstimate /\ MaxEstimate \in Nat
      /\ now \in Nat /\ now \in Day
      /\ UNCHANGED <<limit, window, on_exceed, now, data, resets>>
      /\ \A q \in Process : q # p => pc'[q] = pc[q] /\ data'[q] = data[q]
  <2>1. m \in Meter /\ est \in Nat /\ est <= MaxEstimate /\ MaxEstimate \in Nat
    BY MaxEstimateFacts, BudgetAssumption
  <2>2. now \in Nat /\ now \in Day /\ pc \in [Process -> Point]
    BY BudgetAssumption DEF MeterInv, BudgetTypeOK, Day
  <2>3. UNCHANGED <<limit, window, on_exceed, now, data, resets>>
    BY DEF Grant, Turn
  <2>4. \A q \in Process : q # p => pc'[q] = pc[q]
    BY <2>2 DEF Grant, Turn
  <2> QED
    BY <2>1, <2>2, <2>3, <2>4
<1>2. d \in Nat /\ d <= now
  BY DEF MeterInv, BudgetTypeOK, Entry, DayInv
<1>3. \A n \in Meter \ {m} : begun'[n] = begun[n] /\ granted'[n] = granted[n]
  BY DEF Grant, Turn, MeterInv, BudgetTypeOK
<1>4. begun[m] \in Nat /\ granted[m][now] \in Nat
  BY <1>1 DEF MeterInv, BudgetTypeOK
<1>5. \A q \in Process : data'[q].window_start <= now'
  BY <1>1 DEF DayInv
<1>8. ASSUME NEW n \in Meter \ {m}, Room(n) PROVE Room(n)'
  <2>1. Fresh(n)' = Fresh(n) /\ Late(n)' = Late(n)
    BY <1>1, OnlyOne
  <2> QED
    BY <1>1, <1>3, <1>8, <2>1 DEF Room, Total, MaxEstimate, Of
<1>9. ASSUME Room(m) => Room(m)' PROVE DayInv'
  <2>1. \A n \in Meter : Room(n) => Room(n)'
    BY <1>8, <1>9
  <2>2. Counts' => Counts
    BY <1>1 DEF Counts
  <2> QED
    BY <1>5, <2>1, <2>2 DEF DayInv
<1>6. CASE Grant(p)
  <2>1. pc[p] = "reserve" /\ pc'[p] = "turn" /\ begun' = begun
    BY <1>6 DEF Grant, MeterInv, BudgetTypeOK
  <2>2. granted'[m][now] = granted[m][now] + (IF d = now THEN est ELSE 0)
    <3>1. granted' = [granted EXCEPT ![m][d] = @ + est]
      BY <1>6 DEF Grant
    <3>2. granted \in [Meter -> [Day -> Nat]]
      BY DEF MeterInv, BudgetTypeOK
    <3>3. CASE d = now
      BY <1>1, <3>1, <3>2, <3>3
    <3>4. CASE d # now
      BY <1>1, <1>4, <3>1, <3>2, <3>4
    <3> QED
      BY <3>3, <3>4
  <2>3. p \notin Fresh(m) /\ (p \in Fresh(m)' <=> d = now)
        /\ (p \in Late(m) <=> d < now) /\ (p \in Late(m)' <=> d < now)
    BY <1>1, <2>1 DEF Fresh, Late, Of
  <2>4. /\ Share(p, Fresh(m), est) = 0
        /\ Share(p, Fresh(m)', est) = IF d = now THEN est ELSE 0
        /\ Share(p, Late(m), MaxEstimate) = Share(p, Late(m)', MaxEstimate)
        /\ Share(p, Late(m), MaxEstimate) \in Nat
    BY <1>1, <2>3 DEF Share
  <2> HIDE DEF m, est, d
  <2>5. begun'[m] + Share(p, Fresh(m)', est) + Share(p, Late(m)', MaxEstimate) + granted[m][now]
          <= begun[m] + Share(p, Fresh(m), est) + Share(p, Late(m), MaxEstimate) + granted'[m][now]
    BY <1>1, <1>4, <2>1, <2>2, <2>4
  <2> QED
    <3>1. /\ now' = now /\ Fresh(m)' \ {p} = Fresh(m) \ {p}
          /\ Late(m)' \ {p} = Late(m) \ {p}
      BY <1>1, OnlyOne DEF m
    <3>2. Room(m) => Room(m)'
      BY <1>1, <2>5, <3>1, RoomStep DEF est
    <3> QED
      BY <1>9, <3>2
<1>7. CASE Turn(p)
  <2>1. /\ pc[p] = "turn" /\ pc'[p] \notin {"reserve", "turn"}
        /\ granted' = granted /\ begun'[m] = begun[m] + est
    BY <1>1, <1>7 DEF Turn, MeterInv, BudgetTypeOK
  <2>2. p \notin Fresh(m)' /\ p \notin Late(m)' /\ (p \in Fresh(m) \/ p \in Late(m))
    BY <1>1, <1>2, <2>1 DEF Fresh, Late, Of
  <2>3. /\ Share(p, Fresh(m)', est) = 0 /\ Share(p, Late(m)', MaxEstimate) = 0
        /\ Share(p, Fresh(m), est) \in Nat /\ Share(p, Late(m), MaxEstimate) \in Nat
        /\ est <= Share(p, Fresh(m), est) + Share(p, Late(m), MaxEstimate)
    BY <1>1, <2>2 DEF Share
  <2> HIDE DEF m, est, d
  <2>4. begun'[m] + Share(p, Fresh(m)', est) + Share(p, Late(m)', MaxEstimate) + granted[m][now]
          <= begun[m] + Share(p, Fresh(m), est) + Share(p, Late(m), MaxEstimate) + granted'[m][now]
    BY <1>1, <1>4, <2>1, <2>3
  <2> QED
    <3>1. /\ now' = now /\ Fresh(m)' \ {p} = Fresh(m) \ {p}
          /\ Late(m)' \ {p} = Late(m) \ {p}
      BY <1>1, OnlyOne DEF m
    <3>2. Room(m) => Room(m)'
      BY <1>1, <2>4, <3>1, RoomStep DEF est
    <3> QED
      BY <1>9, <3>2
<1> QED
  BY <1>6, <1>7

\* Midnight makes every turn that is about to begin a late one.
LEMMA DayEnds ==
  ASSUME MeterInv, MeterInv', DayInv, Midnight PROVE DayInv'
<1>1. /\ UNCHANGED <<limit, window, on_exceed, pc, data, resets, granted>>
      /\ now \in Nat /\ now' = now + 1
      /\ \A m \in Meter : begun'[m] = 0
  BY BudgetAssumption DEF Midnight, MeterInv, BudgetTypeOK, Day
<1>2. \A p \in Process : data[p].window_start \in Nat /\ data[p].window_start <= now
  BY DEF MeterInv, BudgetTypeOK, Entry, DayInv
<1>3. ASSUME NEW m \in Meter PROVE Room(m)'
  <2>1. Fresh(m)' = {} /\ Late(m)' \subseteq Of(m) /\ Of(m)' = Of(m)
    BY <1>1, <1>2 DEF Fresh, Late, Of
  <2>2. Of(m) \subseteq Process /\ IsFiniteSet(Of(m)) /\ IsFiniteSet(Late(m)')
    BY <2>1, BudgetAssumption, FS_Subset DEF Of
  <2>3. /\ Cardinality(Late(m)') \in Nat /\ Cardinality(Of(m)) \in Nat
        /\ Cardinality(Late(m)') <= Cardinality(Of(m))
    BY <2>1, <2>2, FS_CardinalityType, FS_Subset
  <2>4. MaxEstimate * Cardinality(Late(m)') <= MaxEstimate * Cardinality(Of(m))
    <3> DEFINE a == Cardinality(Late(m)')
               b == Cardinality(Of(m))
               e == MaxEstimate
    <3>1. a \in Nat /\ b - a \in Nat /\ e \in Nat /\ b = a + (b - a)
      BY <2>3, MaxEstimateFacts
    <3> HIDE DEF a, b, e
    <3> QED
      <4>1. e * a \in Nat /\ e * (b - a) \in Nat /\ e * (a + (b - a)) = e * a + e * (b - a)
        BY <3>1
      <4> QED
        BY <3>1, <4>1 DEF a, b, e
  <2>5. granted'[m][now'] \in Nat /\ begun'[m] = 0 /\ Total({}) = 0
    BY <1>1, TotalFacts DEF MeterInv, BudgetTypeOK
  <2>6. MaxEstimate * Cardinality(Late(m)') \in Nat /\ MaxEstimate * Cardinality(Of(m)) \in Nat
    BY <2>3, MaxEstimateFacts
  <2>7. begun'[m] + Total({}) + MaxEstimate * Cardinality(Late(m)')
          <= granted'[m][now'] + MaxEstimate * Cardinality(Of(m))
    BY <2>4, <2>5, <2>6
  <2> QED
    BY <2>1, <2>7 DEF Room, Total, MaxEstimate
<1> QED
  BY <1>1, <1>2, <1>3 DEF DayInv

LEMMA DayStep == MeterInv /\ MeterInv' /\ DayInv /\ [Next]_vars => DayInv'
<1> SUFFICES ASSUME MeterInv, MeterInv', DayInv, [Next]_vars PROVE DayInv'
  OBVIOUS
<1>0. /\ now \in Nat /\ pc \in [Process -> Point] /\ data \in [Process -> Entry]
      /\ \A p \in Process : data[p].window_start <= now
  BY BudgetAssumption DEF MeterInv, BudgetTypeOK, Day, DayInv
<1>1. ASSUME NEW p \in Process, Launch(p) \/ Review(p) \/ Leave(p) \/ Die(p) PROVE DayInv'
  <2>1. /\ UNCHANGED <<limit, window, on_exceed, now, begun, granted, resets, data>>
        /\ \A q \in Process : q # p => pc'[q] = pc[q] /\ data'[q] = data[q]
        /\ pc'[p] \notin {"turn", "reserve"}
    BY <1>0, <1>1 DEF Launch, Review, Leave, Die
  <2> QED
    BY <1>0, <2>1, DayKeeps
<1>2. ASSUME NEW p \in Process, AskUnlimited(p) PROVE DayInv'
  <2>1. /\ UNCHANGED <<limit, window, on_exceed, now, begun, granted, resets, data>>
        /\ \A q \in Process : q # p => pc'[q] = pc[q] /\ data'[q] = data[q]
        /\ limit = NoLimit
    BY <1>0, <1>2 DEF AskUnlimited
  <2> QED
    BY <1>0, <2>1, DayKeeps DEF Counts
<1>3. ASSUME NEW p \in Process, Deny(p) PROVE DayInv'
  <2>1. /\ UNCHANGED <<limit, window, on_exceed, now, begun, granted, resets, data>>
        /\ \A q \in Process : q # p => pc'[q] = pc[q] /\ data'[q] = data[q]
        /\ on_exceed # "warn" => pc'[p] \notin {"turn", "reserve"}
    BY <1>0, <1>3 DEF Deny, MeterInv, BudgetTypeOK
  <2> QED
    BY <1>0, <2>1, DayKeeps DEF Counts
<1>4. ASSUME NEW p \in Process, Ask(p) PROVE DayInv'
  <2> DEFINE entry == Rollover(file[MeterOf[p]])
  <2>1. /\ UNCHANGED <<limit, window, on_exceed, now, begun, granted, resets>>
        /\ \A q \in Process : q # p => pc'[q] = pc[q] /\ data'[q] = data[q]
        /\ pc'[p] = "reserve" /\ data'[p] = entry
    BY <1>0, <1>4 DEF Ask
  <2>2. file[MeterOf[p]] \in Entry /\ InWindow(file[MeterOf[p]])
    BY BudgetAssumption DEF MeterInv, BudgetTypeOK, FileInv
  <2>3. InWindow(entry) /\ (window = "daily" => entry.window_start = now)
    BY <2>2, RolloverValue DEF MeterInv
  <2> HIDE DEF entry
  <2>4. entry.window_start <= now
    BY <1>0, <2>3 DEF InWindow
  <2> QED
    BY <2>1, <2>3, <2>4, DayKeeps DEF Counts
<1>5. ASSUME NEW p \in Process, Grant(p) \/ Turn(p) PROVE DayInv'
  BY <1>5, DayPays
<1>6. ASSUME NEW m \in Meter, Reset(m) PROVE DayInv'
  <2>1. UNCHANGED <<data, now>> /\ resets' = resets + 1 /\ resets \in Nat
    BY <1>6 DEF Reset, MeterInv, BudgetTypeOK
  <2> QED
    BY <1>0, <2>1 DEF DayInv, Counts
<1>7. CASE Midnight
  BY <1>7, DayEnds
<1>8. CASE UNCHANGED vars
  BY <1>8 DEF vars, DayInv, Counts, Room, Fresh, Late, Of, Total, MaxEstimate
<1> QED
  BY <1>1, <1>2, <1>3, <1>4, <1>5, <1>6, <1>7, <1>8 DEF Next

-----------------------------------------------------------------------------
(***************************************************************************)
(* A day's reviews.                                                        *)
(***************************************************************************)
\* What is about to be reviewed; today's reviews and these have had their turns
\* today, but for those that midnight found before a review.
Reviewing(m) == {p \in Of(m) : pc[p] = "review"}

ReviewInv ==
  \A m \in Meter :
    reviewed[m] + Total(Reviewing(m)) <= begun[m] + MaxEstimate * Cardinality(Of(m))

\* A sum of estimates is bounded by the largest.
LEMMA TotalBound ==
  \A S \in SUBSET Process : Total(S) <= MaxEstimate * Cardinality(S)
<1> DEFINE N == {n \in Nat : \A S \in SUBSET Process :
                               Cardinality(S) = n => Total(S) <= MaxEstimate * n}
<1>1. MaxEstimate \in Nat
  BY MaxEstimateFacts
<1>2. \A S \in SUBSET Process : IsFiniteSet(S) /\ Cardinality(S) \in Nat
  BY BudgetAssumption, FS_Subset, FS_CardinalityType
<1>3. 0 \in N
  <2>1. MaxEstimate * 0 = 0
    BY <1>1
  <2>2. \A S \in SUBSET Process : Cardinality(S) = 0 => S = {}
    BY <1>2, FS_EmptySet
  <2> QED
    BY <2>1, <2>2, TotalFacts
<1>4. ASSUME NEW n \in N PROVE n + 1 \in N
  <2>1. n \in Nat /\ n + 1 \in Nat /\ n + 1 # 0
    OBVIOUS
  <2>2. ASSUME NEW S \in SUBSET Process, Cardinality(S) = n + 1
        PROVE  Total(S) <= MaxEstimate * (n + 1)
    <3>1. S # {}
      BY <2>1, <2>2, FS_EmptySet
    <3>2. PICK p \in S : TRUE
      BY <3>1
    <3>3. S \ {p} \in SUBSET Process /\ p \in Process
      BY <3>2
    <3>4. /\ Total(S) = Total(S \ {p}) + Estimate[p]
          /\ Cardinality(S) = Cardinality(S \ {p}) + 1
      BY <3>2, <3>3, Shares DEF Share
    <3>5. Cardinality(S \ {p}) = n
      BY <1>2, <2>1, <2>2, <3>3, <3>4
    <3>6. Total(S \ {p}) <= MaxEstimate * n
      BY <3>3, <3>5
    <3>7. Estimate[p] \in Nat /\ Estimate[p] <= MaxEstimate /\ Total(S \ {p}) \in Nat
      BY <3>3, MaxEstimateFacts, TotalFacts
    <3>8. MaxEstimate * n \in Nat /\ MaxEstimate * (n + 1) = MaxEstimate * n + MaxEstimate
      BY <1>1, <2>1, Products
    <3> HIDE DEF N
    <3> QED
      BY <1>1, <3>4, <3>6, <3>7, <3>8
  <2> QED
    BY <2>1, <2>2
<1> HIDE DEF N
<1>5. Nat \subseteq N
  <2>1. N \in SUBSET Nat
    BY DEF N
  <2> QED
    BY <1>3, <1>4, <2>1, SetInduction
<1> QED
  BY <1>2, <1>5 DEF N

\* What all the processes of a meter may take at a time bounds any of them.
LEMMA CarriedBound ==
  ASSUME NEW m, NEW S \in SUBSET Of(m)
  PROVE  /\ Total(S) \in Nat
         /\ MaxEstimate * Cardinality(Of(m)) \in Nat
         /\ Total(S) <= MaxEstimate * Cardinality(Of(m))
<1>1. S \in SUBSET Process /\ Of(m) \subseteq Process
  BY DEF Of
<1>2. IsFiniteSet(Of(m)) /\ IsFiniteSet(S)
  BY <1>1, BudgetAssumption, FS_Subset
<1>3. /\ Cardinality(S) \in Nat /\ Cardinality(Of(m)) \in Nat
      /\ Cardinality(S) <= Cardinality(Of(m))
  BY <1>2, FS_Subset, FS_CardinalityType
<1>4. Total(S) \in Nat /\ Total(S) <= MaxEstimate * Cardinality(S) /\ MaxEstimate \in Nat
  BY <1>1, TotalBound, TotalFacts, MaxEstimateFacts
<1> DEFINE a == Cardinality(S)
           b == Cardinality(Of(m))
           e == MaxEstimate
<1>5. e * b \in Nat /\ e * a \in Nat /\ e * a <= e * b
  <2>1. a \in Nat /\ b - a \in Nat /\ e \in Nat /\ b = a + (b - a)
    BY <1>3, <1>4
  <2> HIDE DEF a, b, e
  <2>2. e * a \in Nat /\ e * (b - a) \in Nat /\ e * (a + (b - a)) = e * a + e * (b - a)
    BY <2>1
  <2> QED
    BY <2>1, <2>2
<1> DEFINE x == e * a
           y == e * b
<1>6. x \in Nat /\ y \in Nat /\ x <= y /\ Total(S) <= x /\ Total(S) \in Nat
  BY <1>4, <1>5
<1> HIDE DEF x, y
<1>7. y \in Nat /\ Total(S) <= y
  BY <1>6
<1> QED
  BY <1>4, <1>7 DEF y

LEMMA ReviewInit == Init => ReviewInv
<1> SUFFICES ASSUME Init, NEW m \in Meter
             PROVE  reviewed[m] + Total(Reviewing(m)) <= begun[m] + MaxEstimate * Cardinality(Of(m))
  BY DEF ReviewInv
<1>1. reviewed[m] = 0 /\ begun[m] = 0 /\ Reviewing(m) \in SUBSET Of(m)
  BY DEF Init, Reviewing
<1> QED
  BY <1>1, CarriedBound

\* The steps of a process: a turn may put it before a review, a review takes it
\* away, and nothing else does either but a death.
LEMMA ReviewOne ==
  ASSUME MeterInv, MeterInv', ReviewInv, NEW p \in Process, UNCHANGED MaxEstimate,
         \A q \in Process : q # p => pc'[q] = pc[q],
         \/ Turn(p)
         \/ Review(p)
         \/ /\ UNCHANGED <<begun, reviewed>>
            /\ pc'[p] # "review"
  PROVE  ReviewInv'
<1> SUFFICES ASSUME NEW m \in Meter
             PROVE  (reviewed[m] + Total(Reviewing(m)) <= begun[m] + MaxEstimate * Cardinality(Of(m)))'
  BY DEF ReviewInv
<1> DEFINE c == MaxEstimate * Cardinality(Of(m))
           t == Total(Reviewing(m) \ {p})
           est == Estimate[p]
           r == Share(p, Reviewing(m), est)
           s == Share(p, Reviewing(m)', est)
<1>1. /\ begun[m] \in Nat /\ begun'[m] \in Nat /\ reviewed[m] \in Nat /\ reviewed'[m] \in Nat
      /\ est \in Nat
  BY BudgetAssumption DEF MeterInv, BudgetTypeOK
<1>2. Reviewing(m)' \ {p} = Reviewing(m) \ {p} /\ Of(m)' = Of(m)
  BY DEF Reviewing, Of
<1>3. Reviewing(m) \in SUBSET Process /\ Reviewing(m)' \in SUBSET Process
  BY DEF Reviewing, Of
<1>4. /\ t \in Nat /\ Total(Reviewing(m)) = t + r /\ Total(Reviewing(m)') = t + s
  BY <1>2, <1>3, Shares
<1>5. c \in Nat /\ reviewed[m] + (t + r) <= begun[m] + c
  BY <1>4, CarriedBound DEF ReviewInv
<1>6. r \in Nat /\ s \in Nat
  BY <1>1 DEF Share
<1>7. reviewed'[m] + s + begun[m] <= begun'[m] + r + reviewed[m]
  <2>1. CASE MeterOf[p] # m
    <3>1. begun'[m] = begun[m] /\ reviewed'[m] = reviewed[m]
      BY <2>1 DEF Turn, Review, MeterInv, BudgetTypeOK
    <3>2. r = 0 /\ s = 0
      BY <2>1 DEF Share, Reviewing, Of
    <3> QED
      BY <1>1, <3>1, <3>2
  <2>2. CASE MeterOf[p] = m /\ Turn(p)
    <3>1. begun'[m] = begun[m] + est /\ reviewed'[m] = reviewed[m]
      BY <2>2 DEF Turn, MeterInv, BudgetTypeOK
    <3>2. r = 0 /\ s <= est
      BY <1>1, <2>2 DEF Share, Reviewing, Turn
    <3> HIDE DEF r, s, est
    <3> QED
      BY <1>1, <1>6, <3>1, <3>2
  <2>3. CASE MeterOf[p] = m /\ Review(p)
    <3>1. begun'[m] = begun[m] /\ reviewed'[m] = reviewed[m] + est
      BY <2>3 DEF Review, MeterInv, BudgetTypeOK
    <3>2. pc[p] = "review" /\ pc'[p] = "ask"
      BY <2>3 DEF Review, MeterInv, BudgetTypeOK
    <3>3. r = est /\ s = 0
      BY <2>3, <3>2 DEF Share, Reviewing, Of
    <3> HIDE DEF r, s, est
    <3> QED
      BY <1>1, <1>6, <3>1, <3>3
  <2>4. CASE UNCHANGED <<begun, reviewed>> /\ pc'[p] # "review"
    <3>1. s = 0
      BY <2>4 DEF Share, Reviewing
    <3> HIDE DEF r, s, est
    <3> QED
      BY <1>1, <1>6, <2>4, <3>1
  <2> QED
    BY <2>1, <2>2, <2>3, <2>4
<1>8. reviewed'[m] + (t + s) <= begun'[m] + c
  <2> HIDE DEF c, t, est, r, s
  <2> QED
    BY <1>1, <1>4, <1>5, <1>6, <1>7
<1> QED
  BY <1>2, <1>4, <1>8

LEMMA ReviewStep == MeterInv /\ MeterInv' /\ ReviewInv /\ [Next]_vars => ReviewInv'
<1> SUFFICES ASSUME MeterInv, MeterInv', ReviewInv, [Next]_vars PROVE ReviewInv'
  OBVIOUS
<1>0. UNCHANGED MaxEstimate /\ pc \in [Process -> Point]
  BY DEF MaxEstimate, MeterInv, BudgetTypeOK
<1>1. ASSUME NEW p \in Process, Turn(p) \/ Review(p) PROVE ReviewInv'
  <2>1. \A q \in Process : q # p => pc'[q] = pc[q]
    BY <1>0, <1>1 DEF Turn, Review
  <2> QED
    BY <1>0, <1>1, <2>1, ReviewOne
<1>2. ASSUME NEW p \in Process,
             Launch(p) \/ AskUnlimited(p) \/ Ask(p) \/ Grant(p) \/ Deny(p) \/ Leave(p) \/ Die(p)
      PROVE  ReviewInv'
  <2>1. UNCHANGED <<begun, reviewed>>
    BY <1>2 DEF Launch, AskUnlimited, Ask, Grant, Deny, Leave, Die
  <2>2. \E point \in Point \ {"review"} : pc' = [pc EXCEPT ![p] = point]
    <3>1. CASE Deny(p)
      BY <3>1 DEF Deny, MeterInv, BudgetTypeOK, Point
    <3>2. CASE Launch(p) \/ AskUnlimited(p) \/ Ask(p) \/ Grant(p) \/ Leave(p) \/ Die(p)
      BY <3>2 DEF Launch, AskUnlimited, Ask, Grant, Leave, Die, Point
    <3> QED
      BY <1>2, <3>1, <3>2
  <2>3. pc'[p] # "review" /\ \A q \in Process : q # p => pc'[q] = pc[q]
    BY <1>0, <2>2
  <2> QED
    BY <1>0, <2>1, <2>3, ReviewOne
<1>3. CASE \E m \in Meter : Reset(m)
  BY <1>0, <1>3 DEF Reset, ReviewInv, Reviewing, Of, Total
<1>4. CASE Midnight
  <2>1. \A m \in Meter : /\ begun'[m] = 0 /\ reviewed'[m] = 0
                         /\ Reviewing(m)' = Reviewing(m) /\ Reviewing(m) \in SUBSET Of(m)
                         /\ Of(m)' = Of(m)
    BY <1>4 DEF Midnight, Reviewing, Of
  <2>2. \A m \in Meter : /\ Total(Reviewing(m)) \in Nat
                         /\ MaxEstimate * Cardinality(Of(m)) \in Nat
                         /\ Total(Reviewing(m)) <= MaxEstimate * Cardinality(Of(m))
    BY <2>1, CarriedBound
  <2>3. \A m \in Meter : Total(Reviewing(m))' = Total(Reviewing(m))
    BY <2>1 DEF Total
  <2> SUFFICES ASSUME NEW m \in Meter
               PROVE  (reviewed[m] + Total(Reviewing(m)) <= begun[m] + MaxEstimate * Cardinality(Of(m)))'
    BY DEF ReviewInv
  <2> DEFINE t == Total(Reviewing(m))
             c == MaxEstimate * Cardinality(Of(m))
  <2>4. t \in Nat /\ c \in Nat /\ t <= c /\ t' = t /\ c' = c
    BY <1>0, <2>1, <2>2, <2>3
  <2>5. begun'[m] = 0 /\ reviewed'[m] = 0
    BY <2>1
  <2> HIDE DEF t, c
  <2>6. reviewed'[m] + t' <= begun'[m] + c'
    BY <2>4, <2>5
  <2> QED
    BY <2>6 DEF t, c
<1>5. CASE UNCHANGED vars
  BY <1>0, <1>5 DEF vars, ReviewInv, Reviewing, Of, Total
<1> QED
  BY <1>1, <1>2, <1>3, <1>4, <1>5 DEF Next

\* The turns of a day that were asked for outrun the limit by one turn of each
\* process of the meter at most, the one it was about to begin at midnight, while
\* nobody resets the meter; and the reviews, which nobody asks for, outrun these
\* turns by one of each process: for any number of processes, with any estimates.
THEOREM DaysStayBounded == Spec => []DayIsBounded
<1>1. MeterInv /\ DayInv /\ ReviewInv => DayIsBounded
  <2> SUFFICES ASSUME MeterInv, DayInv, ReviewInv, NEW m \in Meter
               PROVE  /\ Counts => begun[m] <= limit + MaxEstimate * Cardinality(Of(m))
                      /\ reviewed[m] <= begun[m] + MaxEstimate * Cardinality(Of(m))
    BY DEF DayIsBounded, Counts, Of
  <2> DEFINE c == MaxEstimate * Cardinality(Of(m))
  <2>1. ASSUME Counts PROVE begun[m] <= limit + c
    <3>1. Room(m)
      BY <2>1 DEF DayInv
    <3>2. limit \in Nat /\ granted[m][now] <= limit
      BY <2>1, BudgetAssumption DEF MeterInv, BudgetTypeOK, NeverOverspent, Counts
    <3>3. /\ MaxEstimate * Cardinality(Late(m)) \in Nat /\ c \in Nat
          /\ Total(Fresh(m)) \in Nat
      BY SetFacts, MaxEstimateFacts
    <3>4. begun[m] \in Nat /\ granted[m][now] \in Nat
      BY DEF MeterInv, BudgetTypeOK
    <3> QED
      BY <3>1, <3>2, <3>3, <3>4 DEF Room
  <2>2. reviewed[m] <= begun[m] + c
    <3>1. Reviewing(m) \in SUBSET Of(m) /\ reviewed[m] \in Nat /\ begun[m] \in Nat
      BY DEF Reviewing, MeterInv, BudgetTypeOK
    <3>2. Total(Reviewing(m)) \in Nat /\ c \in Nat
      BY <3>1, CarriedBound
    <3>3. reviewed[m] + Total(Reviewing(m)) <= begun[m] + c
      BY DEF ReviewInv
    <3> HIDE DEF c
    <3> QED
      BY <3>1, <3>2, <3>3
  <2> QED
    BY <2>1, <2>2
<1>2. MeterInv /\ DayInv /\ ReviewInv /\ [Next]_vars => MeterInv' /\ DayInv' /\ ReviewInv'
  BY MeterStep, DayStep, ReviewStep
<1>3. Init => MeterInv /\ DayInv /\ ReviewInv
  BY MeterInit, DayInit, ReviewInit
<1> QED
  BY <1>1, <1>2, <1>3, PTL DEF Spec
=============================================================================
