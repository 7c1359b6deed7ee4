---------------------------- MODULE BudgetMeter ----------------------------
(***************************************************************************)
(* FileBudgetMeter of karo_runtime/runtime/budget.py: the counter that     *)
(* processes ask before a turn, its windows, and its reset, and the turns  *)
(* of the Coordinator: the one it asks for and the reviewer's, which it    *)
(* does not ask for.  A meter is a usage.json with its lock.  The          *)
(* processes of one machine share one; every pod of a cluster has its own. *)
(*                                                                         *)
(* The clock counts days.  Estimates are the constants of the processes.   *)
(***************************************************************************)
EXTENDS Integers, FiniteSets

CONSTANTS
  Process,    \* the processes that take turns: `karo run's, or pods
  NoProcess,
  Meter,      \* the counter files
  MeterOf,    \* [Process -> Meter]
  Estimate,   \* [Process -> tokens]: the estimate of a turn, and what it takes
  NoLimit,    \* the limit None
  Limits,     \* the limits to consider
  MaxDay,     \* bound on the clock
  MaxBegun,   \* bound on the tokens of a day's turns
  MaxLaunches,\* bound on the number of runs
  MaxResets,  \* bound on the number of resets
  MaxDeaths   \* bound on the number of deaths

ASSUME BudgetAssumption ==
  /\ IsFiniteSet(Process) /\ Process # {} /\ NoProcess \notin Process
  /\ MeterOf \in [Process -> Meter]
  /\ Estimate \in [Process -> Nat \ {0}]
  /\ NoLimit \notin Nat
  /\ Limits \subseteq Nat \cup {NoLimit}
  /\ MaxDay \in Nat /\ MaxBegun \in Nat /\ MaxLaunches \in Nat /\ MaxResets \in Nat /\ MaxDeaths \in Nat

VARIABLES
  limit, window, on_exceed,   \* the spec's budgets.team
  now,       \* the day
  file,      \* [Meter -> Entry]: the provider's entry
  lock,      \* [Meter -> the process that holds the lock]
  pc,        \* [Process -> Point]
  data,      \* [Process -> Entry]: the entry in the hands of can_spend
  launches,  \* history: how many runs have begun
  resets,    \* history: how many resets there were
  deaths,    \* history: how many processes have died
  granted,   \* history: [Meter -> [Day -> tokens]] granted for a day's window
  begun,     \* history: [Meter -> tokens of the turns begun today that were asked for]
  reviewed   \* history: [Meter -> tokens of the reviews begun today]

vars == <<limit, window, on_exceed, now, file, lock, pc, data, launches, resets,
          deaths, granted, begun, reviewed>>

Day == 0..MaxDay

Entry == [used : Nat, window_start : Nat]

\* Not running; about to ask; in can_spend with the lock; about to take its turn;
\* about to have it reviewed.
Point == {"out", "ask", "reserve", "turn", "review"}

BudgetTypeOK ==
  /\ limit \in Limits
  /\ window \in {"daily", "session", "unbounded"}
  /\ on_exceed \in {"warn", "pause", "hardstop"}
  /\ now \in Day
  /\ file \in [Meter -> Entry]
  /\ lock \in [Meter -> Process \cup {NoProcess}]
  /\ pc \in [Process -> Point]
  /\ \A m \in Meter : lock[m] # NoProcess => pc[lock[m]] = "reserve" /\ MeterOf[lock[m]] = m
  /\ data \in [Process -> Entry]
  /\ launches \in Nat /\ resets \in Nat /\ deaths \in Nat
  /\ granted \in [Meter -> [Day -> Nat]]
  /\ begun \in [Meter -> Nat] /\ reviewed \in [Meter -> Nat]

\* An empty file gives the default entry, which starts at the window's start.
Nothing == [used |-> 0, window_start |-> 0]

Init ==
  /\ limit \in Limits
  /\ window \in {"daily", "session", "unbounded"}
  /\ on_exceed \in {"warn", "pause", "hardstop"}
  /\ now = 0
  /\ file = [m \in Meter |-> Nothing]
  /\ lock = [m \in Meter |-> NoProcess]
  /\ pc = [p \in Process |-> "out"]
  /\ data = [p \in Process |-> Nothing]
  /\ launches = 0 /\ resets = 0 /\ deaths = 0
  /\ granted = [m \in Meter |-> [d \in Day |-> 0]]
  /\ begun = [m \in Meter |-> 0] /\ reviewed = [m \in Meter |-> 0]

-----------------------------------------------------------------------------
\* The day whose window the clock is in: only a daily window ever ends.
WindowStart == IF window = "daily" THEN now ELSE 0

RolloverAlways(entry) == IF window = "daily" THEN [used |-> 0, window_start |-> now] ELSE entry

Rollover(entry) ==
  IF window = "daily" /\ entry.window_start < WindowStart
  THEN [used |-> 0, window_start |-> WindowStart]
  ELSE entry

Launch(p) ==
  /\ pc[p] = "out"
  /\ launches < MaxLaunches
  /\ launches' = launches + 1
  /\ pc' = [pc EXCEPT ![p] = "ask"]
  /\ UNCHANGED <<limit, window, on_exceed, now, file, lock, data, resets, deaths, granted, begun, reviewed>>

\* Without a limit there is nothing to reserve.
AskUnlimited(p) ==
  /\ pc[p] = "ask" /\ limit = NoLimit
  /\ pc' = [pc EXCEPT ![p] = "turn"]
  /\ UNCHANGED <<limit, window, on_exceed, now, file, lock, data, launches, resets, deaths,
                 granted, begun, reviewed>>

LockIgnored(m) == TRUE

Unlock(m) == lock' = [lock EXCEPT ![m] = NoProcess]

LockFree(m) == lock[m] = NoProcess

\* Lock, load, and look at the clock.
Ask(p) ==
  /\ pc[p] = "ask" /\ limit # NoLimit
  /\ LockFree(MeterOf[p])
  /\ lock' = [lock EXCEPT ![MeterOf[p]] = p]
  /\ data' = [data EXCEPT ![p] = Rollover(file[MeterOf[p]])]
  /\ pc' = [pc EXCEPT ![p] = "reserve"]
  /\ UNCHANGED <<limit, window, on_exceed, now, file, launches, resets, deaths, granted, begun, reviewed>>

FitsUnlessSpent(entry, est) == entry.used < limit
Fits(entry, est) == entry.used + est <= limit

\* The entry is saved before the lock is freed.
Grant(p) ==
  LET m == MeterOf[p] IN
  /\ pc[p] = "reserve"
  /\ Fits(data[p], Estimate[p])
  /\ file' = [file EXCEPT ![m] = [data[p] EXCEPT !.used = @ + Estimate[p]]]
  /\ granted' = [granted EXCEPT ![m][data[p].window_start] = @ + Estimate[p]]
  /\ Unlock(m)
  /\ pc' = [pc EXCEPT ![p] = "turn"]
  /\ UNCHANGED <<limit, window, on_exceed, now, data, launches, resets, deaths, begun, reviewed>>

\* Nothing is saved.  The Coordinator takes the turn all the same, or pauses the
\* task and claims another, or ends the run.
Deny(p) ==
  /\ pc[p] = "reserve"
  /\ ~Fits(data[p], Estimate[p])
  /\ Unlock(MeterOf[p])
  /\ pc' = [pc EXCEPT ![p] = CASE on_exceed = "warn" -> "turn"
                               [] on_exceed = "pause" -> "ask"
                               [] on_exceed = "hardstop" -> "out"]
  /\ UNCHANGED <<limit, window, on_exceed, now, file, data, launches, resets, deaths, granted, begun, reviewed>>

\* The turn is taken, whatever the day; record() only writes a log.  The task may
\* have a reviewer.
Turn(p) ==
  /\ pc[p] = "turn"
  /\ begun[MeterOf[p]] < MaxBegun
  /\ begun' = [begun EXCEPT ![MeterOf[p]] = @ + Estimate[p]]
  /\ \E next \in {"review", "ask"} : pc' = [pc EXCEPT ![p] = next]
  /\ UNCHANGED <<limit, window, on_exceed, now, file, lock, data, launches, resets, deaths,
                 granted, reviewed>>

\* The reviewer's turn: nobody asks the meter.
Review(p) ==
  /\ pc[p] = "review"
  /\ reviewed' = [reviewed EXCEPT ![MeterOf[p]] = @ + Estimate[p]]
  /\ pc' = [pc EXCEPT ![p] = "ask"]
  /\ UNCHANGED <<limit, window, on_exceed, now, file, lock, data, launches, resets, deaths,
                 granted, begun>>

\* The run finds no task to claim.
Leave(p) ==
  /\ pc[p] = "ask"
  /\ pc' = [pc EXCEPT ![p] = "out"]
  /\ UNCHANGED <<limit, window, on_exceed, now, file, lock, data, launches, resets, deaths,
                 granted, begun, reviewed>>

Die(p) ==
  /\ pc[p] \in {"reserve", "turn", "review"}
  /\ deaths < MaxDeaths
  /\ deaths' = deaths + 1
  /\ lock' = IF lock[MeterOf[p]] = p THEN [lock EXCEPT ![MeterOf[p]] = NoProcess] ELSE lock
  /\ pc' = [pc EXCEPT ![p] = "out"]
  /\ UNCHANGED <<limit, window, on_exceed, now, file, data, launches, resets, granted, begun, reviewed>>

\* karo budget reset; what has been granted so far does not count any more.
Reset(m) ==
  /\ resets < MaxResets
  /\ LockFree(m)
  /\ resets' = resets + 1
  /\ file' = [file EXCEPT ![m] = Nothing]
  /\ granted' = [granted EXCEPT ![m] = [d \in Day |-> 0]]
  /\ UNCHANGED <<limit, window, on_exceed, now, lock, pc, data, launches, deaths, begun, reviewed>>

Midnight ==
  /\ now < MaxDay
  /\ now' = now + 1
  /\ begun' = [m \in Meter |-> 0] /\ reviewed' = [m \in Meter |-> 0]
  /\ UNCHANGED <<limit, window, on_exceed, file, lock, pc, data, launches, resets, deaths, granted>>

Next ==
  \/ \E p \in Process :
       \/ Launch(p) \/ AskUnlimited(p) \/ Ask(p) \/ Grant(p) \/ Deny(p)
       \/ Turn(p) \/ Review(p) \/ Leave(p) \/ Die(p)
  \/ \E m \in Meter : Reset(m)
  \/ Midnight

Spec == Init /\ [][Next]_vars

-----------------------------------------------------------------------------
\* What `karo budget status' shows.
Used(m) == Rollover(file[m]).used

\* No meter grants more than the limit in one window, however many processes
\* ask it at a time, die in can_spend, or see midnight pass there.
NeverOverspent ==
  limit # NoLimit => \A m \in Meter, d \in Day : granted[m][d] <= limit

\* The type invariant with it.
BudgetInv == BudgetTypeOK /\ NeverOverspent

\* The counter holds neither more nor less than was granted in this window: no
\* reservation is lost, and none of an earlier day is held against this one.  A
\* session window is the same one from the epoch on: what earlier runs were granted
\* is in it, although budget.py:89 says that it resets per run (SessionsResetPerRun).
UsedIsGranted == \A m \in Meter : Used(m) = granted[m][WindowStart]

MaxEstimate ==
  CHOOSE n \in {Estimate[p] : p \in Process} : \A p \in Process : Estimate[p] <= n

\* The turns of a day that were asked for outrun the limit only by those paid for
\* before midnight, one for each process; and the reviews, which nobody asks for,
\* outrun these turns only by the reviews of what was done before midnight.
DayIsBounded ==
  \A m \in Meter :
    LET carried == MaxEstimate * Cardinality({p \in Process : MeterOf[p] = m})
    IN  /\ window = "daily" /\ on_exceed # "warn" /\ limit # NoLimit /\ resets = 0 =>
             begun[m] <= limit + carried
        /\ reviewed[m] <= begun[m] + carried

-----------------------------------------------------------------------------
(***************************************************************************)
(* What the documents say beyond this, and the code does not do.           *)
(***************************************************************************)
\* A run that starts while no other is going finds an empty session window.
SessionsResetPerRun ==
  [][window = "session" /\ (\A q \in Process : pc[q] = "out") =>
       \A p \in Process : pc'[p] # "out" => Used(MeterOf[p]) = 0]_vars

\* The meter wraps every turn: where no window ends, nobody resets and a denial
\* stops the agent, the tokens of all the turns stay within the limit.
EveryTurnIsMetered ==
  window # "daily" /\ on_exceed # "warn" /\ limit # NoLimit /\ resets = 0 =>
    \A m \in Meter : begun[m] + reviewed[m] <= limit
=============================================================================
