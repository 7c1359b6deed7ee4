---------------------------- MODULE Coordinator ----------------------------
(***************************************************************************)
(* The claim loop of karo_runtime/runtime/coordinator.py over one shared   *)
(* task store, from the moment the task graph is planned.  A worker is one *)
(* process that runs Coordinator.run: `karo run' on a laptop drives every  *)
(* agent of the team, an agent pod on a cluster drives its own.  Workers   *)
(* may overlap, die between any two store operations and come back.  A     *)
(* human steers through the CLI: every command reads a record, changes it  *)
(* in memory and writes it back, as two separate store operations.         *)
(*                                                                         *)
(* One action is one store operation with the local computation up to the  *)
(* next.  Mail and memory writes, which no worker reads back, belong to    *)
(* the store operation they are next to.  Task.attempts, Task.result, the  *)
(* event log and the usage log are written and never read: left out.       *)
(***************************************************************************)
EXTENDS Tasks, Sequences

CONSTANTS
  Worker,            \* the processes that run a Coordinator
  Scope,             \* [Worker -> Seq(Agent)]: the agents each one claims for
  Lead,              \* coordination.lead, or NoAgent
  Autonomous,        \* the agents whose autonomy is "autonomous"
  Override,          \* [Worker -> {"none", "supervised", "autonomous"}]
  PausesBefore,      \* the agents with a pauseBefore guard
  PausesOnComplete,  \* the agents with a pauseOn: taskComplete guard
  Cost,              \* [Task -> tokens]: the estimate of the owner's turn
  Limit,             \* budgets.team.limit, or NoLimit
  OnExceed,          \* "warn", "pause" or "hardstop"
  MaxTurns,          \* --max-turns, or NoLimit
  Human,             \* the people (shells) that issue CLI commands
  CliOp,             \* the commands they use
  Timely,            \* no worker outlives its lease before it starts
  CrashPoint,        \* the program counters at which a worker may die
  MaxCrashes         \* bound on the number of deaths

NoTask == 0

NoLimit == -1

ASSUME CoordinatorAssumption ==
  /\ IsFiniteSet(Worker)
  /\ Scope \in [Worker -> Seq(Agent) \ {<<>>}]
  /\ Lead \in Owner
  /\ Autonomous \subseteq Agent
  /\ Override \in [Worker -> {"none", "supervised", "autonomous"}]
  /\ PausesBefore \subseteq Agent /\ PausesOnComplete \subseteq Agent
  /\ Cost \in [Task -> Nat \ {0}]
  /\ Limit \in Nat \cup {NoLimit}
  /\ OnExceed \in {"warn", "pause", "hardstop"}
  /\ MaxTurns \in Nat \cup {NoLimit}
  /\ CliOp \subseteq {"release", "retry", "cancel", "assign", "reset"}
  /\ Timely \in BOOLEAN
  /\ MaxCrashes \in Nat

VARIABLES
  tasks,     \* [Task -> TaskRecord]: the persisted records
  memory,    \* the keys put into the team's memory
  mail,      \* the messages sent
  used,      \* tokens reserved in the current budget window
  pc,        \* [Worker -> Point]
  scan,      \* [Worker -> Nat]: the agent in Scope the worker claims for next
  cur,       \* [Worker -> Task or NoTask]: the task in the loop's hands
  copy,      \* [Worker -> TaskRecord]: the loop's in-memory Task
  turns,     \* [Worker -> Nat]: self._turns
  todo,      \* [Human -> SUBSET Task]: records read and not yet written back
  draft,     \* [Human -> [Task -> TaskRecord]]: what will be written
  approved,  \* history: the <<task, agent>> a human has released from a guard
  crashes    \* history: how many workers have died

stores == <<tasks, memory, mail, used>>
local  == <<pc, scan, cur, copy, turns>>
cli    == <<todo, draft, approved>>
vars   == <<stores, local, cli, crashes>>

\* The points between claiming a task and persisting "in-progress" ...
Preparing == {"gate", "pause", "begin"}
\* ... from there to the last turn's end ...
Executing == {"turn", "to_review", "review", "finish"}
\* ... and those of a process that is not in the loop.
Idle == {"down", "returned", "max-turns", "budget-hardstop"}

Point == {"claim"} \cup Preparing \cup Executing \cup Idle

MemoryKey == {"task", "review"} \X Task

Message ==
  [kind : {"assigned", "completed", "reviewed"}, to : Owner, task : Task]

TypeOK ==
  /\ tasks \in [Task -> TaskRecord]
  /\ memory \subseteq MemoryKey
  /\ mail \subseteq Message
  /\ used \in Nat
  /\ pc \in [Worker -> Point]
  /\ scan \in [Worker -> Nat]
  /\ \A w \in Worker : scan[w] \in 1..Len(Scope[w])
  /\ cur \in [Worker -> Task \cup {NoTask}]
  /\ copy \in [Worker -> TaskRecord]
  /\ turns \in [Worker -> Nat]
  /\ todo \in [Human -> SUBSET Task]
  /\ draft \in [Human -> [Task -> TaskRecord]]
  /\ approved \subseteq Task \X Agent
  /\ crashes \in Nat

Blank == NewTask(NoAgent)

Init ==
  /\ tasks = [t \in Task |-> NewTask(PlannedOwner[t])]
  /\ memory = {} /\ mail = {} /\ used = 0
  /\ pc = [w \in Worker |-> "down"]
  /\ scan = [w \in Worker |-> 1]
  /\ cur = [w \in Worker |-> NoTask]
  /\ copy = [w \in Worker |-> Blank]
  /\ turns = [w \in Worker |-> 0]
  /\ todo = [h \in Human |-> {}]
  /\ draft = [h \in Human |-> [t \in Task |-> Blank]]
  /\ approved = {}
  /\ crashes = 0

-----------------------------------------------------------------------------
(***************************************************************************)
(* Helpers of the loop.                                                    *)
(***************************************************************************)
IsAutonomous(w, agent) ==
  IF Override[w] = "none" THEN agent \in Autonomous ELSE Override[w] = "autonomous"

StopsBefore(w) ==
  /\ copy[w].owner \in PausesBefore
  /\ ~copy[w].guard_released
  /\ ~IsAutonomous(w, copy[w].owner)

StopsOnComplete(w) ==
  copy[w].owner \in PausesOnComplete /\ ~IsAutonomous(w, copy[w].owner)

ReviewsOwnWork(w) == Reviewer[cur[w]] = copy[w].owner

HasReviewer(w) == Reviewer[cur[w]] \notin {NoAgent, copy[w].owner}

OutOfTurnsLate(w) == MaxTurns # NoLimit /\ turns[w] > MaxTurns

OutOfTurns(w) == MaxTurns # NoLimit /\ turns[w] >= MaxTurns

\* Nothing reads the count when there is no --max-turns.
CountTurn(w) ==
  turns' = IF MaxTurns = NoLimit THEN turns ELSE [turns EXCEPT ![w] = @ + 1]

GoTo(w, point) == pc' = [pc EXCEPT ![w] = point]

\* Persist the worker's record of its task and keep working on it.
Persist(w, rec) ==
  /\ tasks' = [tasks EXCEPT ![cur[w]] = rec]
  /\ copy' = [copy EXCEPT ![w] = rec]
  /\ UNCHANGED <<cur, scan>>

\* Leave the task, as the loop does at `continue' and `break'.
LetGo(w) ==
  /\ cur' = [cur EXCEPT ![w] = NoTask]
  /\ copy' = [copy EXCEPT ![w] = Blank]
  /\ scan' = [scan EXCEPT ![w] = 1]

\* Persist a pause and go back to the top of the loop.
PauseTask(w, reason) ==
  /\ tasks' = [tasks EXCEPT ![cur[w]] =
                 [copy[w] EXCEPT !.state = "paused", !.pause_reason = reason]]
  /\ LetGo(w)
  /\ GoTo(w, "claim")

-----------------------------------------------------------------------------
(***************************************************************************)
(* The worker: Coordinator.run, and serve or a restart calling it again.   *)
(***************************************************************************)
Launch(w) ==
  /\ pc[w] \in Idle
  /\ GoTo(w, "claim")
  /\ turns' = [turns EXCEPT ![w] = 0]
  /\ UNCHANGED <<stores, scan, cur, copy, cli, crashes>>

ReachMaxTurns(w) ==
  /\ pc[w] = "claim" /\ scan[w] = 1
  /\ OutOfTurns(w)
  /\ GoTo(w, "max-turns")
  /\ UNCHANGED <<stores, scan, cur, copy, turns, cli, crashes>>

Claim(w) ==
  LET agent == Scope[w][scan[w]] IN
  /\ pc[w] = "claim"
  /\ ~(scan[w] = 1 /\ OutOfTurns(w))
  /\ \E t \in Task :
       /\ NextClaim(tasks, t, agent)
       /\ tasks' = [tasks EXCEPT ![t] = Claimed(tasks[t], agent)]
       /\ cur' = [cur EXCEPT ![w] = t]
       /\ copy' = [copy EXCEPT ![w] = Claimed(tasks[t], agent)]
  /\ GoTo(w, "gate")
  /\ UNCHANGED <<memory, mail, used, scan, turns, cli, crashes>>

\* No task for this agent: try the next one of the worker's scope, or return.
FindNothing(w) ==
  /\ pc[w] = "claim"
  /\ ~(scan[w] = 1 /\ OutOfTurns(w))
  /\ NothingFor(tasks, Scope[w][scan[w]])
  /\ \/ /\ scan[w] < Len(Scope[w])
        /\ scan' = [scan EXCEPT ![w] = @ + 1]
        /\ UNCHANGED pc
     \/ /\ scan[w] = Len(Scope[w])
        /\ scan' = [scan EXCEPT ![w] = 1]
        /\ GoTo(w, "returned")
  /\ UNCHANGED <<stores, cur, copy, turns, cli, crashes>>

\* A bug: the guard event's text as the reason, which release_paused cannot read.
PauseBeforeAsEvent(w) ==
  /\ pc[w] = "gate"
  /\ StopsBefore(w)
  /\ PauseTask(w, "pauseBefore")
  /\ UNCHANGED <<memory, mail, used, turns, cli, crashes>>

PauseBefore(w) ==
  /\ pc[w] = "gate"
  /\ StopsBefore(w)
  /\ PauseTask(w, "guard:pauseBefore")
  /\ UNCHANGED <<memory, mail, used, turns, cli, crashes>>

CanSpendAny(w) == Limit = NoLimit \/ used <= Limit

\* FileBudgetMeter.can_spend reserves the estimate or denies the turn.
CanSpend(w) == Limit = NoLimit \/ used + Cost[cur[w]] <= Limit

PassBudget(w) ==
  /\ pc[w] = "gate"
  /\ ~StopsBefore(w)
  /\ CanSpend(w) \/ OnExceed = "warn"
  /\ used' = IF CanSpend(w) /\ Limit # NoLimit THEN used + Cost[cur[w]] ELSE used
  /\ GoTo(w, "begin")
  /\ UNCHANGED <<tasks, memory, mail, scan, cur, copy, turns, cli, crashes>>

DenyAndPause(w) ==
  /\ pc[w] = "gate"
  /\ ~StopsBefore(w)
  /\ ~CanSpend(w) /\ OnExceed = "pause"
  /\ GoTo(w, "pause")
  /\ UNCHANGED <<stores, scan, cur, copy, turns, cli, crashes>>

\* The run ends and its task stays "assigned" under a running lease.
DenyAndStop(w) ==
  /\ pc[w] = "gate"
  /\ ~StopsBefore(w)
  /\ ~CanSpend(w) /\ OnExceed = "hardstop"
  /\ GoTo(w, "budget-hardstop")
  /\ LetGo(w)
  /\ UNCHANGED <<stores, turns, cli, crashes>>

BudgetPause(w) ==
  /\ pc[w] = "pause"
  /\ PauseTask(w, "budget")
  /\ UNCHANGED <<memory, mail, used, turns, cli, crashes>>

Begin(w) ==
  /\ pc[w] = "begin"
  /\ mail' = mail \cup {[kind |-> "assigned", to |-> copy[w].owner, task |-> cur[w]]}
  /\ Persist(w, [copy[w] EXCEPT !.state = "in-progress"])
  /\ GoTo(w, "turn")
  /\ UNCHANGED <<memory, used, turns, cli, crashes>>

\* The owner's turn ends: its text goes to memory and is reported to the lead.
Turn(w) ==
  /\ pc[w] = "turn"
  /\ memory' = memory \cup {<<"task", cur[w]>>}
  /\ mail' = IF Lead \in {NoAgent, copy[w].owner} THEN mail
             ELSE mail \cup {[kind |-> "completed", to |-> Lead, task |-> cur[w]]}
  /\ CountTurn(w)
  /\ GoTo(w, IF HasReviewer(w) THEN "to_review" ELSE "finish")
  /\ UNCHANGED <<tasks, used, scan, cur, copy, cli, crashes>>

BeginReview(w) ==
  /\ pc[w] = "to_review"
  /\ Persist(w, [copy[w] EXCEPT !.state = "review"])
  /\ GoTo(w, "review")
  /\ UNCHANGED <<memory, mail, used, turns, cli, crashes>>

Review(w) ==
  LET reader == IF Lead = NoAgent THEN Reviewer[cur[w]] ELSE Lead IN
  /\ pc[w] = "review"
  /\ memory' = memory \cup {<<"review", cur[w]>>}
  /\ mail' = mail \cup {[kind |-> "reviewed", to |-> reader, task |-> cur[w]]}
  /\ CountTurn(w)
  /\ GoTo(w, "finish")
  /\ UNCHANGED <<tasks, used, scan, cur, copy, cli, crashes>>

PauseOnComplete(w) ==
  /\ pc[w] = "finish"
  /\ StopsOnComplete(w)
  /\ PauseTask(w, "guard:pauseOn")
  /\ UNCHANGED <<memory, mail, used, turns, cli, crashes>>

Finish(w) ==
  /\ pc[w] = "finish"
  /\ ~StopsOnComplete(w)
  /\ tasks' = [tasks EXCEPT ![cur[w]] = [copy[w] EXCEPT !.state = "done"]]
  /\ LetGo(w)
  /\ GoTo(w, "claim")
  /\ UNCHANGED <<memory, mail, used, turns, cli, crashes>>

WorkerStep(w) ==
  \/ Launch(w) \/ ReachMaxTurns(w) \/ Claim(w) \/ FindNothing(w)
  \/ PauseBefore(w) \/ PassBudget(w) \/ DenyAndPause(w) \/ DenyAndStop(w)
  \/ BudgetPause(w) \/ Begin(w) \/ Turn(w) \/ BeginReview(w) \/ Review(w)
  \/ PauseOnComplete(w) \/ Finish(w)

\* The process dies, or its harness raises and the exception ends run().
Crash(w) ==
  /\ pc[w] \in CrashPoint \ Idle
  /\ crashes < MaxCrashes
  /\ crashes' = crashes + 1
  /\ GoTo(w, "down")
  /\ LetGo(w)
  /\ UNCHANGED <<stores, turns, cli>>

-----------------------------------------------------------------------------
(***************************************************************************)
(* Time, and the human at the command line.                                *)
(***************************************************************************)
Tick ==
  /\ Timely => \A w \in Worker : pc[w] \in Preparing => copy[w].lease > 1
  /\ tasks' = [t \in Task |-> Aged(tasks[t])]
  /\ copy' = [w \in Worker |-> Aged(copy[w])]
  /\ draft' = [h \in Human |-> [t \in Task |-> Aged(draft[h][t])]]
  /\ UNCHANGED <<memory, mail, used, pc, scan, cur, turns, todo, approved, crashes>>

Released(rec) ==
  [rec EXCEPT !.state = "pending",
              !.guard_released = @ \/ IsGuardReason(rec.pause_reason),
              !.pause_reason = "none"]

PausedOfAnybody(agent) == {t \in Task : tasks[t].state = "paused"}
TasksOf(agent) == {t \in Task : tasks[t].owner = agent}

PausedOf(agent) == {t \in Task : tasks[t].state = "paused" /\ tasks[t].owner = agent}

\* karo attach <agent> --continue: release_paused lists the paused tasks ...
ReadRelease(h, agent) ==
  /\ "release" \in CliOp
  /\ todo[h] = {} /\ PausedOf(agent) # {}
  /\ todo' = [todo EXCEPT ![h] = PausedOf(agent)]
  /\ draft' = [draft EXCEPT ![h] =
                 [t \in Task |-> IF t \in PausedOf(agent) THEN Released(tasks[t]) ELSE @[t]]]
  /\ approved' = approved \cup
       {<<t, agent>> : t \in {u \in PausedOf(agent) : IsGuardReason(tasks[u].pause_reason)}}
  /\ UNCHANGED <<stores, local, crashes>>

\* karo tasks retry, cancel and assign each get one record and change it.
Edited(op, rec) ==
  CASE op = "retry"  -> {[rec EXCEPT !.state = "pending", !.owner = NoAgent, !.lease = NoLease]}
    [] op = "cancel" -> {[rec EXCEPT !.state = "cancelled"]}
    [] op = "assign" -> {[rec EXCEPT !.owner = agent] : agent \in Agent}

ReadTask(h, op, t) ==
  /\ op \in CliOp
  /\ todo[h] = {}
  /\ todo' = [todo EXCEPT ![h] = {t}]
  /\ \E rec \in Edited(op, tasks[t]) : draft' = [draft EXCEPT ![h][t] = rec]
  /\ UNCHANGED <<stores, local, approved, crashes>>

\* ... and store.update writes the changed records back, oldest first.
WriteTask(h) ==
  \E t \in todo[h] :
    /\ \A u \in todo[h] : t <= u
    /\ tasks' = [tasks EXCEPT ![t] = draft[h][t]]
    /\ todo' = [todo EXCEPT ![h] = @ \ {t}]
    /\ draft' = [draft EXCEPT ![h][t] = Blank]
    /\ UNCHANGED <<memory, mail, used, local, approved, crashes>>

\* karo budget reset, or the daily window rolling over.
ResetBudget ==
  /\ "reset" \in CliOp
  /\ used' = 0
  /\ UNCHANGED <<tasks, memory, mail, local, cli, crashes>>

HumanStep(h) ==
  \/ \E agent \in Agent : ReadRelease(h, agent)
  \/ \E op \in {"retry", "cancel", "assign"}, t \in Task : ReadTask(h, op, t)
  \/ WriteTask(h)

Next ==
  \/ \E w \in Worker : WorkerStep(w) \/ Crash(w)
  \/ \E h \in Human : HumanStep(h)
  \/ Tick
  \/ ResetBudget

Spec == Init /\ [][Next]_vars

(***************************************************************************)
(* Fairness: a live process keeps executing its loop and is started again  *)
(* when it ends (serve polls, a Deployment restarts its pod, or somebody   *)
(* resumes the run), time passes, and a command that has read its record   *)
(* writes it.  FairSpec adds the human who attends to paused agents and    *)
(* the end of the budget window, where the configuration has them.         *)
(***************************************************************************)
Fairness ==
  /\ \A w \in Worker : WF_vars(WorkerStep(w))
  /\ WF_vars(Tick)
  /\ \A h \in Human : WF_vars(WriteTask(h))

Attended == \A h \in Human, agent \in Agent : WF_vars(ReadRelease(h, agent))

FairSpec == Spec /\ Fairness /\ Attended /\ WF_vars(ResetBudget)
=============================================================================
