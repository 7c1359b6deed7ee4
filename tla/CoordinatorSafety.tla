------------------------- MODULE CoordinatorSafety -------------------------
(***************************************************************************)
(* What the claim loop promises.  The properties fall in two groups: those *)
(* that hold whatever the processes and the humans do, and those that need *)
(* the discipline stated by Disciplined.                                   *)
(***************************************************************************)
EXTENDS Coordinator

CONSTANT NoWorker

ASSUME NoWorkerAssumption == NoWorker \notin Worker

(***************************************************************************)
(* The conditions under which claims exclude each other: workers start a   *)
(* task within its lease (nothing renews it), people only release paused   *)
(* tasks and reset the budget, and no two of them, each with a copy of its *)
(* record, release the same task at the same time.                         *)
(***************************************************************************)
Disciplined ==
  /\ Timely
  /\ CliOp \cap {"retry", "cancel", "assign"} = {}

Apart == \A h, g \in Human : h # g => todo[h] \cap todo[g] = {}

Executes(w, t) == pc[w] \in Executing /\ cur[w] = t

\* No two workers execute one task at the same time.  claim() is the only
\* thing that keeps the pods of an agent, or two `karo run', apart.
Exclusive ==
  \A v, w \in Worker, t \in Task : Executes(v, t) /\ Executes(w, t) => v = w

\* A task is executed only while everything it depends on is done: not just
\* at the claim, which checks it, but until the last turn ends.
DependenciesHold ==
  \A w \in Worker, t \in Task :
    Executes(w, t) => \A d \in DependsOn[t] : tasks[d].state = "done"

\* While a worker executes a task, the store says so: nobody overwrites the
\* record under it, and the in-memory copy it will write back is current.
StoreAgrees ==
  \A w \in Worker, t \in Task :
    Executes(w, t) =>
      /\ tasks[t].state \in {"in-progress", "review"}
      /\ tasks[t] = copy[w]

\* A task that is done stays done.
DoneIsFinal ==
  [][\A t \in Task : tasks[t].state = "done" => tasks'[t].state = "done"]_vars

\* A task the store calls done has its result in the team's memory, was
\* reviewed, unless its reviewer was given the task itself at some time, and its
\* lead was told, unless it was the lead's: whoever edits the record meanwhile.
DoneIsReported ==
  LET given(t, agent) == [kind |-> "assigned", to |-> agent, task |-> t] \in mail IN
  \A t \in Task : tasks[t].state = "done" =>
    /\ <<"task", t>> \in memory
    /\ Reviewer[t] # NoAgent => <<"review", t>> \in memory \/ given(t, Reviewer[t])
    /\ Lead # NoAgent =>
         [kind |-> "completed", to |-> Lead, task |-> t] \in mail \/ given(t, Lead)

\* When the lead (or a pipeline stage) works, the results it builds on are in
\* memory, even if a dependency is being retried meanwhile.
InputsReady ==
  \A w \in Worker, t \in Task :
    Executes(w, t) => \A d \in DependsOn[t] : <<"task", d>> \in memory

\* A supervised agent with a pauseBefore guard works on a task only after a
\* human has released that task for that agent.
GuardRespected ==
  \A w \in Worker :
    /\ pc[w] = "turn"
    /\ copy[w].owner \in PausesBefore
    /\ ~IsAutonomous(w, copy[w].owner)
    => <<cur[w], copy[w].owner>> \in approved

\* Tokens of the work recorded in memory, with and without the reviews.
CostOf(keys) ==
  LET sum[S \in SUBSET keys] ==
        IF S = {} THEN 0
        ELSE LET k == CHOOSE k \in S : TRUE IN Cost[k[2]] + sum[S \ {k}]
  IN sum[keys]

\* All recorded results of task owners fit in the budget.
ResultsArePaidFor ==
  Limit # NoLimit /\ OnExceed # "warn" =>
    CostOf({k \in memory : k[1] = "task"}) <= Limit

\* A task is begun only within --max-turns, so that a run takes at most one turn more
\* than its limit, a review.  This is less than the total cap that docs/USAGE.md:129
\* and the help at cli.py:428 speak of, which is TurnsAreCapped below.
TurnsAreBounded ==
  MaxTurns # NoLimit =>
    \A w \in Worker :
      /\ pc[w] = "turn" => turns[w] < MaxTurns
      /\ pc[w] = "review" => turns[w] <= MaxTurns
      /\ turns[w] <= MaxTurns + 1

\* "Cap total turns": what the documents say, and the loop does not do, as it looks
\* at the limit before a task and not before its review.
TurnsAreCapped == MaxTurns # NoLimit => \A w \in Worker : turns[w] <= MaxTurns

-----------------------------------------------------------------------------
(***************************************************************************)
(* Why claims exclude each other: the inductive invariant of Disciplined   *)
(* runs.  The record of a task in a worker's hands is the worker's own     *)
(* copy and its state tells how far the worker is; a lease covers the      *)
(* worker until it starts; whatever has been claimed has its dependencies  *)
(* done; and a human edits paused tasks only, which no worker holds.       *)
(***************************************************************************)
StatesAt(point) ==
  CASE point \in Preparing             -> {"assigned"}
    [] point \in {"turn", "to_review"} -> {"in-progress"}
    [] point = "review"                -> {"review"}
    [] point = "finish"                -> {"in-progress", "review"}
    [] OTHER                           -> {}

HoldsTask(w) == pc[w] \in Preparing \cup Executing

HandsAgree == \A w \in Worker : cur[w] # NoTask <=> HoldsTask(w)

HeldIsCurrent ==
  \A w \in Worker : HoldsTask(w) =>
    copy[w] = tasks[cur[w]] /\ copy[w].state \in StatesAt(pc[w])

HeldByOne ==
  \A v, w \in Worker : HoldsTask(v) /\ HoldsTask(w) /\ cur[v] = cur[w] => v = w

LeaseCovers == \A w \in Worker : pc[w] \in Preparing => copy[w].lease > 0

StartedIsReady ==
  \A t \in Task :
    tasks[t].state \in {"assigned", "in-progress", "review"} => DepsDone(tasks, t)

EditsArePaused ==
  \A h \in Human, t \in Task : t \in todo[h] =>
    tasks[t].state = "paused" /\ draft[h][t].state = "pending"

ClaimInv ==
  /\ HandsAgree
  /\ HeldIsCurrent
  /\ HeldByOne
  /\ LeaseCovers
  /\ StartedIsReady
  /\ EditsArePaused

-----------------------------------------------------------------------------
(***************************************************************************)
(* Liveness.                                                               *)
(***************************************************************************)
AllDone == \A t \in Task : tasks[t].state = "done"

\* The whole graph gets done, and stays so: whatever died before it started is
\* reclaimed, whatever was paused and released or hard-stopped is resumed.
Completion == <>[]AllDone

\* A task that was in flight when its process died is resumed.
InFlightResumes ==
  \A t \in Task : tasks[t].state = "in-progress" ~> tasks[t].state = "done"

-----------------------------------------------------------------------------
(***************************************************************************)
(* The claim loop implements the abstract team run.                        *)
(***************************************************************************)
StatusOf(state) ==
  CASE state \in {"pending", "assigned"}   -> "open"
    [] state \in {"in-progress", "review"} -> "running"
    [] state = "paused"                    -> "parked"
    [] OTHER                               -> "done"

StatusMap == [t \in Task |-> StatusOf(tasks[t].state)]

HolderMap ==
  [t \in Task |-> IF \E w \in Worker : Executes(w, t)
                 THEN CHOOSE w \in Worker : Executes(w, t) ELSE NoWorker]

Abstract == INSTANCE TeamRun WITH status <- StatusMap, holder <- HolderMap

ImplementsTeamRun == Abstract!Spec
=============================================================================
