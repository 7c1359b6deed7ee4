------------------------------ MODULE Planning ------------------------------
(***************************************************************************)
(* How a task graph comes to be, and what is left of it: Coordinator.plan  *)
(* and the claim loop of karo_runtime/runtime/coordinator.py.  A run lists *)
(* the stored tasks, takes them for the graph if there are any, and        *)
(* otherwise creates its own graph, task by task; then it claims for one   *)
(* agent after another until none of them has anything to do.  A run of    *)
(* the local lane is one `karo run' or `karo sling'; one of the cluster    *)
(* lane is one call of run() by a pod of an agent, and only the pods of    *)
(* the planner plan.  Nothing keeps two runs apart, of people on one store *)
(* or of the old and the new pod of a Deployment that is being updated.    *)
(*                                                                         *)
(* The module Coordinator has the loop in full.  Here guards, budgets and  *)
(* turn limits may stop any task or run, and any lease may have expired.   *)
(* The objective is left out: run r's objective is r on the local lane,    *)
(* and all runs of the cluster lane have the same.                         *)
(***************************************************************************)
EXTENDS Patterns

CONSTANTS
  Teams,       \* the teams to consider, a subset of Team
  NoTask,      \* in the hands of a run that has claimed nothing
  MaxRuns,     \* bound on the number of runs
  MaxDeaths    \* bound on the number of runs that die

ASSUME PlanningAssumption ==
  /\ Teams \subseteq Team
  /\ MaxRuns \in Nat /\ MaxDeaths \in Nat

VARIABLES
  team,     \* the compiled spec
  lane,     \* "local" or "cluster"
  tasks,    \* the stored tasks: a function of their ids
  run,      \* [Run -> RunState]
  worked,   \* history: the tasks that have ever been done
  deaths    \* history: how many runs have died

vars == <<team, lane, tasks, run, worked, deaths>>

Run == 1..MaxRuns

\* The i-th task of the graph planned by run r.
TaskId == Run \X (Nat \ {0})

Owner == Agent \cup {NoAgent}

\* "started" is in-progress or review.
Record ==
  [owner : Owner, reviewer : Owner, depends_on : SUBSET TaskId,
   state : {"pending", "assigned", "started", "paused", "done", "cancelled"}]

\* Creating; asking for a claim; with a task it has not begun; at work on it; with
\* nothing to claim; and the ways to end.
Point ==
  {"new", "create", "claim", "gate", "turn", "list",
   "completed", "incomplete", "planned", "halted", "dead"}

\* next: the position in the run's own graph of the task it creates next.
\* scan: the position of the agent it claims for next.
RunState ==
  [point  : Point,
   agent  : Owner,     \* Coordinator.agent: the pod's agent
   target : Owner,     \* Coordinator.target_agent: the addressee of a sling
   dry    : BOOLEAN,   \* --dry-run
   next   : Nat, scan : Nat,
   hand   : TaskId \cup {NoTask}]

NewRun ==
  [point |-> "new", agent |-> NoAgent, target |-> NoAgent, dry |-> FALSE,
   next |-> 1, scan |-> 1, hand |-> NoTask]

PlanningTypeOK ==
  /\ team \in Teams /\ lane \in {"local", "cluster"}
  /\ DOMAIN tasks \subseteq TaskId /\ \A t \in DOMAIN tasks : tasks[t] \in Record
  /\ run \in [Run -> RunState]
  /\ worked \subseteq TaskId
  /\ deaths \in 0..MaxDeaths

Init ==
  /\ team \in Teams
  /\ lane \in {"local", "cluster"}
  /\ tasks = <<>>
  /\ run = [r \in Run |-> NewRun]
  /\ worked = {}
  /\ deaths = 0

-----------------------------------------------------------------------------
Active(r) == run[r].point \in {"create", "claim", "gate", "turn", "list"}

AnyPodPlans(agent) == TRUE

Plans(agent) == agent \in {NoAgent, PlannerOf(team)}

\* What the run would plan: a sling is one task of its addressee.
GraphOf(r) ==
  IF run[r].target # NoAgent THEN <<PlannedTask(run[r].target, NoAgent, {})>>
  ELSE PlanTasks(team)

AllTerminal(table) == \A t \in DOMAIN table : table[t].state \in {"done", "cancelled"}

NothingStored == DOMAIN tasks = {}

\* Where a run goes once its graph is there: a dry run ends with the plan.
Planned(mode) == IF mode.dry THEN "planned" ELSE "claim"

Mode ==
  IF lane = "cluster"
  THEN {[NewRun EXCEPT !.agent = agent] : agent \in Members(team)}
  ELSE {[NewRun EXCEPT !.target = choice[1], !.dry = choice[2]] :
          choice \in (Members(team) \cup {NoAgent}) \X BOOLEAN}

\* A run begins: it lists the tasks, and plans if there are none.
Start(r) ==
  /\ run[r].point = "new"
  /\ \A q \in Run : q < r => run[q].point # "new"
  /\ \E mode \in Mode :
       run' = [run EXCEPT ![r] =
                 [mode EXCEPT !.point =
                    IF Plans(mode.agent) /\ NothingStored THEN "create" ELSE Planned(mode)]]
  /\ UNCHANGED <<team, lane, tasks, worked, deaths>>

\* One store.create; the loop over the planned tasks ends with the last.
Create(r) ==
  LET i == run[r].next
      planned == GraphOf(r)[i]
      record == [owner |-> planned.owner, reviewer |-> planned.reviewer,
                 depends_on |-> {<<r, d>> : d \in planned.depends_on}, state |-> "pending"]
  IN
  /\ run[r].point = "create"
  /\ tasks' = [t \in DOMAIN tasks \cup {<<r, i>>} |-> IF t = <<r, i>> THEN record ELSE tasks[t]]
  /\ run' = [run EXCEPT ![r].next = i + 1,
                        ![r].point = IF i = Len(GraphOf(r)) THEN Planned(run[r]) ELSE @]
  /\ UNCHANGED <<team, lane, worked, deaths>>

\* The agents a run claims for, in their order.
AgentsOf(r) ==
  IF run[r].agent # NoAgent THEN <<run[r].agent>>
  ELSE IF run[r].target # NoAgent THEN <<run[r].target>>
  ELSE team.agents

Eligible(t, agent) ==
  /\ tasks[t].owner \in {NoAgent, agent}
  /\ \A d \in tasks[t].depends_on : d \in DOMAIN tasks /\ tasks[d].state = "done"

SetState(t, state) == tasks' = [tasks EXCEPT ![t].state = state]

\* Back to the top of the loop, or out of it: the next claim is for the first agent.
LetGo(r, point) ==
  run' = [run EXCEPT ![r].point = point, ![r].scan = 1, ![r].hand = NoTask]

\* A claim for the agent takes a pending task, or one whose lease has expired.
Claim(r) ==
  LET agent == AgentsOf(r)[run[r].scan] IN
  /\ run[r].point = "claim"
  /\ \E t \in DOMAIN tasks :
       /\ tasks[t].state \in {"pending", "assigned"} /\ Eligible(t, agent)
       /\ tasks' = [tasks EXCEPT ![t].state = "assigned", ![t].owner = agent]
       /\ run' = [run EXCEPT ![r].point = "gate", ![r].hand = t]
  /\ UNCHANGED <<team, lane, worked, deaths>>

AnyIsLast(r) == TRUE

IsLast(r) == run[r].scan = Len(AgentsOf(r))

\* A claim finds nothing: the next agent's turn, or the end of the loop.
FindNothing(r) ==
  LET agent == AgentsOf(r)[run[r].scan] IN
  /\ run[r].point = "claim"
  /\ \A t \in DOMAIN tasks : tasks[t].state = "pending" => ~Eligible(t, agent)
  /\ IF IsLast(r) THEN LetGo(r, "list") ELSE run' = [run EXCEPT ![r].scan = @ + 1]
  /\ UNCHANGED <<team, lane, tasks, worked, deaths>>

\* A guard or the budget stops the task before the work, or a guard after it.
Pause(r) ==
  /\ run[r].point \in {"gate", "turn"}
  /\ SetState(run[r].hand, "paused")
  /\ LetGo(r, "claim")
  /\ UNCHANGED <<team, lane, worked, deaths>>

\* --max-turns ends the run at the top of the loop; a hard-stopping budget ends it
\* after a claim, and leaves the task as it is.
Halt(r) ==
  /\ run[r].point = "gate" \/ (run[r].point = "claim" /\ run[r].scan = 1)
  /\ LetGo(r, "halted")
  /\ UNCHANGED <<team, lane, tasks, worked, deaths>>

Begin(r) ==
  /\ run[r].point = "gate"
  /\ SetState(run[r].hand, "started")
  /\ run' = [run EXCEPT ![r].point = "turn"]
  /\ UNCHANGED <<team, lane, worked, deaths>>

Finish(r) ==
  /\ run[r].point = "turn"
  /\ SetState(run[r].hand, "done")
  /\ worked' = worked \cup {run[r].hand}
  /\ LetGo(r, "claim")
  /\ UNCHANGED <<team, lane, deaths>>

\* The run lists the tasks, and says whether all of them are terminal.
Return(r) ==
  /\ run[r].point = "list"
  /\ run' = [run EXCEPT ![r].point = IF AllTerminal(tasks) THEN "completed" ELSE "incomplete"]
  /\ UNCHANGED <<team, lane, tasks, worked, deaths>>

\* A death, or an exception in a turn: what the run had in its hands stays as it is.
Die(r) ==
  /\ Active(r)
  /\ deaths < MaxDeaths
  /\ deaths' = deaths + 1
  /\ LetGo(r, "dead")
  /\ UNCHANGED <<team, lane, tasks, worked>>

\* karo tasks cancel, in any state of the task.
Cancel(t) ==
  /\ SetState(t, "cancelled")
  /\ UNCHANGED <<team, lane, run, worked, deaths>>

\* karo attach --continue.
Release(t) ==
  /\ tasks[t].state = "paused"
  /\ SetState(t, "pending")
  /\ UNCHANGED <<team, lane, run, worked, deaths>>

RunStep(r) ==
  \/ Start(r) \/ Create(r) \/ Claim(r) \/ FindNothing(r) \/ Pause(r) \/ Halt(r)
  \/ Begin(r) \/ Finish(r) \/ Return(r) \/ Die(r)

Next ==
  \/ \E r \in Run : RunStep(r)
  \/ \E t \in DOMAIN tasks : Cancel(t) \/ Release(t)

Spec == Init /\ [][Next]_vars

-----------------------------------------------------------------------------
\* A task never depends on one that is not stored: a planner that dies halfway
\* leaves a graph whose tasks can still be done, since claim() waits for ever
\* for a dependency it does not find.
DependenciesStored ==
  \A t \in DOMAIN tasks : tasks[t].depends_on \subseteq DOMAIN tasks

\* The type invariant with it.
PlanningInv == PlanningTypeOK /\ DependenciesStored

\* The condition for what follows: no two runs that may plan are active at a time.
\* Neither lane sees to it: people take turns or they do not, and the planner has
\* two pods while its Deployment is updated.
PlannersApart ==
  \A q, r \in Run :
    /\ Active(q) /\ run[q].agent \in {NoAgent, PlannerOf(team)}
    /\ Active(r) /\ run[r].agent \in {NoAgent, PlannerOf(team)}
    => q = r

\* All stored tasks come from one plan: no run adds to a graph, not for a new
\* objective, not for a sling, not when it is finished, and not after a death that
\* cut the plan short.
PlannedOnce == \A t, u \in DOMAIN tasks : t[1] = u[1]

\* What coordinator.py says of pods that share one store, whoever updates them.
PodsPlanOnce == lane = "cluster" => PlannedOnce

\* A run of the whole team, as `karo run' is.
WholeTeam(r) == run[r].agent = NoAgent /\ run[r].target = NoAgent

\* Somebody else's to move on: nobody's claim takes such a task now, except that a
\* lease of an assigned one runs out.
Stuck(t) == tasks[t].state \in {"cancelled", "paused", "assigned", "started"}

\* The task waits, directly or not, for one that is stuck: whatever holds the task
\* and all that its tasks wait for holds a stuck one.
Blocked(t) ==
  \A S \in SUBSET DOMAIN tasks :
    t \in S /\ (\A u \in S : tasks[u].depends_on \subseteq S) => \E u \in S : Stuck(u)

\* A run of the whole team that ends for want of work has done all it could: each
\* task it leaves pending waits for one that was cancelled, awaits a person, or was
\* in the hands of a run that ended with it.
IncompleteMeansBlocked ==
  [][\A r \in Run :
       WholeTeam(r) /\ run[r].point = "claim" /\ run'[r].point = "list" =>
         \A t \in DOMAIN tasks : tasks[t].state = "pending" => Blocked(t)]_vars

\* The condition for it, besides PlannersApart: nobody releases a task behind the
\* back of a run that has asked for some of its agents in vain.
Sweeps(r) == WholeTeam(r) /\ run[r].point = "claim" /\ run[r].scan > 1

Releases ==
  \E t \in DOMAIN tasks : tasks[t].state = "paused" /\ tasks'[t].state = "pending"

ReleasedInTime == Releases => \A r \in Run : ~Sweeps(r)

\* When the lead has synthesised, every teammate the pattern gives work to has
\* done some, even after a death that cut the plan short; and a pipeline's last
\* stage has worked only after every stage of the spec.
LastSeesAll ==
  \A t \in worked :
    /\ run[t[1]].target = NoAgent
    /\ team.pattern # "swarm"
    /\ t[2] = Len(PlanTasks(team))
    => \A i \in 1..Len(PlanTasks(team)) : <<t[1], i>> \in worked
=============================================================================
