-------------------------------- MODULE Pods --------------------------------
(***************************************************************************)
(* The pods of a team on a cluster.  A pod runs main() of                  *)
(* agent-runtime-image/entrypoint.py, which runs Coordinator.serve for its *)
(* agent over the shared task store: run, poll while there is nothing to   *)
(* do, give up after IdleLimit idle polls in a row.  A Deployment starts   *)
(* the pod again whenever it ends, and ends it when the operator wants no  *)
(* replica (the module Operator); here replicas come and go at will.  The  *)
(* second pod of an agent that a rolling update may start is in Planning.  *)
(*                                                                         *)
(* The module Coordinator has the claim loop with its guards, budgets and  *)
(* leases; here a task is claimed and done, or left when its pod ends.     *)
(***************************************************************************)
EXTENDS Integers

CONSTANTS
  Agent,
  Planner,     \* coordination.lead, or else the first agent
  Item,        \* the tasks of the planner's graph: numbers, in the order it creates them
  ItemOwner,   \* [Item -> Agent]
  ItemDeps,    \* [Item -> SUBSET Item]
  NoItem,
  IdleLimit,   \* idle_timeout in units of poll_interval
  MaxScales,   \* bound on the changes of replicas
  MaxDeaths    \* bound on the deaths of pods

ASSUME PodsAssumption ==
  /\ Planner \in Agent
  /\ Item \subseteq Nat
  /\ ItemOwner \in [Item -> Agent]
  /\ ItemDeps \in [Item -> SUBSET Item]
  /\ NoItem \notin Item
  /\ IdleLimit \in Nat \ {0}
  /\ MaxScales \in Nat /\ MaxDeaths \in Nat

VARIABLES
  replicas,   \* [Agent -> 0 or 1]: the Deployments
  objective,  \* the team has the annotation karo.dev/objective
  item,       \* [Item -> {"absent", "pending", "taken", "done"}]: the task store
  pod,        \* [Agent -> "down": none; "boot": starting; "run": at the start of
              \* run(); "plan": creating; "claim"; "turn"; "list": nothing to claim;
              \* "sleep": between two runs; "exited"]
  hand,       \* [Agent -> the task in the hands of the agent's pod]
  turned,     \* [Agent -> whether the current run has taken a turn]
  idle,       \* [Agent -> the idle polls since the last turn]
  scales,     \* history: how often replicas have changed
  deaths      \* history: how many pods have died

vars == <<replicas, objective, item, pod, hand, turned, idle, scales, deaths>>

Init ==
  /\ replicas \in [Agent -> {0, 1}]
  /\ objective \in BOOLEAN
  /\ item = [i \in Item |-> "absent"]
  /\ pod = [a \in Agent |-> "down"]
  /\ hand = [a \in Agent |-> NoItem]
  /\ turned = [a \in Agent |-> FALSE]
  /\ idle = [a \in Agent |-> 0]
  /\ scales = 0 /\ deaths = 0

-----------------------------------------------------------------------------
GoTo(a, point) == pod' = [pod EXCEPT ![a] = point]

\* The container ends, or is gone: what it had in its hands stays taken.
EndsAs(a, point) ==
  /\ GoTo(a, point)
  /\ hand' = [hand EXCEPT ![a] = NoItem]

Scale(a) ==
  /\ scales < MaxScales
  /\ scales' = scales + 1
  /\ replicas' = [replicas EXCEPT ![a] = 1 - @]
  /\ UNCHANGED <<objective, item, pod, hand, turned, idle, deaths>>

StartPod(a) ==
  /\ replicas[a] = 1 /\ pod[a] \in {"down", "exited"}
  /\ GoTo(a, "boot")
  /\ UNCHANGED <<replicas, objective, item, hand, turned, idle, scales, deaths>>

\* Scaled down, whatever it was doing.
StopPod(a) ==
  /\ replicas[a] = 0 /\ pod[a] # "down"
  /\ EndsAs(a, "down")
  /\ UNCHANGED <<replicas, objective, item, turned, idle, scales, deaths>>

\* Without an objective the pod exits at once; the spec is mounted.
Boot(a) ==
  /\ pod[a] = "boot"
  /\ IF objective THEN GoTo(a, "run") /\ UNCHANGED hand ELSE EndsAs(a, "exited")
  /\ idle' = [idle EXCEPT ![a] = 0]
  /\ UNCHANGED <<replicas, objective, item, turned, scales, deaths>>

NothingStored == \A i \in Item : item[i] = "absent"

\* run() begins with plan(): the planner's pod lists the tasks and makes a graph if
\* nothing is stored; any other pod goes on to its claims.
StartRun(a) ==
  /\ pod[a] = "run"
  /\ turned' = [turned EXCEPT ![a] = FALSE]
  /\ GoTo(a, IF a = Planner /\ NothingStored THEN "plan" ELSE "claim")
  /\ UNCHANGED <<replicas, objective, item, hand, idle, scales, deaths>>

\* The next task of the graph is stored.
Create(a) ==
  /\ pod[a] = "plan"
  /\ \E i \in Item :
       /\ item[i] = "absent" /\ \A j \in Item : item[j] = "absent" => i <= j
       /\ item' = [item EXCEPT ![i] = "pending"]
       /\ GoTo(a, IF \E j \in Item \ {i} : item[j] = "absent" THEN "plan" ELSE "claim")
  /\ UNCHANGED <<replicas, objective, hand, turned, idle, scales, deaths>>

ClaimableIfFree(a) == {i \in Item : item[i] = "pending" /\ ItemOwner[i] = a /\ ItemDeps[i] = {}}

ClaimableBy(a) ==
  {i \in Item : /\ item[i] = "pending" /\ ItemOwner[i] = a
                /\ \A d \in ItemDeps[i] : item[d] = "done"}

Claim(a) ==
  /\ pod[a] = "claim"
  /\ \E i \in ClaimableBy(a) :
       /\ item' = [item EXCEPT ![i] = "taken"]
       /\ hand' = [hand EXCEPT ![a] = i]
  /\ GoTo(a, "turn")
  /\ UNCHANGED <<replicas, objective, turned, idle, scales, deaths>>

Turn(a) ==
  /\ pod[a] = "turn"
  /\ item' = [item EXCEPT ![hand[a]] = "done"]
  /\ hand' = [hand EXCEPT ![a] = NoItem]
  /\ turned' = [turned EXCEPT ![a] = TRUE]
  /\ GoTo(a, "claim")
  /\ UNCHANGED <<replicas, objective, idle, scales, deaths>>

\* A claim that finds nothing ends the run, which then lists the tasks.
FindNothing(a) ==
  /\ pod[a] = "claim" /\ ClaimableBy(a) = {}
  /\ GoTo(a, "list")
  /\ UNCHANGED <<replicas, objective, item, hand, turned, idle, scales, deaths>>

\* There are tasks, and all of them are terminal.
Completed == ~NothingStored /\ \A i \in Item : item[i] \in {"absent", "done"}

GivesUp(a) == ~turned[a] /\ idle[a] + 1 >= IdleLimit

\* serve() returns: the graph is complete, or the pod has been idle for too
\* long.  The idle clock runs while the last run took no turn.
Leave(a) ==
  /\ pod[a] = "list"
  /\ Completed \/ GivesUp(a)
  /\ EndsAs(a, "exited")
  /\ UNCHANGED <<replicas, objective, item, turned, idle, scales, deaths>>

Poll(a) ==
  /\ pod[a] = "list"
  /\ ~Completed /\ ~GivesUp(a)
  /\ idle' = [idle EXCEPT ![a] = IF turned[a] THEN 0 ELSE @ + 1]
  /\ GoTo(a, "sleep")
  /\ UNCHANGED <<replicas, objective, item, hand, turned, scales, deaths>>

Wake(a) ==
  /\ pod[a] = "sleep"
  /\ GoTo(a, "run")
  /\ UNCHANGED <<replicas, objective, item, hand, turned, idle, scales, deaths>>

Die(a) ==
  /\ pod[a] \notin {"down", "exited"}
  /\ deaths < MaxDeaths
  /\ deaths' = deaths + 1
  /\ EndsAs(a, "exited")
  /\ UNCHANGED <<replicas, objective, item, turned, idle, scales>>

PodStep(a) ==
  \/ StartPod(a) \/ StopPod(a) \/ Boot(a) \/ StartRun(a) \/ Create(a) \/ Claim(a)
  \/ Turn(a) \/ FindNothing(a) \/ Leave(a) \/ Poll(a) \/ Wake(a)

Next == \E a \in Agent : PodStep(a) \/ Die(a) \/ Scale(a)

\* Containers are started, stopped and restarted, and pods keep going.
Fairness == \A a \in Agent : WF_vars(PodStep(a))

Spec == Init /\ [][Next]_vars

FairSpec == Spec /\ Fairness

-----------------------------------------------------------------------------
\* A task that no pod is doing and no claim will ever take again.
Stranded == \E i \in Item : item[i] = "taken" /\ \A a \in Agent : hand[a] # i

\* A graph with tasks that no plan will ever add: a planner lists what is stored.
CutShort == ~NothingStored /\ pod[Planner] # "plan" /\ \E i \in Item : item[i] = "absent"

\* Once every agent keeps a pod, the graph is planned and done, though pods
\* start in any order, find a graph that is still being planned, give up before
\* there is work for them, come and go, and die: unless one ended in the middle
\* of a task or of the planning, which nobody takes up again.
GraphCompletes ==
  objective /\ <>[](\A a \in Agent : replicas[a] = 1) /\ []~Stranded /\ []~CutShort
  => <>(\A i \in Item : item[i] = "done")

\* What the documents say beyond this: killed pods resume, and the team completes
\* what it was given, also when the pod that died was planning.
PlanIsResumed ==
  objective /\ <>[](\A a \in Agent : replicas[a] = 1) /\ []~Stranded
  => <>(\A i \in Item : item[i] = "done")
=============================================================================
