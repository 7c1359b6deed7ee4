------------------------------ MODULE Operator ------------------------------
(***************************************************************************)
(* The AgentTeam and AgentTask controllers of the operator, for one team.  *)
(* A reconciliation reads the team, validates it, lists the AgentTasks,    *)
(* sets the replicas of one agent's Deployment after the other, counts the *)
(* ready ones, and writes the team's status.  It is woken by events of the *)
(* team and of its AgentTasks, not of its Deployments.                     *)
(*                                                                         *)
(* The work queue of controller-runtime holds a request once: a request    *)
(* that arrives while it is being served is served again.  An AgentTask    *)
(* that is not there has the state "absent"; a state "blank" is the empty  *)
(* string.                                                                 *)
(***************************************************************************)
EXTENDS Integers, Sequences, FiniteSets

CONSTANTS
  Agent,        \* the names of agents
  NoAgent,
  TeamSpec,     \* the specs the team may have
  AgentTask,    \* the names AgentTasks may have
  MaxEdits,     \* bound on the edits of team and AgentTasks
  MaxFailures   \* bound on API errors and restarts of the operator

\* Does validateTeam accept it, spec.agents, coordination.lead, and
\* runtime.scaleToZero; nothing asks that the lead be one of the agents.
ASSUME TeamAssumption ==
  TeamSpec \subseteq [valid : BOOLEAN, agents : Seq(Agent), lead : Agent \cup {NoAgent},
                     scaleToZero : {"unset", "true", "false"}]

ASSUME OperatorAssumption ==
  /\ \A spec \in TeamSpec : spec.valid => spec.agents # <<>>
  /\ NoAgent \notin Agent
  /\ MaxEdits \in Nat /\ MaxFailures \in Nat

VARIABLES
  team,      \* the stored spec: a TeamSpec
  work,      \* [AgentTask -> TaskProjection]
  queued,    \* the team is in the team controller's queue
  blank,     \* the AgentTasks in the task controller's queue
  rc,        \* where the reconciliation is
  view,      \* the team as the reconciliation has read it
  listed,    \* the AgentTasks as it has read them
  next,      \* the position in view.agents of the next Deployment
  active,    \* how many Deployments it has found ready
  replicas,  \* [Agent -> -1, 0 or 1]: the Deployments, -1 before its creation
  ready,     \* the agents whose Deployment has a ready replica
  phase,     \* status.phase
  edits,     \* history: the number of edits
  failures   \* history: the number of failures

vars == <<team, work, queued, blank, rc, view, listed, next, active, replicas, ready,
          phase, edits, failures>>

Names(spec) == {spec.agents[i] : i \in DOMAIN spec.agents}

TaskState == {"absent", "blank", "pending", "paused", "done", "cancelled"}

TaskProjection == [owner : Agent \cup {NoAgent}, state : TaskState]

Absent == [owner |-> NoAgent, state |-> "absent"]

OperatorTypeOK ==
  /\ team \in TeamSpec /\ view \in TeamSpec
  /\ work \in [AgentTask -> TaskProjection] /\ listed \in [AgentTask -> TaskProjection]
  /\ queued \in BOOLEAN /\ blank \subseteq AgentTask
  /\ rc \in {"idle", "list", "provision", "status"}
  /\ next \in Nat \ {0} /\ active \in Nat
  /\ replicas \in [Agent -> -1..1]
  /\ ready \subseteq Agent
  /\ phase \in {"unset", "Pending", "Running", "Degraded", "Failed"}
  /\ edits \in 0..MaxEdits /\ failures \in 0..MaxFailures

Init ==
  /\ team \in TeamSpec
  /\ work = [t \in AgentTask |-> Absent]
  /\ queued = TRUE /\ blank = {}
  /\ rc = "idle"
  /\ view = team
  /\ listed = [t \in AgentTask |-> Absent]
  /\ next = 1 /\ active = 0
  /\ replicas = [a \in Agent |-> -1]
  /\ ready = {}
  /\ phase = "unset"
  /\ edits = 0 /\ failures = 0

-----------------------------------------------------------------------------
ScaleToZero(spec) == spec.scaleToZero # "false"

\* A blank state counts as pending.
CountsCancelled(record) == record.state \notin {"absent", "done"}

IsOpen(record) == record.state \notin {"absent", "done", "cancelled"}

\* What replicasForAgent wants: a pod for the owner of an open task, and for
\* the lead when anybody has one.
Wanted(spec, tasks, a) ==
  LET open == {t \in AgentTask : IsOpen(tasks[t])} IN
  IF \/ ~ScaleToZero(spec)
     \/ \E t \in open : tasks[t].owner = a
     \/ open # {} /\ a = spec.lead
  THEN 1 ELSE 0

-----------------------------------------------------------------------------
\* The events of an AgentTask reach both controllers.
WakeNobody(t) == blank' = blank \cup {t} /\ UNCHANGED queued

WakeFor(t) ==
  /\ blank' = blank \cup {t}
  /\ queued' = TRUE

Edit ==
  /\ edits < MaxEdits
  /\ edits' = edits + 1
  /\ UNCHANGED <<rc, view, listed, next, active, replicas, ready, phase, failures>>

\* karo sling --context, or kubectl apply.
Sling(t, a) ==
  /\ work[t] = Absent
  /\ work' = [work EXCEPT ![t] = [owner |-> a, state |-> "blank"]]
  /\ WakeFor(t)
  /\ Edit
  /\ UNCHANGED team

\* Somebody writes the projection's state: no pod does.
Project(t, state) ==
  /\ work[t] # Absent
  /\ work' = [work EXCEPT ![t].state = state]
  /\ WakeFor(t)
  /\ Edit
  /\ UNCHANGED team

Remove(t) ==
  /\ work[t] # Absent
  /\ work' = [work EXCEPT ![t] = Absent]
  /\ WakeFor(t)
  /\ Edit
  /\ UNCHANGED team

\* An edit may add and remove agents and change the lead.  A removed agent keeps
\* its Deployment: nobody deletes one.
EditTeam ==
  /\ team' \in TeamSpec \ {team}
  /\ queued' = TRUE
  /\ Edit
  /\ UNCHANGED <<work, blank>>

\* The AgentTask controller; its write is an event for the team's.
Stamp(t) ==
  /\ t \in blank
  /\ IF work[t].state = "blank"
     THEN /\ work' = [work EXCEPT ![t].state = "pending"]
          /\ WakeFor(t)
     ELSE /\ blank' = blank \ {t}
          /\ UNCHANGED <<work, queued>>
  /\ UNCHANGED <<team, rc, view, listed, next, active, replicas, ready, phase, edits, failures>>

-----------------------------------------------------------------------------
\* A status that differs from the stored one, if only in a condition's time, is
\* an event for the team itself.  A team that has been edited since it was read
\* is a conflict: nothing is written, and the request comes back.
UpdateOrRetry(newPhase) ==
  IF team = view
  THEN /\ phase' = newPhase
       /\ \E changed \in BOOLEAN : queued' = (queued \/ changed \/ newPhase # phase)
  ELSE queued' = TRUE /\ UNCHANGED phase

Begin ==
  /\ rc = "idle" /\ queued
  /\ queued' = FALSE
  /\ view' = team
  /\ rc' = "list"
  /\ UNCHANGED <<team, work, blank, listed, next, active, replicas, ready, phase, edits, failures>>

\* An invalid team fails, and its Deployments stay as they are.
Reject ==
  /\ rc = "list" /\ ~view.valid
  /\ UpdateOrRetry("Failed")
  /\ rc' = "idle"
  /\ UNCHANGED <<team, work, blank, view, listed, next, active, replicas, ready, edits, failures>>

\* The team's ConfigMap is written, then its AgentTasks are read.
List ==
  /\ rc = "list" /\ view.valid
  /\ listed' = work
  /\ next' = 1 /\ active' = 0
  /\ rc' = "provision"
  /\ UNCHANGED <<team, work, queued, blank, view, replicas, ready, phase, edits, failures>>

\* The Deployment an agent gets: whatever it had is overwritten, and of what is
\* written only the replicas are kept here.
Deploy(a, n) == replicas' = [replicas EXCEPT ![a] = n]

Provision ==
  LET a == view.agents[next] IN
  /\ rc = "provision"
  /\ Deploy(a, Wanted(view, listed, a))
  /\ active' = active + (IF a \in ready THEN 1 ELSE 0)
  /\ next' = next + 1
  /\ rc' = IF next = Len(view.agents) THEN "status" ELSE rc
  /\ UNCHANGED <<team, work, queued, blank, view, listed, ready, phase, edits, failures>>

PhaseFor(n) == IF n > 0 THEN "Running" ELSE "Pending"

UpdateStatus ==
  /\ rc = "status"
  /\ UpdateOrRetry(PhaseFor(active))
  /\ rc' = "idle"
  /\ UNCHANGED <<team, work, blank, view, listed, next, active, replicas, ready, edits, failures>>

ForgetOnError == UNCHANGED queued

RetryOnError == queued' = TRUE

\* An API error while provisioning: the request comes back later.
Fail ==
  /\ rc \in {"list", "provision"} /\ view.valid
  /\ failures < MaxFailures
  /\ failures' = failures + 1
  /\ phase' = "Degraded"
  /\ RetryOnError
  /\ rc' = "idle"
  /\ UNCHANGED <<team, work, blank, view, listed, next, active, replicas, ready, edits>>

\* A new operator lists all there is and reconciles it.
RestartOperator ==
  /\ failures < MaxFailures
  /\ failures' = failures + 1
  /\ queued' = TRUE
  /\ blank' = {t \in AgentTask : work[t] # Absent}
  /\ rc' = "idle"
  /\ UNCHANGED <<team, work, view, listed, next, active, replicas, ready, phase, edits>>

\* A pod becomes ready, or stops being so; nobody is told.
Kubelet(a) ==
  /\ ready' = IF a \in ready THEN ready \ {a} ELSE ready \cup {a}
  /\ a \in ready' => replicas[a] = 1
  /\ UNCHANGED <<team, work, queued, blank, rc, view, listed, next, active, replicas, phase,
                 edits, failures>>

Reconcile == Begin \/ Reject \/ List \/ Provision \/ UpdateStatus

UserStep ==
  \/ EditTeam
  \/ \E t \in AgentTask :
       \/ \E a \in Agent : Sling(t, a)
       \/ \E state \in {"paused", "done", "cancelled"} : Project(t, state)
       \/ Remove(t)

Next ==
  \/ Reconcile \/ Fail \/ RestartOperator
  \/ UserStep
  \/ \E t \in AgentTask : Stamp(t)
  \/ \E a \in Agent : Kubelet(a)

\* The controllers serve the requests in their queues.
Fairness == WF_vars(Reconcile) /\ \A t \in AgentTask : WF_vars(Stamp(t))

Spec == Init /\ [][Next]_vars

FairSpec == Spec /\ Fairness

-----------------------------------------------------------------------------
\* No wake-up is lost: when the operator has come to rest, the Deployment of every
\* agent of the team has the replicas that the team and its AgentTasks now ask for,
\* though they may have changed while it was reading them.
SettledIsScaled ==
  rc = "idle" /\ ~queued /\ team.valid =>
    \A a \in Names(team) : replicas[a] = Wanted(team, work, a)

\* The type invariant with it.
OperatorInv == OperatorTypeOK /\ SettledIsScaled

\* An agent of the team that keeps an open AgentTask, a paused one for instance,
\* keeps a pod to attach to in the end, whatever failed on the way and whatever
\* the team was before.
OwnersAreWoken ==
  \A a \in Agent :
    <>[](/\ team.valid /\ a \in Names(team)
         /\ \E t \in AgentTask : work[t].owner = a /\ work[t].state \in {"pending", "paused"})
    => <>[](replicas[a] = 1)

\* The team scales to zero, which is the default, and all of its AgentTasks are
\* done, cancelled or gone.
HasNoWork ==
  /\ team.valid /\ team.scaleToZero \in {"unset", "true"}
  /\ \A t \in AgentTask : work[t].state \in {"absent", "done", "cancelled"}

\* Such a team has no pod left in the end for any of its agents.
IdleTeamIsReclaimed ==
  \A a \in Agent : <>[](HasNoWork /\ a \in Names(team)) => <>[](replicas[a] = 0)

-----------------------------------------------------------------------------
\* What the documents say beyond this: no work, no pod.  The Deployment of an agent
\* that has been removed from the team is not scaled any more.
NoWorkNoPod == <>[]HasNoWork => <>[](\A a \in Agent : replicas[a] # 1)
=============================================================================
