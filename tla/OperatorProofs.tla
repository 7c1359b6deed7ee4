--------------------------- MODULE OperatorProofs ---------------------------
(***************************************************************************)
(* No wake-up of the AgentTeam controller is lost, whatever the team, its  *)
(* AgentTasks and its edits.  A rest that is out of date can only come     *)
(* from a reconciliation that read something old and was not told, so the  *)
(* invariant follows one through its steps: as long as nobody has put the  *)
(* team back into the queue, what it has read is what is stored, and the   *)
(* Deployments behind it have the replicas that this asks for.             *)
(***************************************************************************)
EXTENDS Operator, TLAPS

Reading == rc \in {"list", "provision", "status"}

Providing == rc \in {"provision", "status"}

ReadIsCurrent ==
  /\ Reading /\ ~queued => view = team
  /\ Providing /\ ~queued => listed = work

PositionOK ==
  /\ rc = "provision" => next <= Len(view.agents)
  /\ rc = "status" => next = Len(view.agents) + 1
  /\ Providing => view.valid

ScaledSoFar ==
  Providing => \A i \in 1..(next - 1) :
                 replicas[view.agents[i]] = Wanted(view, listed, view.agents[i])

\* The inductive invariant.
RestInv == OperatorTypeOK /\ ReadIsCurrent /\ PositionOK /\ ScaledSoFar /\ SettledIsScaled

-----------------------------------------------------------------------------
\* The agents of a spec are a sequence of names, not empty if the spec is valid.
LEMMA AgentsType ==
  ASSUME NEW spec \in TeamSpec
  PROVE  /\ Len(spec.agents) \in Nat
         /\ spec.valid \in BOOLEAN
         /\ spec.valid => Len(spec.agents) # 0
         /\ DOMAIN spec.agents = 1..Len(spec.agents)
         /\ \A i \in 1..Len(spec.agents) : spec.agents[i] \in Agent
         /\ \A a \in Names(spec) : \E i \in 1..Len(spec.agents) : spec.agents[i] = a
<1>1. spec.agents \in Seq(Agent) /\ spec.valid \in BOOLEAN
  BY TeamAssumption
<1> QED
  BY <1>1, OperatorAssumption DEF Names

\* A Deployment has no replica or one.
LEMMA WantedType ==
  ASSUME NEW spec, NEW tasks, NEW a PROVE Wanted(spec, tasks, a) \in 0..1
BY DEF Wanted

LEMMA AbsentType == Absent \in TaskProjection
BY DEF Absent, TaskProjection, TaskState

LEMMA RestInit == Init => RestInv
<1> SUFFICES ASSUME Init PROVE RestInv
  OBVIOUS
<1>1. [t \in AgentTask |-> Absent] \in [AgentTask -> TaskProjection]
  BY AbsentType
<1>2. OperatorTypeOK
  BY <1>1, OperatorAssumption DEF Init, OperatorTypeOK
<1>3. ReadIsCurrent /\ PositionOK /\ ScaledSoFar /\ SettledIsScaled
  BY DEF Init, ReadIsCurrent, PositionOK, ScaledSoFar, SettledIsScaled, Reading, Providing
<1> QED
  BY <1>2, <1>3 DEF RestInv

-----------------------------------------------------------------------------
\* People's edits change what is stored and put the team into the queue, so all
\* that the invariant says of an undisturbed reconciliation is void.
LEMMA UserStepKeeps ==
  ASSUME RestInv, UserStep PROVE RestInv'
<1>1. /\ queued' = TRUE
      /\ UNCHANGED <<rc, view, listed, next, active, replicas, ready, phase, failures>>
      /\ edits' \in 0..MaxEdits
  BY OperatorAssumption
     DEF RestInv, OperatorTypeOK, UserStep, EditTeam, Sling, Project, Remove, WakeFor, Edit
<1> DEFINE StoredOK == /\ team' \in TeamSpec
                       /\ work' \in [AgentTask -> TaskProjection]
                       /\ blank' \subseteq AgentTask
<1>2. StoredOK
  <2> USE DEF RestInv, OperatorTypeOK
  <2>1. CASE EditTeam
    BY <2>1 DEF EditTeam
  <2>2. ASSUME NEW t \in AgentTask, NEW a \in Agent, Sling(t, a)
        PROVE  StoredOK
    <3>1. [owner |-> a, state |-> "blank"] \in TaskProjection
      BY DEF TaskProjection, TaskState
    <3> QED
      BY <2>2, <3>1 DEF Sling, WakeFor
  <2>3. ASSUME NEW t \in AgentTask, NEW state \in {"paused", "done", "cancelled"},
               Project(t, state)
        PROVE  StoredOK
    BY <2>3 DEF Project, WakeFor, TaskProjection, TaskState
  <2>4. ASSUME NEW t \in AgentTask, Remove(t)
        PROVE  StoredOK
    BY <2>4, AbsentType DEF Remove, WakeFor
  <2> HIDE DEF StoredOK
  <2> QED
    BY <2>1, <2>2, <2>3, <2>4 DEF UserStep
<1> QED
  BY <1>1, <1>2
     DEF RestInv, OperatorTypeOK, ReadIsCurrent, PositionOK, ScaledSoFar, SettledIsScaled,
         Reading, Providing

\* The stamp is an edit of its own, or changes nothing but its queue.
LEMMA StampKeeps ==
  ASSUME RestInv, NEW t \in AgentTask, Stamp(t) PROVE RestInv'
<1>1. /\ UNCHANGED <<team, rc, view, listed, next, active, replicas, ready, phase, edits, failures>>
      /\ queued' = TRUE \/ UNCHANGED <<work, queued>>
  BY DEF Stamp, WakeFor
<1>2. work' \in [AgentTask -> TaskProjection]
  <2>1. ASSUME NEW record \in TaskProjection
        PROVE  [record EXCEPT !.state = "pending"] \in TaskProjection
    BY DEF TaskProjection, TaskState
  <2> QED
    BY <2>1 DEF RestInv, OperatorTypeOK, Stamp
<1>3. blank' \subseteq AgentTask /\ queued' \in BOOLEAN
  BY DEF RestInv, OperatorTypeOK, Stamp, WakeFor
<1> QED
  BY <1>1, <1>2, <1>3
     DEF RestInv, OperatorTypeOK, ReadIsCurrent, PositionOK, ScaledSoFar, SettledIsScaled,
         Reading, Providing

\* The team is read as it leaves the queue.
LEMMA BeginKeeps ==
  ASSUME RestInv, Begin PROVE RestInv'
BY DEF RestInv, OperatorTypeOK, ReadIsCurrent, PositionOK, ScaledSoFar, SettledIsScaled,
       Reading, Providing, Begin

LEMMA UpdateOrRetryType ==
  ASSUME RestInv, NEW newPhase \in {"Pending", "Running", "Failed"}, UpdateOrRetry(newPhase)
  PROVE  /\ queued' \in BOOLEAN
         /\ phase' \in {"unset", "Pending", "Running", "Degraded", "Failed"}
         /\ ~queued' => ~queued /\ view = team
BY DEF RestInv, OperatorTypeOK, UpdateOrRetry

\* A rejected team is not valid, unless it has been edited and is queued.
LEMMA RejectKeeps ==
  ASSUME RestInv, Reject PROVE RestInv'
<1>1. /\ queued' \in BOOLEAN
      /\ phase' \in {"unset", "Pending", "Running", "Degraded", "Failed"}
      /\ ~queued' => ~queued /\ view = team
  BY UpdateOrRetryType DEF Reject
<1> QED
  BY <1>1
     DEF RestInv, OperatorTypeOK, ReadIsCurrent, PositionOK, ScaledSoFar, SettledIsScaled,
         Reading, Providing, Reject

LEMMA ListKeeps ==
  ASSUME RestInv, List PROVE RestInv'
<1>1. OperatorTypeOK'
  BY AgentsType DEF RestInv, OperatorTypeOK, List
<1>2. ReadIsCurrent' /\ PositionOK' /\ ScaledSoFar' /\ SettledIsScaled'
  BY AgentsType
     DEF RestInv, OperatorTypeOK, ReadIsCurrent, PositionOK, ScaledSoFar, SettledIsScaled,
         Reading, Providing, List
<1> QED
  BY <1>1, <1>2 DEF RestInv

\* One Deployment more has its replicas; those behind keep theirs, for a name
\* that comes twice wants the same both times.
LEMMA ProvisionKeeps ==
  ASSUME RestInv, Provision PROVE RestInv'
<1> DEFINE a == view.agents[next]
<1> view \in TeamSpec
  BY DEF RestInv, OperatorTypeOK
<1> Len(view.agents) \in Nat
  BY AgentsType
<1>1. /\ next \in 1..Len(view.agents)
      /\ active \in Nat
      /\ view.valid
  BY DEF RestInv, OperatorTypeOK, PositionOK, Providing, Provision
<1> a \in Agent
  BY <1>1, AgentsType
<1>2. Wanted(view, listed, a) \in 0..1
  BY WantedType
<1>3. /\ rc = "provision" /\ rc' = IF next = Len(view.agents) THEN "status" ELSE rc
      /\ next' = next + 1
      /\ replicas' = [replicas EXCEPT ![a] = Wanted(view, listed, a)]
      /\ active' \in {active, active + 1}
      /\ UNCHANGED <<team, work, queued, blank, view, listed, ready, phase, edits, failures>>
  BY DEF Provision, Deploy, RestInv, OperatorTypeOK
<1> HIDE DEF a
<1>4. OperatorTypeOK'
  BY <1>1, <1>2, <1>3 DEF RestInv, OperatorTypeOK, PositionOK, Providing
<1>5. ReadIsCurrent' /\ PositionOK'
  BY <1>1, <1>3
     DEF RestInv, OperatorTypeOK, ReadIsCurrent, PositionOK, Reading, Providing
<1>6. ScaledSoFar'
  <2> SUFFICES ASSUME NEW i \in 1..next
               PROVE  replicas'[view.agents[i]] = Wanted(view, listed, view.agents[i])
    BY <1>1, <1>3 DEF ScaledSoFar, Wanted
  <2>1. view.agents[i] \in Agent
    BY <1>1, AgentsType
  <2>2. CASE view.agents[i] = a
    BY <1>3, <2>1, <2>2 DEF RestInv, OperatorTypeOK
  <2>3. CASE view.agents[i] # a
    <3>1. i \in 1..(next - 1)
      BY <1>1, <2>3, AgentsType DEF a
    <3> QED
      BY <1>3, <2>1, <2>3, <3>1 DEF RestInv, OperatorTypeOK, ScaledSoFar, Providing
  <2> QED
    BY <2>2, <2>3
<1>7. SettledIsScaled'
  BY <1>3 DEF SettledIsScaled
<1> QED
  BY <1>4, <1>5, <1>6, <1>7 DEF RestInv

\* All Deployments are behind a reconciliation that writes the status: a team
\* that is still not queued is at rest with what is stored.
LEMMA UpdateStatusKeeps ==
  ASSUME RestInv, UpdateStatus PROVE RestInv'
<1>1. /\ rc = "status" /\ rc' = "idle"
      /\ UNCHANGED <<team, work, blank, view, listed, next, active, replicas, ready, edits, failures>>
      /\ PhaseFor(active) \in {"Pending", "Running", "Failed"}
      /\ UpdateOrRetry(PhaseFor(active))
  BY DEF UpdateStatus, PhaseFor
<1>2. /\ queued' \in BOOLEAN
      /\ phase' \in {"unset", "Pending", "Running", "Degraded", "Failed"}
      /\ ~queued' => ~queued /\ view = team
  BY <1>1, UpdateOrRetryType
<1>3. OperatorTypeOK' /\ ReadIsCurrent' /\ PositionOK' /\ ScaledSoFar'
  BY <1>1, <1>2
     DEF RestInv, OperatorTypeOK, ReadIsCurrent, PositionOK, ScaledSoFar, Reading, Providing
<1>4. SettledIsScaled'
  <2> SUFFICES ASSUME ~queued', NEW a \in Names(team)
               PROVE  replicas[a] = Wanted(team, work, a)
    BY <1>1 DEF SettledIsScaled, Wanted
  <2>1. view = team /\ listed = work /\ next = Len(view.agents) + 1
    BY <1>1, <1>2 DEF RestInv, ReadIsCurrent, PositionOK, Reading, Providing
  <2>2. PICK i \in 1..Len(view.agents) : view.agents[i] = a
    BY <2>1, AgentsType DEF RestInv, OperatorTypeOK
  <2> QED
    BY <1>1, <2>1, <2>2, AgentsType DEF RestInv, OperatorTypeOK, ScaledSoFar, Providing
<1> QED
  BY <1>3, <1>4 DEF RestInv

\* What fails comes back: into the queue, with nothing read.
LEMMA FailureKeeps ==
  ASSUME RestInv, Fail \/ RestartOperator PROVE RestInv'
<1>1. /\ queued' = TRUE /\ rc' = "idle"
      /\ UNCHANGED <<team, work, view, listed, next, active, replicas, ready, edits>>
      /\ failures' \in 0..MaxFailures
      /\ blank' \subseteq AgentTask
      /\ phase' \in {"unset", "Pending", "Running", "Degraded", "Failed"}
  BY OperatorAssumption DEF RestInv, OperatorTypeOK, Fail, RestartOperator, RetryOnError
<1> QED
  BY <1>1
     DEF RestInv, OperatorTypeOK, ReadIsCurrent, PositionOK, ScaledSoFar, SettledIsScaled,
         Reading, Providing

LEMMA KubeletKeeps ==
  ASSUME RestInv, NEW a \in Agent, Kubelet(a) PROVE RestInv'
BY DEF RestInv, OperatorTypeOK, ReadIsCurrent, PositionOK, ScaledSoFar, SettledIsScaled, Names,
       Reading, Providing, Wanted, IsOpen, ScaleToZero, Kubelet

LEMMA RestStep == RestInv /\ [Next]_vars => RestInv'
<1> SUFFICES ASSUME RestInv, [Next]_vars PROVE RestInv'
  OBVIOUS
<1>1. CASE Reconcile
  BY <1>1, BeginKeeps, RejectKeeps, ListKeeps, ProvisionKeeps, UpdateStatusKeeps DEF Reconcile
<1>2. CASE Fail \/ RestartOperator
  BY <1>2, FailureKeeps
<1>3. CASE UserStep
  BY <1>3, UserStepKeeps
<1>4. CASE \E t \in AgentTask : Stamp(t)
  BY <1>4, StampKeeps
<1>5. CASE \E a \in Agent : Kubelet(a)
  BY <1>5, KubeletKeeps
<1>6. CASE UNCHANGED vars
  BY <1>6
     DEF vars, RestInv, OperatorTypeOK, ReadIsCurrent, PositionOK, ScaledSoFar, SettledIsScaled,
         Reading, Providing, Wanted, IsOpen, ScaleToZero
<1> QED
  BY <1>1, <1>2, <1>3, <1>4, <1>5, <1>6 DEF Next

\* Whenever the operator has come to rest on a valid team, every Deployment has
\* the replicas that the stored team and its stored AgentTasks ask for, and every
\* reachable state is well typed: for any agents, AgentTasks, edits in the middle
\* of a reconciliation, conflicts, API errors and restarts.
THEOREM NoWakeUpIsLost == Spec => []OperatorInv
<1>1. RestInv => OperatorInv
  BY DEF RestInv, OperatorInv
<1> QED
  BY <1>1, RestInit, RestStep, PTL DEF Spec

=============================================================================
