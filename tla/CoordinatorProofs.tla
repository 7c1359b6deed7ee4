-------------------------- MODULE CoordinatorProofs --------------------------
(***************************************************************************)
(* Proofs about the claim loop, for any team, any number of workers and    *)
(* humans, any budget and any placing of crashes.                          *)
(***************************************************************************)
EXTENDS CoordinatorSafety, FiniteNumbers

(***************************************************************************)
(* Records.                                                                *)
(***************************************************************************)

\* The values that fields take, so that the sets need not be opened again.
LEMMA FieldValues ==
  /\ {"pending", "assigned", "in-progress", "review", "paused", "done", "cancelled"}
       \subseteq TaskState
  /\ {"none", "guard:pauseBefore", "guard:pauseOn", "budget"} \subseteq PauseReason
  /\ NoLease \in Lease /\ LeaseTTL \in Lease
  /\ \A lease \in Lease : (IF lease > 0 THEN lease - 1 ELSE lease) \in Lease
  /\ NoAgent \in Owner /\ \A agent \in Agent : agent \in Owner
  BY LeaseAssumption DEF TaskState, PauseReason, Lease, NoLease, Owner

\* The operators that rewrite a task record return task records.
LEMMA RecordTypes ==
  ASSUME NEW rec \in TaskRecord
  PROVE  /\ \A agent \in Agent : Claimed(rec, agent) \in TaskRecord
         /\ Aged(rec) \in TaskRecord
         /\ Released(rec) \in TaskRecord
         /\ \A state \in TaskState : [rec EXCEPT !.state = state] \in TaskRecord
         /\ \A reason \in PauseReason :
              [rec EXCEPT !.state = "paused", !.pause_reason = reason] \in TaskRecord
  <1>1. \A agent \in Agent : Claimed(rec, agent) \in TaskRecord
    BY FieldValues DEF Claimed, TaskRecord
  <1>2. Aged(rec) \in TaskRecord
    BY FieldValues DEF Aged, TaskRecord
  <1>3. Released(rec) \in TaskRecord
    BY FieldValues DEF Released, IsGuardReason, TaskRecord
  <1>4. \A state \in TaskState : [rec EXCEPT !.state = state] \in TaskRecord
    BY DEF TaskRecord
  <1>5. \A reason \in PauseReason :
          [rec EXCEPT !.state = "paused", !.pause_reason = reason] \in TaskRecord
    BY FieldValues DEF TaskRecord
  <1>6. QED
    BY <1>1, <1>2, <1>3, <1>4, <1>5

LEMMA EditedType ==
  ASSUME NEW rec \in TaskRecord, NEW op \in {"retry", "cancel", "assign"},
         NEW new \in Edited(op, rec)
  PROVE  new \in TaskRecord
  <1>1. CASE op = "retry"
    BY <1>1, FieldValues DEF Edited, TaskRecord
  <1>2. CASE op = "cancel"
    BY <1>2, FieldValues DEF Edited, TaskRecord
  <1>3. CASE op = "assign"
    BY <1>3, FieldValues DEF Edited, TaskRecord
  <1>4. QED
    BY <1>1, <1>2, <1>3

LEMMA NewTaskType ==
  ASSUME NEW owner \in Owner
  PROVE  NewTask(owner) \in TaskRecord
  BY FieldValues DEF NewTask, TaskRecord

LEMMA BlankType == Blank \in TaskRecord
  BY NewTaskType, FieldValues DEF Blank

LEMMA NoTaskIsNoTask == NoTask \notin Task
  BY TaskAssumption DEF NoTask

\* The agent a worker claims for next.
LEMMA ScopeType ==
  ASSUME NEW w \in Worker, NEW i \in 1..Len(Scope[w])
  PROVE  Scope[w][i] \in Agent
  <1>1. Scope[w] \in Seq(Agent)
    BY CoordinatorAssumption
  <1>2. QED
    BY <1>1

LEMMA ScopeNotEmpty ==
  ASSUME NEW w \in Worker
  PROVE  Len(Scope[w]) \in Nat \ {0}
  <1>1. Scope[w] \in Seq(Agent) /\ Scope[w] # <<>>
    BY CoordinatorAssumption
  <1>2. QED
    BY <1>1

-----------------------------------------------------------------------------
(***************************************************************************)
(* Type correctness.                                                       *)
(***************************************************************************)
LEMMA TypeInit == Init => TypeOK
  <1> SUFFICES ASSUME Init
               PROVE  TypeOK
    OBVIOUS
  <1>1. \A t \in Task : NewTask(PlannedOwner[t]) \in TaskRecord
    BY NewTaskType, TaskAssumption DEF Owner
  <1>2. \A w \in Worker : 1 \in 1..Len(Scope[w])
    BY ScopeNotEmpty
  <1>3. QED
    BY <1>1, <1>2, BlankType DEF Init, TypeOK, Point, Idle, NoTask

\* A worker that leaves its task leaves its local state well typed.
LEMMA LetGoType ==
  ASSUME TypeOK, NEW w \in Worker, LetGo(w)
  PROVE  /\ cur' \in [Worker -> Task \cup {NoTask}]
         /\ copy' \in [Worker -> TaskRecord]
         /\ scan' \in [Worker -> Nat]
         /\ \A v \in Worker : scan'[v] \in 1..Len(Scope[v])
  <1>1. 1 \in 1..Len(Scope[w])
    BY ScopeNotEmpty
  <1>2. QED
    BY <1>1, BlankType DEF LetGo, TypeOK

LEMMA PauseTaskType ==
  ASSUME TypeOK, NEW w \in Worker, NEW reason \in PauseReason, PauseTask(w, reason)
  PROVE  /\ tasks' \in [Task -> TaskRecord]
         /\ pc' \in [Worker -> Point]
  <1>1. copy[w] \in TaskRecord
    BY DEF TypeOK
  <1>2. [copy[w] EXCEPT !.state = "paused", !.pause_reason = reason] \in TaskRecord
    BY <1>1, RecordTypes
  <1>3. QED
    BY <1>2 DEF PauseTask, GoTo, Point, TypeOK

LEMMA PersistType ==
  ASSUME TypeOK, NEW w \in Worker, NEW state \in TaskState,
         Persist(w, [copy[w] EXCEPT !.state = state])
  PROVE  /\ tasks' \in [Task -> TaskRecord]
         /\ copy' \in [Worker -> TaskRecord]
  <1>1. copy[w] \in TaskRecord
    BY DEF TypeOK
  <1>2. [copy[w] EXCEPT !.state = state] \in TaskRecord
    BY <1>1, RecordTypes
  <1>3. QED
    BY <1>2 DEF Persist, TypeOK

LEMMA WorkerStepType ==
  ASSUME TypeOK, HandsAgree, NEW w \in Worker, WorkerStep(w)
  PROVE  TypeOK'
  <1> USE DEF TypeOK, stores, local, cli, GoTo
  <1>0. /\ copy[w] \in TaskRecord /\ copy[w].owner \in Owner
        /\ scan[w] \in 1..Len(Scope[w])
        /\ HoldsTask(w) => cur[w] \in Task
    BY DEF TaskRecord, HandsAgree
  <1>1. CASE Launch(w)
    BY <1>1 DEF Launch, Point
  <1>2. CASE ReachMaxTurns(w)
    BY <1>2 DEF ReachMaxTurns, Point, Idle
  <1>3. CASE Claim(w)
    <2> DEFINE agent == Scope[w][scan[w]]
    <2>1. agent \in Agent
      BY <1>0, ScopeType
    <2>2. PICK t \in Task :
            /\ tasks' = [tasks EXCEPT ![t] = Claimed(tasks[t], agent)]
            /\ cur' = [cur EXCEPT ![w] = t]
            /\ copy' = [copy EXCEPT ![w] = Claimed(tasks[t], agent)]
      BY <1>3 DEF Claim
    <2>3. Claimed(tasks[t], agent) \in TaskRecord
      BY <2>1, RecordTypes
    <2>4. QED
      BY <1>3, <2>2, <2>3 DEF Claim, Point, Preparing
  <1>4. CASE FindNothing(w)
    <2>1. Len(Scope[w]) \in Nat \ {0}
      BY ScopeNotEmpty
    <2>2. CASE scan[w] < Len(Scope[w]) /\ scan' = [scan EXCEPT ![w] = @ + 1] /\ UNCHANGED pc
      BY <1>4, <2>1, <2>2 DEF FindNothing
    <2>3. CASE scan' = [scan EXCEPT ![w] = 1] /\ GoTo(w, "returned")
      BY <1>4, <2>1, <2>3 DEF FindNothing, Point, Idle
    <2>4. QED
      BY <1>4, <2>2, <2>3 DEF FindNothing
  <1>5. CASE PauseBefore(w)
    BY <1>5, LetGoType, PauseTaskType, FieldValues DEF PauseBefore, PauseTask
  <1>6. CASE PassBudget(w)
    <2>1. Cost[cur[w]] \in Nat
      BY <1>6, <1>0, CoordinatorAssumption DEF PassBudget, HoldsTask, Preparing
    <2>2. used' \in Nat
      BY <1>6, <2>1 DEF PassBudget, CanSpend
    <2>3. QED
      BY <1>6, <2>2 DEF PassBudget, Point, Preparing
  <1>7. CASE DenyAndPause(w)
    BY <1>7 DEF DenyAndPause, Point, Preparing
  <1>8. CASE DenyAndStop(w)
    BY <1>8, LetGoType DEF DenyAndStop, Point, Idle
  <1>9. CASE BudgetPause(w)
    BY <1>9, LetGoType, PauseTaskType, FieldValues DEF BudgetPause, PauseTask
  <1>10. CASE Begin(w)
    <2>1. [kind |-> "assigned", to |-> copy[w].owner, task |-> cur[w]] \in Message
      BY <1>10, <1>0 DEF Begin, Message, HoldsTask, Preparing
    <2>2. QED
      BY <1>10, <2>1, PersistType, FieldValues DEF Begin, Persist, Point, Executing
  <1>11. CASE Turn(w)
    <2>1. /\ <<"task", cur[w]>> \in MemoryKey
          /\ [kind |-> "completed", to |-> Lead, task |-> cur[w]] \in Message
      BY <1>11, <1>0, CoordinatorAssumption DEF Turn, Message, MemoryKey, HoldsTask, Executing
    <2>2. memory' \subseteq MemoryKey /\ mail' \subseteq Message
      BY <1>11, <2>1 DEF Turn
    <2>3. pc' \in [Worker -> Point] /\ turns' \in [Worker -> Nat]
      BY <1>11 DEF Turn, CountTurn, Point, Executing
    <2>4. QED
      BY <1>11, <2>2, <2>3 DEF Turn
  <1>12. CASE BeginReview(w)
    BY <1>12, <1>0, PersistType, FieldValues DEF BeginReview, Persist, Point, Executing
  <1>13. CASE Review(w)
    <2> DEFINE reader == IF Lead = NoAgent THEN Reviewer[cur[w]] ELSE Lead
    <2>1. cur[w] \in Task
      BY <1>13, <1>0 DEF Review, HoldsTask, Executing
    <2>2. reader \in Owner
      BY <2>1, TaskAssumption, CoordinatorAssumption DEF Owner
    <2>3. /\ <<"review", cur[w]>> \in MemoryKey
          /\ [kind |-> "reviewed", to |-> reader, task |-> cur[w]] \in Message
      BY <2>1, <2>2 DEF Message, MemoryKey
    <2>4. memory' \subseteq MemoryKey /\ mail' \subseteq Message
      BY <1>13, <2>3 DEF Review
    <2>5. pc' \in [Worker -> Point] /\ turns' \in [Worker -> Nat]
      BY <1>13 DEF Review, CountTurn, Point, Executing
    <2>6. QED
      BY <1>13, <2>4, <2>5 DEF Review
  <1>14. CASE PauseOnComplete(w)
    BY <1>14, LetGoType, PauseTaskType, FieldValues DEF PauseOnComplete, PauseTask
  <1>15. CASE Finish(w)
    <2>1. [copy[w] EXCEPT !.state = "done"] \in TaskRecord
      BY <1>0, RecordTypes, FieldValues
    <2>2. QED
      BY <1>15, <2>1, LetGoType DEF Finish, Point
  <1>16. QED
    BY <1>1, <1>2, <1>3, <1>4, <1>5, <1>6, <1>7, <1>8, <1>9, <1>10, <1>11,
       <1>12, <1>13, <1>14, <1>15 DEF WorkerStep

LEMMA HumanStepType ==
  ASSUME TypeOK, NEW h \in Human, HumanStep(h)
  PROVE  TypeOK'
  <1> USE DEF TypeOK, stores, local, cli
  <1>1. ASSUME NEW agent \in Agent, ReadRelease(h, agent)
        PROVE  TypeOK'
    <2> DEFINE row == [t \in Task |-> IF t \in PausedOf(agent) THEN Released(tasks[t])
                                     ELSE draft[h][t]]
    <2>1. row \in [Task -> TaskRecord]
      BY RecordTypes
    <2>2. draft' = [draft EXCEPT ![h] = row]
      BY <1>1 DEF ReadRelease
    <2>3. PausedOf(agent) \subseteq Task
      BY DEF PausedOf
    <2>4. QED
      BY <1>1, <2>1, <2>2, <2>3 DEF ReadRelease
  <1>2. ASSUME NEW op \in {"retry", "cancel", "assign"}, NEW t \in Task, ReadTask(h, op, t)
        PROVE  TypeOK'
    <2>1. PICK rec \in Edited(op, tasks[t]) : draft' = [draft EXCEPT ![h][t] = rec]
      BY <1>2 DEF ReadTask
    <2>2. rec \in TaskRecord
      BY EditedType
    <2>3. QED
      BY <1>2, <2>1, <2>2 DEF ReadTask
  <1>3. CASE WriteTask(h)
    <2>1. PICK t \in todo[h] :
            /\ tasks' = [tasks EXCEPT ![t] = draft[h][t]]
            /\ todo' = [todo EXCEPT ![h] = @ \ {t}]
            /\ draft' = [draft EXCEPT ![h][t] = Blank]
            /\ UNCHANGED <<memory, mail, used, local, approved, crashes>>
      BY <1>3 DEF WriteTask
    <2>2. t \in Task
      OBVIOUS
    <2>3. QED
      BY <2>1, <2>2, BlankType
  <1>4. QED
    BY <1>1, <1>2, <1>3 DEF HumanStep

LEMMA TickType ==
  ASSUME TypeOK, Tick
  PROVE  TypeOK'
  <1> USE DEF TypeOK, stores, local, cli
  <1>1. \A rec \in TaskRecord : Aged(rec) \in TaskRecord
    BY RecordTypes
  <1>2. tasks' \in [Task -> TaskRecord]
    BY <1>1 DEF Tick
  <1>3. copy' \in [Worker -> TaskRecord]
    BY <1>1 DEF Tick
  <1>4. draft' \in [Human -> [Task -> TaskRecord]]
    BY <1>1 DEF Tick
  <1>5. QED
    BY <1>2, <1>3, <1>4 DEF Tick

LEMMA TypeStep == TypeOK /\ HandsAgree /\ [Next]_vars => TypeOK'
  <1> SUFFICES ASSUME TypeOK, HandsAgree, [Next]_vars
               PROVE  TypeOK'
    OBVIOUS
  <1>1. ASSUME NEW w \in Worker, Crash(w)
        PROVE  TypeOK'
    BY <1>1, LetGoType DEF Crash, GoTo, Point, Idle, TypeOK, stores, local, cli
  <1>2. CASE ResetBudget
    BY <1>2 DEF ResetBudget, TypeOK, stores, local, cli
  <1>3. CASE UNCHANGED vars
    BY <1>3 DEF TypeOK, vars, stores, local, cli
  <1>4. QED
    BY <1>1, <1>2, <1>3, WorkerStepType, HumanStepType, TickType DEF Next

-----------------------------------------------------------------------------
(***************************************************************************)
(* A worker has a task in its hands exactly while it prepares or executes. *)
(***************************************************************************)
LEMMA HandsInit == Init => HandsAgree
  BY DEF Init, HandsAgree, HoldsTask, Preparing, Executing

LEMMA HandsStep == TypeOK /\ HandsAgree /\ [Next]_vars => HandsAgree'
  <1> SUFFICES ASSUME TypeOK, HandsAgree, [Next]_vars
               PROVE  HandsAgree'
    OBVIOUS
  <1> USE DEF HandsAgree, HoldsTask, Preparing, Executing, Idle, TypeOK
  <1>1. ASSUME NEW w \in Worker, WorkerStep(w)
        PROVE  HandsAgree'
    <2> USE NoTaskIsNoTask DEF GoTo, LetGo
    <2>1. CASE Launch(w)
      BY <2>1 DEF Launch
    <2>2. CASE ReachMaxTurns(w)
      BY <2>2 DEF ReachMaxTurns
    <2>3. CASE Claim(w)
      BY <2>3 DEF Claim
    <2>4. CASE FindNothing(w)
      BY <2>4 DEF FindNothing
    <2>5. CASE PauseBefore(w) \/ BudgetPause(w) \/ PauseOnComplete(w)
      BY <2>5 DEF PauseBefore, BudgetPause, PauseOnComplete, PauseTask
    <2>6. CASE PassBudget(w) \/ DenyAndPause(w)
      BY <2>6 DEF PassBudget, DenyAndPause
    <2>7. CASE DenyAndStop(w) \/ Finish(w)
      BY <2>7 DEF DenyAndStop, Finish
    <2>8. CASE Begin(w) \/ BeginReview(w)
      BY <2>8 DEF Begin, BeginReview, Persist
    <2>9. CASE Turn(w) \/ Review(w)
      BY <2>9 DEF Turn, Review
    <2>10. QED
      BY <1>1, <2>1, <2>2, <2>3, <2>4, <2>5, <2>6, <2>7, <2>8, <2>9 DEF WorkerStep
  <1>2. ASSUME NEW w \in Worker, Crash(w)
        PROVE  HandsAgree'
    BY <1>2 DEF Crash, GoTo, LetGo
  <1>3. ASSUME NEW h \in Human, HumanStep(h)
        PROVE  HandsAgree'
    BY <1>3 DEF HumanStep, ReadRelease, ReadTask, WriteTask, local
  <1>4. CASE Tick \/ ResetBudget \/ UNCHANGED vars
    BY <1>4 DEF Tick, ResetBudget, vars, local
  <1>5. QED
    BY <1>1, <1>2, <1>3, <1>4 DEF Next

\* Every reachable state is well typed, whatever races or crashes happen.
THEOREM TypeCorrect == Spec => [](TypeOK /\ HandsAgree)
  <1>1. Init => TypeOK /\ HandsAgree
    BY TypeInit, HandsInit
  <1>2. TypeOK /\ HandsAgree /\ [Next]_vars => (TypeOK /\ HandsAgree)'
    BY TypeStep, HandsStep
  <1>3. QED
    BY <1>1, <1>2, PTL DEF Spec

-----------------------------------------------------------------------------
(***************************************************************************)
(* ClaimInv is inductive when claims are disciplined.  The steps of a      *)
(* worker come in five shapes: moving on, letting go of its task, writing  *)
(* and letting go, writing and keeping, and claiming.                      *)
(***************************************************************************)
LEMMA ClaimInit == Init => ClaimInv
  <1> SUFFICES ASSUME Init
               PROVE  ClaimInv
    OBVIOUS
  <1>1. \A w \in Worker : ~HoldsTask(w) /\ pc[w] \notin Preparing
    BY DEF Init, HoldsTask, Preparing, Executing
  <1>2. StartedIsReady
    BY DEF Init, NewTask, StartedIsReady
  <1>3. EditsArePaused
    BY DEF Init, EditsArePaused
  <1>4. QED
    BY <1>1, <1>2, <1>3, HandsInit
    DEF ClaimInv, HeldIsCurrent, HeldByOne, LeaseCovers

\* The worker moves on and neither the store nor its hands change.
LEMMA MoveOn ==
  ASSUME TypeOK, ClaimInv, HandsAgree', NEW w \in Worker, NEW point \in Point,
         UNCHANGED <<tasks, cur, copy, todo, draft>>,
         pc' = [pc EXCEPT ![w] = point],
         point \in Preparing => pc[w] \in Preparing,
         HoldsTask(w) => copy[w].state \in StatesAt(point)
  PROVE  ClaimInv'
  <1> USE DEF ClaimInv, HandsAgree, TypeOK
  <1>1. \A v \in Worker : HoldsTask(v)' <=> HoldsTask(v)
    OBVIOUS
  <1>2. HeldIsCurrent'
    BY <1>1 DEF HeldIsCurrent
  <1>3. HeldByOne'
    BY <1>1 DEF HeldByOne
  <1>4. LeaseCovers'
    BY DEF LeaseCovers
  <1>5. StartedIsReady' /\ EditsArePaused'
    BY DEF StartedIsReady, EditsArePaused, DepsDone
  <1>6. QED
    BY <1>2, <1>3, <1>4, <1>5

\* The worker drops its task without writing it.
LEMMA DropTask ==
  ASSUME TypeOK, ClaimInv, HandsAgree', NEW w \in Worker,
         NEW point \in {"claim"} \cup Idle,
         UNCHANGED <<tasks, todo, draft>>,
         LetGo(w), GoTo(w, point)
  PROVE  ClaimInv'
  <1> USE DEF ClaimInv, TypeOK, LetGo, GoTo
  <1>1. /\ ~HoldsTask(w)' /\ pc'[w] \notin Preparing
        /\ \A v \in Worker \ {w} : /\ pc'[v] = pc[v] /\ cur'[v] = cur[v] /\ copy'[v] = copy[v]
                                   /\ HoldsTask(v)' <=> HoldsTask(v)
    BY DEF HoldsTask, Preparing, Executing, Idle
  <1>2. HeldIsCurrent'
    BY <1>1 DEF HeldIsCurrent
  <1>3. HeldByOne'
    BY <1>1 DEF HeldByOne
  <1>4. LeaseCovers'
    BY <1>1 DEF LeaseCovers
  <1>5. StartedIsReady' /\ EditsArePaused'
    BY DEF StartedIsReady, EditsArePaused, DepsDone
  <1>6. QED
    BY <1>2, <1>3, <1>4, <1>5

\* The worker writes its task as paused or done, and drops it.
LEMMA WriteAndDrop ==
  ASSUME TypeOK, ClaimInv, HandsAgree', NEW w \in Worker, HoldsTask(w),
         NEW rec \in TaskRecord, rec.state \in {"paused", "done"},
         tasks' = [tasks EXCEPT ![cur[w]] = rec],
         UNCHANGED <<todo, draft>>,
         LetGo(w), GoTo(w, "claim")
  PROVE  ClaimInv'
  <1> USE DEF ClaimInv, TypeOK, LetGo, GoTo
  <1>1. /\ ~HoldsTask(w)' /\ pc'[w] \notin Preparing
        /\ \A v \in Worker \ {w} : /\ pc'[v] = pc[v] /\ cur'[v] = cur[v] /\ copy'[v] = copy[v]
                                   /\ HoldsTask(v)' <=> HoldsTask(v)
    BY DEF HoldsTask, Preparing, Executing
  <1>2. /\ cur[w] \in Task
        /\ tasks[cur[w]].state \in {"assigned", "in-progress", "review"}
        /\ \A v \in Worker \ {w} : HoldsTask(v) => cur[v] \in Task /\ cur[v] # cur[w]
    BY DEF HandsAgree, HeldIsCurrent, HeldByOne, HoldsTask, StatesAt, Preparing, Executing
  <1>3. HeldIsCurrent'
    BY <1>1, <1>2 DEF HeldIsCurrent
  <1>4. HeldByOne'
    BY <1>1 DEF HeldByOne
  <1>5. LeaseCovers'
    BY <1>1 DEF LeaseCovers
  <1>6. StartedIsReady'
    BY <1>2, TaskAssumption DEF StartedIsReady, DepsDone
  <1>7. EditsArePaused'
    BY <1>2 DEF EditsArePaused
  <1>8. QED
    BY <1>3, <1>4, <1>5, <1>6, <1>7

\* The worker writes its task as in progress or in review, and keeps it.
LEMMA WriteAndKeep ==
  ASSUME TypeOK, ClaimInv, HandsAgree', NEW w \in Worker, HoldsTask(w),
         NEW state \in {"in-progress", "review"}, NEW point \in {"turn", "review"},
         Persist(w, [copy[w] EXCEPT !.state = state]),
         UNCHANGED <<todo, draft>>,
         GoTo(w, point), state \in StatesAt(point)
  PROVE  ClaimInv'
  <1> DEFINE rec == [copy[w] EXCEPT !.state = state]
  <1> USE DEF ClaimInv, TypeOK, Persist, GoTo
  <1>0. rec \in TaskRecord /\ rec.state = state
    BY FieldValues DEF TaskRecord
  <1>1. /\ HoldsTask(w)' /\ pc'[w] = point /\ pc'[w] \notin Preparing
        /\ cur' = cur /\ copy'[w] = rec
        /\ \A v \in Worker \ {w} : /\ pc'[v] = pc[v] /\ copy'[v] = copy[v]
                                   /\ HoldsTask(v)' <=> HoldsTask(v)
    BY DEF HoldsTask, Preparing, Executing
  <1>2. /\ cur[w] \in Task
        /\ tasks[cur[w]].state \in {"assigned", "in-progress", "review"}
        /\ \A v \in Worker \ {w} : HoldsTask(v) => cur[v] \in Task /\ cur[v] # cur[w]
    BY DEF HandsAgree, HeldIsCurrent, HeldByOne, HoldsTask, StatesAt, Preparing, Executing
  <1>3. tasks' = [tasks EXCEPT ![cur[w]] = rec]
    OBVIOUS
  <1> HIDE DEF rec
  <1>4. HeldIsCurrent'
    BY <1>0, <1>1, <1>2, <1>3 DEF HeldIsCurrent
  <1>5. HeldByOne'
    BY <1>1, HoldsTask(w) DEF HeldByOne
  <1>6. LeaseCovers'
    BY <1>1 DEF LeaseCovers
  <1>7. StartedIsReady'
    BY <1>0, <1>2, <1>3, TaskAssumption DEF StartedIsReady, DepsDone
  <1>8. EditsArePaused'
    BY <1>2, <1>3 DEF EditsArePaused
  <1>9. QED
    BY <1>4, <1>5, <1>6, <1>7, <1>8

\* The worker claims a task.  Nobody else has it: a pending task is held by
\* no one, and an assigned one is held only under a running lease.
LEMMA ClaimTask ==
  ASSUME TypeOK, ClaimInv, HandsAgree', NEW w \in Worker, Claim(w)
  PROVE  ClaimInv'
  <1> DEFINE agent == Scope[w][scan[w]]
  <1>1. PICK t \in Task :
          /\ NextClaim(tasks, t, agent)
          /\ tasks' = [tasks EXCEPT ![t] = Claimed(tasks[t], agent)]
          /\ cur' = [cur EXCEPT ![w] = t]
          /\ copy' = [copy EXCEPT ![w] = Claimed(tasks[t], agent)]
    BY DEF Claim
  <1> DEFINE rec == Claimed(tasks[t], agent)
  <1>2. rec.state = "assigned" /\ rec.lease = LeaseTTL
    BY DEF Claimed, TaskRecord, TypeOK
  <1>3. /\ tasks[t].state = "pending" \/ (tasks[t].state = "assigned" /\ tasks[t].lease = 0)
        /\ DepsDone(tasks, t)
    BY <1>1 DEF NextClaim, Claimable, Stale
  <1>4. /\ ~HoldsTask(w) /\ HoldsTask(w)' /\ pc'[w] = "gate"
        /\ \A v \in Worker \ {w} : /\ pc'[v] = pc[v] /\ cur'[v] = cur[v] /\ copy'[v] = copy[v]
                                   /\ HoldsTask(v)' <=> HoldsTask(v)
    BY <1>1 DEF Claim, GoTo, HoldsTask, Preparing, Executing, TypeOK
  <1>5. ASSUME NEW v \in Worker \ {w}, HoldsTask(v)
        PROVE  cur[v] \in Task /\ cur[v] # t
    <2>1. cur[v] \in Task /\ copy[v] = tasks[cur[v]] /\ copy[v].state \in StatesAt(pc[v])
      BY <1>5 DEF ClaimInv, HandsAgree, HeldIsCurrent, TypeOK
    <2>2. copy[v].state # "pending"
      BY <1>5, <2>1 DEF StatesAt, HoldsTask, Preparing, Executing
    <2>3. copy[v].state = "assigned" => copy[v].lease > 0
      BY <1>5, <2>1 DEF ClaimInv, LeaseCovers, StatesAt, HoldsTask, Preparing, Executing
    <2>4. QED
      BY <1>3, <2>1, <2>2, <2>3
  <1>6. UNCHANGED <<todo, draft>>
    BY DEF Claim, cli
  <1>7. /\ tasks'[t] = rec /\ copy'[w] = rec /\ cur'[w] = t
        /\ \A u \in Task \ {t} : tasks'[u] = tasks[u]
    BY <1>1 DEF TypeOK
  <1> HIDE DEF rec
  <1>8. HeldIsCurrent'
    <2>1. ASSUME NEW v \in Worker, HoldsTask(v)'
          PROVE  copy'[v] = tasks'[cur'[v]] /\ copy'[v].state \in StatesAt(pc'[v])
      <3>1. CASE v = w
        BY <3>1, <1>2, <1>4, <1>7 DEF StatesAt, Preparing
      <3>2. CASE v # w
        BY <3>2, <2>1, <1>4, <1>5, <1>7 DEF ClaimInv, HeldIsCurrent
      <3>3. QED
        BY <3>1, <3>2
    <2>2. QED
      BY <2>1 DEF HeldIsCurrent
  <1>9. HeldByOne'
    BY <1>4, <1>5, <1>7 DEF ClaimInv, HeldByOne
  <1>10. LeaseCovers'
    BY <1>2, <1>4, <1>7, LeaseAssumption DEF ClaimInv, LeaseCovers
  <1>11. StartedIsReady'
    <2>1. \A u \in Task : tasks[u].state = "done" => tasks'[u].state = "done"
      BY <1>3, <1>7
    <2>2. \A u \in Task : DepsDone(tasks, u) => DepsDone(tasks', u)
      BY <2>1, TaskAssumption DEF DepsDone
    <2>3. QED
      BY <1>3, <1>7, <2>2 DEF ClaimInv, StartedIsReady
  <1>12. EditsArePaused'
    BY <1>3, <1>6, <1>7 DEF ClaimInv, EditsArePaused
  <1>13. QED
    BY <1>8, <1>9, <1>10, <1>11, <1>12 DEF ClaimInv

LEMMA ClaimWorker ==
  ASSUME TypeOK, ClaimInv, HandsAgree', NEW w \in Worker, WorkerStep(w)
  PROVE  ClaimInv'
  <1>0. /\ HandsAgree
        /\ copy[w] \in TaskRecord
        /\ HoldsTask(w) => copy[w].state \in StatesAt(pc[w])
    BY DEF ClaimInv, HeldIsCurrent, TypeOK
  <1>1. CASE Launch(w)
    BY <1>1, MoveOn DEF Launch, GoTo, Point, Idle, HoldsTask, Preparing, Executing, stores, cli
  <1>2. CASE ReachMaxTurns(w)
    BY <1>2, MoveOn
    DEF ReachMaxTurns, GoTo, Point, Idle, HoldsTask, Preparing, Executing, stores, cli
  <1>3. CASE Claim(w)
    BY <1>3, ClaimTask
  <1>4. CASE FindNothing(w)
    <2>1. \E point \in {"claim", "returned"} : pc' = [pc EXCEPT ![w] = point]
      BY <1>4 DEF FindNothing, GoTo, TypeOK
    <2>2. ~HoldsTask(w) /\ UNCHANGED <<tasks, cur, copy, todo, draft>>
      BY <1>4 DEF FindNothing, HoldsTask, Preparing, Executing, stores, cli
    <2>3. QED
      BY <2>1, <2>2, MoveOn DEF Point, Idle, Preparing
  <1>5. CASE PauseBefore(w) \/ BudgetPause(w) \/ PauseOnComplete(w)
    <2>1. PICK reason \in PauseReason : PauseTask(w, reason)
      BY <1>5, FieldValues DEF PauseBefore, BudgetPause, PauseOnComplete
    <2> DEFINE rec == [copy[w] EXCEPT !.state = "paused", !.pause_reason = reason]
    <2>2. rec \in TaskRecord /\ rec.state = "paused"
      BY <1>0, RecordTypes DEF TaskRecord
    <2>3. HoldsTask(w) /\ UNCHANGED <<todo, draft>>
      BY <1>5 DEF PauseBefore, BudgetPause, PauseOnComplete, HoldsTask, Preparing, Executing, cli
    <2>4. tasks' = [tasks EXCEPT ![cur[w]] = rec] /\ LetGo(w) /\ GoTo(w, "claim")
      BY <2>1 DEF PauseTask
    <2> HIDE DEF rec
    <2>5. QED
      BY <2>2, <2>3, <2>4, WriteAndDrop
  <1>6. CASE PassBudget(w)
    BY <1>6, <1>0, MoveOn
    DEF PassBudget, GoTo, Point, HoldsTask, Preparing, StatesAt, cli
  <1>7. CASE DenyAndPause(w)
    BY <1>7, <1>0, MoveOn
    DEF DenyAndPause, GoTo, Point, HoldsTask, Preparing, StatesAt, stores, cli
  <1>8. CASE DenyAndStop(w)
    BY <1>8, DropTask DEF DenyAndStop, Idle, stores, cli
  <1>9. CASE Begin(w)
    BY <1>9, WriteAndKeep DEF Begin, HoldsTask, Preparing, StatesAt, cli
  <1>10. CASE Turn(w)
    <2>1. PICK point \in {"to_review", "finish"} : pc' = [pc EXCEPT ![w] = point]
      BY <1>10 DEF Turn, GoTo
    <2>2. pc[w] = "turn" /\ UNCHANGED <<tasks, cur, copy, todo, draft>>
      BY <1>10 DEF Turn, cli
    <2>3. copy[w].state = "in-progress"
      BY <2>2, <1>0 DEF HoldsTask, Preparing, Executing, StatesAt
    <2>4. QED
      BY <2>1, <2>2, <2>3, MoveOn DEF Point, Preparing, Executing, StatesAt
  <1>11. CASE BeginReview(w)
    BY <1>11, WriteAndKeep DEF BeginReview, HoldsTask, Executing, StatesAt, Preparing, cli
  <1>12. CASE Review(w)
    <2>1. pc[w] = "review" /\ pc' = [pc EXCEPT ![w] = "finish"]
          /\ UNCHANGED <<tasks, cur, copy, todo, draft>>
      BY <1>12 DEF Review, GoTo, cli
    <2>2. copy[w].state = "review"
      BY <2>1, <1>0 DEF HoldsTask, Preparing, Executing, StatesAt
    <2>3. QED
      BY <2>1, <2>2, MoveOn DEF Point, Preparing, Executing, StatesAt
  <1>13. CASE Finish(w)
    <2> DEFINE rec == [copy[w] EXCEPT !.state = "done"]
    <2>1. rec \in TaskRecord /\ rec.state = "done"
      BY <1>0, FieldValues DEF TaskRecord
    <2>2. HoldsTask(w) /\ UNCHANGED <<todo, draft>>
      BY <1>13 DEF Finish, HoldsTask, Executing, cli
    <2>3. tasks' = [tasks EXCEPT ![cur[w]] = rec] /\ LetGo(w) /\ GoTo(w, "claim")
      BY <1>13 DEF Finish
    <2> HIDE DEF rec
    <2>4. QED
      BY <2>1, <2>2, <2>3, WriteAndDrop
  <1>14. QED
    BY <1>1, <1>2, <1>3, <1>4, <1>5, <1>6, <1>7, <1>8, <1>9, <1>10, <1>11, <1>12, <1>13
    DEF WorkerStep

-----------------------------------------------------------------------------
(***************************************************************************)
(* The steps of the others: a human who only releases touches paused tasks *)
(* that no worker has, and time keeps the records in step with each other. *)
(***************************************************************************)
LEMMA ClaimHuman ==
  ASSUME Disciplined, Apart, TypeOK, ClaimInv, HandsAgree', NEW h \in Human, HumanStep(h)
  PROVE  ClaimInv'
  <1>1. ASSUME NEW agent \in Agent, ReadRelease(h, agent)
        PROVE  ClaimInv'
    <2>1. UNCHANGED <<tasks, pc, cur, copy>>
      BY <1>1 DEF ReadRelease, stores, local
    <2>2. \A t \in PausedOf(agent) : tasks[t].state = "paused" /\ Released(tasks[t]).state = "pending"
      BY DEF PausedOf, Released, TypeOK, TaskRecord
    <2>3. ASSUME NEW t \in Task, t \in todo'[h]
          PROVE  tasks'[t].state = "paused" /\ draft'[h][t].state = "pending"
      BY <1>1, <2>1, <2>2, <2>3 DEF ReadRelease, TypeOK
    <2>a. \A g \in Human \ {h} : todo'[g] = todo[g] /\ draft'[g] = draft[g]
      BY <1>1 DEF ReadRelease, TypeOK
    <2>4. EditsArePaused'
      BY <2>1, <2>3, <2>a DEF ClaimInv, EditsArePaused
    <2>5. (HeldIsCurrent /\ HeldByOne /\ LeaseCovers /\ StartedIsReady)'
      BY <2>1
      DEF ClaimInv, HeldIsCurrent, HeldByOne, LeaseCovers, StartedIsReady, DepsDone, HoldsTask
    <2>6. QED
      BY <2>4, <2>5 DEF ClaimInv
  <1>2. ASSUME NEW op \in {"retry", "cancel", "assign"}, NEW t \in Task, ReadTask(h, op, t)
        PROVE  FALSE
    BY <1>2 DEF ReadTask, Disciplined
  <1>3. CASE WriteTask(h)
    <2>1. PICK t \in todo[h] :
            /\ tasks' = [tasks EXCEPT ![t] = draft[h][t]]
            /\ todo' = [todo EXCEPT ![h] = @ \ {t}]
            /\ draft' = [draft EXCEPT ![h][t] = Blank]
            /\ UNCHANGED <<pc, cur, copy>>
      BY <1>3 DEF WriteTask, local
    <2>2. t \in Task
      BY DEF TypeOK
    <2>3. /\ tasks[t].state = "paused" /\ tasks'[t].state = "pending"
          /\ \A u \in Task \ {t} : tasks'[u] = tasks[u]
      BY <2>1, <2>2 DEF ClaimInv, EditsArePaused, TypeOK
    <2>4. \A w \in Worker : HoldsTask(w) => cur[w] \in Task \ {t}
      <3>1. SUFFICES ASSUME NEW w \in Worker, HoldsTask(w)
                     PROVE  cur[w] \in Task \ {t}
        OBVIOUS
      <3>2. cur[w] \in Task /\ tasks[cur[w]].state \in StatesAt(pc[w])
        BY <3>1 DEF ClaimInv, HandsAgree, HeldIsCurrent, TypeOK
      <3>3. tasks[cur[w]].state # "paused"
        BY <3>1, <3>2 DEF StatesAt, HoldsTask, Preparing, Executing
      <3>4. QED
        BY <3>2, <3>3, <2>3
    <2>5. HeldIsCurrent'
      BY <2>1, <2>3, <2>4 DEF ClaimInv, HeldIsCurrent, HoldsTask
    <2>6. HeldByOne' /\ LeaseCovers'
      BY <2>1 DEF ClaimInv, HeldByOne, LeaseCovers, HoldsTask
    <2>7. StartedIsReady'
      <3>1. \A u \in Task : tasks[u].state = "done" => tasks'[u].state = "done"
        BY <2>3
      <3>2. \A u \in Task : DepsDone(tasks, u) => DepsDone(tasks', u)
        BY <3>1, TaskAssumption DEF DepsDone
      <3>3. QED
        BY <2>3, <3>2 DEF ClaimInv, StartedIsReady
    <2>8. EditsArePaused'
      <3>1. ASSUME NEW u \in Task, u \in todo'[h]
            PROVE  u \in todo[h] \ {t} /\ draft'[h][u] = draft[h][u]
        BY <2>1, <2>2, <3>1 DEF TypeOK
      <3>2. \A g \in Human \ {h} : todo'[g] = todo[g] /\ draft'[g] = draft[g] /\ t \notin todo[g]
        BY <2>1 DEF Apart, TypeOK
      <3>3. QED
        BY <2>3, <3>1, <3>2 DEF ClaimInv, EditsArePaused
    <2>9. QED
      BY <2>5, <2>6, <2>7, <2>8 DEF ClaimInv
  <1>4. QED
    BY <1>1, <1>2, <1>3 DEF HumanStep

LEMMA ClaimTick ==
  ASSUME Disciplined, TypeOK, ClaimInv, HandsAgree', Tick
  PROVE  ClaimInv'
  <1>1. /\ UNCHANGED <<pc, cur, todo>>
        /\ \A t \in Task : tasks'[t] = Aged(tasks[t])
        /\ \A w \in Worker : copy'[w] = Aged(copy[w])
        /\ \A h \in Human, t \in Task : draft'[h][t] = Aged(draft[h][t])
    BY DEF Tick, TypeOK
  <1>2. \A rec \in TaskRecord : Aged(rec).state = rec.state
    BY DEF Aged, TaskRecord
  <1>3. \A rec \in TaskRecord : rec.lease > 1 => Aged(rec).lease > 0
    BY LeaseAssumption DEF Aged, TaskRecord, Lease, NoLease
  <1>4. /\ \A t \in Task : tasks[t] \in TaskRecord /\ tasks'[t].state = tasks[t].state
        /\ \A w \in Worker : copy[w] \in TaskRecord /\ copy'[w].state = copy[w].state
        /\ \A h \in Human, t \in Task : draft'[h][t].state = draft[h][t].state
    BY <1>1, <1>2 DEF TypeOK
  <1>5. HeldIsCurrent'
    <2>1. ASSUME NEW w \in Worker, HoldsTask(w)
          PROVE  copy'[w] = tasks'[cur[w]] /\ copy'[w].state \in StatesAt(pc[w])
      <3>1. cur[w] \in Task /\ copy[w] = tasks[cur[w]] /\ copy[w].state \in StatesAt(pc[w])
        BY <2>1 DEF ClaimInv, HandsAgree, HeldIsCurrent, TypeOK
      <3>2. QED
        BY <3>1, <1>1, <1>4
    <2>2. QED
      BY <2>1, <1>1 DEF HeldIsCurrent, HoldsTask
  <1>6. HeldByOne'
    BY <1>1 DEF ClaimInv, HeldByOne, HoldsTask
  <1>7. LeaseCovers'
    BY <1>1, <1>3, <1>4 DEF Tick, Disciplined, LeaseCovers
  <1>8. StartedIsReady'
    BY <1>4, TaskAssumption DEF ClaimInv, StartedIsReady, DepsDone
  <1>9. EditsArePaused'
    BY <1>1, <1>4 DEF ClaimInv, EditsArePaused
  <1>10. QED
    BY <1>5, <1>6, <1>7, <1>8, <1>9 DEF ClaimInv

LEMMA ClaimStep == Disciplined /\ Apart /\ TypeOK /\ ClaimInv /\ [Next]_vars => ClaimInv'
  <1> SUFFICES ASSUME Disciplined, Apart, TypeOK, ClaimInv, [Next]_vars
               PROVE  ClaimInv'
    OBVIOUS
  <1>1. HandsAgree'
    BY HandsStep DEF ClaimInv
  <1>2. ASSUME NEW w \in Worker, Crash(w)
        PROVE  ClaimInv'
    BY <1>1, <1>2, DropTask DEF Crash, Idle, stores, cli
  <1>3. CASE ResetBudget \/ UNCHANGED vars
    <2>1. UNCHANGED <<tasks, pc, cur, copy, todo, draft>>
      BY <1>3 DEF ResetBudget, vars, stores, local, cli
    <2>2. QED
      BY <1>1, <2>1
      DEF ClaimInv, HeldIsCurrent, HeldByOne, LeaseCovers, StartedIsReady, DepsDone,
          HoldsTask, EditsArePaused
  <1>4. QED
    BY <1>1, <1>2, <1>3, ClaimWorker, ClaimHuman, ClaimTick DEF Next

\* With timely workers and people who only release, and never the same task at
\* the same time, ClaimInv always holds.
THEOREM ClaimsAreCovered == Disciplined => (Spec /\ []Apart => []ClaimInv)
  <1> SUFFICES ASSUME Disciplined
               PROVE  Spec /\ []Apart => []ClaimInv
    OBVIOUS
  <1>1. Init => TypeOK /\ ClaimInv
    BY TypeInit, ClaimInit
  <1>2. Apart /\ TypeOK /\ ClaimInv /\ [Next]_vars => (TypeOK /\ ClaimInv)'
    BY TypeStep, ClaimStep DEF ClaimInv
  <1>3. QED
    BY <1>1, <1>2, PTL DEF Spec

\* A worker that executes a task: what ClaimInv says of the pair.
LEMMA ExecutionIsCovered ==
  ASSUME TypeOK, ClaimInv, NEW w \in Worker, NEW t \in Task, Executes(w, t)
  PROVE  /\ tasks[t].state \in {"in-progress", "review"}
         /\ tasks[t] = copy[w]
         /\ DepsDone(tasks, t)
  <1>1. HoldsTask(w) /\ cur[w] = t
    BY DEF Executes, HoldsTask
  <1>2. copy[w] = tasks[t] /\ copy[w].state \in StatesAt(pc[w])
    BY <1>1 DEF ClaimInv, HeldIsCurrent
  <1>3. tasks[t].state \in {"in-progress", "review"}
    BY <1>2 DEF Executes, Executing, Preparing, StatesAt
  <1>4. QED
    BY <1>2, <1>3 DEF ClaimInv, StartedIsReady

\* Under the discipline, however many processes run the loop and wherever they
\* die, no task is executed by two of them at a time.
THEOREM ExecutionIsExclusive == Disciplined => (Spec /\ []Apart => []Exclusive)
  <1>1. ClaimInv => Exclusive
    BY DEF ClaimInv, HeldByOne, Exclusive, Executes, HoldsTask
  <1>2. QED
    BY <1>1, ClaimsAreCovered, PTL

\* ... a task is executed only while all its dependencies are done.
THEOREM DependenciesStayDone == Disciplined => (Spec /\ []Apart => []DependenciesHold)
  <1>1. TypeOK /\ ClaimInv => DependenciesHold
    BY ExecutionIsCovered DEF DependenciesHold, DepsDone
  <1>2. QED
    BY <1>1, ClaimsAreCovered, TypeCorrect, PTL

\* ... and the worker's in-memory task is the stored one all along.
THEOREM StoreIsCurrent == Disciplined => (Spec /\ []Apart => []StoreAgrees)
  <1>1. TypeOK /\ ClaimInv => StoreAgrees
    BY ExecutionIsCovered DEF StoreAgrees
  <1>2. QED
    BY <1>1, ClaimsAreCovered, TypeCorrect, PTL

-----------------------------------------------------------------------------
(***************************************************************************)
(* What holds without the discipline: several people edit the records at   *)
(* once, commands race the loop, workers outlive their leases.             *)
(*                                                                         *)
(* --max-turns: a run counts a turn only after it looked at the limit at   *)
(* the top of its loop, and claims one task for that look: the turn, and   *)
(* its review if it has one.                                               *)
(***************************************************************************)
TurnsOK(w) ==
  /\ pc[w] \in Idle => scan[w] = 1
  /\ MaxTurns # NoLimit =>
       /\ turns[w] <= MaxTurns + 1
       /\ (pc[w] = "claim" /\ scan[w] # 1) \/ pc[w] \in Preparing \cup {"turn"} =>
            turns[w] < MaxTurns
       /\ pc[w] \in {"to_review", "review"} => turns[w] <= MaxTurns

TurnsInv == \A w \in Worker : TurnsOK(w)

LEMMA TurnsWorker ==
  ASSUME TypeOK, TurnsInv, NEW w \in Worker, WorkerStep(w)
  PROVE  TurnsInv'
  <1> USE DEF GoTo, Preparing, Executing, Idle
  <1>0. /\ TurnsOK(w) /\ scan[w] \in Nat /\ turns[w] \in Nat
        /\ MaxTurns # NoLimit => MaxTurns \in Nat
        /\ pc \in [Worker -> Point] /\ scan \in [Worker -> Nat] /\ turns \in [Worker -> Nat]
    BY CoordinatorAssumption DEF TypeOK, TurnsInv
  <1> SUFFICES /\ TurnsOK(w)'
               /\ \A v \in Worker \ {w} : UNCHANGED <<pc[v], scan[v], turns[v]>>
    BY DEF TurnsInv, TurnsOK
  <1>1. CASE Launch(w)
    BY <1>0, <1>1 DEF Launch, TurnsOK, NoLimit
  <1>2. CASE ReachMaxTurns(w)
    BY <1>0, <1>2 DEF ReachMaxTurns, TurnsOK
  <1>3. CASE Claim(w)
    BY <1>0, <1>3 DEF Claim, TurnsOK, OutOfTurns
  <1>4. CASE FindNothing(w)
    BY <1>0, <1>4 DEF FindNothing, TurnsOK, OutOfTurns
  <1>5. CASE PauseBefore(w) \/ BudgetPause(w) \/ PauseOnComplete(w)
    BY <1>0, <1>5 DEF PauseBefore, BudgetPause, PauseOnComplete, PauseTask, LetGo, TurnsOK
  <1>6. CASE PassBudget(w) \/ DenyAndPause(w)
    BY <1>0, <1>6 DEF PassBudget, DenyAndPause, TurnsOK
  <1>7. CASE DenyAndStop(w) \/ Finish(w)
    BY <1>0, <1>7 DEF DenyAndStop, Finish, LetGo, TurnsOK
  <1>8. CASE Begin(w) \/ BeginReview(w)
    BY <1>0, <1>8 DEF Begin, BeginReview, Persist, TurnsOK
  <1>9. CASE Turn(w)
    BY <1>0, <1>9 DEF Turn, CountTurn, TurnsOK
  <1>10. CASE Review(w)
    BY <1>0, <1>10 DEF Review, CountTurn, TurnsOK
  <1>11. QED
    BY <1>1, <1>2, <1>3, <1>4, <1>5, <1>6, <1>7, <1>8, <1>9, <1>10 DEF WorkerStep

LEMMA TurnsStep == TypeOK /\ TurnsInv /\ [Next]_vars => TurnsInv'
  <1> SUFFICES ASSUME TypeOK, TurnsInv, [Next]_vars
               PROVE  TurnsInv'
    OBVIOUS
  <1>1. ASSUME NEW w \in Worker, Crash(w)
        PROVE  TurnsInv'
    BY <1>1 DEF Crash, GoTo, LetGo, TypeOK, TurnsInv, TurnsOK, Preparing, Idle
  <1>2. ASSUME NEW h \in Human, HumanStep(h)
        PROVE  UNCHANGED <<pc, scan, turns>>
    BY <1>2 DEF HumanStep, ReadRelease, ReadTask, WriteTask, local
  <1>3. CASE Tick \/ ResetBudget \/ UNCHANGED vars
    BY <1>3 DEF Tick, ResetBudget, vars, local, TurnsInv, TurnsOK
  <1>4. ASSUME UNCHANGED <<pc, scan, turns>>
        PROVE  TurnsInv'
    BY <1>4 DEF TurnsInv, TurnsOK
  <1>5. QED
    BY <1>1, <1>2, <1>3, <1>4, TurnsWorker DEF Next

\* --max-turns does not cap the turns of a run, whatever its help says: a run goes over
\* it by one turn at most, the review of a task that was begun within it, however many
\* workers share the store and however often they are started again.
THEOREM TurnsStayBounded == Spec => []TurnsAreBounded
  <1>1. Init => TurnsInv
    BY CoordinatorAssumption DEF Init, TurnsInv, TurnsOK, Preparing
  <1>2. TypeOK /\ TurnsInv => TurnsAreBounded
    BY DEF TurnsInv, TurnsOK, TurnsAreBounded, Preparing
  <1>3. QED
    BY <1>1, <1>2, TurnsStep, TypeCorrect, PTL DEF Spec

-----------------------------------------------------------------------------
(***************************************************************************)
(* Results.  Memory and mail only grow, so what holds of a task once it is *)
(* done keeps holding; and only a worker that has done the work writes     *)
(* "done", a command writing it back only if it was there.                 *)
(***************************************************************************)
Given(t, agent) == [kind |-> "assigned", to |-> agent, task |-> t] \in mail

ResultKept(t) ==
  /\ <<"task", t>> \in memory
  /\ Lead # NoAgent =>
       [kind |-> "completed", to |-> Lead, task |-> t] \in mail \/ Given(t, Lead)

ReviewKept(t) == Reviewer[t] # NoAgent => <<"review", t>> \in memory \/ Given(t, Reviewer[t])

WorkReported(w) ==
  /\ pc[w] \in Executing => Given(cur[w], copy[w].owner)
  /\ pc[w] \in {"to_review", "review", "finish"} => ResultKept(cur[w])
  /\ pc[w] = "finish" => ReviewKept(cur[w])
  /\ HoldsTask(w) => \A d \in DependsOn[cur[w]] : <<"task", d>> \in memory

ReportInv ==
  /\ \A t \in Task :
       /\ tasks[t].state = "done" => ResultKept(t) /\ ReviewKept(t)
       /\ \A h \in Human : draft[h][t].state = "done" => ResultKept(t) /\ ReviewKept(t)
  /\ \A w \in Worker : WorkReported(w)

LEMMA KeptStays ==
  ASSUME memory \subseteq memory', mail \subseteq mail', NEW t
  PROVE  /\ ResultKept(t) => ResultKept(t)'
         /\ ReviewKept(t) => ReviewKept(t)'
         /\ \A agent : Given(t, agent) => Given(t, agent)'
  BY DEF ResultKept, ReviewKept, Given

\* A step of a worker in which nothing becomes done but what is reported.
LEMMA ReportFrame ==
  ASSUME ReportInv, memory \subseteq memory', mail \subseteq mail', UNCHANGED draft,
         NEW w \in Worker, WorkReported(w)',
         \A v \in Worker \ {w} : UNCHANGED <<pc[v], cur[v], copy[v]>>,
         \A t \in Task : tasks'[t].state = "done" =>
           tasks[t].state = "done" \/ (ResultKept(t) /\ ReviewKept(t))'
  PROVE  ReportInv'
  <1>1. ASSUME NEW v \in Worker \ {w}
        PROVE  WorkReported(v)'
    BY KeptStays DEF ReportInv, WorkReported, HoldsTask
  <1>2. ASSUME NEW t \in Task
        PROVE  /\ tasks'[t].state = "done" => (ResultKept(t) /\ ReviewKept(t))'
               /\ \A h \in Human : draft'[h][t].state = "done" => (ResultKept(t) /\ ReviewKept(t))'
    BY KeptStays DEF ReportInv
  <1>3. QED
    BY <1>1, <1>2 DEF ReportInv

\* The record a worker writes is the one in its hands but for its state.
LEMMA WrittenState ==
  ASSUME TypeOK, NEW w \in Worker, cur[w] \in Task, NEW rec,
         tasks' = [tasks EXCEPT ![cur[w]] = rec], rec.state # "done"
  PROVE  \A t \in Task : tasks'[t].state = "done" => tasks[t].state = "done"
  BY DEF TypeOK

LEMMA ReportWorker ==
  ASSUME TypeOK, HandsAgree, ReportInv, NEW w \in Worker, WorkerStep(w)
  PROVE  ReportInv'
  <1> USE DEF GoTo, HoldsTask, Preparing, Executing, Idle, stores, local, cli
  <1>0. /\ WorkReported(w) /\ copy[w] \in TaskRecord
        /\ HoldsTask(w) => cur[w] \in Task
        /\ pc \in [Worker -> Point] /\ cur \in [Worker -> Task \cup {NoTask}]
        /\ copy \in [Worker -> TaskRecord] /\ tasks \in [Task -> TaskRecord]
    BY DEF ReportInv, TypeOK, HandsAgree
  <1>1. CASE Launch(w) \/ ReachMaxTurns(w) \/ FindNothing(w)
    <2>1. /\ pc'[w] \in {"claim", "max-turns", "returned"}
          /\ UNCHANGED <<memory, mail, tasks, draft, cur, copy>>
          /\ \A v \in Worker \ {w} : pc'[v] = pc[v]
      BY <1>0, <1>1 DEF Launch, ReachMaxTurns, FindNothing
    <2>2. WorkReported(w)'
      BY <2>1 DEF WorkReported
    <2>3. QED
      BY <2>1, <2>2, ReportFrame
  <1>2. CASE Claim(w)
    <2> DEFINE agent == Scope[w][scan[w]]
    <2>1. PICK t \in Task :
            /\ NextClaim(tasks, t, agent)
            /\ tasks' = [tasks EXCEPT ![t] = Claimed(tasks[t], agent)]
            /\ cur' = [cur EXCEPT ![w] = t]
            /\ copy' = [copy EXCEPT ![w] = Claimed(tasks[t], agent)]
      BY <1>2 DEF Claim
    <2>2. Claimed(tasks[t], agent).state = "assigned"
      BY <1>0 DEF Claimed, TaskRecord
    <2>3. \A d \in DependsOn[t] : <<"task", d>> \in memory
      BY <2>1, TaskAssumption DEF NextClaim, Claimable, DepsDone, ReportInv, ResultKept
    <2>4. /\ pc' = [pc EXCEPT ![w] = "gate"] /\ UNCHANGED <<memory, mail, draft>>
      BY <1>2 DEF Claim
    <2>5. WorkReported(w)'
      BY <1>0, <2>1, <2>3, <2>4 DEF WorkReported
    <2>6. \A u \in Task : tasks'[u].state = "done" => tasks[u].state = "done"
      BY <1>0, <2>1, <2>2
    <2>7. QED
      BY <1>0, <2>1, <2>4, <2>5, <2>6, ReportFrame
  <1>3. CASE PauseBefore(w) \/ BudgetPause(w) \/ PauseOnComplete(w)
    <2>1. PICK reason \in PauseReason : PauseTask(w, reason)
      BY <1>3, FieldValues DEF PauseBefore, BudgetPause, PauseOnComplete
    <2>2. UNCHANGED <<memory, mail, draft>> /\ cur[w] \in Task
      BY <1>0, <1>3 DEF PauseBefore, BudgetPause, PauseOnComplete
    <2>3. /\ pc'[w] = "claim"
          /\ \A v \in Worker \ {w} : UNCHANGED <<pc[v], cur[v], copy[v]>>
      BY <1>0, <2>1 DEF PauseTask, LetGo
    <2>4. WorkReported(w)'
      BY <2>3 DEF WorkReported
    <2> DEFINE rec == [copy[w] EXCEPT !.state = "paused", !.pause_reason = reason]
    <2>5. tasks' = [tasks EXCEPT ![cur[w]] = rec] /\ rec.state # "done"
      BY <1>0, <2>1 DEF PauseTask, TaskRecord
    <2> HIDE DEF rec
    <2>6. \A u \in Task : tasks'[u].state = "done" => tasks[u].state = "done"
      BY <2>2, <2>5, WrittenState
    <2>7. QED
      BY <2>2, <2>3, <2>4, <2>6, ReportFrame
  <1>4. CASE PassBudget(w) \/ DenyAndPause(w)
    <2>1. /\ pc[w] = "gate" /\ pc'[w] \in {"begin", "pause"}
          /\ UNCHANGED <<memory, mail, tasks, draft, cur, copy>>
          /\ \A v \in Worker \ {w} : pc'[v] = pc[v]
      BY <1>0, <1>4 DEF PassBudget, DenyAndPause
    <2>2. WorkReported(w)'
      BY <1>0, <2>1 DEF WorkReported
    <2>3. QED
      BY <2>1, <2>2, ReportFrame
  <1>5. CASE DenyAndStop(w)
    <2>1. /\ pc'[w] = "budget-hardstop" /\ UNCHANGED <<memory, mail, tasks, draft>>
          /\ \A v \in Worker \ {w} : UNCHANGED <<pc[v], cur[v], copy[v]>>
      BY <1>0, <1>5 DEF DenyAndStop, LetGo
    <2>2. WorkReported(w)'
      BY <2>1 DEF WorkReported
    <2>3. QED
      BY <2>1, <2>2, ReportFrame
  <1>6. CASE Begin(w)
    <2> DEFINE rec == [copy[w] EXCEPT !.state = "in-progress"]
    <2>1. /\ pc[w] = "begin" /\ pc' = [pc EXCEPT ![w] = "turn"] /\ UNCHANGED <<memory, draft, cur>>
          /\ mail' = mail \cup {[kind |-> "assigned", to |-> copy[w].owner, task |-> cur[w]]}
          /\ tasks' = [tasks EXCEPT ![cur[w]] = rec] /\ copy' = [copy EXCEPT ![w] = rec]
      BY <1>6 DEF Begin, Persist
    <2>2. rec.state # "done" /\ rec.owner = copy[w].owner
      BY <1>0 DEF TaskRecord
    <2> HIDE DEF rec
    <2>3. /\ pc'[w] = "turn" /\ copy'[w].owner = copy[w].owner /\ cur[w] \in Task
          /\ \A v \in Worker \ {w} : UNCHANGED <<pc[v], cur[v], copy[v]>>
      BY <1>0, <2>1, <2>2
    <2>4. WorkReported(w)'
      BY <1>0, <2>1, <2>3 DEF WorkReported, Given
    <2>5. \A u \in Task : tasks'[u].state = "done" => tasks[u].state = "done"
      BY <2>1, <2>2, <2>3, WrittenState
    <2>6. QED
      BY <2>1, <2>3, <2>4, <2>5, ReportFrame
  <1>7. CASE BeginReview(w)
    <2> DEFINE rec == [copy[w] EXCEPT !.state = "review"]
    <2>1. /\ pc[w] = "to_review" /\ pc' = [pc EXCEPT ![w] = "review"]
          /\ UNCHANGED <<memory, mail, draft, cur>>
          /\ tasks' = [tasks EXCEPT ![cur[w]] = rec] /\ copy' = [copy EXCEPT ![w] = rec]
      BY <1>7 DEF BeginReview, Persist
    <2>2. rec.state # "done" /\ rec.owner = copy[w].owner
      BY <1>0 DEF TaskRecord
    <2> HIDE DEF rec
    <2>3. /\ pc'[w] = "review" /\ copy'[w].owner = copy[w].owner /\ cur[w] \in Task
          /\ \A v \in Worker \ {w} : UNCHANGED <<pc[v], cur[v], copy[v]>>
      BY <1>0, <2>1, <2>2
    <2>4. WorkReported(w)'
      BY <1>0, <2>1, <2>3 DEF WorkReported, ResultKept, Given
    <2>5. \A u \in Task : tasks'[u].state = "done" => tasks[u].state = "done"
      BY <2>1, <2>2, <2>3, WrittenState
    <2>6. QED
      BY <2>1, <2>3, <2>4, <2>5, ReportFrame
  <1>8. CASE Turn(w)
    <2>1. /\ pc[w] = "turn" /\ UNCHANGED <<tasks, draft, cur, copy>>
          /\ memory' = memory \cup {<<"task", cur[w]>>}
          /\ mail' = IF Lead \in {NoAgent, copy[w].owner} THEN mail
                     ELSE mail \cup {[kind |-> "completed", to |-> Lead, task |-> cur[w]]}
          /\ pc' = [pc EXCEPT ![w] = IF HasReviewer(w) THEN "to_review" ELSE "finish"]
      BY <1>8 DEF Turn
    <2>2. mail \subseteq mail' /\ memory \subseteq memory'
      BY <2>1
    <2>3. Given(cur[w], copy[w].owner)'
      BY <1>0, <2>1, <2>2, KeptStays DEF WorkReported
    <2>4. ResultKept(cur[w])'
      BY <2>1, <2>3 DEF ResultKept, Given
    <2>5. pc'[w] = "finish" => ReviewKept(cur[w])'
      BY <1>0, <2>1, <2>3 DEF HasReviewer, ReviewKept, Given
    <2>6. pc'[w] \in {"to_review", "finish"}
      BY <1>0, <2>1
    <2>7. WorkReported(w)'
      BY <1>0, <2>1, <2>2, <2>3, <2>4, <2>5, <2>6 DEF WorkReported, ResultKept, ReviewKept, Given
    <2>8. QED
      BY <1>0, <2>1, <2>2, <2>7, ReportFrame
  <1>9. CASE Review(w)
    <2>1. /\ pc[w] = "review" /\ pc' = [pc EXCEPT ![w] = "finish"]
          /\ UNCHANGED <<tasks, draft, cur, copy>>
          /\ memory' = memory \cup {<<"review", cur[w]>>} /\ mail \subseteq mail'
      BY <1>9 DEF Review
    <2>2. pc'[w] = "finish" /\ ReviewKept(cur[w])'
      BY <1>0, <2>1 DEF ReviewKept
    <2>3. WorkReported(w)'
      BY <1>0, <2>1, <2>2 DEF WorkReported, ResultKept, Given, ReviewKept
    <2>4. QED
      BY <1>0, <2>1, <2>3, ReportFrame
  <1>10. CASE Finish(w)
    <2> DEFINE rec == [copy[w] EXCEPT !.state = "done"]
    <2>1. /\ pc[w] = "finish" /\ UNCHANGED <<memory, mail, draft>>
          /\ tasks' = [tasks EXCEPT ![cur[w]] = rec]
      BY <1>10 DEF Finish
    <2> HIDE DEF rec
    <2>2. /\ pc'[w] = "claim"
          /\ \A v \in Worker \ {w} : UNCHANGED <<pc[v], cur[v], copy[v]>>
      BY <1>0, <1>10 DEF Finish, LetGo
    <2>3. WorkReported(w)'
      BY <2>2 DEF WorkReported
    <2>4. (ResultKept(cur[w]) /\ ReviewKept(cur[w])) /\ cur[w] \in Task
      BY <1>0, <2>1 DEF WorkReported
    <2>5. ASSUME NEW t \in Task
          PROVE  tasks'[t].state = "done" =>
                   tasks[t].state = "done" \/ (ResultKept(t) /\ ReviewKept(t))'
      <3>1. CASE t = cur[w]
        BY <2>1, <2>4, <3>1 DEF ResultKept, ReviewKept, Given
      <3>2. CASE t # cur[w]
        BY <1>0, <2>1, <3>2
      <3>3. QED
        BY <3>1, <3>2
    <2>6. QED
      BY <2>1, <2>2, <2>3, <2>5, ReportFrame
  <1>11. QED
    BY <1>1, <1>2, <1>3, <1>4, <1>5, <1>6, <1>7, <1>8, <1>9, <1>10 DEF WorkerStep

\* A command that has read a finished task may write it back as finished.
LEMMA ReportHuman ==
  ASSUME TypeOK, ReportInv, NEW h \in Human, HumanStep(h)
  PROVE  ReportInv'
  <1>1. UNCHANGED <<memory, mail, pc, cur, copy>>
    BY DEF HumanStep, ReadRelease, ReadTask, WriteTask, stores, local
  <1>2. \A w \in Worker : WorkReported(w)'
    BY <1>1 DEF ReportInv, WorkReported, ResultKept, ReviewKept, Given, HoldsTask
  <1>3. \A t \in Task : (ResultKept(t) /\ ReviewKept(t))' <=> ResultKept(t) /\ ReviewKept(t)
    BY <1>1 DEF ResultKept, ReviewKept, Given
  <1>4. ASSUME NEW agent \in Agent, ReadRelease(h, agent)
        PROVE  ReportInv'
    <2> DEFINE row == [t \in Task |-> IF t \in PausedOf(agent) THEN Released(tasks[t])
                                     ELSE draft[h][t]]
    <2>1. UNCHANGED tasks /\ draft' = [draft EXCEPT ![h] = row]
      BY <1>4 DEF ReadRelease, stores
    <2>2. \A t \in Task : row[t].state = "done" => draft[h][t].state = "done"
      BY DEF Released, TypeOK, TaskRecord
    <2> HIDE DEF row
    <2>3. \A g \in Human, t \in Task : draft'[g][t].state = "done" => draft[g][t].state = "done"
      BY <2>1, <2>2 DEF TypeOK
    <2>4. QED
      BY <1>2, <1>3, <2>1, <2>3 DEF ReportInv
  <1>5. ASSUME NEW op \in {"retry", "cancel", "assign"}, NEW t \in Task, ReadTask(h, op, t)
        PROVE  ReportInv'
    <2>1. PICK rec \in Edited(op, tasks[t]) : draft' = [draft EXCEPT ![h][t] = rec]
      BY <1>5 DEF ReadTask
    <2>2. rec.state = "done" => tasks[t].state = "done"
      <3>1. tasks[t] \in TaskRecord
        BY DEF TypeOK
      <3>2. CASE op = "retry"
        BY <2>1, <3>1, <3>2 DEF Edited, TaskRecord
      <3>3. CASE op = "cancel"
        BY <2>1, <3>1, <3>3 DEF Edited, TaskRecord
      <3>4. CASE op = "assign"
        BY <2>1, <3>1, <3>4 DEF Edited, TaskRecord
      <3>5. QED
        BY <3>2, <3>3, <3>4
    <2>3. \A g \in Human, u \in Task :
            draft'[g][u].state = "done" => draft[g][u].state = "done" \/ tasks[u].state = "done"
      BY <2>1, <2>2 DEF TypeOK
    <2>4. UNCHANGED tasks
      BY <1>5 DEF ReadTask, stores
    <2>5. QED
      BY <1>2, <1>3, <2>3, <2>4 DEF ReportInv
  <1>6. CASE WriteTask(h)
    <2>1. PICK t \in todo[h] :
            /\ tasks' = [tasks EXCEPT ![t] = draft[h][t]]
            /\ draft' = [draft EXCEPT ![h][t] = Blank]
      BY <1>6 DEF WriteTask
    <2>2. Blank.state # "done" /\ t \in Task
      BY DEF Blank, NewTask, TypeOK
    <2>3. /\ \A u \in Task : tasks'[u].state = "done" =>
               tasks[u].state = "done" \/ draft[h][u].state = "done"
          /\ \A g \in Human, u \in Task : draft'[g][u].state = "done" => draft[g][u].state = "done"
      BY <2>1, <2>2 DEF TypeOK
    <2>4. QED
      BY <1>2, <1>3, <2>3 DEF ReportInv
  <1>7. QED
    BY <1>4, <1>5, <1>6 DEF HumanStep

LEMMA ReportStep == TypeOK /\ HandsAgree /\ ReportInv /\ [Next]_vars => ReportInv'
  <1> SUFFICES ASSUME TypeOK, HandsAgree, ReportInv, [Next]_vars
               PROVE  ReportInv'
    OBVIOUS
  <1>1. ASSUME NEW w \in Worker, Crash(w)
        PROVE  ReportInv'
    <2>1. /\ pc'[w] = "down" /\ UNCHANGED <<memory, mail, tasks, draft>>
          /\ \A v \in Worker \ {w} : UNCHANGED <<pc[v], cur[v], copy[v]>>
      BY <1>1 DEF Crash, GoTo, LetGo, TypeOK, stores, cli
    <2>2. WorkReported(w)'
      BY <2>1 DEF WorkReported, HoldsTask, Preparing, Executing
    <2>3. QED
      BY <2>1, <2>2, ReportFrame
  <1>2. CASE Tick
    <2>1. /\ UNCHANGED <<memory, mail, pc, cur>>
          /\ \A t \in Task : tasks'[t] = Aged(tasks[t])
          /\ \A w \in Worker : copy'[w] = Aged(copy[w])
          /\ \A h \in Human, t \in Task : draft'[h][t] = Aged(draft[h][t])
      BY <1>2 DEF Tick, TypeOK
    <2>2. \A rec \in TaskRecord : Aged(rec).state = rec.state /\ Aged(rec).owner = rec.owner
      BY DEF Aged, TaskRecord
    <2>3. /\ \A t \in Task : tasks'[t].state = tasks[t].state
          /\ \A w \in Worker : copy'[w].owner = copy[w].owner
          /\ \A h \in Human, t \in Task : draft'[h][t].state = draft[h][t].state
      BY <2>1, <2>2 DEF TypeOK
    <2>4. QED
      BY <2>1, <2>3 DEF ReportInv, WorkReported, ResultKept, ReviewKept, Given, HoldsTask
  <1>3. CASE ResetBudget \/ UNCHANGED vars
    <2>1. UNCHANGED <<memory, mail, tasks, draft, pc, cur, copy>>
      BY <1>3 DEF ResetBudget, vars, stores, local, cli
    <2>2. QED
      BY <2>1 DEF ReportInv, WorkReported, ResultKept, ReviewKept, Given, HoldsTask
  <1>4. QED
    BY <1>1, <1>2, <1>3, ReportWorker, ReportHuman DEF Next

LEMMA ReportIsInvariant == Spec => []ReportInv
  <1>1. Init => ReportInv
    <2> SUFFICES ASSUME Init
                 PROVE  ReportInv
      OBVIOUS
    <2>1. \A w \in Worker : WorkReported(w)
      BY DEF Init, WorkReported, HoldsTask, Preparing, Executing
    <2>2. \A owner : NewTask(owner).state = "pending"
      BY DEF NewTask
    <2>3. QED
      BY <2>1, <2>2 DEF Init, ReportInv, Blank
  <1>2. QED
    BY <1>1, ReportStep, TypeCorrect, PTL DEF Spec

\* Whatever the people edit and whoever dies: a task the store calls done has
\* its result in memory, was reviewed, and was reported to the lead.
THEOREM DoneMeansReported == Spec => []DoneIsReported
  <1>1. ReportInv => DoneIsReported
    BY DEF ReportInv, DoneIsReported, ResultKept, ReviewKept, Given
  <1>2. QED
    BY <1>1, ReportIsInvariant, PTL

\* ... and whoever executes a task finds the results it builds on.
THEOREM InputsAreThere == Spec => []InputsReady
  <1>1. ReportInv => InputsReady
    BY DEF ReportInv, WorkReported, InputsReady, Executes, HoldsTask
  <1>2. QED
    BY <1>1, ReportIsInvariant, PTL

-----------------------------------------------------------------------------
(***************************************************************************)
(* Guards, where nobody retries or assigns: both commands change the owner *)
(* of a record and leave its release from the guard behind.  The release   *)
(* is a bit of the record, so it goes wherever the record goes: into the   *)
(* worker's copy, a person's draft, and back.                              *)
(***************************************************************************)
ReleaseOK(t, rec) == rec.guard_released => <<t, rec.owner>> \in approved

GuardedOK(w) ==
  HoldsTask(w) =>
    /\ ReleaseOK(cur[w], copy[w])
    /\ pc[w] \in {"begin", "turn"} => ~StopsBefore(w)

GuardInv ==
  /\ \A t \in Task :
       /\ ReleaseOK(t, tasks[t])
       /\ \A h \in Human : ReleaseOK(t, draft[h][t])
  /\ \A w \in Worker : GuardedOK(w)

OwnersStay == CliOp \cap {"retry", "assign"} = {}

LEMMA BlankNotReleased == ~Blank.guard_released
  BY DEF Blank, NewTask

\* A step of a worker that writes what is released as far as it should.
LEMMA GuardFrame ==
  ASSUME GuardInv, UNCHANGED <<draft, approved>>,
         NEW w \in Worker, GuardedOK(w)',
         \A v \in Worker \ {w} : UNCHANGED <<pc[v], cur[v], copy[v]>>,
         \A t \in Task : ReleaseOK(t, tasks'[t])
  PROVE  GuardInv'
  <1>1. ASSUME NEW v \in Worker \ {w}
        PROVE  GuardedOK(v)'
    BY DEF GuardInv, GuardedOK, ReleaseOK, HoldsTask, StopsBefore
  <1>2. QED
    BY <1>1 DEF GuardInv, ReleaseOK

LEMMA WrittenRelease ==
  ASSUME TypeOK, GuardInv, NEW w \in Worker, cur[w] \in Task, NEW rec,
         tasks' = [tasks EXCEPT ![cur[w]] = rec], ReleaseOK(cur[w], rec)
  PROVE  \A t \in Task : ReleaseOK(t, tasks'[t])
  BY DEF TypeOK, GuardInv

LEMMA GuardWorker ==
  ASSUME TypeOK, HandsAgree, GuardInv, NEW w \in Worker, WorkerStep(w)
  PROVE  GuardInv'
  <1> USE DEF GoTo, HoldsTask, Preparing, Executing, Idle, stores, local, cli
  <1>0. /\ GuardedOK(w) /\ copy[w] \in TaskRecord
        /\ HoldsTask(w) => cur[w] \in Task
        /\ pc \in [Worker -> Point] /\ cur \in [Worker -> Task \cup {NoTask}]
        /\ copy \in [Worker -> TaskRecord] /\ tasks \in [Task -> TaskRecord]
        /\ \A t \in Task : ReleaseOK(t, tasks[t])
    BY DEF GuardInv, TypeOK, HandsAgree
  <1>1. CASE Launch(w) \/ ReachMaxTurns(w) \/ FindNothing(w)
    <2>1. /\ pc'[w] \in {"claim", "max-turns", "returned"}
          /\ UNCHANGED <<tasks, draft, approved, cur, copy>>
          /\ \A v \in Worker \ {w} : pc'[v] = pc[v]
      BY <1>0, <1>1 DEF Launch, ReachMaxTurns, FindNothing
    <2>2. GuardedOK(w)'
      BY <2>1 DEF GuardedOK
    <2>3. QED
      BY <1>0, <2>1, <2>2, GuardFrame
  <1>2. CASE Claim(w)
    <2> DEFINE agent == Scope[w][scan[w]]
    <2>1. PICK t \in Task :
            /\ NextClaim(tasks, t, agent)
            /\ tasks' = [tasks EXCEPT ![t] = Claimed(tasks[t], agent)]
            /\ cur' = [cur EXCEPT ![w] = t]
            /\ copy' = [copy EXCEPT ![w] = Claimed(tasks[t], agent)]
      BY <1>2 DEF Claim
    <2> DEFINE rec == Claimed(tasks[t], agent)
    <2>2. /\ rec.guard_released = tasks[t].guard_released /\ rec.owner = agent
          /\ tasks[t].owner \in {NoAgent, agent}
      BY <1>0, <2>1 DEF Claimed, TaskRecord, NextClaim, Claimable
    <2>3. ReleaseOK(t, rec)
      <3>1. <<t, NoAgent>> \notin approved
        BY AgentAssumption DEF TypeOK
      <3>2. QED
        BY <1>0, <2>2, <3>1 DEF ReleaseOK
    <2>4. pc' = [pc EXCEPT ![w] = "gate"] /\ UNCHANGED <<draft, approved>>
      BY <1>2 DEF Claim
    <2> HIDE DEF rec
    <2>5. /\ pc'[w] = "gate" /\ cur'[w] = t /\ copy'[w] = rec
          /\ \A v \in Worker \ {w} : UNCHANGED <<pc[v], cur[v], copy[v]>>
          /\ \A u \in Task : tasks'[u] = IF u = t THEN rec ELSE tasks[u]
      BY <1>0, <2>1, <2>4 DEF rec
    <2>6. GuardedOK(w)'
      BY <2>3, <2>4, <2>5 DEF GuardedOK, ReleaseOK
    <2>7. \A u \in Task : ReleaseOK(u, tasks'[u])
      BY <1>0, <2>3, <2>5
    <2>8. QED
      BY <2>4, <2>5, <2>6, <2>7, GuardFrame
  <1>3. CASE PauseBefore(w) \/ BudgetPause(w) \/ PauseOnComplete(w)
    <2>1. PICK reason \in PauseReason : PauseTask(w, reason)
      BY <1>3, FieldValues DEF PauseBefore, BudgetPause, PauseOnComplete
    <2>2. UNCHANGED <<draft, approved>> /\ cur[w] \in Task /\ ReleaseOK(cur[w], copy[w])
      BY <1>0, <1>3 DEF PauseBefore, BudgetPause, PauseOnComplete, GuardedOK
    <2>3. /\ pc'[w] = "claim"
          /\ \A v \in Worker \ {w} : UNCHANGED <<pc[v], cur[v], copy[v]>>
      BY <1>0, <2>1 DEF PauseTask, LetGo
    <2>4. GuardedOK(w)'
      BY <2>3 DEF GuardedOK
    <2> DEFINE rec == [copy[w] EXCEPT !.state = "paused", !.pause_reason = reason]
    <2>5. tasks' = [tasks EXCEPT ![cur[w]] = rec]
      BY <2>1 DEF PauseTask
    <2>6. ReleaseOK(cur[w], rec)
      BY <1>0, <2>2 DEF ReleaseOK, TaskRecord
    <2> HIDE DEF rec
    <2>7. \A u \in Task : ReleaseOK(u, tasks'[u])
      BY <2>2, <2>5, <2>6, WrittenRelease
    <2>8. QED
      BY <2>2, <2>3, <2>4, <2>7, GuardFrame
  <1>4. CASE PassBudget(w) \/ DenyAndPause(w) \/ Turn(w) \/ Review(w)
    <2>1. /\ HoldsTask(w) /\ UNCHANGED <<tasks, draft, approved, cur, copy>>
          /\ pc'[w] \in {"begin", "pause", "to_review", "finish"}
          /\ pc'[w] = "begin" => ~StopsBefore(w)
          /\ \A v \in Worker \ {w} : pc'[v] = pc[v]
      BY <1>0, <1>4 DEF PassBudget, DenyAndPause, Turn, Review
    <2>2. GuardedOK(w)'
      BY <1>0, <2>1 DEF GuardedOK, ReleaseOK, StopsBefore
    <2>3. QED
      BY <1>0, <2>1, <2>2, GuardFrame
  <1>5. CASE DenyAndStop(w)
    <2>1. /\ pc'[w] = "budget-hardstop" /\ UNCHANGED <<tasks, draft, approved>>
          /\ \A v \in Worker \ {w} : UNCHANGED <<pc[v], cur[v], copy[v]>>
      BY <1>0, <1>5 DEF DenyAndStop, LetGo
    <2>2. GuardedOK(w)'
      BY <2>1 DEF GuardedOK
    <2>3. QED
      BY <1>0, <2>1, <2>2, GuardFrame
  <1>6. CASE Begin(w) \/ BeginReview(w)
    <2>1. PICK state \in {"in-progress", "review"} : Persist(w, [copy[w] EXCEPT !.state = state])
      BY <1>6 DEF Begin, BeginReview
    <2> DEFINE rec == [copy[w] EXCEPT !.state = state]
    <2>2. rec.owner = copy[w].owner /\ rec.guard_released = copy[w].guard_released
      BY <1>0 DEF TaskRecord
    <2>3. /\ tasks' = [tasks EXCEPT ![cur[w]] = rec] /\ copy' = [copy EXCEPT ![w] = rec]
          /\ UNCHANGED cur
      BY <2>1 DEF Persist
    <2> HIDE DEF rec
    <2>4. /\ HoldsTask(w) /\ UNCHANGED <<draft, approved>>
          /\ pc'[w] = "turn" => pc[w] = "begin"
          /\ \A v \in Worker \ {w} : pc'[v] = pc[v]
      BY <1>0, <1>6 DEF Begin, BeginReview
    <2>5. pc'[w] \in {"turn", "review"}
      BY <1>0, <1>6 DEF Begin, BeginReview
    <2>6. copy'[w] = rec /\ \A v \in Worker \ {w} : copy'[v] = copy[v]
      BY <1>0, <2>3
    <2>7. ReleaseOK(cur[w], rec) /\ cur[w] \in Task
      BY <1>0, <2>2, <2>4 DEF GuardedOK, ReleaseOK
    <2>8. GuardedOK(w)'
      BY <1>0, <2>2, <2>3, <2>4, <2>5, <2>6, <2>7
      DEF GuardedOK, ReleaseOK, StopsBefore, IsAutonomous
    <2>9. \A u \in Task : ReleaseOK(u, tasks'[u])
      BY <2>3, <2>7, WrittenRelease
    <2>10. QED
      BY <2>3, <2>4, <2>6, <2>8, <2>9, GuardFrame
  <1>7. CASE Finish(w)
    <2> DEFINE rec == [copy[w] EXCEPT !.state = "done"]
    <2>1. /\ UNCHANGED <<draft, approved>> /\ tasks' = [tasks EXCEPT ![cur[w]] = rec]
          /\ cur[w] \in Task /\ ReleaseOK(cur[w], copy[w])
      BY <1>0, <1>7 DEF Finish, GuardedOK
    <2>2. ReleaseOK(cur[w], rec)
      BY <1>0, <2>1 DEF ReleaseOK, TaskRecord
    <2> HIDE DEF rec
    <2>3. /\ pc'[w] = "claim"
          /\ \A v \in Worker \ {w} : UNCHANGED <<pc[v], cur[v], copy[v]>>
      BY <1>0, <1>7 DEF Finish, LetGo
    <2>4. GuardedOK(w)'
      BY <2>3 DEF GuardedOK
    <2>5. \A u \in Task : ReleaseOK(u, tasks'[u])
      BY <2>1, <2>2, WrittenRelease
    <2>6. QED
      BY <2>1, <2>3, <2>4, <2>5, GuardFrame
  <1>8. QED
    BY <1>1, <1>2, <1>3, <1>4, <1>5, <1>6, <1>7 DEF WorkerStep

LEMMA GuardHuman ==
  ASSUME OwnersStay, TypeOK, GuardInv, NEW h \in Human, HumanStep(h)
  PROVE  GuardInv'
  <1>1. UNCHANGED <<pc, cur, copy>> /\ approved \subseteq approved'
    BY DEF HumanStep, ReadRelease, ReadTask, WriteTask, local
  <1>2. \A w \in Worker : GuardedOK(w)'
    BY <1>1 DEF GuardInv, GuardedOK, ReleaseOK, HoldsTask, StopsBefore
  <1>3. ASSUME NEW agent \in Agent, ReadRelease(h, agent)
        PROVE  GuardInv'
    <2> DEFINE row == [t \in Task |-> IF t \in PausedOf(agent) THEN Released(tasks[t])
                                     ELSE draft[h][t]]
    <2>1. /\ UNCHANGED tasks /\ draft' = [draft EXCEPT ![h] = row]
          /\ approved' = approved \cup
               {<<t, agent>> : t \in {u \in PausedOf(agent) : IsGuardReason(tasks[u].pause_reason)}}
      BY <1>3 DEF ReadRelease, stores
    <2>2. ASSUME NEW t \in PausedOf(agent)
          PROVE  Released(tasks[t]).guard_released => <<t, Released(tasks[t]).owner>> \in approved'
      <3>1. t \in Task /\ tasks[t] \in TaskRecord /\ tasks[t].owner = agent
        BY DEF PausedOf, TypeOK
      <3>2. /\ Released(tasks[t]).owner = agent
            /\ Released(tasks[t]).guard_released =>
                 tasks[t].guard_released \/ IsGuardReason(tasks[t].pause_reason)
        BY <3>1 DEF Released, TaskRecord
      <3>3. tasks[t].guard_released => <<t, agent>> \in approved
        BY <3>1 DEF GuardInv, ReleaseOK
      <3>4. QED
        BY <2>1, <3>2, <3>3
    <2>3. \A t \in Task : row[t].guard_released => <<t, row[t].owner>> \in approved'
      BY <1>1, <2>2 DEF GuardInv, ReleaseOK
    <2> HIDE DEF row
    <2>4. \A g \in Human, t \in Task :
            draft'[g][t].guard_released => <<t, draft'[g][t].owner>> \in approved'
      BY <1>1, <2>1, <2>3 DEF TypeOK, GuardInv, ReleaseOK
    <2>5. QED
      BY <1>1, <1>2, <2>1, <2>4 DEF GuardInv, ReleaseOK
  <1>4. ASSUME NEW op \in {"retry", "cancel", "assign"}, NEW t \in Task, ReadTask(h, op, t)
        PROVE  GuardInv'
    <2>1. PICK rec \in Edited(op, tasks[t]) : draft' = [draft EXCEPT ![h][t] = rec]
      BY <1>4 DEF ReadTask
    <2>2. op = "cancel" /\ UNCHANGED <<tasks, approved>>
      BY <1>4 DEF ReadTask, OwnersStay, stores
    <2>3. tasks[t] \in TaskRecord /\ rec = [tasks[t] EXCEPT !.state = "cancelled"]
      BY <2>1, <2>2 DEF Edited, TypeOK
    <2>4. ReleaseOK(t, rec)
      BY <2>3 DEF TaskRecord, GuardInv, ReleaseOK
    <2>5. \A g \in Human, u \in Task :
            draft'[g][u] = IF g = h /\ u = t THEN rec ELSE draft[g][u]
      BY <2>1 DEF TypeOK
    <2>6. QED
      BY <1>2, <2>2, <2>4, <2>5 DEF GuardInv, ReleaseOK
  <1>5. CASE WriteTask(h)
    <2>1. PICK t \in todo[h] :
            /\ tasks' = [tasks EXCEPT ![t] = draft[h][t]]
            /\ draft' = [draft EXCEPT ![h][t] = Blank]
      BY <1>5 DEF WriteTask
    <2>2. t \in Task /\ UNCHANGED approved
      BY <1>5 DEF TypeOK, WriteTask
    <2>3. /\ \A u \in Task : tasks'[u] \in {tasks[u], draft[h][u]}
          /\ \A g \in Human, u \in Task : draft'[g][u] \in {draft[g][u], Blank}
      BY <2>1, <2>2 DEF TypeOK
    <2>4. QED
      BY <1>2, <2>2, <2>3, BlankNotReleased DEF GuardInv, ReleaseOK
  <1>6. QED
    BY <1>3, <1>4, <1>5 DEF HumanStep

LEMMA GuardStep == OwnersStay /\ TypeOK /\ HandsAgree /\ GuardInv /\ [Next]_vars => GuardInv'
  <1> SUFFICES ASSUME OwnersStay, TypeOK, HandsAgree, GuardInv, [Next]_vars
               PROVE  GuardInv'
    OBVIOUS
  <1>1. ASSUME NEW w \in Worker, Crash(w)
        PROVE  GuardInv'
    <2>1. /\ pc'[w] = "down" /\ UNCHANGED <<tasks, draft, approved>>
          /\ \A v \in Worker \ {w} : UNCHANGED <<pc[v], cur[v], copy[v]>>
      BY <1>1 DEF Crash, GoTo, LetGo, TypeOK, stores, cli
    <2>2. GuardedOK(w)'
      BY <2>1 DEF GuardedOK, HoldsTask, Preparing, Executing
    <2>3. \A t \in Task : ReleaseOK(t, tasks'[t])
      BY <2>1 DEF GuardInv
    <2>4. QED
      BY <2>1, <2>2, <2>3, GuardFrame
  <1>2. CASE Tick
    <2>1. /\ UNCHANGED <<approved, pc, cur>>
          /\ \A t \in Task : tasks'[t] = Aged(tasks[t])
          /\ \A w \in Worker : copy'[w] = Aged(copy[w])
          /\ \A h \in Human, t \in Task : draft'[h][t] = Aged(draft[h][t])
      BY <1>2 DEF Tick, TypeOK
    <2>2. \A rec \in TaskRecord : /\ Aged(rec).guard_released = rec.guard_released
                                  /\ Aged(rec).owner = rec.owner
      BY DEF Aged, TaskRecord
    <2>3. /\ \A t \in Task : ReleaseOK(t, tasks[t]) => ReleaseOK(t, tasks[t])'
          /\ \A w \in Worker : ReleaseOK(cur[w], copy[w]) => ReleaseOK(cur[w], copy[w])'
          /\ \A h \in Human, t \in Task : ReleaseOK(t, draft[h][t]) => ReleaseOK(t, draft[h][t])'
      BY <2>1, <2>2 DEF TypeOK, ReleaseOK
    <2>4. \A w \in Worker : StopsBefore(w)' <=> StopsBefore(w)
      BY <2>1, <2>2 DEF TypeOK, StopsBefore, IsAutonomous
    <2>5. QED
      BY <2>1, <2>3, <2>4 DEF GuardInv, GuardedOK, HoldsTask
  <1>3. CASE ResetBudget \/ UNCHANGED vars
    <2>1. UNCHANGED <<tasks, draft, approved, pc, cur, copy>>
      BY <1>3 DEF ResetBudget, vars, stores, local, cli
    <2>2. QED
      BY <2>1 DEF GuardInv, GuardedOK, ReleaseOK, HoldsTask, StopsBefore
  <1>4. QED
    BY <1>1, <1>2, <1>3, GuardWorker, GuardHuman DEF Next

\* While nobody retries or assigns, a supervised agent works on a task of a
\* guarded kind only after it was approved for it, however claims overlap,
\* releases race, and leases run out.
THEOREM GuardsHold == OwnersStay => (Spec => []GuardRespected)
  <1> SUFFICES ASSUME OwnersStay
               PROVE  Spec => []GuardRespected
    OBVIOUS
  <1>1. Init => GuardInv
    <2> SUFFICES ASSUME Init
                 PROVE  GuardInv
      OBVIOUS
    <2>1. \A w \in Worker : GuardedOK(w)
      BY DEF Init, GuardedOK, HoldsTask, Preparing, Executing
    <2>2. \A owner : ~NewTask(owner).guard_released
      BY DEF NewTask
    <2>3. QED
      BY <2>1, <2>2, BlankNotReleased DEF Init, GuardInv, ReleaseOK
  <1>2. GuardInv => GuardRespected
    BY DEF GuardInv, GuardedOK, GuardRespected, ReleaseOK, StopsBefore, HoldsTask, Executing
  <1>3. QED
    BY <1>1, <1>2, GuardStep, TypeCorrect, PTL DEF Spec

-----------------------------------------------------------------------------
(***************************************************************************)
(* Money.  A turn is paid for before it begins, and each claim of a task   *)
(* pays again: what was reserved covers the results in memory and the      *)
(* turns still in the workers' hands.                                      *)
(***************************************************************************)
Spending == Limit # NoLimit /\ OnExceed # "warn"

\* The cost of the sets of pairs that have a task in the second place.
CostIn(T) == CHOOSE sum : IsSum(sum, [k \in T |-> Cost[k[2]]], T)

Results == {"task"} \X Task
Turns   == Worker \X Task

Recorded  == {k \in memory : k[1] = "task"}
PaidTurns == {k \in Turns : pc[k[1]] \in {"begin", "turn"} /\ cur[k[1]] = k[2]}

PaidInv ==
  Spending => /\ used <= Limit
              /\ CostIn(Results)[Recorded] + CostIn(Turns)[PaidTurns] <= used

LEMMA CostsAreSums ==
  /\ IsSum(CostIn(Results), [k \in Results |-> Cost[k[2]]], Results)
  /\ IsSum(CostIn(Turns), [k \in Turns |-> Cost[k[2]]], Turns)
  <1>1. IsFiniteSet(Results) /\ IsFiniteSet(Turns)
    BY FS_Product, FS_Singleton, TaskAssumption, CoordinatorAssumption DEF Results, Turns
  <1>2. /\ [k \in Results |-> Cost[k[2]]] \in [Results -> Nat]
        /\ [k \in Turns |-> Cost[k[2]]] \in [Turns -> Nat]
    BY CoordinatorAssumption DEF Results, Turns
  <1> QED
    BY <1>1, <1>2, SumExists DEF CostIn

\* What one more member costs.
LEMMA CostOfOneMore ==
  /\ \A K \in SUBSET Results : CostIn(Results)[K] \in Nat
  /\ \A K \in SUBSET Turns : CostIn(Turns)[K] \in Nat
  /\ CostIn(Results)[{}] = 0 /\ CostIn(Turns)[{}] = 0
  /\ \A K \in SUBSET Results, k \in Results :
       k \notin K => CostIn(Results)[K \cup {k}] = CostIn(Results)[K] + Cost[k[2]]
  /\ \A K \in SUBSET Turns, k \in Turns :
       k \notin K => CostIn(Turns)[K \cup {k}] = CostIn(Turns)[K] + Cost[k[2]]
  BY CostsAreSums DEF IsSum

\* CostOf is that sum.
LEMMA CostOfIsSum ==
  ASSUME NEW K \in SUBSET Results
  PROVE  CostOf(K) = CostIn(Results)[K]
  <1> DEFINE f == [k \in K |-> Cost[k[2]]]
             sum == [S \in SUBSET K |-> CostIn(Results)[S]]
             ofCost(g) == [S \in SUBSET K |->
                             IF S = {} THEN 0
                             ELSE LET k == CHOOSE k \in S : TRUE IN Cost[k[2]] + g[S \ {k}]]
             ofF(g) == [S \in SUBSET K |->
                          IF S = {} THEN 0
                          ELSE LET k == CHOOSE k \in S : TRUE IN f[k] + g[S \ {k}]]
  <1>1. IsFiniteSet(K)
    BY FS_Product, FS_Singleton, FS_Subset, TaskAssumption DEF Results
  <1>2. f \in [K -> Nat]
    BY CoordinatorAssumption DEF Results
  <1>3. IsSum(sum, f, K)
    BY CostOfOneMore DEF IsSum
  <1>4. \A g : ofCost(g) = ofF(g)
    <2>1. \A S \in SUBSET K : S # {} => (CHOOSE k \in S : TRUE) \in K
      OBVIOUS
    <2> QED
      BY <2>1
  <1> HIDE DEF f, sum
  <1>5. \A g : g = ofF(g) <=> g = sum
    BY <1>1, <1>2, <1>3, SumIsRecursive
  <1> HIDE DEF ofCost, ofF
  <1>6. \A g : g = ofCost(g) <=> g = sum
    BY <1>4, <1>5
  <1> USE DEF ofCost
  <1>7. CostOf(K) = sum[K]
    BY <1>6 DEF CostOf
  <1> QED
    BY <1>7 DEF sum

LEMMA PaidFrame ==
  ASSUME TypeOK, TypeOK', PaidInv,
         Spending => /\ used <= used' /\ used' <= Limit
                     /\ CostIn(Results)[Recorded'] + CostIn(Turns)[PaidTurns'] - used'
                        <= CostIn(Results)[Recorded] + CostIn(Turns)[PaidTurns] - used
  PROVE  PaidInv'
  <1>1. Recorded \in SUBSET Results /\ Recorded' \in SUBSET Results
    BY DEF TypeOK, Recorded, Results, MemoryKey
  <1>2. PaidTurns \in SUBSET Turns /\ PaidTurns' \in SUBSET Turns
    BY DEF PaidTurns
  <1>3. Spending => Limit \in Nat /\ used \in Nat /\ used' \in Nat
    BY CoordinatorAssumption DEF TypeOK, Spending
  <1>4. /\ CostIn(Results)[Recorded] \in Nat /\ CostIn(Results)[Recorded'] \in Nat
        /\ CostIn(Turns)[PaidTurns] \in Nat /\ CostIn(Turns)[PaidTurns'] \in Nat
    BY <1>1, <1>2, CostOfOneMore
  <1> QED
    BY <1>3, <1>4 DEF PaidInv, Spending

\* The paid turns after a step of one worker.
LEMMA PaidMoves ==
  ASSUME TypeOK, TypeOK', NEW w \in Worker,
         \A v \in Worker \ {w} : UNCHANGED <<pc[v], cur[v]>>
  PROVE  /\ UNCHANGED <<pc[w], cur[w]>> => UNCHANGED PaidTurns
         /\ pc[w] \notin {"begin", "turn"} /\ pc'[w] \notin {"begin", "turn"} =>
              UNCHANGED PaidTurns
         /\ pc[w] = "begin" /\ pc'[w] = "turn" /\ UNCHANGED cur[w] => UNCHANGED PaidTurns
         /\ pc[w] \notin {"begin", "turn"} /\ pc'[w] \in {"begin", "turn"} /\ cur'[w] \in Task =>
              /\ <<w, cur'[w]>> \in Turns \ PaidTurns
              /\ PaidTurns' = PaidTurns \cup {<<w, cur'[w]>>}
         /\ pc[w] \in {"begin", "turn"} /\ pc'[w] \notin {"begin", "turn"} /\ cur[w] \in Task =>
              /\ <<w, cur[w]>> \in Turns \ PaidTurns'
              /\ PaidTurns = PaidTurns' \cup {<<w, cur[w]>>}
  BY DEF PaidTurns, Turns

LEMMA PaidWorker ==
  ASSUME TypeOK, TypeOK', HandsAgree, PaidInv, NEW w \in Worker, WorkerStep(w) \/ Crash(w)
  PROVE  PaidInv'
  <1> USE DEF GoTo, stores, local, cli
  <1>0. /\ pc[w] \in {"gate", "begin", "turn"} => cur[w] \in Task
        /\ pc \in [Worker -> Point] /\ cur \in [Worker -> Task \cup {NoTask}]
        /\ used \in Nat /\ memory \subseteq MemoryKey
    BY DEF TypeOK, HandsAgree, HoldsTask, Preparing, Executing
  <1>1. CASE PassBudget(w)
    <2>1. /\ pc[w] = "gate" /\ pc'[w] = "begin" /\ UNCHANGED <<cur, memory>>
          /\ \A v \in Worker \ {w} : UNCHANGED pc[v]
          /\ Spending => used' = used + Cost[cur[w]] /\ used' <= Limit
      BY <1>0, <1>1 DEF PassBudget, CanSpend, Spending
    <2>2. /\ <<w, cur[w]>> \in Turns \ PaidTurns
          /\ PaidTurns' = PaidTurns \cup {<<w, cur[w]>>}
      BY <1>0, <2>1, PaidMoves
    <2>3. PaidTurns \in SUBSET Turns /\ Recorded \in SUBSET Results /\ UNCHANGED Recorded
      BY <1>0, <2>1 DEF PaidTurns, Recorded, Results, MemoryKey
    <2>4. CostIn(Turns)[PaidTurns'] = CostIn(Turns)[PaidTurns] + Cost[cur[w]]
      BY <2>2, <2>3, CostOfOneMore
    <2>5. CostIn(Turns)[PaidTurns] \in Nat /\ CostIn(Results)[Recorded] \in Nat /\ Cost[cur[w]] \in Nat
      BY <1>0, <2>1, <2>3, CostOfOneMore, CoordinatorAssumption
    <2> QED
      BY <1>0, <2>1, <2>3, <2>4, <2>5, PaidFrame
  <1>2. CASE Turn(w) \/ (Crash(w) /\ pc[w] \in {"begin", "turn"})
    <2>1. /\ pc[w] \in {"begin", "turn"} /\ pc'[w] \notin {"begin", "turn"} /\ UNCHANGED used
          /\ \A v \in Worker \ {w} : UNCHANGED <<pc[v], cur[v]>>
          /\ Recorded' \subseteq Recorded \cup {<<"task", cur[w]>>} /\ Recorded \subseteq Recorded'
      BY <1>0, <1>2 DEF Turn, Crash, LetGo, Recorded
    <2>2. /\ <<w, cur[w]>> \in Turns \ PaidTurns'
          /\ PaidTurns = PaidTurns' \cup {<<w, cur[w]>>}
      BY <1>0, <2>1, PaidMoves
    <2>3. PaidTurns' \in SUBSET Turns /\ Recorded \in SUBSET Results /\ <<"task", cur[w]>> \in Results
      BY <1>0, <2>1 DEF PaidTurns, Recorded, Results, MemoryKey
    <2>4. CostIn(Turns)[PaidTurns] = CostIn(Turns)[PaidTurns'] + Cost[cur[w]]
      BY <2>2, <2>3, CostOfOneMore
    <2>5. \/ Recorded' = Recorded
          \/ CostIn(Results)[Recorded'] = CostIn(Results)[Recorded] + Cost[cur[w]]
      <3>1. CASE <<"task", cur[w]>> \in Recorded
        BY <2>1, <3>1
      <3>2. CASE <<"task", cur[w]>> \notin Recorded
        <4>1. CostIn(Results)[Recorded \cup {<<"task", cur[w]>>}] =
                CostIn(Results)[Recorded] + Cost[cur[w]]
          BY <2>3, <3>2, CostOfOneMore
        <4> QED
          BY <2>1, <4>1
      <3> QED
        BY <3>1, <3>2
    <2>6. /\ CostIn(Turns)[PaidTurns'] \in Nat /\ CostIn(Results)[Recorded] \in Nat
          /\ Cost[cur[w]] \in Nat
      BY <1>0, <2>1, <2>3, CostOfOneMore, CoordinatorAssumption
    <2> QED
      BY <1>0, <2>1, <2>4, <2>5, <2>6, PaidFrame DEF PaidInv
  <1>3. CASE /\ ~Turn(w) /\ ~PassBudget(w)
             /\ ~(Crash(w) /\ pc[w] \in {"begin", "turn"})
    <2>1. /\ UNCHANGED used
          /\ \A v \in Worker \ {w} : UNCHANGED <<pc[v], cur[v]>>
          /\ \/ pc[w] \notin {"begin", "turn"} /\ pc'[w] \notin {"begin", "turn"}
             \/ pc[w] = "begin" /\ pc'[w] = "turn" /\ UNCHANGED cur[w]
      <3>1. CASE Launch(w) \/ ReachMaxTurns(w) \/ Claim(w) \/ FindNothing(w)
        BY <1>0, <3>1 DEF Launch, ReachMaxTurns, Claim, FindNothing, Idle
      <3>2. CASE PauseBefore(w) \/ BudgetPause(w) \/ PauseOnComplete(w)
        BY <1>0, <3>2 DEF PauseBefore, BudgetPause, PauseOnComplete, PauseTask, LetGo
      <3>3. CASE DenyAndPause(w) \/ DenyAndStop(w) \/ Finish(w) \/ Review(w)
        BY <1>0, <3>3 DEF DenyAndPause, DenyAndStop, Finish, Review, LetGo
      <3>4. CASE Begin(w) \/ BeginReview(w)
        BY <1>0, <3>4 DEF Begin, BeginReview, Persist
      <3>5. CASE Crash(w)
        BY <1>0, <1>3, <3>5 DEF Crash, LetGo
      <3> QED
        BY <1>3, <3>1, <3>2, <3>3, <3>4, <3>5 DEF WorkerStep
    <2>2. memory' \in {memory, memory \cup {<<"review", cur[w]>>}}
      BY <1>3 DEF WorkerStep, Launch, ReachMaxTurns, Claim, FindNothing, PauseBefore,
                  DenyAndPause, DenyAndStop, BudgetPause, Begin, BeginReview, Review,
                  PauseOnComplete, Finish, Crash
    <2>3. UNCHANGED Recorded
      BY <2>2 DEF Recorded
    <2>4. UNCHANGED PaidTurns
      BY <2>1, PaidMoves
    <2> QED
      BY <2>1, <2>3, <2>4 DEF PaidInv, Spending
  <1> QED
    BY <1>1, <1>2, <1>3

LEMMA PaidStep ==
  "reset" \notin CliOp /\ TypeOK /\ HandsAgree /\ PaidInv /\ [Next]_vars /\ TypeOK' => PaidInv'
  <1> SUFFICES ASSUME "reset" \notin CliOp, TypeOK, HandsAgree, PaidInv, [Next]_vars, TypeOK'
               PROVE  PaidInv'
    OBVIOUS
  <1>1. ASSUME NEW h \in Human, HumanStep(h)
        PROVE  UNCHANGED <<memory, used, pc, cur>>
    BY <1>1 DEF HumanStep, ReadRelease, ReadTask, WriteTask, local, stores
  <1>2. CASE Tick \/ UNCHANGED vars
    BY <1>2 DEF Tick, vars, stores, local, PaidInv, Recorded, PaidTurns, Spending
  <1>3. ASSUME UNCHANGED <<memory, used, pc, cur>>
        PROVE  PaidInv'
    BY <1>3 DEF PaidInv, Recorded, PaidTurns, Spending
  <1>4. ~ResetBudget
    BY DEF ResetBudget
  <1> QED
    BY <1>1, <1>2, <1>3, <1>4, PaidWorker DEF Next

\* Until somebody resets the budget, the results in the team's memory have cost
\* no more than its limit, however claims overlap and tasks are retried, and
\* wherever processes die between a reservation and its turn.
THEOREM ResultsStayPaidFor == "reset" \notin CliOp => (Spec => []ResultsArePaidFor)
  <1> SUFFICES ASSUME "reset" \notin CliOp
               PROVE  Spec => []ResultsArePaidFor
    OBVIOUS
  <1>1. Init => PaidInv
    <2> SUFFICES ASSUME Init, Spending
                 PROVE  /\ used <= Limit
                        /\ CostIn(Results)[Recorded] + CostIn(Turns)[PaidTurns] <= used
      BY DEF PaidInv
    <2>1. used = 0 /\ Recorded = {} /\ Limit \in Nat
      BY CoordinatorAssumption DEF Init, Recorded, Spending
    <2>2. PaidTurns = {}
      BY DEF Init, PaidTurns, Turns
    <2> QED
      BY <2>1, <2>2, CostOfOneMore
  <1>2. TypeOK /\ PaidInv => ResultsArePaidFor
    <2> SUFFICES ASSUME TypeOK, PaidInv, Spending
                 PROVE  CostOf(Recorded) <= Limit
      BY DEF ResultsArePaidFor, Recorded, Spending
    <2>1. Recorded \in SUBSET Results /\ PaidTurns \in SUBSET Turns
      BY DEF TypeOK, Recorded, Results, MemoryKey, PaidTurns
    <2>2. CostOf(Recorded) \in Nat /\ CostIn(Turns)[PaidTurns] \in Nat
      BY <2>1, CostOfIsSum, CostOfOneMore
    <2>3. Limit \in Nat /\ used \in Nat
      BY CoordinatorAssumption DEF TypeOK, Spending
    <2> QED
      BY <2>1, <2>2, <2>3, CostOfIsSum DEF PaidInv
  <1>3. TypeOK /\ HandsAgree /\ PaidInv /\ [Next]_vars /\ TypeOK' => PaidInv'
    BY PaidStep
  <1> QED
    BY <1>1, <1>2, <1>3, TypeCorrect, PTL DEF Spec

-----------------------------------------------------------------------------
(***************************************************************************)
(* Under the discipline the claim loop implements the abstract team run,   *)
(* and what is done stays done.  The first part proves each shape of       *)
(* abstract step once, from what a concrete step changes; the second finds *)
(* the shape of every action.                                              *)
(***************************************************************************)
\* The value of the refinement mapping's holder, without its CHOOSE.
HolderFacts ==
  /\ \A w \in Worker, t \in Task : Executes(w, t) => HolderMap[t] = w
  /\ \A t \in Task : (\A w \in Worker : ~Executes(w, t)) => HolderMap[t] = NoWorker

LEMMA HolderIsUnique == ClaimInv => HolderFacts
  <1> SUFFICES ASSUME ClaimInv
               PROVE  HolderFacts
    OBVIOUS
  <1>1. ASSUME NEW w \in Worker, NEW t \in Task, Executes(w, t)
        PROVE  HolderMap[t] = w
    <2>1. HolderMap[t] \in Worker /\ Executes(HolderMap[t], t)
      BY <1>1 DEF HolderMap
    <2>2. QED
      BY <1>1, <2>1 DEF ClaimInv, HeldByOne, Executes, HoldsTask
  <1>2. ASSUME NEW t \in Task, \A w \in Worker : ~Executes(w, t)
        PROVE  HolderMap[t] = NoWorker
    BY <1>2 DEF HolderMap
  <1>3. QED
    BY <1>1, <1>2 DEF HolderFacts

\* A held task's stored state tells how far its worker is.
LEMMA HeldState ==
  ASSUME TypeOK, ClaimInv, NEW w \in Worker, HoldsTask(w)
  PROVE  /\ cur[w] \in Task
         /\ copy[w] = tasks[cur[w]]
         /\ tasks[cur[w]].state \in StatesAt(pc[w])
         /\ tasks[cur[w]].state \in {"assigned", "in-progress", "review"}
         /\ DepsDone(tasks, cur[w])
  <1>1. cur[w] \in Task /\ copy[w] = tasks[cur[w]] /\ copy[w].state \in StatesAt(pc[w])
    BY DEF ClaimInv, HandsAgree, HeldIsCurrent, TypeOK
  <1>2. copy[w].state \in {"assigned", "in-progress", "review"}
    BY <1>1 DEF StatesAt, HoldsTask, Preparing, Executing
  <1>3. QED
    BY <1>1, <1>2 DEF ClaimInv, StartedIsReady

-----------------------------------------------------------------------------
(***************************************************************************)
(* The shapes of an abstract step.                                         *)
(***************************************************************************)
LEMMA QuietStep ==
  ASSUME HolderFacts, HolderFacts',
         \A t \in Task : StatusOf(tasks'[t].state) = StatusOf(tasks[t].state),
         \A w \in Worker, t \in Task : Executes(w, t)' <=> Executes(w, t)
  PROVE  UNCHANGED Abstract!vars
  <1>1. StatusMap' = StatusMap
    BY DEF StatusMap
  <1>2. ASSUME NEW t \in Task
        PROVE  HolderMap'[t] = HolderMap[t]
    BY DEF HolderFacts
  <1>3. HolderMap' = HolderMap
    BY <1>2 DEF HolderMap
  <1>4. QED
    BY <1>1, <1>3 DEF Abstract!vars

LEMMA StartStep ==
  ASSUME HolderFacts, HolderFacts', NEW w \in Worker, NEW t \in Task,
         tasks[t].state = "assigned", tasks'[t].state = "in-progress",
         DepsDone(tasks, t),
         \A u \in Task \ {t} : tasks'[u].state = tasks[u].state,
         \A u \in Task : ~Executes(w, u) /\ (Executes(w, u)' <=> u = t),
         \A v \in Worker \ {w}, u \in Task : Executes(v, u)' <=> Executes(v, u),
         \A v \in Worker : ~Executes(v, t)
  PROVE  Abstract!Next
  <1>1. StatusMap[t] = "open" /\ StatusMap' = [StatusMap EXCEPT ![t] = "running"]
    BY DEF StatusMap, StatusOf
  <1>2. \A d \in DependsOn[t] : StatusMap[d] = "done"
    BY TaskAssumption DEF StatusMap, StatusOf, DepsDone
  <1>3. ASSUME NEW u \in Task
        PROVE  HolderMap[u] # w
    <2>1. CASE \E v \in Worker : Executes(v, u)
      BY <2>1 DEF HolderFacts
    <2>2. CASE \A v \in Worker : ~Executes(v, u)
      BY <2>2, NoWorkerAssumption DEF HolderFacts
    <2>3. QED
      BY <2>1, <2>2
  <1>4. HolderMap'[t] = w
    BY DEF HolderFacts
  <1>5. \A u \in Task \ {t} : HolderMap'[u] = HolderMap[u]
    BY DEF HolderFacts
  <1>6. HolderMap' = [HolderMap EXCEPT ![t] = w]
    BY <1>4, <1>5 DEF HolderMap
  <1>7. Abstract!Start(w, t)
    BY <1>1, <1>2, <1>3, <1>6 DEF Abstract!Start
  <1>8. QED
    BY <1>7 DEF Abstract!Next

LEMMA EndStep ==
  ASSUME HolderFacts, HolderFacts', NEW w \in Worker, NEW t \in Task, Executes(w, t),
         \/ tasks'[t].state \in {"done", "paused"}
         \/ tasks'[t].state = tasks[t].state,
         \A u \in Task \ {t} : tasks'[u].state = tasks[u].state,
         \A u \in Task : ~Executes(w, u)',
         \A u \in Task \ {t} : ~Executes(w, u),
         \A v \in Worker \ {w} : ~Executes(v, t),
         \A v \in Worker \ {w}, u \in Task : Executes(v, u)' <=> Executes(v, u)
  PROVE  Abstract!Next
  <1>1. HolderMap[t] = w /\ HolderMap'[t] = NoWorker
    BY DEF HolderFacts
  <1>2. \A u \in Task \ {t} : HolderMap'[u] = HolderMap[u]
    BY DEF HolderFacts
  <1>3. HolderMap' = [HolderMap EXCEPT ![t] = NoWorker]
    BY <1>1, <1>2 DEF HolderMap
  <1>4. CASE tasks'[t].state = "done"
    <2>1. StatusMap' = [StatusMap EXCEPT ![t] = "done"]
      BY <1>4 DEF StatusMap, StatusOf
    <2>2. Abstract!Finish(w, t)
      BY <1>1, <1>3, <2>1 DEF Abstract!Finish
    <2>3. QED
      BY <2>2 DEF Abstract!Next
  <1>5. CASE tasks'[t].state = "paused"
    <2>1. StatusMap' = [StatusMap EXCEPT ![t] = "parked"]
      BY <1>5 DEF StatusMap, StatusOf
    <2>2. Abstract!ParkAfter(w, t)
      BY <1>1, <1>3, <2>1 DEF Abstract!ParkAfter
    <2>3. QED
      BY <2>2 DEF Abstract!Next
  <1>6. CASE tasks'[t].state = tasks[t].state
    <2>1. StatusMap' = StatusMap
      BY <1>6 DEF StatusMap
    <2>2. Abstract!Orphan(w, t)
      BY <1>1, <1>3, <2>1 DEF Abstract!Orphan
    <2>3. QED
      BY <2>2 DEF Abstract!Next
  <1>7. QED
    BY <1>4, <1>5, <1>6

\* A task that no worker executes is parked or released.
LEMMA ParkStep ==
  ASSUME HolderFacts, HolderFacts', NEW t \in Task,
         \/ /\ tasks[t].state = "assigned" /\ tasks'[t].state = "paused"
            /\ DepsDone(tasks, t)
         \/ tasks[t].state = "paused" /\ tasks'[t].state = "pending",
         \A u \in Task \ {t} : tasks'[u].state = tasks[u].state,
         \A w \in Worker, u \in Task : Executes(w, u)' <=> Executes(w, u)
  PROVE  Abstract!Next
  <1>1. \A u \in Task : HolderMap'[u] = HolderMap[u]
    BY DEF HolderFacts
  <1>2. HolderMap' = HolderMap
    BY <1>1 DEF HolderMap
  <1>3. CASE tasks[t].state = "assigned"
    <2>1. StatusMap[t] = "open" /\ StatusMap' = [StatusMap EXCEPT ![t] = "parked"]
      BY <1>3 DEF StatusMap, StatusOf
    <2>2. \A d \in DependsOn[t] : StatusMap[d] = "done"
      BY <1>3, TaskAssumption DEF StatusMap, StatusOf, DepsDone
    <2>3. Abstract!ParkBefore(t)
      BY <1>2, <2>1, <2>2 DEF Abstract!ParkBefore
    <2>4. QED
      BY <2>3 DEF Abstract!Next
  <1>4. CASE tasks[t].state = "paused"
    <2>1. StatusMap[t] = "parked" /\ StatusMap' = [StatusMap EXCEPT ![t] = "open"]
      BY <1>4 DEF StatusMap, StatusOf
    <2>2. Abstract!Release(t)
      BY <1>2, <2>1 DEF Abstract!Release
    <2>3. QED
      BY <2>2 DEF Abstract!Next
  <1>5. QED
    BY <1>3, <1>4

-----------------------------------------------------------------------------
(***************************************************************************)
(* The shape of every action.                                              *)
(***************************************************************************)
LEMMA WorkerImplements ==
  ASSUME TypeOK, ClaimInv, HolderFacts, HolderFacts', NEW w \in Worker, WorkerStep(w)
  PROVE  Abstract!Next \/ UNCHANGED Abstract!vars
  <1> USE DEF TypeOK, GoTo
  <1>0. \A v \in Worker \ {w}, u \in Task :
          pc'[v] = pc[v] /\ cur'[v] = cur[v] => (Executes(v, u)' <=> Executes(v, u))
    BY DEF Executes
  <1>1. CASE Launch(w) \/ ReachMaxTurns(w) \/ FindNothing(w)
    <2>1. UNCHANGED <<tasks, cur>>
      BY <1>1 DEF Launch, ReachMaxTurns, FindNothing, stores
    <2>2. \A v \in Worker, u \in Task : Executes(v, u)' <=> Executes(v, u)
      BY <1>1, <2>1 DEF Launch, ReachMaxTurns, FindNothing, Executes, Executing, Idle
    <2>3. QED
      BY <2>1, <2>2, QuietStep
  <1>2. CASE Claim(w)
    <2> DEFINE agent == Scope[w][scan[w]]
    <2>1. PICK t \in Task :
            /\ NextClaim(tasks, t, agent)
            /\ tasks' = [tasks EXCEPT ![t] = Claimed(tasks[t], agent)]
            /\ cur' = [cur EXCEPT ![w] = t]
      BY <1>2 DEF Claim
    <2>2. tasks[t].state \in {"pending", "assigned"}
      BY <2>1 DEF NextClaim, Claimable, Stale
    <2>3. tasks'[t].state = "assigned"
      BY <2>1 DEF Claimed, TaskRecord
    <2>4. \A u \in Task : StatusOf(tasks'[u].state) = StatusOf(tasks[u].state)
      BY <2>1, <2>2, <2>3 DEF StatusOf
    <2>5. pc[w] = "claim" /\ pc' = [pc EXCEPT ![w] = "gate"]
      BY <1>2 DEF Claim
    <2>6. \A v \in Worker, u \in Task : Executes(v, u)' <=> Executes(v, u)
      BY <2>1, <2>5 DEF Executes, Executing
    <2>7. QED
      BY <2>4, <2>6, QuietStep
  <1>3. CASE PassBudget(w) \/ DenyAndPause(w) \/ DenyAndStop(w)
    <2>1. UNCHANGED tasks
      BY <1>3 DEF PassBudget, DenyAndPause, DenyAndStop, stores
    <2>2. \A v \in Worker, u \in Task : Executes(v, u)' <=> Executes(v, u)
      BY <1>3 DEF PassBudget, DenyAndPause, DenyAndStop, LetGo, Executes, Executing
    <2>3. QED
      BY <2>1, <2>2, QuietStep
  <1>4. CASE Turn(w) \/ Review(w)
    <2>1. UNCHANGED <<tasks, cur>>
      BY <1>4 DEF Turn, Review
    <2>2. \A v \in Worker, u \in Task : Executes(v, u)' <=> Executes(v, u)
      BY <1>4, <2>1 DEF Turn, Review, Executes, Executing
    <2>3. QED
      BY <2>1, <2>2, QuietStep
  <1>5. CASE BeginReview(w)
    <2>1. HoldsTask(w)
      BY <1>5 DEF BeginReview, HoldsTask, Executing
    <2>2. /\ cur[w] \in Task /\ tasks[cur[w]].state = "in-progress"
          /\ tasks' = [tasks EXCEPT ![cur[w]] = [copy[w] EXCEPT !.state = "review"]]
      BY <1>5, <2>1, HeldState DEF BeginReview, Persist, StatesAt, Preparing
    <2>3. tasks'[cur[w]].state = "review" /\ \A u \in Task \ {cur[w]} : tasks'[u] = tasks[u]
      BY <2>2 DEF TaskRecord
    <2>4. \A u \in Task : StatusOf(tasks'[u].state) = StatusOf(tasks[u].state)
      BY <2>2, <2>3 DEF StatusOf
    <2>5. \A v \in Worker, u \in Task : Executes(v, u)' <=> Executes(v, u)
      BY <1>5 DEF BeginReview, Persist, Executes, Executing
    <2>6. QED
      BY <2>4, <2>5, QuietStep
  <1>6. CASE PauseBefore(w) \/ BudgetPause(w)
    <2>1. HoldsTask(w) /\ pc[w] \in Preparing /\ \E reason \in PauseReason : PauseTask(w, reason)
      BY <1>6, FieldValues DEF PauseBefore, BudgetPause, HoldsTask, Preparing
    <2>2. /\ cur[w] \in Task /\ tasks[cur[w]].state = "assigned"
          /\ DepsDone(tasks, cur[w])
      <3>1. StatesAt(pc[w]) = {"assigned"}
        BY <2>1 DEF StatesAt, Preparing
      <3>2. QED
        BY <2>1, <3>1, HeldState
    <2>3. tasks'[cur[w]].state = "paused" /\ \A u \in Task \ {cur[w]} : tasks'[u] = tasks[u]
      BY <2>1, <2>2 DEF PauseTask, TaskRecord
    <2>4. \A v \in Worker, u \in Task : Executes(v, u)' <=> Executes(v, u)
      BY <2>1 DEF PauseTask, LetGo, Executes, Executing, Preparing
    <2>5. QED
      BY <2>2, <2>3, <2>4, ParkStep
  <1>7. CASE Begin(w)
    <2> DEFINE t == cur[w]
    <2>1. HoldsTask(w) /\ pc[w] = "begin"
      BY <1>7 DEF Begin, HoldsTask, Preparing
    <2>2. t \in Task /\ tasks[t].state = "assigned" /\ DepsDone(tasks, t)
      BY <2>1, HeldState DEF StatesAt, Preparing
    <2>3. /\ tasks' = [tasks EXCEPT ![t] = [copy[w] EXCEPT !.state = "in-progress"]]
          /\ UNCHANGED cur /\ pc' = [pc EXCEPT ![w] = "turn"]
      BY <1>7 DEF Begin, Persist
    <2>4. tasks'[t].state = "in-progress" /\ \A u \in Task \ {t} : tasks'[u] = tasks[u]
      BY <2>2, <2>3 DEF TaskRecord
    <2>5. \A u \in Task : ~Executes(w, u) /\ (Executes(w, u)' <=> u = t)
      BY <2>1, <2>3 DEF Executes, Executing
    <2>6. \A v \in Worker \ {w}, u \in Task : Executes(v, u)' <=> Executes(v, u)
      BY <1>0, <2>3
    <2>7. \A v \in Worker : ~Executes(v, t)
      BY <2>1, <2>5, <2>2 DEF ClaimInv, HeldByOne, Executes, HoldsTask
    <2> HIDE DEF t
    <2>8. QED
      BY <2>2, <2>4, <2>5, <2>6, <2>7, StartStep
  <1>8. CASE PauseOnComplete(w) \/ Finish(w)
    <2> DEFINE t == cur[w]
    <2>1. HoldsTask(w) /\ pc[w] = "finish" /\ Executes(w, t)
      BY <1>8 DEF PauseOnComplete, Finish, HoldsTask, Executes, Executing
    <2>2. t \in Task
      BY <2>1, HeldState
    <2>3. LetGo(w) /\ pc' = [pc EXCEPT ![w] = "claim"]
      BY <1>8 DEF PauseOnComplete, Finish, PauseTask
    <2>4. tasks'[t].state \in {"done", "paused"} /\ \A u \in Task \ {t} : tasks'[u] = tasks[u]
      <3>1. CASE PauseOnComplete(w)
        BY <3>1, <2>2 DEF PauseOnComplete, PauseTask, TaskRecord
      <3>2. CASE Finish(w)
        BY <3>2, <2>2 DEF Finish, TaskRecord
      <3>3. QED
        BY <1>8, <3>1, <3>2
    <2>5. \A u \in Task : ~Executes(w, u)' /\ (Executes(w, u) => u = t)
      BY <2>3 DEF Executes, Executing
    <2>6. \A v \in Worker \ {w}, u \in Task : Executes(v, u)' <=> Executes(v, u)
      BY <1>0, <2>3 DEF LetGo
    <2>7. \A v \in Worker \ {w} : ~Executes(v, t)
      BY <2>1, <2>2 DEF ClaimInv, HeldByOne, Executes, HoldsTask
    <2> HIDE DEF t
    <2>8. QED
      BY <2>1, <2>2, <2>4, <2>5, <2>6, <2>7, EndStep
  <1>9. QED
    BY <1>1, <1>2, <1>3, <1>4, <1>5, <1>6, <1>7, <1>8 DEF WorkerStep

LEMMA CrashImplements ==
  ASSUME TypeOK, ClaimInv, HolderFacts, HolderFacts', NEW w \in Worker, Crash(w)
  PROVE  Abstract!Next \/ UNCHANGED Abstract!vars
  <1> DEFINE t == cur[w]
  <1>1. UNCHANGED tasks /\ LetGo(w) /\ pc' = [pc EXCEPT ![w] = "down"]
    BY DEF Crash, stores, GoTo
  <1>2. \A u \in Task : ~Executes(w, u)' /\ (Executes(w, u) => u = t)
    BY <1>1 DEF Executes, Executing, TypeOK
  <1>3. \A v \in Worker \ {w}, u \in Task : Executes(v, u)' <=> Executes(v, u)
    BY <1>1 DEF LetGo, Executes, TypeOK
  <1>4. CASE pc[w] \in Executing
    <2>1. HoldsTask(w) /\ Executes(w, t)
      BY <1>4 DEF HoldsTask, Executes
    <2>2. t \in Task
      BY <2>1, HeldState
    <2>3. \A v \in Worker \ {w} : ~Executes(v, t)
      BY <2>1, <2>2 DEF ClaimInv, HeldByOne, Executes, HoldsTask
    <2> HIDE DEF t
    <2>4. QED
      BY <1>1, <1>2, <1>3, <2>1, <2>2, <2>3, EndStep
  <1>5. CASE pc[w] \notin Executing
    <2>1. \A v \in Worker, u \in Task : Executes(v, u)' <=> Executes(v, u)
      BY <1>2, <1>3, <1>5 DEF Executes
    <2>2. QED
      BY <1>1, <2>1, QuietStep
  <1>6. QED
    BY <1>4, <1>5

LEMMA HumanImplements ==
  ASSUME TypeOK, ClaimInv, HolderFacts, HolderFacts', NEW h \in Human, HumanStep(h)
  PROVE  Abstract!Next \/ UNCHANGED Abstract!vars
  <1>1. UNCHANGED <<pc, cur>>
    BY DEF HumanStep, ReadRelease, ReadTask, WriteTask, local
  <1>2. \A v \in Worker, u \in Task : Executes(v, u)' <=> Executes(v, u)
    BY <1>1 DEF Executes
  <1>3. CASE UNCHANGED tasks
    BY <1>2, <1>3, QuietStep
  <1>4. CASE WriteTask(h)
    <2>1. PICK t \in todo[h] : tasks' = [tasks EXCEPT ![t] = draft[h][t]]
      BY <1>4 DEF WriteTask
    <2>2. t \in Task
      BY DEF TypeOK
    <2>3. /\ tasks[t].state = "paused" /\ tasks'[t].state = "pending"
          /\ \A u \in Task \ {t} : tasks'[u] = tasks[u]
      BY <2>1, <2>2 DEF ClaimInv, EditsArePaused, TypeOK
    <2>4. QED
      BY <1>2, <2>2, <2>3, ParkStep
  <1>5. QED
    BY <1>3, <1>4 DEF HumanStep, ReadRelease, ReadTask, stores

LEMMA TickKeepsStates ==
  ASSUME TypeOK, Tick
  PROVE  \A t \in Task : tasks'[t].state = tasks[t].state
  BY DEF Tick, Aged, TypeOK, TaskRecord

LEMMA StepImplements ==
  TypeOK /\ ClaimInv /\ HolderFacts /\ HolderFacts' /\ [Next]_vars
    => [Abstract!Next]_(Abstract!vars)
  <1> SUFFICES ASSUME TypeOK, ClaimInv, HolderFacts, HolderFacts', [Next]_vars
               PROVE  Abstract!Next \/ UNCHANGED Abstract!vars
    OBVIOUS
  <1>1. CASE Tick
    <2>1. \A w \in Worker, t \in Task : Executes(w, t)' <=> Executes(w, t)
      BY <1>1 DEF Tick, Executes
    <2>2. QED
      BY <1>1, <2>1, TickKeepsStates, QuietStep
  <1>2. CASE ResetBudget \/ UNCHANGED vars
    <2>1. UNCHANGED <<tasks, pc, cur>>
      BY <1>2 DEF ResetBudget, vars, stores, local
    <2>2. \A w \in Worker, t \in Task : Executes(w, t)' <=> Executes(w, t)
      BY <2>1 DEF Executes
    <2>3. QED
      BY <2>1, <2>2, QuietStep
  <1>3. QED
    BY <1>1, <1>2, WorkerImplements, CrashImplements, HumanImplements DEF Next

LEMMA InitImplements == Init => Abstract!Init
  <1> SUFFICES ASSUME Init
               PROVE  Abstract!Init
    OBVIOUS
  <1>1. \A w \in Worker, t \in Task : ~Executes(w, t)
    BY DEF Init, Executes, Executing
  <1>2. \A t \in Task : tasks[t].state = "pending"
    BY DEF Init, NewTask
  <1>3. QED
    BY <1>1, <1>2 DEF Abstract!Init, StatusMap, HolderMap, StatusOf

\* Under the discipline the claim loop, with its leases, copies, guards, budget,
\* crashes and restarts, is a team run: tasks are executed one at a time by one
\* process, in dependency order, and end only once.
THEOREM TeamRunIsImplemented == Disciplined => (Spec /\ []Apart => ImplementsTeamRun)
  <1> SUFFICES ASSUME Disciplined
               PROVE  Spec /\ []Apart => ImplementsTeamRun
    OBVIOUS
  <1>1. Init => Abstract!Init
    BY InitImplements
  <1>2. TypeOK /\ ClaimInv /\ HolderFacts /\ HolderFacts' /\ [Next]_vars
          => [Abstract!Next]_(Abstract!vars)
    BY StepImplements
  <1>3. ClaimInv => HolderFacts
    BY HolderIsUnique
  <1>4. Spec => []TypeOK
    BY TypeCorrect, PTL
  <1>5. Spec /\ []Apart => []ClaimInv
    BY ClaimsAreCovered, PTL
  <1>6. QED
    BY <1>1, <1>2, <1>3, <1>4, <1>5, PTL DEF Spec, ImplementsTeamRun, Abstract!Spec

-----------------------------------------------------------------------------
(***************************************************************************)
(* What is done stays done.                                                *)
(***************************************************************************)
LEMMA DoneStep ==
  TypeOK /\ ClaimInv /\ [Next]_vars
    => \A t \in Task : tasks[t].state = "done" => tasks'[t].state = "done"
  <1> SUFFICES ASSUME TypeOK, ClaimInv, [Next]_vars, NEW t \in Task, tasks[t].state = "done"
               PROVE  tasks'[t].state = "done"
    OBVIOUS
  <1>1. ASSUME NEW w \in Worker, WorkerStep(w)
        PROVE  tasks'[t].state = "done"
    <2>1. CASE HoldsTask(w)
      <3>1. t # cur[w]
        BY <2>1, HeldState
      <3>2. tasks' = tasks \/ \E rec : tasks' = [tasks EXCEPT ![cur[w]] = rec]
        BY <1>1, <2>1
        DEF WorkerStep, Launch, ReachMaxTurns, Claim, FindNothing, PauseBefore, PassBudget,
            DenyAndPause, DenyAndStop, BudgetPause, Begin, Turn, BeginReview, Review,
            PauseOnComplete, Finish, PauseTask, Persist, stores,
            HoldsTask, Preparing, Executing, Idle
      <3>3. QED
        BY <3>1, <3>2 DEF TypeOK
    <2>2. CASE Claim(w)
      BY <2>2 DEF Claim, NextClaim, Claimable, Stale, TypeOK
    <2>3. CASE ~HoldsTask(w) /\ ~Claim(w)
      BY <1>1, <2>3
      DEF WorkerStep, Launch, ReachMaxTurns, FindNothing, PauseBefore, PassBudget,
          DenyAndPause, DenyAndStop, BudgetPause, Begin, Turn, BeginReview, Review,
          PauseOnComplete, Finish, stores, HoldsTask, Preparing, Executing
    <2>4. QED
      BY <2>1, <2>2, <2>3
  <1>2. ASSUME NEW h \in Human, HumanStep(h)
        PROVE  tasks'[t].state = "done"
    <2>1. CASE WriteTask(h)
      BY <2>1 DEF WriteTask, ClaimInv, EditsArePaused, TypeOK
    <2>2. QED
      BY <1>2, <2>1 DEF HumanStep, ReadRelease, ReadTask, stores
  <1>3. CASE Tick
    BY <1>3, TickKeepsStates
  <1>4. ASSUME NEW w \in Worker, Crash(w)
        PROVE  tasks'[t].state = "done"
    BY <1>4 DEF Crash, stores
  <1>5. CASE ResetBudget \/ UNCHANGED vars
    BY <1>5 DEF ResetBudget, vars, stores
  <1>6. QED
    BY <1>1, <1>2, <1>3, <1>4, <1>5 DEF Next

\* Under the discipline no stale copy, claim or edit undoes a finished task.
THEOREM DoneStaysDone == Disciplined => (Spec /\ []Apart => DoneIsFinal)
  <1> SUFFICES ASSUME Disciplined
               PROVE  Spec /\ []Apart => DoneIsFinal
    OBVIOUS
  <1>1. TypeOK /\ ClaimInv /\ [Next]_vars
          => [\A t \in Task : tasks[t].state = "done" => tasks'[t].state = "done"]_vars
    BY DoneStep
  <1>2. Spec => []TypeOK
    BY TypeCorrect, PTL
  <1>3. Spec /\ []Apart => []ClaimInv
    BY ClaimsAreCovered, PTL
  <1>4. QED
    BY <1>1, <1>2, <1>3, PTL DEF Spec, DoneIsFinal
=============================================================================
