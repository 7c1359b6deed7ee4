------------------------------- MODULE Tasks -------------------------------
(***************************************************************************)
(* The task record of KARO's durable work layer (stores/base.py) and the   *)
(* rule by which a store picks the next task an agent may claim            *)
(* (stores/file.py and stores/postgres.py implement the same rule).  The   *)
(* module has no state: the modules that hold tasks extend it.             *)
(*                                                                         *)
(* A lease is an absolute time in the code, compared with time.time().     *)
(* Here it is the time it has left: LeaseTTL when granted, one less at     *)
(* every tick of the clock, and 0 once `lease < now' holds.                *)
(***************************************************************************)
EXTENDS Integers, FiniteSets

CONSTANTS
  Agent,         \* the names in spec.agents
  NoAgent,       \* None, where the name of an agent may stand
  Task,          \* the task ids: numbers in the order of Task.created
  DependsOn,     \* [Task -> SUBSET Task]: Task.depends_on
  PlannedOwner,  \* [Task -> Agent or NoAgent]: Task.owner as planned
  Reviewer,      \* [Task -> Agent or NoAgent]: Task.reviewer
  LeaseTTL       \* ticks from the grant of a lease to its expiry

ASSUME AgentAssumption == NoAgent \notin Agent

ASSUME TaskAssumption ==
  /\ Task \subseteq Nat \ {0} /\ IsFiniteSet(Task)
  /\ DependsOn \in [Task -> SUBSET Task]
  /\ PlannedOwner \in [Task -> Agent \cup {NoAgent}]
  /\ Reviewer \in [Task -> Agent \cup {NoAgent}]

ASSUME LeaseAssumption == LeaseTTL \in Nat \ {0}

Owner == Agent \cup {NoAgent}

TaskState ==
  {"pending", "assigned", "in-progress", "blocked", "review", "paused",
   "done", "failed", "cancelled"}

TerminalState == {"done", "failed", "cancelled"}

PauseReason == {"none", "guard:pauseBefore", "guard:pauseOn", "budget"}

IsGuardReason(reason) == reason \in {"guard:pauseBefore", "guard:pauseOn"}

NoLease == -1

Lease == {NoLease} \cup 0..LeaseTTL

TaskRecord ==
  [state          : TaskState,
   owner          : Owner,
   lease          : Lease,
   guard_released : BOOLEAN,
   pause_reason   : PauseReason]

NewTask(owner) ==
  [state          |-> "pending",
   owner          |-> owner,
   lease          |-> NoLease,
   guard_released |-> FALSE,
   pause_reason   |-> "none"]

(***************************************************************************)
(* The claim rule over a table of task records.                            *)
(***************************************************************************)
\* The mutants of a definition stand before it: bugs the properties must catch.
StaleAtOnce(rec)      == rec.state = "assigned"
StaleInProgress(rec)  == rec.state \in {"assigned", "in-progress"} /\ rec.lease = 0
StaleInAnyState(rec)  == rec.lease = 0
StaleWithoutLease(rec) == rec.state = "assigned" /\ rec.lease = NoLease

Stale(rec) == rec.state = "assigned" /\ rec.lease = 0

SomeDepDone(table, t) ==
  DependsOn[t] = {} \/ \E d \in DependsOn[t] : table[d].state = "done"

DepsDone(table, t) == \A d \in DependsOn[t] : table[d].state = "done"

Claimable(table, t, agent) ==
  /\ table[t].state = "pending" \/ Stale(table[t])
  /\ table[t].owner \in {NoAgent, agent}
  /\ DepsDone(table, t)

\* The oldest task the agent may claim: a store walks the tasks by `created'.
NextClaim(table, t, agent) ==
  /\ Claimable(table, t, agent)
  /\ \A u \in Task : Claimable(table, u, agent) => t <= u

NothingFor(table, agent) == \A t \in Task : ~Claimable(table, t, agent)

ClaimedOnOldLease(rec, agent) ==
  [rec EXCEPT !.state = "assigned", !.owner = agent,
              !.lease = IF @ = NoLease THEN LeaseTTL ELSE @]

Claimed(rec, agent) ==
  [rec EXCEPT !.state = "assigned", !.owner = agent, !.lease = LeaseTTL]

\* The passage of one unit of time, seen from a record.
Aged(rec) == [rec EXCEPT !.lease = IF @ > 0 THEN @ - 1 ELSE @]
=============================================================================
