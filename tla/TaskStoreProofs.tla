-------------------------- MODULE TaskStoreProofs --------------------------
(***************************************************************************)
(* claim() is in order, exclusive and atomic, in both lanes and for any    *)
(* tasks, claimants and people, on the conditions TaskStore names.         *)
(*                                                                         *)
(* In the file lane the hard part is the scan: the lock keeps other claims *)
(* out but not update(), which runs between any two reads.  SeenOK says    *)
(* what survives of what a scan has read: a record that looked free is     *)
(* still the stored one, or has been cancelled, and nobody holds it or is  *)
(* about to release it.  In the Postgres lane the row lock gives the same. *)
(* Holders and people write what they carry, whatever is stored: HandsOK   *)
(* and DraftsOK say what it is written over.                               *)
(***************************************************************************)
EXTENDS TaskStore, TLAPS

Free(rec) == rec.state = "pending" \/ Stale(rec)

Looking(c) == pc[c] \in {"scan", "select"}

Holding(c) == pc[c] \in {"claimed", "working"}

ProcessOK ==
  \A c \in Claimant :
    /\ flock = c <=> pc[c] = "scan"
    /\ pc[c] = "scan" => lane = "file"
    /\ pc[c] = "select" => lane = "postgres"
    /\ pc[c] = "select" \/ Holding(c) => got[c] \in Task
    /\ pc[c] # "scan" => DOMAIN seen[c] = {}

LocksOK ==
  \A t \in Task, c \in Claimant : locked[t] = c <=> pc[c] = "select" /\ got[c] = t

\* What a claim could have taken all along looks that way to it.
RipeOK ==
  \A c \in Claimant : Looking(c) => \A t \in ripe[c] :
    /\ Claimable(tasks, t, AgentOf[c])
    /\ t \in DOMAIN seen[c] => Free(seen[c][t]) /\ seen[c][t].owner \in {NoAgent, AgentOf[c]}
    /\ \A d \in DependsOn[t] : d \in DOMAIN seen[c] => seen[c][d].state = "done"
    /\ pc[c] = "select" => t >= got[c]

\* What needs no assumption.
BaseInv == TaskStoreTypeOK /\ ProcessOK /\ LocksOK /\ RipeOK

Unheld(t) == \A c \in Claimant : Holding(c) => got[c] # t

Unreleased(t) == \A h \in Human : t \in todo[h] => draft[h][t].state = "cancelled"

\* A holder carries the stored record, unless somebody has cancelled the task.
HandsOK ==
  \A c \in Claimant :
    /\ Holding(c) => tasks[got[c]] = hand[c] \/ tasks[got[c]].state = "cancelled"
    /\ pc[c] = "claimed" => hand[c].state = "assigned" /\ hand[c].lease > 0
    /\ pc[c] = "working" => hand[c].state = "in-progress"

\* What is about to be released is paused, or has been cancelled since.
DraftsOK ==
  \A h \in Human : \A t \in todo[h] :
    \/ draft[h][t].state = "cancelled"
    \/ /\ draft[h][t].state = "pending"
       /\ tasks[t].state \in {"paused", "cancelled"}
       /\ Unheld(t)

SelectOK ==
  \A c \in Claimant : pc[c] = "select" =>
    Free(tasks[got[c]]) /\ tasks[got[c]].owner \in {NoAgent, AgentOf[c]}

SeenOK ==
  \A c \in Claimant : \A t \in DOMAIN seen[c] : Free(seen[c][t]) =>
    /\ tasks[t] = seen[c][t] \/ tasks[t].state = "cancelled"
    /\ Unheld(t) /\ Unreleased(t)

\* The inductive invariant of exclusion.
ClaimInv == BaseInv /\ HandsOK /\ DraftsOK /\ SelectOK /\ SeenOK /\ ClaimedOnce

\* What a claim relies on is still so, when cancellations fall between claims.
FreshOK ==
  \A c \in Claimant :
    /\ \A t \in DOMAIN seen[c] : /\ Free(seen[c][t]) => tasks[t] = seen[c][t]
                                 /\ seen[c][t].state = "done" => tasks[t].state = "done"
    /\ pc[c] = "select" => \A d \in DependsOn[got[c]] : tasks[d].state = "done"

-----------------------------------------------------------------------------
(***************************************************************************)
(* Records.                                                                *)
(***************************************************************************)
LEMMA FieldType ==
  ASSUME NEW rec \in TaskRecord
  PROVE  /\ rec.state \in TaskState /\ rec.owner \in Owner /\ rec.lease \in Lease
         /\ rec.lease \in Int
BY LeaseAssumption DEF TaskRecord, Lease, NoLease

LEMMA ClaimedValue ==
  ASSUME NEW rec \in TaskRecord, NEW agent \in Agent
  PROVE  /\ Claimed(rec, agent) \in TaskRecord
         /\ Claimed(rec, agent).state = "assigned"
         /\ Claimed(rec, agent).lease = LeaseTTL
<1>1. LeaseTTL \in Lease /\ agent \in Owner /\ "assigned" \in TaskState
  BY LeaseAssumption DEF Lease, Owner, TaskState
<1> QED
  BY <1>1 DEF Claimed, TaskRecord

LEMMA AgedValue ==
  ASSUME NEW rec \in TaskRecord
  PROVE  /\ Aged(rec) \in TaskRecord
         /\ Aged(rec).state = rec.state
         /\ Aged(rec).owner = rec.owner
         /\ Aged(rec).lease = IF rec.lease > 0 THEN rec.lease - 1 ELSE rec.lease
<1>1. rec.lease \in Lease
  BY FieldType
<1>2. (IF rec.lease > 0 THEN rec.lease - 1 ELSE rec.lease) \in Lease
  BY <1>1, LeaseAssumption DEF Lease, NoLease
<1> QED
  BY <1>2 DEF Aged, TaskRecord

\* What is free stays so as time passes; only a lease at its end becomes free.
LEMMA AgedIsFree ==
  ASSUME NEW rec \in TaskRecord
  PROVE  /\ Free(rec) => Free(Aged(rec))
         /\ Free(Aged(rec)) => Free(rec) \/ Expiring(rec)
BY AgedValue, FieldType DEF Free, Stale, Expiring

\* The claim rule, in terms of a free record.
LEMMA ClaimableMeans ==
  ASSUME NEW table, NEW t, NEW agent
  PROVE  Claimable(table, t, agent) <=> /\ Free(table[t])
                                        /\ table[t].owner \in {NoAgent, agent}
                                        /\ \A d \in DependsOn[t] : table[d].state = "done"
BY DEF Claimable, Free, DepsDone

\* A table that keeps a claimable task as it is, or older, and what is done.
LEMMA ClaimableStays ==
  ASSUME NEW table \in [Task -> TaskRecord], NEW later \in [Task -> TaskRecord],
         NEW t \in Task, NEW agent \in Agent,
         Claimable(table, t, agent),
         later[t] = table[t] \/ later[t] = Aged(table[t]),
         \A d \in Task : table[d].state = "done" => later[d].state = "done"
  PROVE  Claimable(later, t, agent)
<1>1. DependsOn[t] \subseteq Task
  BY TaskAssumption
<1>2. Free(later[t]) /\ later[t].owner = table[t].owner
  BY AgedIsFree, AgedValue, ClaimableMeans
<1> QED
  BY <1>1, <1>2, ClaimableMeans

\* The records that holders and people write.
LEMMA EditedType ==
  ASSUME NEW rec \in TaskRecord
  PROVE  /\ \A state \in TaskState :
              /\ [rec EXCEPT !.state = state] \in TaskRecord
              /\ [rec EXCEPT !.state = state].state = state
         /\ [rec EXCEPT !.state = "paused", !.pause_reason = "guard:pauseOn"] \in TaskRecord
         /\ [rec EXCEPT !.state = "paused", !.pause_reason = "guard:pauseOn"].state = "paused"
         /\ Released(rec) \in TaskRecord /\ Released(rec).state = "pending"
BY DEF TaskRecord, PauseReason, TaskState, Released

LEMMA BlankType == Blank \in TaskRecord
BY DEF Blank, NewTask, TaskRecord, TaskState, Lease, PauseReason, Owner

-----------------------------------------------------------------------------
(***************************************************************************)
(* Types, locks and what is ripe.                                          *)
(***************************************************************************)
LEMMA Constants ==
  /\ \A c \in Claimant : AgentOf[c] \in Agent /\ c # NoClaimant
  /\ \A t \in Task : t \in Nat /\ t # NoTask /\ DependsOn[t] \subseteq Task
  /\ NoTask \notin Task
BY TaskStoreAssumption, TaskAssumption DEF NoTask

LEMMA NothingSeen == DOMAIN <<>> = {} /\ <<>> \in [{} -> TaskRecord]
OBVIOUS

LEMMA BaseInit == Init => BaseInv
<1> SUFFICES ASSUME Init PROVE BaseInv
  OBVIOUS
<1>1. \A owner \in Owner : NewTask(owner) \in TaskRecord
  BY DEF NewTask, TaskRecord, TaskState, Lease, PauseReason
<1>2. tasks \in [Task -> TaskRecord]
  BY <1>1, TaskAssumption DEF Init, Owner
<1>3. \A c \in Claimant : seen[c] = <<>> /\ DOMAIN seen[c] = {}
  BY DEF Init
<1>4. TaskStoreTypeOK
  BY <1>2, <1>3, BlankType, TaskStoreAssumption DEF Init, TaskStoreTypeOK, Point
<1>5. ProcessOK /\ LocksOK /\ RipeOK
  BY <1>3, Constants DEF Init, ProcessOK, LocksOK, RipeOK, Looking, Holding
<1> QED
  BY <1>4, <1>5 DEF BaseInv

\* StillRipe keeps only what is claimable after the write.
LEMMA StillRipeMeans ==
  ASSUME BaseInv, StillRipe
  PROVE  /\ ripe' \in [Claimant -> SUBSET Task]
         /\ \A c \in Claimant : /\ ripe'[c] \subseteq ripe[c]
                                /\ \A t \in ripe'[c] : Claimable(tasks', t, AgentOf[c])
BY DEF BaseInv, TaskStoreTypeOK, StillRipe

\* What a claim does when it begins to read.
LEMMA LockBase ==
  ASSUME BaseInv, NEW c \in Claimant, Lock(c) PROVE BaseInv'
<1>1. /\ lane = "file" /\ pc[c] = "idle" /\ flock = NoClaimant
      /\ flock' = c
      /\ seen' = [seen EXCEPT ![c] = <<>>]
      /\ ripe' = [ripe EXCEPT ![c] = ClaimableBy(c)]
      /\ pc' = [pc EXCEPT ![c] = "scan"]
      /\ UNCHANGED <<lane, tasks, locked, got, hand, cli, deaths>>
  BY DEF Lock, FlockFree, GoTo
<1>2. /\ DOMAIN seen' = Claimant
      /\ seen'[c] = <<>> /\ DOMAIN seen'[c] = {}
      /\ \A b \in Claimant \ {c} : seen'[b] = seen[b]
  BY <1>1 DEF BaseInv, TaskStoreTypeOK
<1>3. TaskStoreTypeOK'
  <2>1. \A b \in Claimant : DOMAIN seen'[b] \subseteq Task
                            /\ seen'[b] \in [DOMAIN seen'[b] -> TaskRecord]
    BY <1>2, NothingSeen DEF BaseInv, TaskStoreTypeOK
  <2> QED
    BY <1>1, <1>2, <2>1 DEF BaseInv, TaskStoreTypeOK, Point, ClaimableBy, cli
<1>4. ProcessOK' /\ LocksOK'
  BY <1>1, <1>2, Constants
     DEF BaseInv, TaskStoreTypeOK, ProcessOK, LocksOK, Holding
<1>5. RipeOK'
  BY <1>1, <1>2 DEF BaseInv, TaskStoreTypeOK, RipeOK, Looking, ClaimableBy, Claimable, DepsDone
<1> QED
  BY <1>3, <1>4, <1>5 DEF BaseInv

\* A file that is read while its task is ripe holds a free record, and those of
\* its dependencies hold done ones.
LEMMA ReadBase ==
  ASSUME BaseInv, NEW c \in Claimant, Read(c) PROVE BaseInv'
<1>1. /\ pc[c] = "scan"
      /\ UNCHANGED <<lane, tasks, flock, locked, pc, got, hand, cli, ripe, deaths>>
  BY DEF Read
<1>2. PICK t \in Task \ DOMAIN seen[c] :
        seen' = [seen EXCEPT ![c] =
                   [u \in DOMAIN seen[c] \cup {t} |-> IF u = t THEN tasks[t] ELSE seen[c][u]]]
  BY DEF Read
<1>3. /\ DOMAIN seen' = Claimant
      /\ DOMAIN seen'[c] = DOMAIN seen[c] \cup {t}
      /\ seen'[c] = [u \in DOMAIN seen[c] \cup {t} |-> IF u = t THEN tasks[t] ELSE seen[c][u]]
      /\ seen'[c][t] = tasks[t]
      /\ \A u \in DOMAIN seen[c] : seen'[c][u] = seen[c][u]
      /\ \A b \in Claimant \ {c} : seen'[b] = seen[b]
  BY <1>2 DEF BaseInv, TaskStoreTypeOK
<1>4. TaskStoreTypeOK'
  <2>1. seen'[c] \in [DOMAIN seen'[c] -> TaskRecord] /\ DOMAIN seen'[c] \subseteq Task
    BY <1>3 DEF BaseInv, TaskStoreTypeOK
  <2>2. \A b \in Claimant : DOMAIN seen'[b] \subseteq Task
                            /\ seen'[b] \in [DOMAIN seen'[b] -> TaskRecord]
    BY <1>3, <2>1 DEF BaseInv, TaskStoreTypeOK
  <2> QED
    BY <1>1, <1>3, <2>2 DEF BaseInv, TaskStoreTypeOK, cli
<1>5. ProcessOK' /\ LocksOK'
  BY <1>1, <1>3 DEF BaseInv, ProcessOK, LocksOK, Holding
<1>6. RipeOK'
  <2> SUFFICES ASSUME NEW b \in Claimant, Looking(b), NEW u \in ripe[b]
               PROVE  /\ Claimable(tasks, u, AgentOf[b])
                      /\ u \in DOMAIN seen'[b] => Free(seen'[b][u])
                                                  /\ seen'[b][u].owner \in {NoAgent, AgentOf[b]}
                      /\ \A d \in DependsOn[u] : d \in DOMAIN seen'[b] => seen'[b][d].state = "done"
                      /\ pc[b] = "select" => u >= got[b]
    BY <1>1 DEF RipeOK, Looking, Claimable, DepsDone, Stale
  <2>1. /\ Claimable(tasks, u, AgentOf[b])
        /\ pc[b] = "select" => u >= got[b]
        /\ u \in DOMAIN seen[b] => Free(seen[b][u]) /\ seen[b][u].owner \in {NoAgent, AgentOf[b]}
        /\ \A d \in DependsOn[u] : d \in DOMAIN seen[b] => seen[b][d].state = "done"
    BY DEF BaseInv, RipeOK
  <2> QED
    BY <1>3, <2>1, ClaimableMeans
<1> QED
  BY <1>4, <1>5, <1>6 DEF BaseInv

\* A claim of the file lane ends, with a task or without.
LEMMA ScanEndsBase ==
  ASSUME BaseInv, NEW c \in Claimant, WriteClaim(c) \/ GiveUp(c) PROVE BaseInv'
<1>1. /\ pc[c] = "scan" /\ flock = c /\ lane = "file"
      /\ flock' = NoClaimant
      /\ seen' = [seen EXCEPT ![c] = <<>>]
      /\ UNCHANGED <<lane, locked, cli, deaths>>
  BY DEF WriteClaim, GiveUp, HasRead, BaseInv, ProcessOK
<1>2. \/ /\ tasks' = tasks /\ got' = got /\ ripe' = ripe
         /\ pc' = [pc EXCEPT ![c] = "idle"]
      \/ /\ \E t \in Task : /\ seen[c][t] \in TaskRecord
                            /\ tasks' = [tasks EXCEPT ![t] = Claimed(seen[c][t], AgentOf[c])]
                            /\ got' = [got EXCEPT ![c] = t]
         /\ StillRipe
         /\ pc' = [pc EXCEPT ![c] = "claimed"]
  <2>1. CASE GiveUp(c)
    BY <2>1 DEF GiveUp, GoTo
  <2>2. CASE WriteClaim(c)
    <3>1. \A t \in Task : seen[c][t] \in TaskRecord
      BY <2>2 DEF WriteClaim, HasRead, BaseInv, TaskStoreTypeOK
    <3> QED
      BY <2>2, <3>1 DEF WriteClaim, GoTo
  <2> QED
    BY <2>1, <2>2
<1>3. tasks' \in [Task -> TaskRecord] /\ hand' \in [Claimant -> TaskRecord]
  <2>1. \A t \in Task : seen[c][t] \in TaskRecord => Claimed(seen[c][t], AgentOf[c]) \in TaskRecord
    BY ClaimedValue, Constants
  <2>2. tasks' \in [Task -> TaskRecord]
    BY <1>2, <2>1 DEF BaseInv, TaskStoreTypeOK
  <2>3. CASE GiveUp(c)
    BY <2>2, <2>3 DEF GiveUp, BaseInv, TaskStoreTypeOK
  <2>4. CASE WriteClaim(c)
    <3>1. PICK t \in Task : hand' = [hand EXCEPT ![c] = Claimed(seen[c][t], AgentOf[c])]
      BY <2>4 DEF WriteClaim
    <3>2. seen[c][t] \in TaskRecord
      BY <2>4 DEF WriteClaim, HasRead, BaseInv, TaskStoreTypeOK
    <3> QED
      BY <2>1, <2>2, <3>1, <3>2 DEF BaseInv, TaskStoreTypeOK
  <2> QED
    BY <2>3, <2>4
<1>4. /\ DOMAIN seen' = Claimant
      /\ seen'[c] = <<>> /\ DOMAIN seen'[c] = {}
      /\ \A b \in Claimant \ {c} : seen'[b] = seen[b]
  BY <1>1 DEF BaseInv, TaskStoreTypeOK
<1>5. /\ got' \in [Claimant -> Task \cup {NoTask}]
      /\ pc' \in [Claimant -> Point] /\ pc'[c] \in {"idle", "claimed"}
      /\ pc'[c] = "claimed" => got'[c] \in Task
      /\ \A b \in Claimant \ {c} : got'[b] = got[b] /\ pc'[b] = pc[b]
  <2>1. /\ got \in [Claimant -> Task \cup {NoTask}] /\ pc \in [Claimant -> Point]
        /\ {"idle", "claimed"} \subseteq Point
    BY DEF BaseInv, TaskStoreTypeOK, Point
  <2>2. CASE got' = got /\ pc' = [pc EXCEPT ![c] = "idle"]
    BY <2>1, <2>2
  <2>3. CASE (\E t \in Task : got' = [got EXCEPT ![c] = t]) /\ pc' = [pc EXCEPT ![c] = "claimed"]
    BY <2>1, <2>3
  <2> QED
    BY <1>2, <2>2, <2>3
<1>6. TaskStoreTypeOK'
  <2>1. \A b \in Claimant : DOMAIN seen'[b] \subseteq Task
                            /\ seen'[b] \in [DOMAIN seen'[b] -> TaskRecord]
    BY <1>4, NothingSeen DEF BaseInv, TaskStoreTypeOK
  <2>2. ripe' \in [Claimant -> SUBSET Task]
    BY <1>2, StillRipeMeans DEF BaseInv, TaskStoreTypeOK
  <2> QED
    BY <1>1, <1>3, <1>4, <1>5, <2>1, <2>2 DEF BaseInv, TaskStoreTypeOK, cli
<1>7. ProcessOK' /\ LocksOK'
  BY <1>1, <1>4, <1>5, Constants DEF BaseInv, ProcessOK, LocksOK, Holding
<1>8. RipeOK'
  <2> SUFFICES ASSUME NEW b \in Claimant, Looking(b)', NEW t \in ripe'[b]
               PROVE  /\ Claimable(tasks', t, AgentOf[b])
                      /\ t \in DOMAIN seen'[b] => Free(seen'[b][t])
                                                  /\ seen'[b][t].owner \in {NoAgent, AgentOf[b]}
                      /\ \A d \in DependsOn[t] : d \in DOMAIN seen'[b] => seen'[b][d].state = "done"
                      /\ pc'[b] = "select" => t >= got'[b]
    BY DEF RipeOK, Free, Stale, Claimable, DepsDone, Looking
  <2>1. b # c /\ Looking(b)
    BY <1>5 DEF Looking
  <2>2. t \in ripe[b] /\ Claimable(tasks', t, AgentOf[b])
    <3>1. CASE StillRipe
      BY <3>1, StillRipeMeans
    <3>2. CASE tasks' = tasks /\ ripe' = ripe
      BY <2>1, <3>2 DEF BaseInv, RipeOK
    <3> QED
      BY <1>2, <3>1, <3>2
  <2> QED
    BY <1>4, <1>5, <2>1, <2>2 DEF BaseInv, RipeOK
<1> QED
  BY <1>6, <1>7, <1>8 DEF BaseInv

\* The row a SELECT locks is the oldest of those that nobody has locked.
LEMMA SelectBase ==
  ASSUME BaseInv, NEW c \in Claimant, Select(c) PROVE BaseInv'
<1>1. /\ lane = "postgres" /\ pc[c] = "idle"
      /\ ripe' = [ripe EXCEPT ![c] = {t \in ClaimableBy(c) : Unlocked(t)}]
      /\ pc' = [pc EXCEPT ![c] = "select"]
      /\ UNCHANGED <<lane, tasks, flock, seen, hand, cli, deaths>>
  BY DEF Select, GoTo
<1>2. PICK t \in ClaimableBy(c) :
        /\ locked[t] = NoClaimant
        /\ \A u \in ClaimableBy(c) : u < t => ~Unlocked(u)
        /\ locked' = [locked EXCEPT ![t] = c]
        /\ got' = [got EXCEPT ![c] = t]
  BY DEF Select, Unlocked
<1>3. t \in Task /\ Claimable(tasks, t, AgentOf[c])
  BY DEF ClaimableBy
<1>4. TaskStoreTypeOK'
  <2>1. {u \in ClaimableBy(c) : Unlocked(u)} \subseteq Task
    BY DEF ClaimableBy
  <2> QED
    BY <1>1, <1>2, <1>3, <2>1 DEF BaseInv, TaskStoreTypeOK, Point, cli
<1>5. ProcessOK'
  BY <1>1, <1>2, <1>3 DEF BaseInv, TaskStoreTypeOK, ProcessOK, Holding
<1>6. LocksOK'
  BY <1>1, <1>2, <1>3, Constants DEF BaseInv, TaskStoreTypeOK, LocksOK
<1>7. RipeOK'
  <2> SUFFICES ASSUME NEW b \in Claimant, Looking(b)', NEW u \in ripe'[b]
               PROVE  /\ Claimable(tasks, u, AgentOf[b])
                      /\ u \in DOMAIN seen[b] => Free(seen[b][u])
                                                 /\ seen[b][u].owner \in {NoAgent, AgentOf[b]}
                      /\ \A d \in DependsOn[u] : d \in DOMAIN seen[b] => seen[b][d].state = "done"
                      /\ pc'[b] = "select" => u >= got'[b]
    BY <1>1 DEF RipeOK, Free, Stale, Claimable, DepsDone, Looking
  <2>1. CASE b = c
    <3>1. u \in ClaimableBy(c) /\ Unlocked(u)
      BY <1>1, <2>1 DEF BaseInv, TaskStoreTypeOK
    <3>2. u \in Task /\ Claimable(tasks, u, AgentOf[c]) /\ got'[c] = t /\ u >= t
      BY <1>2, <1>3, <3>1, Constants DEF ClaimableBy, BaseInv, TaskStoreTypeOK
    <3>3. DOMAIN seen[c] = {}
      BY <1>1 DEF BaseInv, ProcessOK
    <3> QED
      BY <2>1, <3>2, <3>3
  <2>2. CASE b # c
    BY <1>1, <1>2, <2>2 DEF BaseInv, TaskStoreTypeOK, RipeOK, Looking
  <2> QED
    BY <2>1, <2>2
<1> QED
  BY <1>4, <1>5, <1>6, <1>7 DEF BaseInv

\* RipeOK is kept by any write that nobody who looks takes part in.
LEMMA WriteKeepsRipe ==
  ASSUME BaseInv, StillRipe, UNCHANGED seen,
         \A b \in Claimant : Looking(b)' => Looking(b) /\ pc'[b] = pc[b] /\ got'[b] = got[b]
  PROVE  RipeOK'
<1> SUFFICES ASSUME NEW b \in Claimant, Looking(b)', NEW t \in ripe'[b]
             PROVE  /\ Claimable(tasks', t, AgentOf[b])
                    /\ t \in DOMAIN seen[b] => Free(seen[b][t])
                                               /\ seen[b][t].owner \in {NoAgent, AgentOf[b]}
                    /\ \A d \in DependsOn[t] : d \in DOMAIN seen[b] => seen[b][d].state = "done"
                    /\ pc'[b] = "select" => t >= got'[b]
  BY DEF RipeOK, Free, Stale, Claimable, DepsDone, Looking
<1>1. t \in ripe[b] /\ Claimable(tasks', t, AgentOf[b])
  BY StillRipeMeans
<1> QED
  BY <1>1 DEF BaseInv, RipeOK

LEMMA CommitBase ==
  ASSUME BaseInv, NEW c \in Claimant, Commit(c) PROVE BaseInv'
<1> DEFINE t == got[c]
<1>1. /\ pc[c] = "select"
      /\ tasks' = [tasks EXCEPT ![t] = Claimed(tasks[t], AgentOf[c])]
      /\ hand' = [hand EXCEPT ![c] = Claimed(tasks[t], AgentOf[c])]
      /\ locked' = [locked EXCEPT ![t] = NoClaimant]
      /\ StillRipe
      /\ pc' = [pc EXCEPT ![c] = "claimed"]
      /\ UNCHANGED <<lane, flock, seen, got, cli, deaths>>
  BY DEF Commit, GoTo
<1>2. t \in Task /\ locked[t] = c
  BY <1>1 DEF BaseInv, ProcessOK, LocksOK
<1>3. TaskStoreTypeOK'
  <2>1. Claimed(tasks[t], AgentOf[c]) \in TaskRecord
    BY <1>2, ClaimedValue, Constants DEF BaseInv, TaskStoreTypeOK
  <2> QED
    BY <1>1, <1>2, <2>1, StillRipeMeans DEF BaseInv, TaskStoreTypeOK, Point, cli
<1>4. ProcessOK'
  BY <1>1, <1>2 DEF BaseInv, TaskStoreTypeOK, ProcessOK, Holding
<1>5. LocksOK'
  BY <1>1, <1>2, Constants DEF BaseInv, TaskStoreTypeOK, LocksOK
<1>6. RipeOK'
  BY <1>1, WriteKeepsRipe DEF BaseInv, TaskStoreTypeOK, Looking
<1> QED
  BY <1>3, <1>4, <1>5, <1>6 DEF BaseInv

\* What is carried by those who write with update().
CarriedOK ==
  /\ hand \in [Claimant -> TaskRecord]
  /\ todo \in [Human -> SUBSET Task]
  /\ draft \in [Human -> [Task -> TaskRecord]]
  /\ commands \in 0..MaxCommands

\* update(), by a holder or by a person.
LEMMA UpdateBase ==
  ASSUME BaseInv, NEW t \in Task, NEW record \in TaskRecord, Update(t, record), CarriedOK',
         \/ UNCHANGED <<pc, got>>
         \/ \E c \in Claimant : /\ pc[c] = "claimed" /\ pc' = [pc EXCEPT ![c] = "working"]
                                /\ got' = got
         \/ \E c \in Claimant : /\ Holding(c) /\ pc' = [pc EXCEPT ![c] = "idle"]
                                /\ got' = [got EXCEPT ![c] = NoTask]
  PROVE  BaseInv'
<1>1. /\ tasks' = [tasks EXCEPT ![t] = record]
      /\ StillRipe
      /\ UNCHANGED <<lane, flock, locked, seen, deaths>>
  BY DEF Update
<1>2. \A b \in Claimant :
        \/ pc'[b] = pc[b] /\ got'[b] = got[b]
        \/ pc[b] \in {"claimed", "working"} /\ pc'[b] = "idle"
        \/ pc[b] = "claimed" /\ pc'[b] = "working" /\ got'[b] = got[b]
  BY DEF BaseInv, TaskStoreTypeOK, Holding
<1>3. TaskStoreTypeOK'
  BY <1>1, StillRipeMeans DEF BaseInv, TaskStoreTypeOK, Point, CarriedOK, Holding
<1>4. ProcessOK' /\ LocksOK'
  BY <1>1, <1>2 DEF BaseInv, ProcessOK, LocksOK, Holding
<1>5. RipeOK'
  BY <1>1, <1>2, WriteKeepsRipe DEF Looking
<1> QED
  BY <1>3, <1>4, <1>5 DEF BaseInv

\* The three kinds of update().  A holder begins the task in its hands ...
Begins(t, record, c) ==
  /\ Update(t, record)
  /\ pc[c] = "claimed" /\ t = got[c]
  /\ record = [hand[c] EXCEPT !.state = "in-progress"] /\ record.state = "in-progress"
  /\ pc' = [pc EXCEPT ![c] = "working"] /\ hand' = [hand EXCEPT ![c] = record]
  /\ UNCHANGED <<got, cli>>

\* ... or leaves it ...
Leaves(t, record, c) ==
  /\ Update(t, record)
  /\ Holding(c) /\ t = got[c] /\ record.state \in {"done", "paused"}
  /\ pc' = [pc EXCEPT ![c] = "idle"] /\ hand' = [hand EXCEPT ![c] = Blank]
  /\ got' = [got EXCEPT ![c] = NoTask]
  /\ UNCHANGED cli

\* ... and a person writes a draft.
Steers(t, record, h) ==
  /\ Update(t, record)
  /\ t \in todo[h] /\ record = draft[h][t]
  /\ todo' = [todo EXCEPT ![h] = @ \ {t}]
  /\ draft' = [draft EXCEPT ![h][t] = Blank]
  /\ UNCHANGED <<pc, got, hand, commands>>

LEMMA UpdateForm ==
  ASSUME BaseInv,
         \/ \E c \in Claimant : Begin(c) \/ Finish(c) \/ Pause(c)
         \/ \E h \in Human : WriteTask(h)
  PROVE  \E t \in Task, record \in TaskRecord :
           \/ \E c \in Claimant : Begins(t, record, c) \/ Leaves(t, record, c)
           \/ \E h \in Human : Steers(t, record, h)
<1>1. ASSUME NEW c \in Claimant, Begin(c)
      PROVE  \E t \in Task, record \in TaskRecord : Begins(t, record, c)
  <2>1. got[c] \in Task /\ hand[c] \in TaskRecord
    BY <1>1 DEF Begin, BaseInv, ProcessOK, Holding, TaskStoreTypeOK
  <2> DEFINE record == [hand[c] EXCEPT !.state = "in-progress"]
  <2>2. record \in TaskRecord /\ record.state = "in-progress"
    BY <2>1, EditedType DEF TaskState
  <2>3. hand' = [hand EXCEPT ![c] = record] /\ hand'[c] = record
    BY <1>1 DEF Begin, BaseInv, TaskStoreTypeOK
  <2>4. Begins(got[c], record, c)
    BY <1>1, <2>2, <2>3 DEF Begin, Begins, GoTo
  <2> HIDE DEF record
  <2> QED
    BY <2>1, <2>2, <2>4
<1>2. ASSUME NEW c \in Claimant, Finish(c) \/ Pause(c)
      PROVE  \E t \in Task, record \in TaskRecord : Leaves(t, record, c)
  <2>1. got[c] \in Task /\ hand[c] \in TaskRecord
    BY <1>2 DEF Finish, Pause, BaseInv, ProcessOK, Holding, TaskStoreTypeOK
  <2>2. CASE Finish(c)
    <3> DEFINE record == [hand[c] EXCEPT !.state = "done"]
    <3>1. record \in TaskRecord /\ record.state = "done"
      BY <2>1, EditedType DEF TaskState
    <3>2. Leaves(got[c], record, c)
      BY <2>2, <3>1 DEF Finish, Leaves, LetGo, GoTo, Holding
    <3> HIDE DEF record
    <3> QED
      BY <2>1, <3>1, <3>2
  <2>3. CASE Pause(c)
    <3> DEFINE record == [hand[c] EXCEPT !.state = "paused", !.pause_reason = "guard:pauseOn"]
    <3>1. record \in TaskRecord /\ record.state = "paused"
      BY <2>1, EditedType
    <3>2. Leaves(got[c], record, c)
      BY <2>3, <3>1 DEF Pause, Leaves, LetGo, GoTo, Holding
    <3> HIDE DEF record
    <3> QED
      BY <2>1, <3>1, <3>2
  <2> QED
    BY <1>2, <2>2, <2>3
<1>3. ASSUME NEW h \in Human, WriteTask(h)
      PROVE  \E t \in Task, record \in TaskRecord : Steers(t, record, h)
  <2>1. PICK t \in todo[h] :
          /\ Update(t, draft[h][t])
          /\ todo' = [todo EXCEPT ![h] = @ \ {t}]
          /\ draft' = [draft EXCEPT ![h][t] = Blank]
          /\ UNCHANGED <<pc, got, hand, commands>>
    BY <1>3 DEF WriteTask
  <2>2. t \in Task /\ draft[h][t] \in TaskRecord
    BY DEF BaseInv, TaskStoreTypeOK
  <2>3. Steers(t, draft[h][t], h)
    BY <2>1 DEF Steers
  <2> QED
    BY <2>2, <2>3
<1> QED
  BY <1>1, <1>2, <1>3

LEMMA UpdatesKeepBase ==
  ASSUME BaseInv, NEW t \in Task, NEW record \in TaskRecord,
         \/ \E c \in Claimant : Begins(t, record, c) \/ Leaves(t, record, c)
         \/ \E h \in Human : Steers(t, record, h)
  PROVE  BaseInv'
<1>1. CASE \E c \in Claimant : Begins(t, record, c) \/ Leaves(t, record, c)
  <2>1. CarriedOK'
    BY <1>1, BlankType DEF Begins, Leaves, CarriedOK, BaseInv, TaskStoreTypeOK, cli
  <2> QED
    BY <1>1, <2>1, UpdateBase DEF Begins, Leaves
<1>2. CASE \E h \in Human : Steers(t, record, h)
  <2>1. PICK h \in Human : Steers(t, record, h)
    BY <1>2
  <2>2. draft' \in [Human -> [Task -> TaskRecord]]
    BY <2>1, BlankType DEF Steers, BaseInv, TaskStoreTypeOK
  <2>3. CarriedOK'
    BY <2>1, <2>2 DEF Steers, CarriedOK, BaseInv, TaskStoreTypeOK
  <2> QED
    BY <2>1, <2>3, UpdateBase DEF Steers
<1> QED
  BY <1>1, <1>2

\* A person reads what is to be released or cancelled.
Reads(h) == (\E agent \in Agent : ReadRelease(h, agent)) \/ (\E t \in Task : ReadCancel(h, t))

LEMMA ReadsForm ==
  ASSUME BaseInv, NEW h \in Human, Reads(h)
  PROVE  /\ CarriedOK'
         /\ todo[h] = {}
         /\ \A g \in Human \ {h} : todo'[g] = todo[g] /\ draft'[g] = draft[g]
         /\ \A t \in todo'[h] :
              \/ draft'[h][t].state = "cancelled"
              \/ draft'[h][t].state = "pending" /\ tasks[t].state = "paused"
         /\ UNCHANGED <<lane, tasks, flock, locked, pc, seen, got, hand, ripe, deaths>>
<1>1. CASE \E agent \in Agent : ReadRelease(h, agent)
  <2>1. PICK agent \in Agent : ReadRelease(h, agent)
    BY <1>1
  <2>2. PausedOf(agent) \subseteq Task
    BY DEF PausedOf
  <2>3. \A t \in Task : Released(tasks[t]) \in TaskRecord /\ Released(tasks[t]).state = "pending"
    BY EditedType DEF BaseInv, TaskStoreTypeOK
  <2>4. draft' \in [Human -> [Task -> TaskRecord]]
    BY <2>1, <2>3 DEF ReadRelease, BaseInv, TaskStoreTypeOK
  <2>5. \A t \in todo'[h] : draft'[h][t].state = "pending" /\ tasks[t].state = "paused"
    <3>1. todo'[h] = PausedOf(agent)
      BY <2>1 DEF ReadRelease, BaseInv, TaskStoreTypeOK
    <3>2. \A t \in PausedOf(agent) : draft'[h][t] = Released(tasks[t])
      BY <2>1, <2>2 DEF ReadRelease, BaseInv, TaskStoreTypeOK
    <3> QED
      BY <2>2, <2>3, <3>1, <3>2 DEF PausedOf
  <2>6. CarriedOK'
    BY <2>1, <2>2, <2>4, TaskStoreAssumption
       DEF ReadRelease, IssueCommand, CarriedOK, BaseInv, TaskStoreTypeOK
  <2> QED
    BY <2>1, <2>5, <2>6 DEF ReadRelease, IssueCommand, BaseInv, TaskStoreTypeOK
<1>2. CASE \E t \in Task : ReadCancel(h, t)
  <2>1. PICK t \in Task : ReadCancel(h, t)
    BY <1>2
  <2> DEFINE record == [tasks[t] EXCEPT !.state = "cancelled"]
  <2>2. record \in TaskRecord /\ record.state = "cancelled"
    BY EditedType DEF BaseInv, TaskStoreTypeOK, TaskState
  <2>3. /\ todo' = [todo EXCEPT ![h] = {t}]
        /\ draft' = [draft EXCEPT ![h][t] = record]
    BY <2>1 DEF ReadCancel
  <2> HIDE DEF record
  <2>5. draft' \in [Human -> [Task -> TaskRecord]]
    BY <2>2, <2>3 DEF BaseInv, TaskStoreTypeOK
  <2>4. CarriedOK'
    BY <2>1, <2>3, <2>5, TaskStoreAssumption
       DEF ReadCancel, IssueCommand, CarriedOK, BaseInv, TaskStoreTypeOK
  <2> QED
    BY <2>1, <2>2, <2>3, <2>4 DEF ReadCancel, IssueCommand, BaseInv, TaskStoreTypeOK
<1> QED
  BY <1>1, <1>2 DEF Reads

LEMMA ReadsBase ==
  ASSUME BaseInv, NEW h \in Human, Reads(h) PROVE BaseInv'
<1>1. TaskStoreTypeOK'
  BY ReadsForm DEF BaseInv, TaskStoreTypeOK, CarriedOK
<1>2. ProcessOK' /\ LocksOK' /\ RipeOK'
  BY ReadsForm
     DEF BaseInv, ProcessOK, LocksOK, RipeOK, Looking, Holding, Free, Stale, Claimable, DepsDone
<1> QED
  BY <1>1, <1>2 DEF BaseInv

LEMMA DieBase ==
  ASSUME BaseInv, NEW c \in Claimant, Die(c) PROVE BaseInv'
<1>1. /\ flock' = IF flock = c THEN NoClaimant ELSE flock
      /\ locked' = [t \in Task |-> IF locked[t] = c THEN NoClaimant ELSE locked[t]]
      /\ seen' = [seen EXCEPT ![c] = <<>>]
      /\ got' = [got EXCEPT ![c] = NoTask]
      /\ pc' = [pc EXCEPT ![c] = "idle"]
      /\ hand' = [hand EXCEPT ![c] = Blank]
      /\ UNCHANGED <<lane, tasks, cli, ripe>>
      /\ deaths' \in 0..MaxDeaths
  BY TaskStoreAssumption DEF Die, LetGo, GoTo, BaseInv, TaskStoreTypeOK
<1>2. /\ DOMAIN seen' = Claimant
      /\ seen'[c] = <<>> /\ DOMAIN seen'[c] = {}
      /\ \A b \in Claimant \ {c} : seen'[b] = seen[b]
  BY <1>1, NothingSeen DEF BaseInv, TaskStoreTypeOK
<1>3. /\ got' \in [Claimant -> Task \cup {NoTask}]
      /\ pc' \in [Claimant -> Point] /\ pc'[c] = "idle"
      /\ \A b \in Claimant \ {c} : got'[b] = got[b] /\ pc'[b] = pc[b]
  BY <1>1 DEF BaseInv, TaskStoreTypeOK, Point
<1>4. TaskStoreTypeOK'
  <2>1. \A b \in Claimant : DOMAIN seen'[b] \subseteq Task
                            /\ seen'[b] \in [DOMAIN seen'[b] -> TaskRecord]
    BY <1>2, NothingSeen DEF BaseInv, TaskStoreTypeOK
  <2> QED
    BY <1>1, <1>2, <1>3, <2>1, BlankType DEF BaseInv, TaskStoreTypeOK, cli
<1>5. ProcessOK' /\ LocksOK'
  BY <1>1, <1>2, <1>3, Constants DEF BaseInv, TaskStoreTypeOK, ProcessOK, LocksOK, Holding
<1>6. RipeOK'
  BY <1>1, <1>2, <1>3 DEF BaseInv, RipeOK, Looking, Claimable, DepsDone
<1> QED
  BY <1>4, <1>5, <1>6 DEF BaseInv

LEMMA TickForm ==
  ASSUME BaseInv, Tick
  PROVE  /\ tasks' \in [Task -> TaskRecord]
         /\ \A t \in Task : tasks'[t] = Aged(tasks[t]) /\ tasks'[t].state = tasks[t].state
         /\ DOMAIN seen' = Claimant
         /\ \A c \in Claimant :
              /\ DOMAIN seen'[c] = DOMAIN seen[c]
              /\ seen'[c] \in [DOMAIN seen[c] -> TaskRecord]
              /\ \A t \in DOMAIN seen[c] : /\ seen[c][t] \in TaskRecord
                                           /\ seen'[c][t] = Aged(seen[c][t])
         /\ UNCHANGED <<lane, flock, locked, pc, got, todo, ripe, deaths, commands>>
BY AgedValue DEF BaseInv, TaskStoreTypeOK, Tick

LEMMA TickCarries ==
  ASSUME BaseInv, Tick
  PROVE  /\ CarriedOK'
         /\ \A c \in Claimant : hand[c] \in TaskRecord /\ hand'[c] = Aged(hand[c])
         /\ \A h \in Human, t \in Task : draft'[h][t].state = draft[h][t].state
<1>1. /\ hand' = [c \in Claimant |-> Aged(hand[c])]
      /\ draft' = [h \in Human |-> [t \in Task |-> Aged(draft[h][t])]]
      /\ UNCHANGED <<todo, commands>>
  BY DEF Tick
<1>2. \A c \in Claimant : hand[c] \in TaskRecord /\ hand'[c] = Aged(hand[c])
                          /\ Aged(hand[c]) \in TaskRecord
  BY <1>1, AgedValue DEF BaseInv, TaskStoreTypeOK
<1>3. \A h \in Human, t \in Task : /\ draft'[h][t] = Aged(draft[h][t])
                                  /\ Aged(draft[h][t]) \in TaskRecord
                                  /\ draft'[h][t].state = draft[h][t].state
  BY <1>1, AgedValue DEF BaseInv, TaskStoreTypeOK
<1>4. CarriedOK'
  BY <1>1, <1>2, <1>3 DEF CarriedOK, BaseInv, TaskStoreTypeOK
<1> QED
  BY <1>2, <1>3, <1>4

\* What is claimable, or looks that way, stays so as time passes.
LEMMA TickBase ==
  ASSUME BaseInv, Tick PROVE BaseInv'
<1>1. TaskStoreTypeOK'
  BY TickForm, TickCarries DEF BaseInv, TaskStoreTypeOK, CarriedOK
<1>2. ProcessOK' /\ LocksOK'
  BY TickForm DEF BaseInv, ProcessOK, LocksOK, Holding
<1>3. RipeOK'
  <2> SUFFICES ASSUME NEW c \in Claimant, Looking(c), NEW t \in ripe[c]
               PROVE  /\ Claimable(tasks', t, AgentOf[c])
                      /\ t \in DOMAIN seen'[c] => Free(seen'[c][t])
                                                  /\ seen'[c][t].owner \in {NoAgent, AgentOf[c]}
                      /\ \A d \in DependsOn[t] : d \in DOMAIN seen'[c] => seen'[c][d].state = "done"
                      /\ pc[c] = "select" => t >= got[c]
    BY TickForm DEF RipeOK, Free, Stale, Claimable, DepsDone, Looking
  <2>1. /\ Claimable(tasks, t, AgentOf[c])
        /\ t \in DOMAIN seen[c] => Free(seen[c][t]) /\ seen[c][t].owner \in {NoAgent, AgentOf[c]}
        /\ \A d \in DependsOn[t] : d \in DOMAIN seen[c] => seen[c][d].state = "done"
        /\ pc[c] = "select" => t >= got[c]
    BY DEF BaseInv, RipeOK
  <2>2. t \in Task
    BY DEF BaseInv, TaskStoreTypeOK
  <2>3. Claimable(tasks', t, AgentOf[c])
    BY <2>1, <2>2, TickForm, ClaimableStays, Constants DEF BaseInv, TaskStoreTypeOK
  <2>4. ASSUME t \in DOMAIN seen'[c]
        PROVE  Free(seen'[c][t]) /\ seen'[c][t].owner \in {NoAgent, AgentOf[c]}
    BY <2>1, <2>4, TickForm, AgedIsFree, AgedValue
  <2>5. ASSUME NEW d \in DependsOn[t], d \in DOMAIN seen'[c]
        PROVE  seen'[c][d].state = "done"
    BY <2>1, <2>5, TickForm, AgedValue
  <2> QED
    BY <2>1, <2>3, <2>4, <2>5
<1> QED
  BY <1>1, <1>2, <1>3 DEF BaseInv

LEMMA BaseStep == BaseInv /\ [Next]_vars => BaseInv'
<1> SUFFICES ASSUME BaseInv, [Next]_vars PROVE BaseInv'
  OBVIOUS
<1>1. ASSUME NEW c \in Claimant,
             Lock(c) \/ Read(c) \/ WriteClaim(c) \/ GiveUp(c) \/ Select(c) \/ Commit(c) \/ Die(c)
      PROVE  BaseInv'
  BY <1>1, LockBase, ReadBase, ScanEndsBase, SelectBase, CommitBase, DieBase
<1>2. CASE \/ \E c \in Claimant : Begin(c) \/ Finish(c) \/ Pause(c)
           \/ \E h \in Human : WriteTask(h)
  BY <1>2, UpdateForm, UpdatesKeepBase
<1>3. CASE Tick
  BY <1>3, TickBase
<1>4. CASE UNCHANGED vars
  BY <1>4
     DEF vars, cli, BaseInv, TaskStoreTypeOK, ProcessOK, LocksOK, RipeOK, Looking, Holding, Free,
         Stale, Claimable, DepsDone
<1>5. CASE \E h \in Human : Reads(h)
  BY <1>5, ReadsBase
<1> QED
  BY <1>1, <1>2, <1>3, <1>4, <1>5 DEF Next, Reads

\* claim() never passes over an older task that was claimable, and in Postgres
\* not locked, from its first step to its last: in both lanes, whatever is
\* updated, claimed or aged between the reads, in time or not.
THEOREM ClaimsTakeTheOldest == Spec => NoOvertaking
<1>1. ASSUME BaseInv, [Next]_vars, NEW c \in Claimant, Looking(c), pc'[c] = "claimed",
             NEW t \in ripe[c]
      PROVE  t >= got'[c]
  <2>1. WriteClaim(c) \/ Commit(c)
    <3>1. ASSUME NEW b \in Claimant, WriteClaim(b) \/ Commit(b)
          PROVE  b = c
      BY <1>1, <3>1 DEF WriteClaim, Commit, GoTo, Looking, BaseInv, TaskStoreTypeOK
    <3>2. ASSUME NEW b \in Claimant,
                 \/ Lock(b) \/ Read(b) \/ GiveUp(b) \/ Select(b)
                 \/ Begin(b) \/ Finish(b) \/ Pause(b) \/ Die(b)
          PROVE  FALSE
      BY <1>1, <3>2
         DEF Lock, Read, GiveUp, Select, Begin, Finish, Pause, Die, LetGo, GoTo, Looking,
             BaseInv, TaskStoreTypeOK
    <3>3. CASE (\E h \in Human : Reads(h) \/ WriteTask(h)) \/ Tick \/ UNCHANGED vars
      BY <1>1, <3>3 DEF Reads, ReadRelease, ReadCancel, WriteTask, Tick, vars, Looking
    <3> QED
      BY <1>1, <3>1, <3>2, <3>3 DEF Next, Reads
  <2>2. CASE Commit(c)
    BY <1>1, <2>2 DEF Commit, BaseInv, RipeOK
  <2>3. CASE WriteClaim(c)
    <3>1. DOMAIN seen[c] = Task
      BY <2>3 DEF WriteClaim, HasRead
    <3>2. t \in Task /\ DependsOn[t] \subseteq Task
      BY <1>1, Constants DEF BaseInv, TaskStoreTypeOK
    <3>3. Claimable(seen[c], t, AgentOf[c])
      BY <1>1, <3>1, <3>2, ClaimableMeans DEF BaseInv, RipeOK
    <3>4. PICK u \in Task : NextClaim(seen[c], u, AgentOf[c]) /\ got' = [got EXCEPT ![c] = u]
      BY <2>3 DEF WriteClaim, Picks
    <3>5. got'[c] = u /\ u <= t /\ u \in Nat /\ t \in Nat
      BY <1>1, <3>2, <3>3, <3>4, Constants DEF NextClaim, BaseInv, TaskStoreTypeOK
    <3> QED
      BY <3>5
  <2> QED
    BY <2>1, <2>2, <2>3
<1>2. BaseInv /\ [Next]_vars =>
        [\A c \in Claimant : pc[c] \in {"scan", "select"} /\ pc'[c] = "claimed" =>
           \A t \in ripe[c] : t >= got'[c]]_vars
  BY <1>1 DEF Looking
<1> QED
  BY <1>2, BaseInit, BaseStep, PTL DEF Spec, NoOvertaking

-----------------------------------------------------------------------------
(***************************************************************************)
(* Exclusion.                                                              *)
(***************************************************************************)
LEMMA ClaimInit == Init => ClaimInv
<1> SUFFICES ASSUME Init PROVE ClaimInv
  OBVIOUS
<1>1. \A c \in Claimant : DOMAIN seen[c] = {} /\ pc[c] = "idle"
  BY DEF Init
<1>2. \A h \in Human : todo[h] = {}
  BY DEF Init
<1> QED
  BY <1>1, <1>2, BaseInit
     DEF ClaimInv, HandsOK, DraftsOK, SelectOK, SeenOK, ClaimedOnce, Holding

\* Nobody holds a task that is free, paused or done.
LEMMA NotHeld ==
  ASSUME ClaimInv, NEW t \in Task,
         Free(tasks[t]) \/ tasks[t].state \in {"paused", "done"}
  PROVE  Unheld(t)
BY DEF ClaimInv, HandsOK, Holding, Free, Stale, Unheld

\* Only the claimant that has the lock of the file store is in a scan.
LEMMA AloneInScan ==
  ASSUME BaseInv, NEW c \in Claimant, pc[c] = "scan"
  PROVE  \A b \in Claimant : /\ pc[b] # "select"
                             /\ b # c => pc[b] # "scan" /\ DOMAIN seen[b] = {}
BY DEF BaseInv, ProcessOK

\* The claims' steps that write no record, and deaths.
LEMMA ReadingKeeps ==
  ASSUME ClaimInv, BaseInv', NEW c \in Claimant,
         Lock(c) \/ Read(c) \/ GiveUp(c) \/ Select(c) \/ Die(c)
  PROVE  ClaimInv'
<1>1. /\ UNCHANGED <<tasks, cli>>
      /\ \A b \in Claimant :
           \/ pc'[b] \in {"idle", "scan"}
           \/ pc'[b] = pc[b] /\ got'[b] = got[b] /\ hand'[b] = hand[b]
           \/ /\ pc'[b] = "select" /\ Claimable(tasks, got'[b], AgentOf[b])
  <2>1. CASE Lock(c) \/ Read(c) \/ GiveUp(c) \/ Die(c)
    BY <2>1 DEF Lock, Read, GiveUp, Die, LetGo, GoTo, ClaimInv, BaseInv, TaskStoreTypeOK, cli
  <2>2. CASE Select(c)
    BY <2>2 DEF Select, GoTo, ClaimableBy, ClaimInv, BaseInv, TaskStoreTypeOK
  <2> QED
    BY <2>1, <2>2
<1>2. \A b \in Claimant : /\ Holding(b)' => Holding(b) /\ pc'[b] = pc[b]
                          /\ Holding(b)' => got'[b] = got[b] /\ hand'[b] = hand[b]
  BY <1>1 DEF Holding
<1>3. \A t \in Task : /\ Unheld(t) => Unheld(t)'
                      /\ Unreleased(t) => Unreleased(t)'
  BY <1>1, <1>2 DEF Unheld, Unreleased, cli
<1>4. HandsOK'
  BY <1>1, <1>2 DEF ClaimInv, HandsOK, Holding
<1>5. DraftsOK'
  <2>1. todo' = todo /\ draft' = draft /\ tasks' = tasks
    BY <1>1 DEF cli
  <2>2. \A h \in Human : todo[h] \subseteq Task
    BY DEF ClaimInv, BaseInv, TaskStoreTypeOK
  <2> QED
    BY <1>3, <2>1, <2>2 DEF ClaimInv, DraftsOK
<1>6. SelectOK'
  BY <1>1, ClaimableMeans DEF ClaimInv, SelectOK, Free, Stale
<1>7. SeenOK'
  <2> SUFFICES ASSUME NEW b \in Claimant, NEW t \in DOMAIN seen'[b], Free(seen'[b][t])
               PROVE  /\ tasks[t] = seen'[b][t] \/ tasks[t].state = "cancelled"
                      /\ Unheld(t)' /\ Unreleased(t)'
    BY <1>1 DEF SeenOK, Free, Stale
  <2>1. \/ t \in DOMAIN seen[b] /\ seen'[b][t] = seen[b][t]
        \/ seen'[b][t] = tasks[t]
    <3>1. CASE Lock(c) \/ GiveUp(c) \/ Die(c)
      BY <3>1, NothingSeen DEF Lock, GiveUp, Die, ClaimInv, BaseInv, TaskStoreTypeOK
    <3>2. CASE Read(c)
      BY <3>2 DEF Read, ClaimInv, BaseInv, TaskStoreTypeOK
    <3>3. CASE Select(c)
      BY <3>3 DEF Select
    <3> QED
      BY <3>1, <3>2, <3>3
  <2>2. t \in Task
    BY DEF BaseInv, TaskStoreTypeOK
  <2>3. CASE t \in DOMAIN seen[b] /\ seen'[b][t] = seen[b][t]
    BY <1>3, <2>2, <2>3 DEF ClaimInv, SeenOK
  <2>4. CASE seen'[b][t] = tasks[t]
    <3>1. Free(tasks[t])
      BY <2>4
    <3>2. Unreleased(t)
      BY <3>1 DEF ClaimInv, DraftsOK, Unreleased, Free, Stale
    <3> QED
      BY <1>3, <2>2, <2>4, <3>1, <3>2, NotHeld
  <2> QED
    BY <2>1, <2>3, <2>4
<1>8. ClaimedOnce'
  BY <1>2 DEF ClaimInv, ClaimedOnce, Holding
<1> QED
  BY <1>4, <1>5, <1>6, <1>7, <1>8 DEF ClaimInv

\* The steps that write a record.  Whoever holds the task afterwards is alone and
\* holds what is written, and whoever has seen it free, or is about to release
\* it, finds it cancelled.
LEMMA WriteKeeps ==
  ASSUME ClaimInv, BaseInv', NEW t \in Task, NEW record \in TaskRecord,
         tasks' = [tasks EXCEPT ![t] = record],
         \A b \in Claimant : Holding(b)' =>
           \/ /\ Holding(b) /\ pc'[b] = pc[b] /\ got'[b] = got[b] /\ hand'[b] = hand[b]
              /\ got[b] = t => record.state = "cancelled"
           \/ /\ got'[b] = t /\ hand'[b] = record
              /\ pc'[b] = "claimed" => record.state = "assigned" /\ record.lease > 0
              /\ pc'[b] = "working" => record.state = "in-progress"
              /\ \A d \in Claimant : Holding(d)' /\ got'[d] = t => d = b,
         \A b \in Claimant : pc'[b] = "select" => /\ pc[b] = "select"
                                                  /\ got'[b] = got[b] /\ got[b] # t,
         \A b \in Claimant : \A u \in DOMAIN seen'[b] :
           /\ u \in DOMAIN seen[b] /\ seen'[b][u] = seen[b][u]
           /\ u = t /\ Free(seen[b][t]) => record.state = "cancelled",
         \A h \in Human : \A u \in todo'[h] :
           /\ u \in todo[h] /\ draft'[h][u] = draft[h][u]
           /\ u = t => draft[h][t].state = "cancelled" \/ record.state = "cancelled"
  PROVE  ClaimInv'
<1>1. /\ tasks'[t] = record
      /\ \A u \in Task \ {t} : tasks'[u] = tasks[u]
  BY DEF ClaimInv, BaseInv, TaskStoreTypeOK
<1>2. /\ \A b \in Claimant : Holding(b) \/ pc[b] = "select" => got[b] \in Task
      /\ \A b \in Claimant : Holding(b)' \/ pc'[b] = "select" => got'[b] \in Task
  BY DEF ClaimInv, BaseInv, ProcessOK
<1>3. HandsOK'
  <2> SUFFICES ASSUME NEW b \in Claimant, Holding(b)'
               PROVE  /\ tasks'[got'[b]] = hand'[b] \/ tasks'[got'[b]].state = "cancelled"
                      /\ pc'[b] = "claimed" => hand'[b].state = "assigned" /\ hand'[b].lease > 0
                      /\ pc'[b] = "working" => hand'[b].state = "in-progress"
    BY DEF HandsOK, Holding
  <2>1. CASE /\ Holding(b) /\ pc'[b] = pc[b] /\ got'[b] = got[b] /\ hand'[b] = hand[b]
             /\ got[b] = t => record.state = "cancelled"
    <3>1. /\ tasks[got[b]] = hand[b] \/ tasks[got[b]].state = "cancelled"
          /\ pc[b] = "claimed" => hand[b].state = "assigned" /\ hand[b].lease > 0
          /\ pc[b] = "working" => hand[b].state = "in-progress"
      BY <2>1 DEF ClaimInv, HandsOK
    <3>2. got[b] # t => tasks'[got[b]] = tasks[got[b]]
      BY <1>1, <1>2, <2>1
    <3> QED
      BY <1>1, <2>1, <3>1, <3>2
  <2>2. CASE /\ got'[b] = t /\ hand'[b] = record
             /\ pc'[b] = "claimed" => record.state = "assigned" /\ record.lease > 0
             /\ pc'[b] = "working" => record.state = "in-progress"
    BY <1>1, <2>2
  <2> QED
    BY <2>1, <2>2
\* A task that nobody held, and that is not given to anybody, stays so.
<1>4. ASSUME NEW u \in Task, Unheld(u), u = t => record.state = "cancelled"
      PROVE  Unheld(u)'
  <2> SUFFICES ASSUME NEW b \in Claimant, Holding(b)', got'[b] = u
               PROVE  FALSE
    BY DEF Unheld, Holding
  <2>1. u = t
    BY <1>4 DEF Unheld
  <2>2. record.state \in {"assigned", "in-progress"}
    BY <1>4, <2>1 DEF Unheld, Holding
  <2> QED
    BY <1>4, <2>1, <2>2
<1>5. DraftsOK'
  <2> SUFFICES ASSUME NEW h \in Human, NEW u \in todo'[h]
               PROVE  \/ draft'[h][u].state = "cancelled"
                      \/ /\ draft'[h][u].state = "pending"
                         /\ tasks'[u].state \in {"paused", "cancelled"}
                         /\ Unheld(u)'
    BY DEF DraftsOK
  <2>1. /\ u \in todo[h] /\ draft'[h][u] = draft[h][u] /\ u \in Task
        /\ u = t => draft[h][t].state = "cancelled" \/ record.state = "cancelled"
    BY DEF ClaimInv, BaseInv, TaskStoreTypeOK
  <2>2. \/ draft[h][u].state = "cancelled"
        \/ /\ draft[h][u].state = "pending"
           /\ tasks[u].state \in {"paused", "cancelled"}
           /\ Unheld(u)
    BY <2>1 DEF ClaimInv, DraftsOK
  <2>3. CASE draft[h][u].state = "cancelled"
    BY <2>1, <2>3
  <2>4. CASE draft[h][u].state # "cancelled"
    <3>1. tasks'[u].state \in {"paused", "cancelled"}
      BY <1>1, <2>1, <2>2, <2>4
    <3>2. Unheld(u)'
      BY <1>4, <2>1, <2>2, <2>4
    <3> QED
      BY <2>1, <2>2, <2>4, <3>1, <3>2
  <2> QED
    BY <2>3, <2>4
<1>6. SelectOK'
  <2> SUFFICES ASSUME NEW b \in Claimant, pc'[b] = "select"
               PROVE  Free(tasks'[got'[b]]) /\ tasks'[got'[b]].owner \in {NoAgent, AgentOf[b]}
    BY DEF SelectOK, Free, Stale
  <2>1. pc[b] = "select" /\ got'[b] = got[b] /\ got[b] # t /\ got[b] \in Task
    BY <1>2
  <2> QED
    BY <1>1, <2>1 DEF ClaimInv, SelectOK
<1>7. SeenOK'
  <2> SUFFICES ASSUME NEW b \in Claimant, NEW u \in DOMAIN seen'[b], Free(seen'[b][u])
               PROVE  /\ tasks'[u] = seen'[b][u] \/ tasks'[u].state = "cancelled"
                      /\ Unheld(u)' /\ Unreleased(u)'
    BY DEF SeenOK, Free, Stale
  <2>1. /\ u \in DOMAIN seen[b] /\ seen'[b][u] = seen[b][u] /\ u \in Task
        /\ u = t => record.state = "cancelled"
    BY DEF ClaimInv, BaseInv, TaskStoreTypeOK
  <2>2. /\ tasks[u] = seen[b][u] \/ tasks[u].state = "cancelled"
        /\ Unheld(u) /\ Unreleased(u)
    BY <2>1 DEF ClaimInv, SeenOK
  <2>3. tasks'[u] = seen'[b][u] \/ tasks'[u].state = "cancelled"
    BY <1>1, <2>1, <2>2
  <2>4. Unreleased(u)'
    BY <2>2 DEF Unreleased
  <2> QED
    BY <1>4, <2>1, <2>2, <2>3, <2>4
<1>8. \A b, d \in Claimant : Holding(b) /\ Holding(d) /\ got[b] = got[d] => b = d
  BY DEF ClaimInv, ClaimedOnce, Holding
<1>9. ClaimedOnce'
  <2> SUFFICES ASSUME NEW b \in Claimant, NEW d \in Claimant, Holding(b)', Holding(d)',
                      got'[b] = got'[d]
               PROVE  b = d
    BY DEF ClaimedOnce, Holding
  <2>1. CASE Holding(b) /\ got'[b] = got[b] /\ Holding(d) /\ got'[d] = got[d]
    BY <1>8, <2>1
  <2>2. CASE got'[b] = t /\ \A e \in Claimant : Holding(e)' /\ got'[e] = t => e = b
    BY <2>2
  <2>3. CASE got'[d] = t /\ \A e \in Claimant : Holding(e)' /\ got'[e] = t => e = d
    BY <2>3
  <2> QED
    BY <2>1, <2>2, <2>3
<1> QED
  BY <1>3, <1>5, <1>6, <1>7, <1>9 DEF ClaimInv

\* The same when a claimant is given the task, and no scan goes on.
LEMMA GivenTo ==
  ASSUME ClaimInv, BaseInv', NEW t \in Task, NEW record \in TaskRecord, NEW c \in Claimant,
         tasks' = [tasks EXCEPT ![t] = record],
         record.state = "assigned", record.lease > 0,
         pc'[c] = "claimed", got'[c] = t, hand'[c] = record,
         \A b \in Claimant : Holding(b)' =>
           \/ /\ Holding(b) /\ pc'[b] = pc[b] /\ got'[b] = got[b] /\ hand'[b] = hand[b]
              /\ got[b] # t
           \/ b = c /\ \A d \in Claimant : Holding(d)' /\ got'[d] = t => d = b,
         \A b \in Claimant : pc'[b] = "select" => /\ pc[b] = "select"
                                                  /\ got'[b] = got[b] /\ got[b] # t,
         \A b \in Claimant : DOMAIN seen'[b] = {},
         todo' = todo, draft' = draft,
         \A h \in Human : t \in todo'[h] => draft[h][t].state = "cancelled"
  PROVE  ClaimInv'
<1>1. \A b \in Claimant : Holding(b)' =>
        \/ /\ Holding(b) /\ pc'[b] = pc[b] /\ got'[b] = got[b] /\ hand'[b] = hand[b]
           /\ got[b] = t => record.state = "cancelled"
        \/ /\ got'[b] = t /\ hand'[b] = record
           /\ pc'[b] = "claimed" => record.state = "assigned" /\ record.lease > 0
           /\ pc'[b] = "working" => record.state = "in-progress"
           /\ \A d \in Claimant : Holding(d)' /\ got'[d] = t => d = b
  OBVIOUS
<1>2. \A h \in Human : \A u \in todo'[h] :
        /\ u \in todo[h] /\ draft'[h][u] = draft[h][u]
        /\ u = t => draft[h][t].state = "cancelled" \/ record.state = "cancelled"
  OBVIOUS
<1>3. \A b \in Claimant : \A u \in DOMAIN seen'[b] :
        /\ u \in DOMAIN seen[b] /\ seen'[b][u] = seen[b][u]
        /\ u = t /\ Free(seen[b][t]) => record.state = "cancelled"
  OBVIOUS
<1> QED
  BY <1>1, <1>2, <1>3, WriteKeeps

LEMMA WriteClaimKeeps ==
  ASSUME ClaimInv, BaseInv', NEW c \in Claimant, WriteClaim(c) PROVE ClaimInv'
<1>1. PICK t \in Task :
        /\ NextClaim(seen[c], t, AgentOf[c])
        /\ tasks' = [tasks EXCEPT ![t] = Claimed(seen[c][t], AgentOf[c])]
        /\ got' = [got EXCEPT ![c] = t]
        /\ hand' = [hand EXCEPT ![c] = Claimed(seen[c][t], AgentOf[c])]
  BY DEF WriteClaim, Picks
<1> DEFINE record == Claimed(seen[c][t], AgentOf[c])
<1>2. /\ pc[c] = "scan" /\ DOMAIN seen[c] = Task
      /\ pc' = [pc EXCEPT ![c] = "claimed"]
      /\ seen' = [seen EXCEPT ![c] = <<>>]
      /\ UNCHANGED cli
  BY DEF WriteClaim, HasRead, GoTo
<1>3. record \in TaskRecord /\ record.state = "assigned" /\ record.lease > 0
  BY <1>2, ClaimedValue, Constants, LeaseAssumption DEF ClaimInv, BaseInv, TaskStoreTypeOK
<1>4. Unheld(t) /\ Unreleased(t)
  BY <1>1, <1>2, ClaimableMeans DEF NextClaim, ClaimInv, SeenOK
<1>5. \A b \in Claimant : DOMAIN seen'[b] = {}
  BY <1>2, AloneInScan, NothingSeen DEF ClaimInv, BaseInv, TaskStoreTypeOK
<1> HIDE DEF record
<1>6. /\ tasks' = [tasks EXCEPT ![t] = record]
      /\ pc'[c] = "claimed" /\ got'[c] = t /\ hand'[c] = record
      /\ \A b \in Claimant \ {c} : pc'[b] = pc[b] /\ got'[b] = got[b] /\ hand'[b] = hand[b]
      /\ todo' = todo /\ draft' = draft
  BY <1>1, <1>2 DEF record, cli, ClaimInv, BaseInv, TaskStoreTypeOK
<1>7. \A b \in Claimant : Holding(b)' =>
        \/ /\ Holding(b) /\ pc'[b] = pc[b] /\ got'[b] = got[b] /\ hand'[b] = hand[b]
           /\ got[b] # t
        \/ b = c /\ \A d \in Claimant : Holding(d)' /\ got'[d] = t => d = b
  BY <1>4, <1>6 DEF Holding, Unheld
<1>8. \A b \in Claimant : pc'[b] = "select" => /\ pc[b] = "select"
                                               /\ got'[b] = got[b] /\ got[b] # t
  BY <1>2, <1>6, AloneInScan DEF ClaimInv
<1>9. \A h \in Human : t \in todo'[h] => draft[h][t].state = "cancelled"
  BY <1>4, <1>6 DEF Unreleased
<1> QED
  BY <1>1, <1>3, <1>5, <1>6, <1>7, <1>8, <1>9, GivenTo

LEMMA CommitKeeps ==
  ASSUME ClaimInv, BaseInv', NEW c \in Claimant, Commit(c) PROVE ClaimInv'
<1> DEFINE t == got[c]
           record == Claimed(tasks[t], AgentOf[c])
<1>1. /\ pc[c] = "select" /\ lane = "postgres" /\ t \in Task
      /\ tasks' = [tasks EXCEPT ![t] = record]
      /\ hand' = [hand EXCEPT ![c] = record]
      /\ pc' = [pc EXCEPT ![c] = "claimed"]
      /\ UNCHANGED <<seen, got, cli>>
  BY DEF Commit, GoTo, ClaimInv, BaseInv, ProcessOK
<1>2. record \in TaskRecord /\ record.state = "assigned" /\ record.lease > 0
  BY <1>1, ClaimedValue, Constants, LeaseAssumption DEF ClaimInv, BaseInv, TaskStoreTypeOK
<1>3. Free(tasks[t])
  BY <1>1 DEF ClaimInv, SelectOK
<1>4. Unheld(t) /\ Unreleased(t)
  BY <1>1, <1>3, NotHeld DEF ClaimInv, DraftsOK, Unreleased, Free, Stale
<1>5. \A b \in Claimant : DOMAIN seen'[b] = {}
  BY <1>1 DEF ClaimInv, BaseInv, ProcessOK
<1>6. \A b \in Claimant : pc[b] = "select" /\ b # c => got[b] # t
  BY <1>1 DEF ClaimInv, BaseInv, LocksOK
<1> HIDE DEF record, t
<1>7. /\ pc'[c] = "claimed" /\ got'[c] = t /\ hand'[c] = record
      /\ \A b \in Claimant \ {c} : pc'[b] = pc[b] /\ got'[b] = got[b] /\ hand'[b] = hand[b]
      /\ todo' = todo /\ draft' = draft
  BY <1>1 DEF t, cli, ClaimInv, BaseInv, TaskStoreTypeOK
<1>8. \A b \in Claimant : Holding(b)' =>
        \/ /\ Holding(b) /\ pc'[b] = pc[b] /\ got'[b] = got[b] /\ hand'[b] = hand[b]
           /\ got[b] # t
        \/ b = c /\ \A d \in Claimant : Holding(d)' /\ got'[d] = t => d = b
  BY <1>4, <1>7 DEF Holding, Unheld
<1>9. \A b \in Claimant : pc'[b] = "select" => /\ pc[b] = "select"
                                               /\ got'[b] = got[b] /\ got[b] # t
  BY <1>6, <1>7
<1>10. \A h \in Human : t \in todo'[h] => draft[h][t].state = "cancelled"
  BY <1>4, <1>7 DEF Unreleased
<1> QED
  BY <1>1, <1>2, <1>5, <1>7, <1>8, <1>9, <1>10, GivenTo

\* A holder writes what it carries.
LEMMA HolderKeeps ==
  ASSUME ClaimInv, BaseInv', NEW t \in Task, NEW record \in TaskRecord, NEW c \in Claimant,
         Begins(t, record, c) \/ Leaves(t, record, c)
  PROVE  ClaimInv'
<1>1. /\ Holding(c) /\ got[c] = t
      /\ locked[t] = NoClaimant
      /\ tasks' = [tasks EXCEPT ![t] = record]
      /\ UNCHANGED <<seen, cli>>
  BY DEF Begins, Leaves, Update, Unlocked, Holding
<1>2. /\ ~Free(tasks[t]) /\ ~Unheld(t)
      /\ \A b \in Claimant \ {c} : Holding(b) => got[b] # t
  BY <1>1 DEF ClaimInv, HandsOK, ClaimedOnce, Holding, Unheld, Free, Stale
<1>3. \A b \in Claimant \ {c} : pc'[b] = pc[b] /\ got'[b] = got[b] /\ hand'[b] = hand[b]
  BY DEF Begins, Leaves, ClaimInv, BaseInv, TaskStoreTypeOK
<1>4. \/ pc'[c] = "idle"
      \/ pc'[c] = "working" /\ got'[c] = t /\ hand'[c] = record /\ record.state = "in-progress"
  BY <1>1 DEF Begins, Leaves, ClaimInv, BaseInv, TaskStoreTypeOK
<1>5. \A b \in Claimant : Holding(b)' =>
        \/ /\ Holding(b) /\ pc'[b] = pc[b] /\ got'[b] = got[b] /\ hand'[b] = hand[b]
           /\ got[b] # t
        \/ b = c /\ \A d \in Claimant : Holding(d)' /\ got'[d] = t => d = b
  BY <1>2, <1>3, <1>4 DEF Holding
<1>6. \A b \in Claimant : pc'[b] = "select" => /\ pc[b] = "select"
                                               /\ got'[b] = got[b] /\ got[b] # t
  BY <1>1, <1>3, <1>4, Constants DEF ClaimInv, BaseInv, LocksOK
<1>7. \A b \in Claimant : t \in DOMAIN seen[b] => ~Free(seen[b][t])
  BY <1>2 DEF ClaimInv, SeenOK
<1>8. \A h \in Human : t \in todo[h] => draft[h][t].state = "cancelled"
  BY <1>2 DEF ClaimInv, DraftsOK
<1>9. todo' = todo /\ draft' = draft /\ seen' = seen
  BY <1>1 DEF cli
<1>10. \A b \in Claimant : Holding(b)' =>
         \/ /\ Holding(b) /\ pc'[b] = pc[b] /\ got'[b] = got[b] /\ hand'[b] = hand[b]
            /\ got[b] = t => record.state = "cancelled"
         \/ /\ got'[b] = t /\ hand'[b] = record
            /\ pc'[b] = "claimed" => record.state = "assigned" /\ record.lease > 0
            /\ pc'[b] = "working" => record.state = "in-progress"
            /\ \A d \in Claimant : Holding(d)' /\ got'[d] = t => d = b
  BY <1>4, <1>5 DEF Holding
<1>11. \A b \in Claimant : \A u \in DOMAIN seen'[b] :
         /\ u \in DOMAIN seen[b] /\ seen'[b][u] = seen[b][u]
         /\ u = t /\ Free(seen[b][t]) => record.state = "cancelled"
  BY <1>7, <1>9
<1>12. \A h \in Human : \A u \in todo'[h] :
         /\ u \in todo[h] /\ draft'[h][u] = draft[h][u]
         /\ u = t => draft[h][t].state = "cancelled" \/ record.state = "cancelled"
  BY <1>8, <1>9
<1> QED
  BY <1>1, <1>6, <1>10, <1>11, <1>12, WriteKeeps

\* A person writes a draft: a cancellation over anything, or the release of a
\* task that nobody holds and nobody else releases.
LEMMA SteersKeeps ==
  ASSUME ClaimInv, Apart, BaseInv', NEW t \in Task, NEW record \in TaskRecord, NEW h \in Human,
         Steers(t, record, h)
  PROVE  ClaimInv'
<1>1. /\ locked[t] = NoClaimant
      /\ t \in todo[h] /\ record = draft[h][t]
      /\ tasks' = [tasks EXCEPT ![t] = record]
      /\ UNCHANGED <<pc, got, hand, seen>>
  BY DEF Steers, Update, Unlocked
<1>2. /\ todo'[h] = todo[h] \ {t}
      /\ \A u \in Task \ {t} : draft'[h][u] = draft[h][u]
      /\ \A g \in Human \ {h} : todo'[g] = todo[g] /\ draft'[g] = draft[g]
  BY DEF Steers, ClaimInv, BaseInv, TaskStoreTypeOK
<1>3. \A g \in Human : todo[g] \subseteq Task
  BY DEF ClaimInv, BaseInv, TaskStoreTypeOK
<1>4. record.state = "cancelled" \/ Unheld(t)
  BY <1>1 DEF ClaimInv, DraftsOK
<1>5. \A b \in Claimant : Holding(b)' =>
        /\ Holding(b) /\ pc'[b] = pc[b] /\ got'[b] = got[b] /\ hand'[b] = hand[b]
        /\ got[b] = t => record.state = "cancelled"
  BY <1>1, <1>4 DEF Holding, Unheld
<1>6. \A b \in Claimant : pc'[b] = "select" => /\ pc[b] = "select"
                                               /\ got'[b] = got[b] /\ got[b] # t
  BY <1>1, Constants DEF ClaimInv, BaseInv, LocksOK
<1>7. \A b \in Claimant : t \in DOMAIN seen[b] /\ Free(seen[b][t]) => record.state = "cancelled"
  BY <1>1 DEF ClaimInv, SeenOK, Unreleased
<1>8. \A g \in Human : \A u \in todo'[g] :
        /\ u \in todo[g] /\ draft'[g][u] = draft[g][u]
        /\ u = t => draft[g][t].state = "cancelled" \/ record.state = "cancelled"
  <2> SUFFICES ASSUME NEW g \in Human, NEW u \in todo'[g]
               PROVE  /\ u \in todo[g] /\ draft'[g][u] = draft[g][u]
                      /\ u = t => draft[g][t].state = "cancelled" \/ record.state = "cancelled"
    OBVIOUS
  <2>1. CASE g = h
    BY <1>2, <1>3, <2>1
  <2>2. CASE g # h
    BY <1>1, <1>2, <2>2 DEF Apart
  <2> QED
    BY <2>1, <2>2
<1> QED
  BY <1>1, <1>5, <1>6, <1>7, <1>8, WriteKeeps

\* A person reads: what is to be released is paused, and so nobody's.
LEMMA ReadsKeep ==
  ASSUME ClaimInv, BaseInv', NEW h \in Human, Reads(h) PROVE ClaimInv'
<1>1. /\ todo[h] = {}
      /\ \A g \in Human \ {h} : todo'[g] = todo[g] /\ draft'[g] = draft[g]
      /\ \A t \in todo'[h] : \/ draft'[h][t].state = "cancelled"
                             \/ draft'[h][t].state = "pending" /\ tasks[t].state = "paused"
      /\ UNCHANGED <<tasks, pc, seen, got, hand>>
      /\ \A g \in Human : todo'[g] \subseteq Task
  BY ReadsForm DEF ClaimInv, BaseInv, TaskStoreTypeOK, CarriedOK
<1>2. \A t : Unheld(t)' <=> Unheld(t)
  BY <1>1 DEF Unheld, Holding
<1>3. DraftsOK'
  BY <1>1, <1>2, NotHeld DEF ClaimInv, DraftsOK
<1>4. SeenOK'
  <2> SUFFICES ASSUME NEW b \in Claimant, NEW t \in DOMAIN seen[b], Free(seen[b][t])
               PROVE  /\ tasks[t] = seen[b][t] \/ tasks[t].state = "cancelled"
                      /\ Unheld(t) /\ Unreleased(t)'
    BY <1>1, <1>2 DEF SeenOK, Free, Stale
  <2>1. /\ tasks[t] = seen[b][t] \/ tasks[t].state = "cancelled"
        /\ Unheld(t) /\ Unreleased(t)
    BY DEF ClaimInv, SeenOK
  <2>2. tasks[t].state # "paused"
    BY <2>1 DEF Free, Stale
  <2> QED
    BY <1>1, <2>1, <2>2 DEF Unreleased
<1>5. HandsOK' /\ SelectOK' /\ ClaimedOnce'
  BY <1>1 DEF ClaimInv, HandsOK, SelectOK, ClaimedOnce, Holding, Free, Stale
<1> QED
  BY <1>3, <1>4, <1>5 DEF ClaimInv

\* No holder outlives its lease, and no lease runs out under a scan.
LEMMA TickKeeps ==
  ASSUME ClaimInv, BaseInv', Tick, TimelyTick, PromptTick PROVE ClaimInv'
<1>1. BaseInv
  BY DEF ClaimInv
<1>2. \A t \in Task : tasks[t] \in TaskRecord /\ tasks'[t] = Aged(tasks[t])
                      /\ tasks'[t].state = tasks[t].state
  BY <1>1, TickForm DEF BaseInv, TaskStoreTypeOK
<1>3. UNCHANGED <<pc, got, todo>>
  BY <1>1, TickForm
<1>4. \A t : Unheld(t)' <=> Unheld(t)
  BY <1>3 DEF Unheld, Holding
<1>5. HandsOK'
  <2> SUFFICES ASSUME NEW c \in Claimant, Holding(c)
               PROVE  /\ tasks'[got[c]] = hand'[c] \/ tasks'[got[c]].state = "cancelled"
                      /\ pc[c] = "claimed" => hand'[c].state = "assigned" /\ hand'[c].lease > 0
                      /\ pc[c] = "working" => hand'[c].state = "in-progress"
    BY <1>3 DEF HandsOK, Holding
  <2>1. got[c] \in Task /\ hand[c] \in TaskRecord /\ hand'[c] = Aged(hand[c])
    BY <1>1, TickCarries DEF BaseInv, ProcessOK
  <2>2. /\ tasks[got[c]] = hand[c] \/ tasks[got[c]].state = "cancelled"
        /\ pc[c] = "claimed" => hand[c].state = "assigned" /\ hand[c].lease > 1
        /\ pc[c] = "working" => hand[c].state = "in-progress"
    BY DEF ClaimInv, HandsOK, TimelyTick
  <2> QED
    BY <1>2, <2>1, <2>2, AgedValue, FieldType
<1>6. DraftsOK'
  <2> SUFFICES ASSUME NEW h \in Human, NEW t \in todo[h]
               PROVE  \/ draft'[h][t].state = "cancelled"
                      \/ /\ draft'[h][t].state = "pending"
                         /\ tasks'[t].state \in {"paused", "cancelled"}
                         /\ Unheld(t)
    BY <1>3, <1>4 DEF DraftsOK
  <2>1. t \in Task
    BY <1>1 DEF BaseInv, TaskStoreTypeOK
  <2> QED
    BY <1>1, <1>2, <2>1, TickCarries DEF ClaimInv, DraftsOK
<1>7. SelectOK'
  <2> SUFFICES ASSUME NEW c \in Claimant, pc[c] = "select"
               PROVE  Free(tasks'[got[c]]) /\ tasks'[got[c]].owner \in {NoAgent, AgentOf[c]}
    BY <1>3 DEF SelectOK, Free, Stale
  <2>1. got[c] \in Task
    BY <1>1 DEF BaseInv, ProcessOK
  <2> QED
    BY <1>2, <2>1, AgedIsFree, AgedValue DEF ClaimInv, SelectOK
<1>8. SeenOK'
  <2> SUFFICES ASSUME NEW c \in Claimant, NEW t \in DOMAIN seen[c], Free(seen'[c][t])
               PROVE  /\ tasks'[t] = seen'[c][t] \/ tasks'[t].state = "cancelled"
                      /\ Unheld(t) /\ Unreleased(t)'
    BY <1>1, <1>4, TickForm DEF SeenOK, Free, Stale
  <2>1. /\ t \in Task /\ seen[c][t] \in TaskRecord
        /\ seen'[c][t] = Aged(seen[c][t])
        /\ ~Expiring(seen[c][t])
    BY <1>1, TickForm DEF BaseInv, TaskStoreTypeOK, PromptTick
  <2>2. Free(seen[c][t])
    BY <2>1, AgedIsFree
  <2>3. /\ tasks[t] = seen[c][t] \/ tasks[t].state = "cancelled"
        /\ Unheld(t) /\ Unreleased(t)
    BY <2>2 DEF ClaimInv, SeenOK
  <2>4. Unreleased(t)'
    BY <1>1, <1>3, <2>1, <2>3, TickCarries DEF Unreleased
  <2> QED
    BY <1>2, <2>1, <2>3, <2>4
<1>9. ClaimedOnce'
  BY <1>3 DEF ClaimInv, ClaimedOnce
<1> QED
  BY <1>5, <1>6, <1>7, <1>8, <1>9 DEF ClaimInv

LEMMA ClaimStep ==
  ClaimInv /\ Apart /\ [Next]_vars /\ [TimelyTick]_vars /\ [PromptTick]_vars => ClaimInv'
<1> SUFFICES ASSUME ClaimInv, Apart, [Next]_vars, [TimelyTick]_vars, [PromptTick]_vars
             PROVE  ClaimInv'
  OBVIOUS
<1>1. BaseInv'
  BY BaseStep DEF ClaimInv
<1>2. ASSUME NEW c \in Claimant, Lock(c) \/ Read(c) \/ GiveUp(c) \/ Select(c) \/ Die(c)
      PROVE  ClaimInv'
  BY <1>1, <1>2, ReadingKeeps
<1>3. ASSUME NEW c \in Claimant, WriteClaim(c) \/ Commit(c)
      PROVE  ClaimInv'
  BY <1>1, <1>3, WriteClaimKeeps, CommitKeeps
<1>4. CASE \/ \E c \in Claimant : Begin(c) \/ Finish(c) \/ Pause(c)
           \/ \E h \in Human : WriteTask(h)
  <2>1. PICK t \in Task, record \in TaskRecord :
          \/ \E c \in Claimant : Begins(t, record, c) \/ Leaves(t, record, c)
          \/ \E h \in Human : Steers(t, record, h)
    BY <1>4, UpdateForm DEF ClaimInv
  <2> QED
    BY <1>1, <2>1, HolderKeeps, SteersKeeps
<1>5. CASE \E h \in Human : Reads(h)
  BY <1>1, <1>5, ReadsKeep
<1>6. CASE UNCHANGED vars
  <2>1. UNCHANGED <<tasks, pc, seen, got, hand, todo, draft>>
    BY <1>6 DEF vars, cli
  <2>2. \A t : (Unheld(t)' <=> Unheld(t)) /\ (Unreleased(t)' <=> Unreleased(t))
    BY <2>1 DEF Unheld, Unreleased, Holding
  <2>3. HandsOK' /\ DraftsOK' /\ SelectOK' /\ ClaimedOnce'
    BY <2>1, <2>2 DEF ClaimInv, HandsOK, DraftsOK, SelectOK, ClaimedOnce, Holding, Free, Stale
  <2>4. SeenOK'
    BY <2>1, <2>2 DEF ClaimInv, SeenOK, Free, Stale
  <2> QED
    BY <1>1, <2>3, <2>4 DEF ClaimInv
<1>7. CASE Tick
  <2>1. CASE TimelyTick /\ PromptTick
    BY <1>1, <1>7, <2>1, TickKeeps
  <2>2. CASE UNCHANGED vars
    BY <1>6, <2>2
  <2> QED
    BY <2>1, <2>2
<1> QED
  BY <1>2, <1>3, <1>4, <1>5, <1>6, <1>7 DEF Next, Reads

\* No two processes are ever given, and keep, the same task, whoever dies and
\* whatever people cancel, if nobody outlives the lease of its claim, no lease
\* runs out under a scan and no two people release the same task at once; and
\* every such state is well typed.
THEOREM ClaimsAreExclusive ==
  Spec /\ []Apart /\ [][TimelyTick]_vars /\ [][PromptTick]_vars => []StoreInv
<1>1. ClaimInv => StoreInv
  BY DEF ClaimInv, BaseInv, StoreInv
<1> QED
  BY <1>1, ClaimStep, ClaimInit, PTL DEF Spec

-----------------------------------------------------------------------------
(***************************************************************************)
(* Atomicity.                                                              *)
(***************************************************************************)
LEMMA FreshInit == Init => FreshOK
<1> SUFFICES ASSUME Init PROVE FreshOK
  OBVIOUS
<1>1. \A c \in Claimant : DOMAIN seen[c] = {} /\ pc[c] = "idle"
  BY DEF Init
<1> QED
  BY <1>1 DEF FreshOK

\* A write leaves what is done and what is free to a scan as it was, unless it
\* is a cancellation.
LEMMA WriteKeepsFresh ==
  ASSUME ClaimInv, FreshOK, NEW t \in Task, NEW record \in TaskRecord,
         tasks' = [tasks EXCEPT ![t] = record],
         CancelsFallBetween,
         \/ record.state = "cancelled"
         \/ /\ tasks[t].state # "done"
            /\ \A b \in Claimant : t \in DOMAIN seen[b] => ~Free(seen[b][t]),
         UNCHANGED seen,
         \A b \in Claimant : pc'[b] = "select" => pc[b] = "select" /\ got'[b] = got[b]
  PROVE  FreshOK'
<1>1. /\ tasks'[t] = record
      /\ \A u \in Task \ {t} : tasks'[u] = tasks[u]
  BY DEF ClaimInv, BaseInv, TaskStoreTypeOK
<1>2. \A b \in Claimant : /\ DOMAIN seen[b] \subseteq Task
                          /\ pc[b] = "select" => DependsOn[got[b]] \subseteq Task
  BY Constants DEF ClaimInv, BaseInv, TaskStoreTypeOK, ProcessOK
\* What a claim relies on is not cancelled.
<1>3. ASSUME NEW b \in Claimant, NEW u \in ReadBy(b), u \in Task,
             tasks[u].state = "done" \/ (u \in DOMAIN seen[b] /\ Free(seen[b][u]))
      PROVE  tasks'[u] = tasks[u]
  <2>1. u = t => record.state # "cancelled"
    BY <1>1, <1>3 DEF CancelsFallBetween, FreshOK, Free, Stale
  <2>2. u # t
    BY <1>3, <2>1
  <2> QED
    BY <1>1, <1>3, <2>2
<1>4. ASSUME NEW b \in Claimant, NEW u \in DOMAIN seen[b]
      PROVE  /\ Free(seen[b][u]) => tasks'[u] = seen[b][u]
             /\ seen[b][u].state = "done" => tasks'[u].state = "done"
  <2>1. u \in ReadBy(b) /\ u \in Task
    BY <1>2 DEF ReadBy
  <2>2. /\ Free(seen[b][u]) => tasks[u] = seen[b][u]
        /\ seen[b][u].state = "done" => tasks[u].state = "done"
    BY DEF FreshOK
  <2> QED
    BY <1>3, <2>1, <2>2
<1>5. ASSUME NEW b \in Claimant, pc'[b] = "select", NEW d \in DependsOn[got'[b]]
      PROVE  tasks'[d].state = "done"
  <2>1. pc[b] = "select" /\ d \in DependsOn[got[b]] /\ d \in Task
    BY <1>2, <1>5
  <2>2. tasks[d].state = "done" /\ d \in ReadBy(b)
    BY <2>1 DEF FreshOK, ReadBy
  <2> QED
    BY <1>3, <2>1, <2>2
<1> QED
  BY <1>4, <1>5 DEF FreshOK, Free, Stale

LEMMA FreshStep ==
  /\ ClaimInv /\ FreshOK /\ [Next]_vars
  /\ [PromptTick]_vars /\ [CancelsFallBetween]_vars
  => FreshOK'
<1> SUFFICES ASSUME ClaimInv, FreshOK, [Next]_vars,
                    [PromptTick]_vars, [CancelsFallBetween]_vars
             PROVE  FreshOK'
  OBVIOUS
<1>0. BaseInv
  BY DEF ClaimInv
<1>1. ASSUME NEW c \in Claimant, Lock(c) \/ GiveUp(c) \/ Die(c)
      PROVE  FreshOK'
  <2>1. /\ tasks' = tasks
        /\ \A b \in Claimant : DOMAIN seen'[b] = {} \/ seen'[b] = seen[b]
        /\ \A b \in Claimant : pc'[b] = "select" => pc[b] = "select" /\ got'[b] = got[b]
    BY <1>0, <1>1, NothingSeen
       DEF Lock, GiveUp, Die, LetGo, GoTo, BaseInv, TaskStoreTypeOK
  <2> QED
    BY <2>1 DEF FreshOK, Free, Stale
<1>2. ASSUME NEW c \in Claimant, Read(c)
      PROVE  FreshOK'
  <2>1. /\ UNCHANGED <<tasks, pc, got>>
        /\ \A b \in Claimant : \A t \in DOMAIN seen'[b] :
             \/ t \in DOMAIN seen[b] /\ seen'[b][t] = seen[b][t]
             \/ seen'[b][t] = tasks[t]
    BY <1>0, <1>2 DEF Read, BaseInv, TaskStoreTypeOK
  <2> QED
    BY <2>1 DEF FreshOK, Free, Stale
<1>3. ASSUME NEW c \in Claimant, Select(c)
      PROVE  FreshOK'
  <2>1. /\ UNCHANGED <<tasks, seen>>
        /\ \A b \in Claimant : pc'[b] = "select" =>
             \/ pc[b] = "select" /\ got'[b] = got[b]
             \/ Claimable(tasks, got'[b], AgentOf[b])
    BY <1>0, <1>3 DEF Select, GoTo, ClaimableBy, BaseInv, TaskStoreTypeOK
  <2> QED
    BY <2>1, ClaimableMeans DEF FreshOK, Free, Stale
<1>4. ASSUME NEW c \in Claimant, WriteClaim(c)
      PROVE  FreshOK'
  <2>1. pc[c] = "scan" /\ pc' = [pc EXCEPT ![c] = "claimed"] /\ seen' = [seen EXCEPT ![c] = <<>>]
    BY <1>4 DEF WriteClaim, HasRead, GoTo
  <2>2. \A b \in Claimant : DOMAIN seen'[b] = {} /\ pc'[b] # "select"
    BY <1>0, <2>1, AloneInScan, NothingSeen DEF BaseInv, TaskStoreTypeOK
  <2> QED
    BY <2>2 DEF FreshOK
<1>5. ASSUME NEW c \in Claimant, Commit(c)
      PROVE  FreshOK'
  <2>1. /\ pc[c] = "select" /\ lane = "postgres" /\ got[c] \in Task
        /\ tasks' = [tasks EXCEPT ![got[c]] = Claimed(tasks[got[c]], AgentOf[c])]
        /\ pc' = [pc EXCEPT ![c] = "claimed"]
        /\ UNCHANGED <<seen, got>>
    BY <1>0, <1>5 DEF Commit, GoTo, BaseInv, ProcessOK
  <2>2. Free(tasks[got[c]])
    BY <2>1 DEF ClaimInv, SelectOK
  <2>3. \A b \in Claimant : DOMAIN seen'[b] = {}
    BY <1>0, <2>1 DEF BaseInv, ProcessOK
  <2>4. \A d \in Task : tasks[d].state = "done" => tasks'[d].state = "done"
    BY <1>0, <2>1, <2>2 DEF BaseInv, TaskStoreTypeOK, Free, Stale
  <2>5. \A b \in Claimant : pc'[b] = "select" => /\ pc[b] = "select" /\ got'[b] = got[b]
                                                 /\ DependsOn[got[b]] \subseteq Task
    BY <1>0, <2>1, Constants DEF BaseInv, TaskStoreTypeOK, ProcessOK
  <2> QED
    BY <2>3, <2>4, <2>5 DEF FreshOK
<1>6. ASSUME CancelsFallBetween,
             \/ \E c \in Claimant : Begin(c) \/ Finish(c) \/ Pause(c)
             \/ \E h \in Human : WriteTask(h)
      PROVE  FreshOK'
  <2>1. PICK t \in Task, record \in TaskRecord :
          \/ \E c \in Claimant : Begins(t, record, c) \/ Leaves(t, record, c)
          \/ \E h \in Human : Steers(t, record, h)
    BY <1>0, <1>6, UpdateForm
  <2>2. CASE \E c \in Claimant : Begins(t, record, c) \/ Leaves(t, record, c)
    <3>1. PICK c \in Claimant : Begins(t, record, c) \/ Leaves(t, record, c)
      BY <2>2
    <3>2. /\ Holding(c) /\ got[c] = t
          /\ tasks' = [tasks EXCEPT ![t] = record]
          /\ UNCHANGED seen
          /\ \A b \in Claimant : pc'[b] = "select" => pc[b] = "select" /\ got'[b] = got[b]
      BY <1>0, <3>1 DEF Begins, Leaves, Update, Holding, BaseInv, TaskStoreTypeOK
    <3>3. tasks[t].state # "done" /\ ~Unheld(t)
      BY <3>2 DEF ClaimInv, HandsOK, Holding, Unheld
    <3>4. \A b \in Claimant : t \in DOMAIN seen[b] => ~Free(seen[b][t])
      BY <3>3 DEF ClaimInv, SeenOK
    <3> QED
      BY <1>6, <3>2, <3>3, <3>4, WriteKeepsFresh
  <2>3. CASE \E h \in Human : Steers(t, record, h)
    <3>1. PICK h \in Human : Steers(t, record, h)
      BY <2>3
    <3>2. /\ t \in todo[h] /\ record = draft[h][t]
          /\ tasks' = [tasks EXCEPT ![t] = record]
          /\ UNCHANGED <<seen, pc, got>>
      BY <3>1 DEF Steers, Update
    <3>3. \/ record.state = "cancelled"
          \/ tasks[t].state \in {"paused", "cancelled"}
      BY <3>2 DEF ClaimInv, DraftsOK
    <3>4. \/ record.state = "cancelled"
          \/ \A b \in Claimant : t \in DOMAIN seen[b] => ~Free(seen[b][t])
      BY <3>2 DEF ClaimInv, SeenOK, Unreleased
    <3> QED
      BY <1>6, <3>2, <3>3, <3>4, WriteKeepsFresh
  <2> QED
    BY <2>1, <2>2, <2>3
<1>7. CASE \E h \in Human : Reads(h)
  <2>1. UNCHANGED <<tasks, pc, seen, got>>
    BY <1>0, <1>7, ReadsForm
  <2> QED
    BY <2>1 DEF FreshOK, Free, Stale
<1>8. CASE UNCHANGED vars
  BY <1>8 DEF vars, FreshOK, Free, Stale
<1>9. CASE Tick /\ PromptTick
  <2>1. ASSUME NEW c \in Claimant, NEW t \in DOMAIN seen[c]
        PROVE  /\ t \in Task /\ seen'[c][t] = Aged(seen[c][t])
               /\ Free(seen'[c][t]) => Free(seen[c][t])
               /\ seen'[c][t].state = "done" => seen[c][t].state = "done"
    <3>1. seen[c][t] \in TaskRecord /\ seen'[c][t] = Aged(seen[c][t])
      BY <1>0, <1>9, TickForm
    <3>2. ~Expiring(seen[c][t]) /\ t \in Task
      BY <1>0, <1>9 DEF PromptTick, BaseInv, TaskStoreTypeOK
    <3> QED
      BY <3>1, <3>2, AgedIsFree, AgedValue
  <2>2. /\ \A t \in Task : tasks'[t] = Aged(tasks[t]) /\ tasks'[t].state = tasks[t].state
        /\ \A c \in Claimant : DOMAIN seen'[c] = DOMAIN seen[c]
        /\ UNCHANGED <<pc, got>>
    BY <1>0, <1>9, TickForm
  <2>3. \A c \in Claimant : pc[c] = "select" => DependsOn[got[c]] \subseteq Task
    BY <1>0, Constants DEF BaseInv, ProcessOK
  <2> QED
    BY <2>1, <2>2, <2>3 DEF FreshOK, Free, Stale
<1>10. CASE Tick
  BY <1>8, <1>9, <1>10
<1> QED
  BY <1>1, <1>2, <1>3, <1>4, <1>5, <1>6, <1>7, <1>8, <1>10 DEF Next, Reads

\* The contract and its implementation speak of the same records and rule.
LEMMA SameRules ==
  /\ Abstract!TaskRecord = TaskRecord
  /\ \A t, agent : Abstract!Claimable(tasks, t, agent) <=> Claimable(tasks, t, agent)
  /\ \A rec : Abstract!Aged(rec) = Aged(rec)
  /\ \A rec, agent : Abstract!Claimed(rec, agent) = Claimed(rec, agent)
<1>1. Abstract!TaskRecord = TaskRecord
  BY DEF Abstract!TaskRecord, Abstract!Owner, Abstract!TaskState, Abstract!Lease,
         Abstract!PauseReason, Abstract!NoLease,
         TaskRecord, Owner, TaskState, Lease, PauseReason, NoLease
<1>2. \A t, agent : Abstract!Claimable(tasks, t, agent) <=> Claimable(tasks, t, agent)
  BY DEF Abstract!Claimable, Abstract!Stale, Abstract!DepsDone, Claimable, Stale, DepsDone
<1>3. \A rec : Abstract!Aged(rec) = Aged(rec)
  BY DEF Abstract!Aged, Aged
<1>4. \A rec, agent : Abstract!Claimed(rec, agent) = Claimed(rec, agent)
  BY DEF Abstract!Claimed, Claimed
<1> QED
  BY <1>1, <1>2, <1>3, <1>4

\* What holders and people write is never a claim.
LEMMA UpdateIsAbstract ==
  ASSUME ClaimInv,
         \/ \E c \in Claimant : Begin(c) \/ Finish(c) \/ Pause(c)
         \/ \E h \in Human : WriteTask(h)
  PROVE  \E t \in Task : Abstract!Write(t)
<1>1. PICK t \in Task, record \in TaskRecord :
        \/ \E c \in Claimant : Begins(t, record, c) \/ Leaves(t, record, c)
        \/ \E h \in Human : Steers(t, record, h)
  BY UpdateForm DEF ClaimInv
<1>2. tasks' = [tasks EXCEPT ![t] = record]
  BY <1>1 DEF Begins, Leaves, Steers, Update
<1>3. record.state # "assigned"
  <2>1. CASE \E c \in Claimant : Begins(t, record, c) \/ Leaves(t, record, c)
    BY <2>1 DEF Begins, Leaves
  <2>2. CASE \E h \in Human : Steers(t, record, h)
    BY <2>2 DEF Steers, ClaimInv, DraftsOK
  <2> QED
    BY <1>1, <2>1, <2>2
<1> QED
  BY <1>2, <1>3 DEF ClaimInv, BaseInv, TaskStoreTypeOK, Abstract!Write

\* What a claim writes, at the moment it writes it, is the atomic claim.
LEMMA ClaimIsAbstract ==
  ASSUME ClaimInv, FreshOK, NEW c \in Claimant, WriteClaim(c) \/ Commit(c)
  PROVE  \E t \in Task, agent \in Agent : Abstract!Claim(t, agent)
<1>1. AgentOf[c] \in Agent
  BY Constants
<1>2. CASE Commit(c)
  <2>1. got[c] \in Task /\ Claimable(tasks, got[c], AgentOf[c])
    BY <1>2, ClaimableMeans
       DEF Commit, ClaimInv, SelectOK, FreshOK, BaseInv, ProcessOK
  <2> QED
    BY <1>1, <1>2, <2>1, SameRules DEF Commit, Abstract!Claim
<1>3. CASE WriteClaim(c)
  <2>1. PICK t \in Task :
          /\ NextClaim(seen[c], t, AgentOf[c])
          /\ tasks' = [tasks EXCEPT ![t] = Claimed(seen[c][t], AgentOf[c])]
    BY <1>3 DEF WriteClaim, Picks
  <2>2. Claimable(seen[c], t, AgentOf[c]) /\ DOMAIN seen[c] = Task
    BY <1>3, <2>1 DEF WriteClaim, HasRead, NextClaim
  <2>3. tasks[t] = seen[c][t] /\ \A d \in DependsOn[t] : tasks[d].state = "done"
    BY <2>2, ClaimableMeans, Constants DEF FreshOK
  <2>4. Claimable(tasks, t, AgentOf[c])
    BY <2>2, <2>3, ClaimableMeans
  <2> QED
    BY <1>1, <2>1, <2>3, <2>4, SameRules DEF Abstract!Claim
<1> QED
  BY <1>2, <1>3

LEMMA StepIsAbstract ==
  ASSUME ClaimInv, FreshOK, [Next]_vars
  PROVE  [Abstract!Next]_tasks
<1>1. BaseInv
  BY DEF ClaimInv
<1>2. CASE \E c \in Claimant : Lock(c) \/ Read(c) \/ GiveUp(c) \/ Select(c) \/ Die(c)
  BY <1>2 DEF Lock, Read, GiveUp, Select, Die
<1>3. CASE \E c \in Claimant : WriteClaim(c) \/ Commit(c)
  BY <1>3, ClaimIsAbstract DEF Abstract!Next
<1>4. CASE \/ \E c \in Claimant : Begin(c) \/ Finish(c) \/ Pause(c)
           \/ \E h \in Human : WriteTask(h)
  BY <1>4, UpdateIsAbstract DEF Abstract!Next
<1>5. CASE Tick
  BY <1>5, SameRules DEF Tick, Abstract!Next, Abstract!Age
<1>6. CASE \E h \in Human : Reads(h)
  BY <1>1, <1>6, ReadsForm
<1>7. CASE UNCHANGED vars
  BY <1>7 DEF vars
<1> QED
  BY <1>2, <1>3, <1>4, <1>5, <1>6, <1>7 DEF Next, Reads

\* Both lanes implement the atomic claim of stores/base.py, on the conditions of
\* exclusion, if cancellations also fall between claims: a scan can overwrite a
\* cancellation, and a transaction take a task whose dependency is cancelled.
THEOREM ClaimsAreAtomic ==
  /\ Spec /\ []Apart
  /\ [][TimelyTick]_vars /\ [][PromptTick]_vars /\ [][CancelsFallBetween]_vars
  => ImplementsClaims
<1>1. Init => Abstract!Init
  BY BaseInit, SameRules DEF BaseInv, TaskStoreTypeOK, Abstract!Init
<1>2. ClaimInv /\ FreshOK /\ [Next]_vars => [Abstract!Next]_tasks
  BY StepIsAbstract
<1> QED
  BY <1>1, <1>2, ClaimInit, ClaimStep, FreshInit, FreshStep, PTL
     DEF Spec, ImplementsClaims, Abstract!Spec
=============================================================================
