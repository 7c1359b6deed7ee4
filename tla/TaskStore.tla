----------------------------- MODULE TaskStore -----------------------------
(***************************************************************************)
(* How a claim is carried out.  FileTaskStore.claim holds an flock, reads  *)
(* the task files one by one and rewrites the one it picks; update() needs *)
(* no lock.  PostgresTaskStore.claim is a transaction that locks the       *)
(* oldest claimable row nobody has locked and updates it; an UPDATE by id  *)
(* waits for the lock.  Around the claims, holders write the record they   *)
(* carry in memory over the stored one, die and come back, and people read *)
(* records, to release or cancel them, and write them back later.          *)
(***************************************************************************)
EXTENDS Tasks

CONSTANTS
  Claimant,     \* the processes that call claim()
  NoClaimant,
  AgentOf,      \* [Claimant -> Agent]: the agent each one claims for
  Human,        \* the people (shells) that issue CLI commands
  MaxDeaths,    \* bound on the number of deaths
  MaxCommands   \* bound on the number of commands people issue

ASSUME TaskStoreAssumption ==
  /\ NoClaimant \notin Claimant
  /\ AgentOf \in [Claimant -> Agent]
  /\ MaxDeaths \in Nat /\ MaxCommands \in Nat

VARIABLES
  lane,    \* "file" or "postgres"
  tasks,   \* [Task -> TaskRecord]: the stored records
  flock,   \* the claimant that holds the file store's lock
  locked,  \* [Task -> the claimant whose transaction has locked the row]
  pc,      \* [Claimant -> Point]
  seen,    \* [Claimant -> the records read by the claim in progress]
  got,     \* [Claimant -> the task claim() returned, or NoTask]
  hand,    \* [Claimant -> TaskRecord]: the Task object the holder works on
  todo,    \* [Human -> SUBSET Task]: records read and not yet written back
  draft,   \* [Human -> [Task -> TaskRecord]]: what will be written
  ripe,    \* history: what each claim in progress could have taken all along
  deaths,  \* history: how many claimants have died
  commands \* history: how many commands people have issued

cli  == <<todo, draft, commands>>
vars == <<lane, tasks, flock, locked, pc, seen, got, hand, cli, ripe, deaths>>

NoTask == 0

\* Not in a claim; reading files; holding a row; holding a task; working on it.
Point == {"idle", "scan", "select", "claimed", "working"}

TaskStoreTypeOK ==
  /\ lane \in {"file", "postgres"}
  /\ tasks \in [Task -> TaskRecord]
  /\ flock \in Claimant \cup {NoClaimant}
  /\ locked \in [Task -> Claimant \cup {NoClaimant}]
  /\ pc \in [Claimant -> Point]
  /\ DOMAIN seen = Claimant
  /\ \A c \in Claimant : DOMAIN seen[c] \subseteq Task /\ seen[c] \in [DOMAIN seen[c] -> TaskRecord]
  /\ got \in [Claimant -> Task \cup {NoTask}]
  /\ hand \in [Claimant -> TaskRecord]
  /\ todo \in [Human -> SUBSET Task]
  /\ draft \in [Human -> [Task -> TaskRecord]]
  /\ ripe \in [Claimant -> SUBSET Task]
  /\ deaths \in 0..MaxDeaths
  /\ commands \in 0..MaxCommands

Blank == NewTask(NoAgent)

Init ==
  /\ lane \in {"file", "postgres"}
  /\ tasks = [t \in Task |-> NewTask(PlannedOwner[t])]
  /\ flock = NoClaimant
  /\ locked = [t \in Task |-> NoClaimant]
  /\ pc = [c \in Claimant |-> "idle"]
  /\ seen = [c \in Claimant |-> <<>>]
  /\ got = [c \in Claimant |-> NoTask]
  /\ hand = [c \in Claimant |-> Blank]
  /\ todo = [h \in Human |-> {}]
  /\ draft = [h \in Human |-> [t \in Task |-> Blank]]
  /\ ripe = [c \in Claimant |-> {}]
  /\ deaths = 0
  /\ commands = 0

-----------------------------------------------------------------------------
ClaimableBy(c) == {t \in Task : Claimable(tasks, t, AgentOf[c])}

\* What stays claimable for those who are looking.
StillRipe == ripe' = [c \in Claimant |-> {t \in ripe[c] : Claimable(tasks', t, AgentOf[c])}]

GoTo(c, point) == pc' = [pc EXCEPT ![c] = point]

FlockIgnored(c) == TRUE

FlockFree(c) == flock = NoClaimant

Lock(c) ==
  /\ lane = "file" /\ pc[c] = "idle"
  /\ FlockFree(c)
  /\ flock' = c
  /\ seen' = [seen EXCEPT ![c] = <<>>]
  /\ ripe' = [ripe EXCEPT ![c] = ClaimableBy(c)]
  /\ GoTo(c, "scan")
  /\ UNCHANGED <<lane, tasks, locked, got, hand, cli, deaths>>

\* One read_text; the files come in the order of their names, which are random.
Read(c) ==
  /\ pc[c] = "scan"
  /\ \E t \in Task \ DOMAIN seen[c] :
       seen' = [seen EXCEPT ![c] =
                  [u \in DOMAIN @ \cup {t} |-> IF u = t THEN tasks[t] ELSE @[u]]]
  /\ UNCHANGED <<lane, tasks, flock, locked, pc, got, hand, cli, ripe, deaths>>

HasRead(c) == pc[c] = "scan" /\ DOMAIN seen[c] = Task

AnyClaimable(table, t, agent) == Claimable(table, t, agent)

Picks(table, t, agent) == NextClaim(table, t, agent)

\* Rewrite the picked record as it was read, changed, and unlock.
WriteClaim(c) ==
  /\ HasRead(c)
  /\ \E t \in Task :
       /\ Picks(seen[c], t, AgentOf[c])
       /\ tasks' = [tasks EXCEPT ![t] = Claimed(seen[c][t], AgentOf[c])]
       /\ got' = [got EXCEPT ![c] = t]
       /\ hand' = [hand EXCEPT ![c] = Claimed(seen[c][t], AgentOf[c])]
  /\ flock' = NoClaimant
  /\ seen' = [seen EXCEPT ![c] = <<>>]
  /\ StillRipe
  /\ GoTo(c, "claimed")
  /\ UNCHANGED <<lane, locked, cli, deaths>>

\* claim() returns None.
GiveUp(c) ==
  /\ HasRead(c)
  /\ NothingFor(seen[c], AgentOf[c])
  /\ flock' = NoClaimant
  /\ seen' = [seen EXCEPT ![c] = <<>>]
  /\ GoTo(c, "idle")
  /\ UNCHANGED <<lane, tasks, locked, got, hand, cli, ripe, deaths>>

LockIgnored(t) == TRUE

Unlocked(t) == locked[t] = NoClaimant

\* SELECT ... FOR UPDATE SKIP LOCKED LIMIT 1.
Select(c) ==
  /\ lane = "postgres" /\ pc[c] = "idle"
  /\ \E t \in ClaimableBy(c) :
       /\ Unlocked(t)
       /\ \A u \in ClaimableBy(c) : u < t => ~Unlocked(u)
       /\ locked' = [locked EXCEPT ![t] = c]
       /\ got' = [got EXCEPT ![c] = t]
  /\ ripe' = [ripe EXCEPT ![c] = {t \in ClaimableBy(c) : Unlocked(t)}]
  /\ GoTo(c, "select")
  /\ UNCHANGED <<lane, tasks, flock, seen, hand, cli, deaths>>

\* The UPDATE, and COMMIT.
Commit(c) ==
  LET t == got[c] IN
  /\ pc[c] = "select"
  /\ tasks' = [tasks EXCEPT ![t] = Claimed(tasks[t], AgentOf[c])]
  /\ hand' = [hand EXCEPT ![c] = Claimed(tasks[t], AgentOf[c])]
  /\ locked' = [locked EXCEPT ![t] = NoClaimant]
  /\ StillRipe
  /\ GoTo(c, "claimed")
  /\ UNCHANGED <<lane, flock, seen, got, cli, deaths>>

-----------------------------------------------------------------------------
\* store.update: the record, whatever is stored; in Postgres it waits for a lock.
Update(t, record) ==
  /\ Unlocked(t)
  /\ tasks' = [tasks EXCEPT ![t] = record]
  /\ StillRipe
  /\ UNCHANGED <<lane, flock, locked, seen, deaths>>

\* Coordinator._transition writes the Task object in the holder's hands.
Begin(c) ==
  /\ pc[c] = "claimed"
  /\ hand' = [hand EXCEPT ![c].state = "in-progress"]
  /\ Update(got[c], hand'[c])
  /\ GoTo(c, "working")
  /\ UNCHANGED <<got, cli>>

LetGo(c) ==
  /\ got' = [got EXCEPT ![c] = NoTask]
  /\ hand' = [hand EXCEPT ![c] = Blank]
  /\ GoTo(c, "idle")

Finish(c) ==
  /\ pc[c] = "working"
  /\ Update(got[c], [hand[c] EXCEPT !.state = "done"])
  /\ LetGo(c)
  /\ UNCHANGED cli

\* A guard stops the task, before its turn or at its completion; which is left out.
Pause(c) ==
  /\ pc[c] \in {"claimed", "working"}
  /\ Update(got[c], [hand[c] EXCEPT !.state = "paused", !.pause_reason = "guard:pauseOn"])
  /\ LetGo(c)
  /\ UNCHANGED cli

\* A death frees the flock, or rolls the transaction back.  A run that ends on
\* its budget leaves its task the same way.
Die(c) ==
  /\ pc[c] # "idle"
  /\ deaths < MaxDeaths
  /\ deaths' = deaths + 1
  /\ flock' = IF flock = c THEN NoClaimant ELSE flock
  /\ locked' = [t \in Task |-> IF locked[t] = c THEN NoClaimant ELSE locked[t]]
  /\ seen' = [seen EXCEPT ![c] = <<>>]
  /\ LetGo(c)
  /\ UNCHANGED <<lane, tasks, cli, ripe>>

-----------------------------------------------------------------------------
Released(rec) ==
  [rec EXCEPT !.state = "pending", !.guard_released = TRUE, !.pause_reason = "none"]

PausedOf(agent) == {t \in Task : tasks[t].state = "paused" /\ tasks[t].owner = agent}

IssueCommand(h) ==
  /\ todo[h] = {}
  /\ commands < MaxCommands
  /\ commands' = commands + 1

\* release_paused lists the paused tasks of an agent ...
ReadRelease(h, agent) ==
  /\ IssueCommand(h)
  /\ PausedOf(agent) # {}
  /\ todo' = [todo EXCEPT ![h] = PausedOf(agent)]
  /\ draft' = [draft EXCEPT ![h] =
                 [t \in Task |-> IF t \in PausedOf(agent) THEN Released(tasks[t]) ELSE @[t]]]
  /\ UNCHANGED <<lane, tasks, flock, locked, pc, seen, got, hand, ripe, deaths>>

\* ... karo tasks cancel gets one record, whatever its state ...
ReadCancel(h, t) ==
  /\ IssueCommand(h)
  /\ todo' = [todo EXCEPT ![h] = {t}]
  /\ draft' = [draft EXCEPT ![h][t] = [tasks[t] EXCEPT !.state = "cancelled"]]
  /\ UNCHANGED <<lane, tasks, flock, locked, pc, seen, got, hand, ripe, deaths>>

\* ... and both write what they have changed back, oldest first.
WriteTask(h) ==
  \E t \in todo[h] :
    /\ \A u \in todo[h] : t <= u
    /\ Update(t, draft[h][t])
    /\ todo' = [todo EXCEPT ![h] = @ \ {t}]
    /\ draft' = [draft EXCEPT ![h][t] = Blank]
    /\ UNCHANGED <<pc, got, hand, commands>>

-----------------------------------------------------------------------------
\* Time passes, for every copy of a record.
Tick ==
  /\ tasks' = [t \in Task |-> Aged(tasks[t])]
  /\ seen' = [c \in Claimant |-> [t \in DOMAIN seen[c] |-> Aged(seen[c][t])]]
  /\ hand' = [c \in Claimant |-> Aged(hand[c])]
  /\ draft' = [h \in Human |-> [t \in Task |-> Aged(draft[h][t])]]
  /\ UNCHANGED <<lane, flock, locked, pc, got, todo, ripe, deaths, commands>>

Next ==
  \/ \E c \in Claimant :
       \/ Lock(c) \/ Read(c) \/ WriteClaim(c) \/ GiveUp(c)
       \/ Select(c) \/ Commit(c)
       \/ Begin(c) \/ Finish(c) \/ Pause(c) \/ Die(c)
  \/ \E h \in Human :
       \/ \E agent \in Agent : ReadRelease(h, agent)
       \/ \E t \in Task : ReadCancel(h, t)
       \/ WriteTask(h)
  \/ Tick

Spec == Init /\ [][Next]_vars

-----------------------------------------------------------------------------
(***************************************************************************)
(* What the code leaves to its surroundings: conditions on behaviours.     *)
(***************************************************************************)
\* Nobody outlives the lease of its claim before it begins.
TimelyTick == Tick => \A c \in Claimant : pc[c] = "claimed" => hand[c].lease > 1

Expiring(record) == record.state = "assigned" /\ record.lease = 1

\* No lease that a scan has seen running runs out under the scan: the file store
\* compares the leases it has read with a clock it reads afterwards.
PromptTick == Tick => \A c \in Claimant : \A t \in DOMAIN seen[c] : ~Expiring(seen[c][t])

\* No two people release the same task at once.
Apart ==
  \A g, h \in Human : \A t \in todo[g] \cap todo[h] :
    g # h => draft[g][t].state = "cancelled" \/ draft[h][t].state = "cancelled"

\* The records a claim in progress has read and relies on, but its own row.
ReadBy(c) == DOMAIN seen[c] \cup IF pc[c] = "select" THEN DependsOn[got[c]] ELSE {}

\* Nobody cancels a task between its read and the end of the claim.
CancelsFallBetween ==
  \A c \in Claimant : \A t \in ReadBy(c) :
    tasks'[t].state = "cancelled" => tasks[t].state = "cancelled"

-----------------------------------------------------------------------------
\* No two processes have been given, and are keeping, the same task.
ClaimedOnce ==
  \A b, c \in Claimant :
    /\ pc[b] \in {"claimed", "working"} /\ pc[c] \in {"claimed", "working"}
    /\ got[b] = got[c]
    => b = c

\* The type invariant with it.
StoreInv == TaskStoreTypeOK /\ ClaimedOnce

\* claim() takes the oldest: it never passes over an older task that was there
\* for the taking from its first step to its last, whatever else happens
\* between the files it reads.
NoOvertaking ==
  [][\A c \in Claimant : pc[c] \in {"scan", "select"} /\ pc'[c] = "claimed" =>
       \A t \in ripe[c] : t >= got'[c]]_vars

\* A cancelled task stays so, as the lifecycle of the work layer has it.
CancelIsFinal ==
  [][\A t \in Task : tasks[t].state = "cancelled" => tasks'[t].state = "cancelled"]_vars

\* Both lanes implement the atomic claim of the store's contract.
Abstract == INSTANCE ClaimStore WITH table <- tasks

ImplementsClaims == Abstract!Spec
=============================================================================
