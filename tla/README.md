# KARO in TLA+

KARO runs a team of coding agents over a durable layer of tasks. One Python
runtime (`karo-runtime`) serves two lanes: `karo run` on a laptop, over files,
and one pod per agent on a cluster, over Postgres and Redis. Its core is
`Coordinator.run`: plan a task graph once, then claim a task from the store, pass
the guard and the budget, run a turn, perhaps a review, mark the task done. Any
number of processes run this loop over one store, they may die anywhere, and
people change the same records from the command line. Around it are the mailboxes,
the shared memory, the budget meter, the pipeline from a project folder to a
manifest, and an operator that gives agents pods. This directory models these
parts, checks them with TLC and proves their safety properties with TLAPS, all those
that a run checks.

## 1. Inventory

| Component | State | Operations | Hard behaviour | What makes it correct |
|---|---|---|---|---|
| Coordinator (`runtime/coordinator.py`) | a `Task` in memory per loop iteration, `_turns`; everything else is in the stores | `plan`, `run`, `serve`, `release_paused`, `open_attach` | overlapping runs, death between two store operations, in-memory records written back over stored ones | one executor per task, dependencies first, nothing lost, done is final, the graph completes |
| Task store (`stores/base.py`, `file.py`, `postgres.py`) | task records with state, owner, lease | `create`, `get`, `list`, `update`, `claim` | `claim` scans under a lock or runs in a transaction, `update` is unconditional and unlocked; leases expire and are not renewed | a claim is one atomic step; the oldest claimable task goes first |
| CLI task commands (`cli/karo/cli.py`) | none | `tasks retry/cancel/assign`, `attach --continue`, `budget reset` | read, change in memory, write back | a command does not undo or resurrect work |
| Guards and autonomy (Coordinator, spec) | `guard_released`, `pause_reason` in the task | pauseBefore, pauseOn taskComplete, release | the flag outlives the agent it was given for; two kinds of pause in one state | no supervised, guarded agent works unreleased |
| Budget meter (`runtime/budget.py`) | tokens used per provider and window | `can_spend` (check and reserve), `record`, `status`, `reset` | concurrent reservation at the limit; midnight in the middle of it | no window grants more than the limit, nothing granted is forgotten |
| Planning (`runtime/patterns.py`, `Coordinator.plan`) | none | `plan_tasks` per pattern | list-then-create, death between creates, who may plan | one graph, whose last task sees all the others |
| Serve and entrypoint (`coordinator.py`, `entrypoint.py`) | idle clock, cycles | `serve`, restart by the Deployment | giving up while work is about to become claimable | the graph completes, whichever pods come and go |
| Mailbox (file, Redis, Postgres) | messages per agent | `send`, `inbox`, `mark_read`, `purge`, trim | unlocked purge, write by index, a trim of its own after the push | in order, kept until purged or outnumbered |
| Memory (file, Redis, Postgres) | append-only log per scope | `put`, `get`, `query`, `gc`, `clear` | stamped before it is logged; gc by stamp or by place; unlocked clear | latest wins, collection loses only what is old |
| Operator (Go) | CRD status, Deployments | reconcile team and task, replicas per agent | edits during a reconciliation, failures half-way, restarts | the pods that have work run, idle teams have none |
| Spec pipeline (`spec/*`, `exporter/manifest.py`) | none | load, merge, compile, validate, materialise, export, admit | defaults and overrides meet in four places | an agent acts in its pod as it was written |
| Harness, router, events, repos, templates | none of consequence | model calls, I/O | - | - |

A worker and a store interact by calls (`claim`, `update`); workers interact
with each other and with people only through the stored records. Mail and
memory are written by the loop and read by agents and people, never by the loop.
The operator and the pods interact through replica counts alone: the operator
looks at AgentTasks, the pods at the task store.

## 2. Modules

| Module | What it is |
|---|---|
| `Tasks` | the task record, the claim rule (`Claimable`, `NextClaim`, `Stale`, `Claimed`) and the passage of time |
| `Coordinator` | the claim loop of every worker, crashes and restarts, the clock, the people at the CLI |
| `TeamRun` | the abstract specification: start, park, release, finish, orphan |
| `CoordinatorSafety` | the properties, the inductive invariant `ClaimInv`, the refinement mapping |
| `Patterns` | `plan_tasks`: the graph each coordination pattern makes of a team |
| `Planning` | `plan()`'s list-then-create by local runs, slings, dry runs and pods, and what their claim loops leave of the graph |
| `ClaimStore` | the abstract store: a claim is one step |
| `TaskStore` | `claim` of the file and the Postgres store, step by step, and the whole-record writes of holders and people that overlap it |
| `Mailbox`, `Memory` | the operations of the three lanes, step by step |
| `BudgetMeter` | `can_spend` with its lock, windows and rollover, and the turns it is and is not asked for |
| `Operator` | the two controllers with their queues |
| `Pods` | `serve` in containers that are restarted: plan, claim, list, decide, poll |
| `SpecPipeline` | a document's way from `include` to the pod |
| `MC*` | instances small enough to explore |
| `CoordinatorProofs`, `TaskStoreProofs`, `PlanningProofs`, `BudgetMeterProofs`, `MailboxProofs`, `MemoryProofs`, `OperatorProofs` | the theorems about the module each is named for; those of the loop include `TeamRun`, those of planning `SpecPipeline` |
| `FiniteNumbers` | lemmas they share: induction over the naturals, extremes and sums of finite sets, folds of sequences |

`MCCoordinator` takes its task graphs from `Patterns` (`Plan!PlanTasks`), so that the
teams it runs are those the code plans; `Planning` and `SpecPipeline` extend
`Patterns`; `TaskStore` and `ClaimStore` extend `Tasks`, so that loop and stores
have one claim rule. A definition ahead of a model's own one and unused by it
(`StaleAtOnce` before `Stale`) is a plausible bug that a property must catch.

### How `Coordinator` corresponds to the code

A worker's program counter is the place in `run` (coordinator.py 238-326) before
its next store operation:

| `pc` | place | action and next point |
|---|---|---|
| `claim` | top of the loop | `ReachMaxTurns`, `Claim` to `gate`, `FindNothing` to the next agent or `returned` |
| `gate` | 253-273 | `PauseBefore`, `PassBudget` to `begin`, `DenyAndPause` to `pause`, `DenyAndStop` |
| `pause` | 274-280 | `BudgetPause` |
| `begin` | 283-287 | `Begin`: mail, then `in-progress`, to `turn` |
| `turn` | 288-296 | `Turn`: result into memory, report to the lead |
| `to_review` | 299-300 | `BeginReview` |
| `review` | 301-307 | `Review` |
| `finish` | 310-318 | `PauseOnComplete` or `Finish` |
| `returned`, `max-turns`, `budget-hardstop`, `down` | not in the loop | `Launch` |

`tasks` is the store, `copy[w]` the `Task` object in the loop's hands, `cur[w]`
its id, `scan[w]` the position in `for agent in agents`. `_transition` writes the
whole in-memory record over the stored one, which `Persist`, `PauseTask` and
`Finish` do; nothing compares the two, which is why the copy is in the model.
Each CLI command is a read action that fills `draft[h]` and one `WriteTask` per
record.

Abstractions of `Tasks` and `Coordinator`:

- `claim` is one step; `TaskStore` shows in how far it is.
- A lease is the time it has left. `Tick` takes one unit from every copy of a
  record, so that all copies of one lease agree on the clock.
- A turn is one step. What it says is left out; that its result was stored is a key in
  `memory`. `memory` and `mail` are sets: doing a task twice leaves one key.
- `attempts`, `result`, timestamps, the event log and the usage log are written and
  never read by the loop, and are left out.
- The turn's estimate depends on the task alone (`Cost`); in the code also on the
  length of the owner's instructions.
- The budget is one counter that all processes share, as on one machine, and a window
  ends as a reset does; `BudgetMeter` has the windows.
- `interrupt` and `inject` act on a harness session and change no store.

### How the other modules correspond to the code

- `Planning`. A `run` has a point: `create` (in the loop of `plan`, one `store.create` per
  step), then the loop of `run` (`claim` for the agent at position `scan`, `gate` before the work,
  `turn` during it, `list` after it), and how it ended. `Start` is the listing and the decision
  to plan, which nothing separates in the code but the read itself. Guards, budgets and
  `--max-turns` may stop any task or run (`Pause`, `Halt`), and a lease of an assigned task may have expired
  at any time, so that what `Coordinator` has in full is here a choice. Any number of runs of either
  lane may overlap, two pods of one agent too.
- `TaskStore`. The file lane takes the flock, reads one record per step in any order
  and rewrites the oldest claimable one as it was read; the Postgres lane selects and
  locks the oldest unlocked claimable row, and updates and commits. Ids are numbered in
  the order of creation. `hand[c]` is the Task object of a holder, which `Begin`, `Pause` and `Finish`
  write over whatever is stored. `ReadRelease` and `ReadCancel` put changed records into `draft[h]`, a cancel
  in any state of the task; `WriteTask` writes one of them. `ripe`, `deaths` and
  `commands` are history.
- `Mailbox`. `op[c]` is the operation of a client, `pc[c]` its next store command: the
  file lane reads and rewrites under the flock, Redis pushes and then trims, reads and
  then sets, Postgres inserts and then deletes the oldest. Postgres runs in autocommit, and
  a row is visible in the order of its sequence number.
- `Memory`. A record is its stamp, which `Put` takes before any lock. `seen[c]` is the log
  that `gc` has read; `orphan` is an open file that a clear has unlinked.
- `BudgetMeter`. `data[p]` is the entry in the hands of `can_spend`, between lock and save.
  The clock counts days. A denial is handled as `run` handles it. After a turn comes, or not, a
  `Review`, before which nobody asks; `begun` and `reviewed` count the two kinds of turn.
- `Operator`. `rc` is the place in `Reconcile`, `view` and `listed` what it has read, `next` the
  position in the loop over `spec.agents`. `queued` is the work queue, which keeps
  a request once. An edit of the team may change its roster, its lead, `scaleToZero` and whether it is
  valid; nothing is done to the Deployment of an agent that has gone. A status update fails when the team has changed since it was read.
  Reads of the informers' cache are reads of the API server.
- `Pods`. The planner's pod lists, then creates task by task; a claim that finds nothing, the
  list after it and what `serve` decides are steps of their own, between which other pods move. A task is taken in one
  step and done in the next; the idle clock counts polls. Replicas come and go as they like.
- `SpecPipeline`. A document is a record whose absent fields are `Unset`; `Load`,
  `Compile`, `RunLocally`, `Export` and `Apply` are the stages; `Behaviour` is what a
  Coordinator makes of an agent, on the desk or in the pod. Guards are two kinds:
  before a tool and on completion.

## 3. What is checked

`Disciplined` names the conditions under which claims exclude each other: no
worker outlives its lease before it has started its task, and people only release
and reset the budget. `Apart` adds that no two of them have the same task in their
hands, each with a record it has read; it speaks of the state and is a
`CONSTRAINT` of `Team`, which is disciplined. `CliRaces` and `Retries` ask what is left without. The
other modules name such conditions too, on states or on steps (`CONSTRAINT`, `ACTION_CONSTRAINT`); the
theorems have them as hypotheses.

| Run | Instance | Shows |
|---|---|---|
| `Team` | an autonomous and a supervised `karo run --max-turns 2` of two reviewed implementers and a lead; guards before and after the work, a budget of two turns that pauses and is reset, two people who release different tasks at once, a death anywhere | `Exclusive`, `DependenciesHold`, `StoreAgrees`, `DoneIsFinal`, `GuardRespected`; `TurnsAreBounded`: nothing is begun beyond the limit, but a review may follow; `ClaimInv`, the invariant of the proofs; the loop implements `TeamRun` |
| `CliRaces` | the pods of the lead and the implementer, a budget of one turn; retries, cancels and assigns whose write-backs are stale | `DoneIsReported`: done tasks were reviewed and reported; `ResultsArePaidFor` |
| `Retries` | the same pods with a budget for the whole graph, a death anywhere, retries and cancels | `InputsReady`: the synthesis, once started, has its inputs in memory, though tasks are reopened under it; `DoneIsReported` through both turns and the death |
| `Completion` | a guarded pipeline of three, one turn a day with a hard stop, every pause attended, a death before a start | the graph is done in the end; the lease brings back what a death or the hard stop left assigned |
| `PlanOnce` | 11 teams over the patterns, with and without lead, reviewer and stages, stages that name an agent twice; three runs, a death, pauses, halts, releases, cancels anywhere; planners apart | `PlannedOnce`: a stored graph, finished or cut short, is never added to; `PlanningInv`: no dependency is missing, even after a death between creates; `LastSeesAll`; `IncompleteMeansBlocked`: what a run leaves pending waits for a task that is cancelled, paused, or left in hand |
| `Claims` | two pods of one agent and one of another over an unowned, an owned and a dependent task; releases, cancels, leases, a death | `StoreInv`: one task, one claimant; `NoOvertaking`: no claim passes over a task that was older and claimable all along |
| `Atomic` | the same claimants over a chain of two tasks, two commands of two people that differ in name only (a symmetry) | `ImplementsClaims`: both lanes implement `ClaimStore` |
| `Mail` | two workers and a person with a smaller limit, four sends, two marks, purges, a death | `MailboxInv`: order of delivery, bounded up to unfinished trims; `DeliveredIsKept`; `ReadStaysRead`; `PurgedIsGone` |
| `Memory` | three clients that differ in name only (a symmetry), five puts of two keys in two scopes, two gcs or clears, a death | `MemoryInv`: `get` is current and the lanes' queries choose the same records; `ReturnedIsKept`; `GcKeepsValues` |
| `Budget` | two runs with turns of one and two tokens, limits two and none, all windows and reactions, reviews, three days, a reset, a death | `BudgetInv`: no window grants more than the limit; `UsedIsGranted`; `DayIsBounded`: a day's turns that were asked for exceed the limit by one turn per process at most, and its reviews exceed those turns by as many |
| `Operator` | a lead and a teammate that may be removed or made lead, an AgentTask, two edits of anything at any time, a failure or restart | `OperatorInv`: at rest the replicas of the team's agents are what team and AgentTasks now ask for; `OwnersAreWoken`, `IdleTeamIsReclaimed` |
| `Pods` | three pods over a chain that ends with the planner, two scalings, a death | `GraphCompletes` unless a death or a scaling hit a task in hand or the planning |
| `SpecPipeline` | two folders and an inline agent, includes, every mix of harness, permission mode, autonomy and guards that differ, missing files, unknown names | `PipelineInv`: what `karo validate --target cluster` passes is exported and accepted; `ExportKeepsBehaviour`; `AskersStop`; `PlannedWorkHasPods` |

Nine runs end in a counterexample, a disagreement between the code and its
documentation, quoted in `PROJECT.json` under `findings`:

| Run | What happens |
|---|---|
| `CrashInFlight` | a task whose process dies during a turn is never claimed again (`InFlightResumes`) |
| `TurnCap` | a reviewed task begun under `--max-turns` takes one turn more (`TurnsAreCapped`) |
| `Session` | a run finds in its session window what the run before it used (`SessionsResetPerRun`) |
| `Reviews` | a reviewer's turn exceeds a limit that nobody asked about (`EveryTurnIsMetered`) |
| `PlanTwice` | two pods of the planner, as in a rolling update, both find nothing and plan (`PodsPlanOnce`) |
| `PartialPlan` | a planner that dies between two creates leaves a graph that nobody completes (`PlanIsResumed`) |
| `LeaseOutlived` | a claimant that stalls past its lease shares its task with the next one (`ClaimedOnce`) |
| `Cancelled` | a holder writes its record over a cancellation (`CancelIsFinal`) |
| `Removed` | an agent removed from its team keeps its pod (`NoWorkNoPod`) |

### What the conditions are for

Each condition of a run excludes something the code does not. Without it the
property named fails:

| Condition | Without it |
|---|---|
| `Timely`, `TimelyTick` | `Exclusive`, `StoreInv`: a worker stalls past its lease, another claims its task, and both run it, as in `LeaseOutlived`; `update` compares nothing and nothing renews a lease (docs/PRD-KARO-CLI.md:650-651 promise atomic claims and a heartbeat) |
| `Apart` | `Exclusive`, `StoreInv`: of two people who release one task the slower puts it back to pending while it runs |
| no `assign` in `Team` | `GuardRespected`: `tasks assign` carries `guard_released` over to an agent nobody attached to (docs/PRD-KARO-CLI.md:725) |
| no `cancel` in `Team` | a cancelled task ends done, as in `Cancelled` |
| `PausesOnComplete` empty in `Completion` | `Completion`: a task released from `pauseOn: taskComplete` is redone and paused again, for ever (docs/USAGE.md:309) |
| every agent comes back | `Completion`: a task whose owner is gone waits for ever, a swarm's too once it is claimed, as the claimant becomes its owner (the comment at file.py:95 has a dead owner's lease reclaimed) |
| `CrashPoint` before the start | `Completion`, as in `CrashInFlight` |
| results, not turns, in `ResultsArePaidFor` | the reviewer's turn asks no budget, as in `Reviews` |
| `PlannersApart` | `PlannedOnce`: two local runs, or two planner pods as in `PlanTwice`, both find nothing and plan |
| `ReleasedInTime` | `IncompleteMeansBlocked`: a task released after the run has asked in vain for its agent stays pending though nothing is in its way; the next run takes it |
| `CancelsFallBetween` | `ImplementsClaims`: a file claim rewrites the record it read before the cancellation, and on either lane a claim is decided on a dependency that is cancelled before it commits |
| `PromptTick` | `StoreInv`, on the file lane: `claim` reads the clock after the records (file.py:92), so a lease that ends in between is reclaimed from a holder that has moved on |
| `[]~Stranded`, `[]~CutShort` in `GraphCompletes` | the graph stays as it is, as in `CrashInFlight` and `PartialPlan` |
| agents of the team, in `OperatorInv` and `IdleTeamIsReclaimed` | a removed agent's Deployment keeps its replicas, as in `Removed` |
| `ReadersAlone` | `DeliveredIsKept`: Redis `mark_read` writes by an index that a trim has shifted (redis.py:9 says at-least-once) |
| `Shadows` in `ExportKeepsBehaviour` | the guard export adds to an agent's own empty list replaces the team's guards (manifest.py:89, coordinator.py:148) |
| teams that validate, in `AskersStop` | `karo export` does not validate: prompt and autonomous becomes plan and autonomous, and the operator accepts (docs/PRD-KARO-CLI.md:365) |
| somebody ends AgentTasks | `IdleTeamIsReclaimed`: no pod writes an AgentTask's state, so a woken team stays awake |

Two more differences from the documents show in the definitions themselves: each pod has a meter of its own (`MeterOf`; docs/PRD-KARO-v2.md:252
has one counter), and `karo run --autonomy autonomous` is applied after validation.

### Bounds

- Deaths (`MaxCrashes`, `MaxDeaths`): one death meets every point of a loop or operation.
  `CliRaces` has none, with one its state space outgrows the time a run may take; `Retries` has one, and no `assign`
  (the theorems `InputsAreThere` and `DoneMeansReported` need neither bound).
- `LeaseTTL` is one tick, in `Atomic` two, so that time passes under a holder: only the order of expiry and the worker's next step matters.
- Two workers in `Coordinator`: every race in the loop is between a holder and one
  other writer. Three clients in the stores: two that overlap and one that comes between.
  Two or three tasks: enough for a dependency, a fan-in and a chain.
- `MaxTurns` is also what bounds `turns`, which is not counted without it.
- `MaxRuns = 3` in `Planning`: one that plans and dies, one that meets the rest, one after.
- `MaxCommands` 1 in `Claims`, 2 in `Atomic`: a write-back that comes late, and two that cross.
- `HardLimit` 2 and 1 with four sends, `MaxItems` 2 with five puts: the limits are met and
  passed, and by clients that disagree.
- `MaxDay = 2`, `MaxBegun = 6`, `MaxLaunches = 3`: two midnights, more turns than any limit
  allows in a day even with those paid the day before.
- `MaxEdits = 2`: one change that wakes and one that falls into the reconciliation.
  `MaxScales = 2`: a pod goes and comes back. `IdleLimit = 2`: idle once is not enough.
- The documents of `MCSpecPipeline` vary each setting at each level at which it can
  be inherited or overridden; three levels (include, folder, inline) are all there are.

### Fairness

`Coordinator`'s `Fairness` says that a process keeps executing its loop and is launched
again when it ends (`serve` polls, a Deployment restarts its pod, or somebody runs
`karo run --resume`), that time passes, and that a command that has read its
record writes it back. All are weak fairness: each action, once possible, stays
possible until taken or overtaken. `Attended` adds a human who sooner or later
releases an agent that stays paused. `FairSpec` is `Spec` with both, and with
budget windows that end. In `Pods`, pods take their steps and Deployments start and
stop containers as their replicas say; scalings and deaths are not fair, and
`GraphCompletes` assumes that in the end every agent has a replica. In `Operator` the two
controllers serve their queues; people, kubelets and failures owe nothing.
The other modules claim safety only.

## 4. What is proved

Every theorem holds for all values of the constants that satisfy the named `ASSUME`s of
its module. These ask for types, for constants outside the sets they stand
beside (`NoAgent`, `NoWorker`), and for finitely many tasks, processes and clients
where something is counted. A condition in a theorem is one of section 3's table;
there a run shows what goes wrong without it.

| Module | Theorem | Statement |
|---|---|---|
| `CoordinatorProofs` | `TypeCorrect` | `Spec => [](TypeOK /\ HandsAgree)` |
| | `ClaimsAreCovered` | `Disciplined => (Spec /\ []Apart => []ClaimInv)` |
| | `ExecutionIsExclusive` | `Disciplined => (Spec /\ []Apart => []Exclusive)` |
| | `DependenciesStayDone` | `Disciplined => (Spec /\ []Apart => []DependenciesHold)` |
| | `StoreIsCurrent` | `Disciplined => (Spec /\ []Apart => []StoreAgrees)` |
| | `TeamRunIsImplemented` | `Disciplined => (Spec /\ []Apart => ImplementsTeamRun)` |
| | `DoneStaysDone` | `Disciplined => (Spec /\ []Apart => DoneIsFinal)` |
| | `GuardsHold` | `OwnersStay => (Spec => []GuardRespected)`: nobody retries or assigns |
| | `ResultsStayPaidFor` | `"reset" \notin CliOp => (Spec => []ResultsArePaidFor)` |
| | `InputsAreThere`, `DoneMeansReported`, `TurnsStayBounded` | `Spec => []InputsReady`, `[]DoneIsReported`, `[]TurnsAreBounded` |
| `TaskStoreProofs` | `ClaimsTakeTheOldest` | `Spec => NoOvertaking` |
| | `ClaimsAreExclusive` | `Spec /\ []Apart /\ [][TimelyTick]_vars /\ [][PromptTick]_vars => []StoreInv` |
| | `ClaimsAreAtomic` | the same `/\ [][CancelsFallBetween]_vars => ImplementsClaims` |
| `PlanningProofs` | `GraphsAreClosed`, `LastTaskSeesAll` | `Spec => []PlanningInv`, `[]LastSeesAll` |
| | `OnePlanOnly` | `Spec /\ []PlannersApart => []PlannedOnce` |
| | `OpenTasksAreBlocked` | `NamesAreMembers => (Spec /\ []PlannersApart /\ [][ReleasedInTime]_vars => IncompleteMeansBlocked)` |
| | `CleanTeamsRun`, `PodsActAlike` | `PipelineSpec => []PipelineInv`, `[]ExportKeepsBehaviour` |
| | `AskersWaitForHumans`, `PlansNeedNoStranger` | `PipelineSpec => []AskersStop`, `[]PlannedWorkHasPods` |
| `BudgetMeterProofs` | `GrantsStayInLimit`, `CounterIsExact`, `DaysStayBounded` | `Spec => []BudgetInv`, `[]UsedIsGranted`, `[]DayIsBounded` |
| `MailboxProofs` | `BoxIsInOrder`, `NoMailIsLost`, `PurgeIsFinal` | `Spec /\ Alone => []MailboxInv`, `[]DeliveredIsKept`, `[]PurgedIsGone` |
| | `ReadIsForGood` | `Spec /\ Alone => ReadStaysRead` |
| `MemoryProofs` | `ReadersSeeTheCurrent`, `NoRecordIsLost` | `Spec => []MemoryInv`, `[]ReturnedIsKept` |
| | `GcLeavesTheCurrent` | `Spec => GcKeepsValues` |
| `OperatorProofs` | `NoWakeUpIsLost` | `Spec => []OperatorInv` |

`Alone` is `ReadersAlone \/ lane # "redis"`: only the Redis lane needs that nothing overlaps
a `mark_read`. `NamesAreMembers` is what `karo validate` demands of `lead` and `stages`, and the pipeline
establishes it for teams that validate. `Disciplined`, `Timely`, `Apart` and the hypotheses of the
other modules are not facts of the code: nothing in it renews a lease, keeps two planners or two
people apart, or looks at a clock in time. The theorems say what holds while leases suffice and people
and updates keep apart, and section 3 what happens when they do not.

### The inductive invariants

**Claim loop.** That `cur[w]` is a task where the loop uses it follows from `HandsAgree`, so
the type invariant needs it. `Exclusive` is far from inductive: the claim rule looks at stored
states and leases only, never at who holds what. `ClaimInv` says what ties them
together:

- a held task's stored record is its holder's copy, and the state in it tells how
  far the holder is (`HeldIsCurrent`), so a pending record is held by nobody;
- a holder that has not started has lease left (`LeaseCovers`), so a stale record
  is held by nobody;
- no two workers hold one task (`HeldByOne`);
- whatever is assigned or started has its dependencies done (`StartedIsReady`);
- a human holds drafts of paused tasks only, which put them back to pending
  (`EditsArePaused`), so a write-back never hits a held task. Another person's write-back
  would break this for a task that both hold, and for no other: hence `Apart`.

It is proved shape by shape (moving on, dropping, writing and dropping, writing and
keeping, claiming), then the shape of each action. `ReportInv` is different: `DoneIsReported`
and `InputsReady` hold without discipline, because results in `memory` and `mail` are never
removed, so it is enough that every copy of a record that says done, in the store, in a worker's
hands or in a draft, has its result. `GuardInv` follows the flag `guard_released` through the same
copies. `PaidInv` counts: the recorded results and the turns that are paid for and not yet recorded
cost no more than `used`. `CostOf` is a recursive function over sets; `SumIsRecursive` shows that it is the
sum, which does not depend on the order of its members.

**Task store.** Writers look at nothing, so the invariant ties what each of them carries to the store.
A holder's record is the stored one, unless the task was cancelled (`HandsOK`); what is about to be released is
paused or cancelled, and nobody's (`DraftsOK`); a record that a scan saw claimable is still the stored one or was
cancelled, and nobody holds or is about to release the task (`SeenOK`). A cancel may hit anything at any time and break none of
them. The lease of a record that looked stale may be answered by its holder before
the clock is read, hence `PromptTick`. The Postgres claim locks its row and needs only `SelectOK`. For atomicity
`FreshOK` says that what a claim relies on, dependencies included, is still so, which is where
`CancelsFallBetween` comes in. The refinement maps the Postgres commit and the file
rewrite to the one step of `ClaimStore`.

**Planning.** `PlanInv` says how far a planner's graph is stored, that each of its tasks comes after those
it depends on, and that what was ever done was done after what it depends on, whatever is paused, left,
cancelled or repeated. `PlannerAlone` adds that whoever creates found
nothing. For `OpenTasksAreBlocked`, `SweptOK` follows a run of the team through its last round of claims: nothing is
pending that the agents it has asked could take, as nobody but a person makes a task claimable meanwhile
(`ReleasedInTime`). A pending task is then followed down its
dependencies: the first of them that is not done is stuck, or pending and claimable by somebody, or belongs to
nobody, which `NamesAreMembers` excludes.

**Budget meter.** Between load and save the entry in a process's hands is worth what the meter has
granted for the window it belongs to, which is today's or an older one, even when midnight has
passed since (`FileInv`, `DataInv`). For the turns of a day, `DayInv` sums the estimates of the processes
that still have a granted turn in hand, those granted before midnight apart; `ReviewInv` does so for
the processes that are about to be reviewed.

**Mailbox.** The box and what a sender has read of it are placed in the log of deliveries: in its
order, and with as many deliveries after each message as the box holds after it (`BoxIsPlaced`).
A cut of the oldest then drops only what is outnumbered. What clients hold while they rewrite by index
is tied to the box by the file lane's lock alone (`Hands`), which is why `Alone` is needed.

**Memory.** A log is in the order of the puts: no record lies behind one that began after it had
returned (`IsLog`), though overlapping puts may be stamped the other way round. Appending keeps
this, as what had returned before the new put began is in the log or gone; so do taking the end of a log and
sorting the newest by stamp. What gc has read is still the log, or the log was cleared since
(`SeenInv`). What it drops has `maxItems` rivals left that came no earlier.

**Operator.** A rest that is out of date can only come from a reconciliation that read something
old and was not told: as long as nobody has put the team back into the queue, what it has read is what
is stored (`ReadIsCurrent`), and the Deployments behind its position in the team's roster are scaled to it (`ScaledSoFar`).

**Spec pipeline.** `CleanIsAccepted` is not inductive: it says nothing of what a manifest has to do with the
team it was exported from. `PipelineIInv` says it, stage by stage: documents and sources are
well typed, a team is there once compiled, and the manifest is `ManifestOf` that team. From there the other
properties are lemmas about functions. `ManifestFacts` says which settings an export keeps, so that what the
validator accepts the operator does (`CleanIsAcceptable`). `BehaviourThere` computes what a
Coordinator makes of an agent of the manifest, which is found at the same position as on the desk.
`GraphMembers` says that a graph has no owner or reviewer but the names its team gives. That merging
any number of includes yields a document again is `FoldKeeps`, an induction over the fold.

Proving changed the models in a few places, each of which says the same of the code: the
assumptions on finite sets above, `Blocked` of `Planning` by closed sets in place of a recursion along the graph, `Memory`'s newest
records as a set with its one increasing sequence, the filter of `MembersBut` as an operator of its own
(`Without`, which `SpecPipeline` had written out again), `ManifestOf` by itself, and the types `Doc` and
`CompiledTeam`. `Disciplined` asked for a single human; the proof of `EditsArePaused` needs less, `Apart`.
`SpecPipeline` has names of its own for `Init`, `Spec` and what else `Planning`
declares, because one proof module extends both.

### What is only model-checked

- Liveness (`Completion`, `GraphCompletes`, `OwnersAreWoken`, `IdleTeamIsReclaimed`) and everything under
  fairness: out of the prover's reach, as is `ENABLED`.
- What a recursive function computes for every input, where no theorem above says so. Induction is
  there for naturals (`SetInduction`) and finite sets (well-foundedness of strict inclusion), which was enough
  for `Without`, `FoldLeft`, `CostOf` and the sorted sequence of a set; the library's induction theorems with an operator
  as parameter are not usable. No module declares a `RECURSIVE` operator.

## 5. Plan

Every component of the inventory that keeps state is modelled, and every safety
property that a passing run checks is stated by a theorem. What could still be done:

1. A claim that a cancel falls into: `ImplementsClaims` fails, but what a weaker
   abstract store, in which a claim may undo a cancellation, still promises could be said and proved.
2. The CLI commands that write stale records back (`CliRaces`, `Retries`): which of the properties of the
   discipline hold again once the write-back has been overtaken.
3. `Coordinator` over `TaskStore`, in place of a claim of one step. `ClaimsAreAtomic` justifies the step;
   composing the two would also cover an `update` that falls into a scan.

## 6. Not modelled

- Harness adapters and the model router: a turn is a call of a model or a
  subprocess, and keeps no state of the team's. Repositories: `git clone`.
- The event log and the usage log: appended to and never read by the runtime.
- `open_attach` on the cluster and the operator's dispatcher: stubs.
- The API types, generated deep copies and the manager's wiring; the objects a
  Deployment is made of; `karo ps`, `doctor`, secrets and templates: rendering and I/O.
- Parsing (YAML, front matter, Markdown), canonical ordering and the JSON schema;
  of the validator the references to files, repositories and secrets, guard names
  and budgets, which are checked one by one and change nothing. Budgets per agent
  are validated and never enforced.
