\* A pipeline under a budget of one turn a day that hard-stops the run; every pause
\* is attended and a worker may die before it starts a task.
SPECIFICATION FairSpec
CONSTANTS
  NoAgent = NoAgent
  NoWorker = NoWorker
  lead = lead
  dev = dev
  dev2 = dev2
  rev = rev
  w1 = w1
  w2 = w2
  Agent <- MCAgent
  Task <- PipeTask
  DependsOn <- PipeDeps
  PlannedOwner <- PipeOwner
  Reviewer <- PipeReviewer
  LeaseTTL = 1
  Worker = {w1, w2}
  Scope <- WholeTeam
  Lead = lead
  Autonomous <- Nobody
  Override <- NoOverride
  PausesBefore <- Anyone
  PausesOnComplete <- Nobody
  Cost <- UnitCost
  Limit = 1
  OnExceed = "hardstop"
  MaxTurns <- Unbounded
  Human = {h1}
  CliOp = {"release", "reset"}
  Timely = TRUE
  CrashPoint <- BeforeStart
  MaxCrashes = 1
PROPERTIES
  Completion
