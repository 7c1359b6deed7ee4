\* A worker may die while it executes a task.
SPECIFICATION FairSpec
CONSTANTS
  NoAgent = NoAgent
  NoWorker = NoWorker
  lead = lead
  dev = dev
  dev2 = dev2
  rev = rev
  w1 = w1
  w2 = w2
  Agent <- MCAgent
  Task <- LeadTask
  DependsOn <- LeadDeps
  PlannedOwner <- LeadOwner
  Reviewer <- LeadReviewer
  LeaseTTL = 1
  Worker = {w1, w2}
  Scope <- WholeTeam
  Lead = lead
  Autonomous <- Nobody
  Override <- NoOverride
  PausesBefore <- Nobody
  PausesOnComplete <- Nobody
  Cost <- UnitCost
  Limit <- Unbounded
  OnExceed = "pause"
  MaxTurns <- Unbounded
  Human = {h1}
  CliOp = {"release"}
  Timely = TRUE
  CrashPoint <- Everywhere
  MaxCrashes = 1
PROPERTIES
  InFlightResumes
