\* Retries, cancels and assignments race the pods of the lead and the implementer,
\* under a budget of one turn: what holds without discipline.
SPECIFICATION Spec
CONSTANTS
  NoAgent = NoAgent
  NoWorker = NoWorker
  lead = lead
  dev = dev
  dev2 = dev2
  rev = rev
  w1 = w1
  w2 = w2
  Agent = {lead, dev, rev}
  Task <- LeadTask
  DependsOn <- LeadDeps
  PlannedOwner <- LeadOwner
  Reviewer <- LeadReviewer
  LeaseTTL = 1
  Worker = {w1, w2}
  Scope <- Pods
  Lead = lead
  Autonomous <- Nobody
  Override <- NoOverride
  PausesBefore <- Nobody
  PausesOnComplete <- Nobody
  Cost <- UnitCost
  Limit = 1
  OnExceed = "pause"
  MaxTurns <- Unbounded
  Human = {h1}
  CliOp = {"retry", "cancel", "assign"}
  Timely = TRUE
  CrashPoint <- Everywhere
  MaxCrashes = 0
INVARIANTS
  DoneIsReported
  ResultsArePaidFor
