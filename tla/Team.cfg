\* Two reviewed implementers and a synthesis, driven by an autonomous and a
\* supervised `karo run --max-turns 2'; an implementer guarded before and after its
\* work; the budget pauses and is reset; two people attend to different tasks.
SPECIFICATION Spec
CONSTANTS
  NoAgent = NoAgent
  NoWorker = NoWorker
  lead = lead
  dev = dev
  dev2 = dev2
  rev = rev
  w1 = w1
  w2 = w2
  Agent <- MCAgent
  Task <- WideTask
  DependsOn <- WideDeps
  PlannedOwner <- WideOwner
  Reviewer <- WideReviewer
  LeaseTTL = 1
  Worker = {w1, w2}
  Scope <- WholeTeam
  Lead = lead
  Autonomous <- Nobody
  Override <- MixOverride
  PausesBefore <- Developer
  PausesOnComplete <- Developer
  Cost <- UnitCost
  Limit = 2
  OnExceed = "pause"
  MaxTurns = 2
  Human = {h1, h2}
  CliOp = {"release", "reset"}
  Timely = TRUE
  CrashPoint <- Everywhere
  MaxCrashes = 1
CONSTRAINT Apart
INVARIANTS
  TypeOK
  GuardRespected
  TurnsAreBounded
  Exclusive
  DependenciesHold
  StoreAgrees
  ClaimInv
  InputsReady
  DoneIsReported
PROPERTIES
  DoneIsFinal
  ImplementsTeamRun
