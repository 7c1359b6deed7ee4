\* Two agents over an unowned task, an owned one and a dependent one, on both lanes.
SPECIFICATION Spec
CONSTANTS
  NoAgent = NoAgent
  NoClaimant = NoClaimant
  dev = dev
  rev = rev
  c1 = c1
  c2 = c2
  c3 = c3
  Agent = {dev, rev}
  Task <- MCTask
  DependsOn <- MCDeps
  PlannedOwner <- MCOwner
  Reviewer <- MCReviewer
  LeaseTTL = 1
  Claimant = {c1, c2, c3}
  AgentOf <- MCAgentOf
  Human = {h1}
  MaxDeaths = 1
  MaxCommands = 1
CONSTRAINT Apart
ACTION_CONSTRAINTS
  TimelyTick
  PromptTick
  CancelsFallBetween
INVARIANTS
  StoreInv
PROPERTIES
  NoOvertaking
  ImplementsClaims
CHECK_DEADLOCK FALSE
