\* Every run of a local project or of a team's pods, with a death anywhere.
SPECIFICATION Spec
CONSTANTS
  NoAgent = NoAgent
  NoTask = NoTask
  ann = ann
  bob = bob
  reviewer = reviewer
  Agent <- MCAgent
  ReviewerName = reviewer
  Teams <- MCTeams
  MaxRuns = 3
  MaxDeaths = 1
CONSTRAINT PlannersApart
ACTION_CONSTRAINT ReleasedInTime
INVARIANTS
  PlanningInv
  PlannedOnce
  LastSeesAll
PROPERTIES
  IncompleteMeansBlocked
CHECK_DEADLOCK FALSE
