\* A team of two and its AgentTask, edited at any point of a reconciliation.
SPECIFICATION FairSpec
CONSTANTS
  lead = lead
  dev = dev
  x = x
  NoAgent = NoAgent
  Agent = {lead, dev}
  TeamSpec <- MCTeamSpec
  AgentTask = {x}
  MaxEdits = 2
  MaxFailures = 1
INVARIANTS
  OperatorInv
PROPERTIES
  OwnersAreWoken
  IdleTeamIsReclaimed
CHECK_DEADLOCK FALSE
