\* The folders of a small project, with every mix of settings and mistakes.
SPECIFICATION PipelineSpec
CONSTANTS
  a = a
  b = b
  reviewer = reviewer
  stranger = stranger
  NoAgent = NoAgent
  Unset = Unset
  Missing = Missing
  Agent <- MCAgent
  ReviewerName = reviewer
  Folders <- MCFolders
  AgentFiles <- MCAgentFiles
  Includes <- MCIncludes
  Locals <- MCLocals
INVARIANTS
  PipelineInv
  ExportKeepsBehaviour
  AskersStop
  PlannedWorkHasPods
CHECK_DEADLOCK FALSE
