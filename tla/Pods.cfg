\* Three pods over a chain of three tasks, with scalings and a death anywhere.
SPECIFICATION FairSpec
CONSTANTS
  lead = lead
  dev = dev
  rev = rev
  NoItem = NoItem
  Agent <- MCAgent
  Planner = lead
  Item <- MCItem
  ItemOwner <- MCItemOwner
  ItemDeps <- MCItemDeps
  IdleLimit = 2
  MaxScales = 2
  MaxDeaths = 1
PROPERTIES
  GraphCompletes
CHECK_DEADLOCK FALSE
