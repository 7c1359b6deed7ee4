\* Two workers and a person put, collect and clear two scopes on all three lanes.
SPECIFICATION Spec
CONSTANTS
  w1 = w1
  w2 = w2
  person = person
  team = team
  own = own
  a = a
  b = b
  NoClient = NoClient
  Client = {w1, w2, person}
  Scope = {team, own}
  Key = {a, b}
  MaxPuts = 5
  KeyOf <- MCKeyOf
  ScopeOf <- MCScopeOf
  MaxItems = 2
  MaxClears = 2
  MaxDeaths = 1
INVARIANTS
  MemoryInv
  ReturnedIsKept
PROPERTIES
  GcKeepsValues
SYMMETRY ClientSymmetry
CHECK_DEADLOCK FALSE
