\* Two workers report and a person sends, reads and purges, on all three lanes.
SPECIFICATION Spec
CONSTANTS
  NoClient = NoClient
  w1 = w1
  w2 = w2
  human = human
  Client = {w1, w2, human}
  HardLimit <- MCHardLimit
  ReadersAlone = TRUE
  MaxSends = 4
  MaxMarks = 2
  MaxDeaths = 1
INVARIANTS
  MailboxInv
  DeliveredIsKept
  PurgedIsGone
PROPERTIES
  ReadStaysRead
CHECK_DEADLOCK FALSE
