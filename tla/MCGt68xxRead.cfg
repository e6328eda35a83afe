SPECIFICATION FairSpec
CONSTANTS
  BufCount = 2
  BufSize = 4
  Pad = 2
  Expected <- MCExpected
  Requests <- MCRequests
  SizeMod = 16
  MaxScans = 2
  ShortReads = FALSE
INVARIANTS
  TypeOK
  InOrder
  NoWaitOnSleepingChild
PROPERTIES
  ReadReturns
