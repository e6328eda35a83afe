SPECIFICATION FairSpec
CONSTANTS
  QueueMax = 2
  MaxQueue = 3
  MaxCmds = 4
INVARIANTS
  TypeOK
  DriverInStep
  SentInOrder
  GoodMeansExecuted
PROPERTIES
  WaitReturns
