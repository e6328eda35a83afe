SPECIFICATION FairSpec
CONSTANTS
  Clients = {a, b}
  Alloc = 2
  MaxOpens = 3
  MaxSlots = 6
INVARIANTS
  TypeOK
  HandlesStay
  OneScanPerDevice
PROPERTIES
  CallReturns
  ServerEnds
