SPECIFICATION Spec
CONSTANTS
  Clients = {a, b}
  Alloc = 2
  MaxOpens = 3
  MaxSlots = 6
INVARIANT ClosedHandleUnused
