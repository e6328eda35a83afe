SPECIFICATION Spec
CONSTANTS
  Clients = {a, b, c}
  Alloc = 2
  MaxOpens = 4
  MaxSlots = 6
INVARIANT TableGrows
