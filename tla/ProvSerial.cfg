SPECIFICATION Spec
CONSTANTS
  Workers = {w1}
  Users = {u1, u2}
  Devices = {d1, d2}
  SessionCount = 3
  MaxActive = 2
  None = None
CHECK_DEADLOCK FALSE
SYMMETRY Symmetry
CONSTRAINT TwoBind
INVARIANTS
  UnfinishedSessionsBounded
PROPERTIES
  OwnerKeepsDevice
  BoundSessionHoldsDevice
