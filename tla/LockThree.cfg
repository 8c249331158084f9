\* Three masters, one requesting thread each, one request each.
CONSTANTS
  NoNode = NoNode
  Node = {a, b, c}
  Thread = {a, b, c}
  Busiest = a
  Home <- HomeOf
  MaxRequests = 1
  MaxFailures = 0
SPECIFICATION Spec
INVARIANTS TypeOK IInv EntersWithEveryPermission NoOvertaking
PROPERTY ImplementsPermissionLock
SYMMETRY Symmetry
CHECK_DEADLOCK FALSE
