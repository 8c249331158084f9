\* Two masters, one requesting thread each, one request each.
CONSTANTS
  NoNode = NoNode
  Node = {a, b}
  Thread = {a, b}
  Busiest = a
  Home <- HomeOf
  MaxRequests = 1
  MaxFailures = 0
SPECIFICATION Spec
INVARIANT MutualExclusion
CHECK_DEADLOCK FALSE
