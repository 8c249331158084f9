\* Three masters, one request each, one RPC that fails or times out, racing
\* updates of the counters; every master has given itself the first slot.
CONSTANTS
  NoNode = NoNode
  Node = {a, b, c}
  Thread = {a, b, c}
  Busiest = a
  Home <- HomeOf
  MaxRequests = 1
  MaxFailures = 1
SPECIFICATION SpecWithFaults
INVARIANTS NoPermitByHolder EarlyOnlyIfRefusalLost
CONSTRAINT FirstSlots
SYMMETRY Symmetry
CHECK_DEADLOCK FALSE
