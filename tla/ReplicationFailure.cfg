\* Three machines of two processes, two commands, one process killed or one
\* RPC that misses its deadline.
CONSTANTS
  NoMachine = NoMachine
  Machine = {a, b, c}
  Size = 2
  Command <- LeaveAndSay
  Base <- Followed
  MaxFailures = 1
SPECIFICATION FairSpec
INVARIANTS TypeOK   UpdatesReachRulers RunsBounded 
PROPERTY Delivered
CHECK_DEADLOCK FALSE
