\* Five processes, three of them killed, any detector may find the master dead.
CONSTANTS
  First = 6
  Last = 10
  MaxCrashes = 3
SPECIFICATION Spec
INVARIANT OneMaster
PROPERTY LargestTakesOver
CONSTRAINT Uncrossed
CHECK_DEADLOCK FALSE
