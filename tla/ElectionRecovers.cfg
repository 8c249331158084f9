\* Three processes, one of them killed at any time.
CONSTANTS
  First = 0
  Last = 2
  MaxCrashes = 1
SPECIFICATION FairSpec
INVARIANT TypeOK
PROPERTY Recovers
CHECK_DEADLOCK FALSE
