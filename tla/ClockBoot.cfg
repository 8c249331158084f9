\* Two machines or three, one of which has a slave; two stamps, the master of
\* that machine killed.
CONSTANTS
  a = a
  b = b
  d = d
  Machine = {a, b, d}
  Size <- Sizes
  Starts <- TogetherOrInTurn
  Busy = {a}
  Mortal <- FirstOfA
  NoPid = NoPid
  NoFile = NoFile
  MaxTicks = 2
  MaxCrashes = 1
SPECIFICATION FairSpec
INVARIANTS TypeOK OwnSlot OnePerMachine NeverNull
PROPERTIES StampsGrow TakeOversEnd
CHECK_DEADLOCK FALSE
