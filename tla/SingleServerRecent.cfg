\* Two clients of one or two users, two messages; the server is not killed.
CONSTANTS
  c1 = c1
  c2 = c2
  Client = {c1, c2}
  User = {"ann", "bob"}
  Names <- OneOrTwoUsers
  Message = {m1, m2}
  ChatSize = 2
  MaxTime = 1
  MaxCommands = 0
  MaxCrashes = 0
  NoThread = NoThread
SPECIFICATION FairSpec
PROPERTY ShowsRecent
CHECK_DEADLOCK FALSE
