\* Two clients of one or two users, two messages.
CONSTANTS
  c1 = c1
  c2 = c2
  Client = {c1, c2}
  User = {"ann", "bob"}
  Names <- OneOrTwoUsers
  Message = {m1, m2}
  ChatSize = 2
  MaxTime = 1
  MaxCommands = 1
  MaxCrashes = 1
  NoThread = NoThread
SPECIFICATION Spec
INVARIANTS TypeOK AnsweredSurvive TakenIsShown
SYMMETRY Symmetry
CHECK_DEADLOCK FALSE
