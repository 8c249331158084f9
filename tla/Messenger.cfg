\* Two users: ann gives up to two commands, bob says something; a death of the
\* master or of a client, or a late answer.
CONSTANTS
  User = {"ann", "bob"}
  Message = {"m1"}
  Asker = {"ann"}
  Speaker = {"bob"}
  MaxStreams = 2
  MaxWriters = 2
  MaxCommands = 2
  MaxFailures = 1
  NoStream = NoStream
SPECIFICATION Spec
INVARIANTS TypeOK StreamsLive NothingMissed RelayedSurvives AnsweredCommandsKept
PROPERTIES HearsAgain
CHECK_DEADLOCK FALSE
