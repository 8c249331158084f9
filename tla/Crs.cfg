\* Three clients, two ports, one name, one message.
CONSTANTS
  Client = {c1, c2, c3}
  Name = {"x"}
  Port = {1024, 1025}
  Message = {m1}
  MaxCommands = 5
  Admin = Admin
  Listener = Listener
  NoRoom = NoRoom
SPECIFICATION Spec
INVARIANTS TypeOK ListedRoomsListen NoRoomLeftBehind WarnedBeforeDismissed
PROPERTIES CommandsAnswered DeletedRoomsEnd
CHECK_DEADLOCK FALSE
