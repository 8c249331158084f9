----------------------------- MODULE Messenger -----------------------------
(***************************************************************************)
(* The chats of hw3: the client (hw3/src/fbc) and the chat service of the  *)
(* master it is connected to (hw3/src/fbsd/chatroom_service_imp.cc).       *)
(*                                                                         *)
(* A client gives the commands JOIN, LEAVE and LIST until it goes into     *)
(* chat mode; a command is repeated until it is answered in time.          *)
(*                                                                         *)
(* A client in chat mode has a stream to the server.  Its main thread      *)
(* opens the next stream when one breaks, a writer thread writes what the  *)
(* user says, and a watchdog looks for the server every second.  In the    *)
(* server a handler reads each stream; the room of a user has the stream   *)
(* that chats are written to.  When the master dies, another process of    *)
(* its machine takes the port over, with the rooms of the file: what       *)
(* happens between the peers until then is in Election and Replication.    *)
(*                                                                         *)
(* No room has more chats than ShowChats shows.                            *)
(***************************************************************************)
EXTENDS Integers, Sequences, FiniteSets

CONSTANTS
  User,       \* users, each with one client at a time
  Message,    \* what is said, each at most once
  Asker,      \* bound: the users who give commands
  Speaker,    \* bound: the users who say something
  MaxStreams, \* bound: streams of a user
  MaxWriters, \* bound: writer threads that have not written
  MaxCommands, \* bound: commands, all together
  MaxFailures, \* bound: deaths of masters and of clients, and late answers
  NoStream    \* NULL

Stream == User \X (1 .. MaxStreams)

ASSUME AskerAssumption == Asker \subseteq User /\ Speaker \subseteq User
ASSUME BoundsAssumption ==
  /\ {MaxStreams, MaxWriters, MaxCommands, MaxFailures} \subseteq Nat
  /\ MaxFailures < MaxStreams
ASSUME NoStreamAssumption == NoStream \notin Stream
\* Nobody says what a client writes to set its stream.
ASSUME MessageAssumption == Message \cap {"set", "set2", "none"} = {}

VARIABLES
  up,        \* a master serves the clients
  room,      \* the rooms of the master, by their owners
  saved,     \* the rooms in the file that the next master reads
  handler,   \* the handler of each stream
  wire,      \* what the client has written to each stream and nobody read
  closed,    \* streams whose client has been killed
  mode,      \* of a client: "out", "menu", "ask" or "chat"
  asked,     \* the command that a client waits for
  call,      \* how far the server has come with it
  cur,       \* the number of _stream among the streams to this master, or 0
  first,     \* first_chat
  starting,  \* writer threads that have not written "Set Stream" yet
  joining,   \* the main thread has not written "Set Stream2" yet
  connected, \* connected
  said, commands, failures, \* bounds
  told,      \* history: whom a user follows, by the answers he got since his
             \* room was last lost
  logged,    \* history: users whose Login was answered before they chatted,
             \* and whose room has not been lost since
  got,       \* history: the chats written to each stream
  base,      \* history: chats in the room that its stream does not owe: that
             \* it had when the stream was set again, or of users left since
  relayed,   \* history: who has been told of a chat that is in his room, and
             \* whose room has not been lost since
  overtaken  \* history: users whose stream was changed by an older handler

server  == <<up, room, saved, handler, got, base, relayed, overtaken>>
asking  == <<asked, call, told>>
client  == <<mode, cur, first, starting, joining, connected, logged>>
network == <<wire, closed>>
bounds  == <<said, commands, failures>>
vars == <<server, asking, client, network, bounds>>

-----------------------------------------------------------------------------
(***************************************************************************)
(* The rooms                                                               *)
(***************************************************************************)

NoCommand == [op |-> "none", arg |-> "none"]
NoRoom == [exists |-> FALSE, follows |-> {}, chats |-> {}, stream |-> NoStream]

\* Participants, as far as they are named.
Followed(r, w) == [r EXCEPT !.follows = @ \cup {w}]
Unfollowed(r, w) == [r EXCEPT !.follows = @ \ {w}]
HasJoined(r, w) == w \in r.follows

\* GetJoinedChatRooms.
Participants(u) == room[u].follows

\* JoinChatRoom: the first join makes the room of a user.
Join(u, w) ==
  CASE room[u].exists /\ room[w].exists ->
         [room EXCEPT ![u] = Followed(@, w)]
    [] ~room[u].exists /\ u = w ->
         [room EXCEPT ![u] = Followed([@ EXCEPT !.exists = TRUE], u)]
    [] OTHER -> room

\* GetSortedChats: new chats and old ones, all of them.
SortedChats(u) == room[u].chats

\* LeaveChatRoom: nobody leaves himself.
Leave(u, w) ==
  IF u # w THEN [room EXCEPT ![u] = Unfollowed(@, w)] ELSE room

\* WriteToFile, for all rooms, and ReadNextChatRoom, until there is none.
Written(rooms) ==
  [u \in User |-> [exists |-> rooms[u].exists, follows |-> rooms[u].follows,
                   chats |-> rooms[u].chats]]
ReadBack(file) ==
  [u \in User |-> [exists |-> file[u].exists, follows |-> file[u].follows,
                   chats |-> file[u].chats, stream |-> NoStream]]

-----------------------------------------------------------------------------
(***************************************************************************)
(* The handlers of the chat service                                        *)
(***************************************************************************)

\* Mutant: ShowChats before AddStream.
ShowFirst(what) ==
  CASE what = "set"  -> <<"show", "add">>
    [] what = "set2" -> <<"add">>
    [] OTHER         -> <<"post", "save", "collect", "send">>

\* Mutant: the followers are told before the file is written.
SaveLast(what) ==
  CASE what = "set"  -> <<"add", "show">>
    [] what = "set2" -> <<"add">>
    [] OTHER         -> <<"post", "collect", "send", "save">>

\* Mutant: a client that comes again is not given its stream.
AddOnce(what) ==
  CASE what = "set"  -> <<"add", "show">>
    [] what = "set2" -> <<>>
    [] OTHER         -> <<"post", "save", "collect", "send">>

\* The order in which Chat does what a message asks for.
Steps(what) ==
  CASE what = "set"  -> <<"add", "show">>
    [] what = "set2" -> <<"add">>
    [] OTHER         -> <<"post", "save", "collect", "send">>

Ended == [pc |-> "ended", todo |-> <<>>, msg |-> "none", left |-> {}]
Waiting == [pc |-> "read", todo |-> <<>>, msg |-> "none", left |-> {}]

Doing(s, step) ==
  /\ up
  /\ handler[s].todo # <<>> /\ Head(handler[s].todo) = step

Done(s) == handler' = [handler EXCEPT ![s].todo = Tail(@)]

\* Read: the next message of the stream.
Receive(s) ==
  /\ up
  /\ handler[s].pc = "read" /\ handler[s].todo = <<>>
  /\ wire[s] # <<>>
  /\ wire' = [wire EXCEPT ![s] = Tail(@)]
  /\ handler' = [handler EXCEPT ![s].todo = Steps(Head(wire[s])),
                                ![s].msg = Head(wire[s])]
  /\ UNCHANGED <<up, room, saved, got, base, relayed, overtaken, closed,
                 asking, client, bounds>>

\* Mutant: the stream is given to every room.
SetStreamOfAll(u, t) ==
  room' = [w \in User |-> IF room[w].exists
                          THEN [room[w] EXCEPT !.stream = t] ELSE room[w]]

\* AddStream does nothing for a user without a room.
SetStream(u, t) ==
  room' = [room EXCEPT ![u].stream = IF room[u].exists THEN t ELSE @]

\* A handler is overtaken when the room has the stream of a later one.
Overtakes(s) ==
  IF room[s[1]].exists /\ room[s[1]].stream # NoStream
     /\ room[s[1]].stream[2] > s[2]
  THEN overtaken \cup {s[1]} ELSE overtaken

AddStream(s) ==
  /\ Doing(s, "add")
  /\ SetStream(s[1], s)
  /\ overtaken' = Overtakes(s)
  /\ base' = [base EXCEPT ![s] =
                IF handler[s].msg = "set" THEN {} ELSE room[s[1]].chats]
  /\ Done(s)
  /\ UNCHANGED <<up, saved, got, relayed, network, asking, client, bounds>>

\* ShowChats, and the writes of its chats.
ShowChats(s) ==
  /\ Doing(s, "show")
  /\ got' = [got EXCEPT ![s] = @ \cup SortedChats(s[1])]
  /\ Done(s)
  /\ UNCHANGED <<up, room, saved, base, relayed, overtaken, network, asking,
                 client, bounds>>

\* PostChat, as far as the rooms: a chat for every room that follows the user.
PostChat(s) ==
  /\ Doing(s, "post")
  /\ room' = [u \in User |->
                IF HasJoined(room[u], s[1])
                THEN [room[u] EXCEPT !.chats =
                        @ \cup {<<s[1], handler[s].msg>>}]
                ELSE room[u]]
  /\ Done(s)
  /\ UNCHANGED <<up, saved, got, base, relayed, overtaken, network, asking,
                 client, bounds>>

\* WriteChatRoomsToFile: the next master finds the rooms, in the backup or in
\* the data file.
SaveRooms(s) ==
  /\ Doing(s, "save")
  /\ saved' = Written(room)
  /\ Done(s)
  /\ UNCHANGED <<up, room, got, base, relayed, overtaken, network, asking,
                 client, bounds>>

\* GetStreamsJoinedTo: the streams of the others who follow the user.
Collect(s) ==
  /\ Doing(s, "collect")
  /\ handler' = [handler EXCEPT ![s].todo = Tail(@),
       ![s].left = {room[u].stream :
                      u \in {w \in User \ {s[1]} : HasJoined(room[w], s[1])}}
                   \ {NoStream}]
  /\ UNCHANGED <<up, room, saved, got, base, relayed, overtaken, network,
                 asking, client, bounds>>

\* The master goes while data.dat is written again, for a command of a client or
\* of another machine: some rooms are not in the file, and there is no backup.
CutShort ==
  \E whole \in SUBSET User :
    /\ saved' = Written([u \in User |-> IF u \in whole THEN room[u] ELSE NoRoom])
    /\ told' = [u \in User |-> IF u \in whole THEN told[u] ELSE {}]
    /\ relayed' = {r \in relayed : r[1] \in whole}
    /\ logged' = logged \cap whole

\* The master is gone: its handlers, and the streams of the clients with them.
Die ==
  /\ up' = FALSE
  /\ room' = [u \in User |-> NoRoom]
  /\ call' = [u \in User |-> IF mode[u] = "ask" THEN "failed" ELSE "no"]
  /\ handler' = [s \in Stream |-> Ended]
  /\ wire' = [s \in Stream |-> <<>>] /\ closed' = {}
  /\ cur' = [u \in User |-> 0]
  /\ got' = [s \in Stream |-> {}] /\ base' = [s \in Stream |-> {}]
  /\ UNCHANGED <<saved, told, relayed, logged>> \/ CutShort

\* A write to one of the streams, without a lock.  The object of a stream whose
\* handler has ended is gone: the write may do anything, and ends the process
\* or does not.
Send(s) ==
  /\ Doing(s, "send")
  /\ \/ /\ handler[s].left = {}
        /\ Done(s)
        /\ UNCHANGED <<up, room, saved, call, told, network, cur, logged, got,
                       base, relayed>>
     \/ \E t \in handler[s].left :
          LET chat == <<s[1], handler[s].msg>> IN
          \/ /\ handler' = [handler EXCEPT ![s].left = @ \ {t}]
             /\ got' = [got EXCEPT ![t] = IF handler[t].pc = "ended" THEN @
                                          ELSE @ \cup {chat}]
             /\ relayed' = relayed \cup
                  {u \in {t[1]} : chat \in room[u].chats} \X {chat}
             /\ UNCHANGED <<up, room, saved, call, told, network, cur, logged,
                            base>>
          \/ handler[t].pc = "ended" /\ Die
  /\ UNCHANGED <<overtaken, asked, mode, first, starting, joining, connected,
                 bounds>>

Gone(s) ==
  /\ handler' = [handler EXCEPT ![s] = Ended]
  /\ wire' = [wire EXCEPT ![s] = <<>>] /\ closed' = closed \ {s}
  /\ got' = [got EXCEPT ![s] = {}] /\ base' = [base EXCEPT ![s] = {}]

\* Mutant: the handler ends, and its stream stays in the room.
HangUpKeeps(s) ==
  /\ up
  /\ handler[s].pc = "read" /\ handler[s].todo = <<>> /\ s \in closed
  /\ Gone(s)
  /\ UNCHANGED <<up, room, saved, relayed, overtaken, asking, client, bounds>>

\* Read fails, with or without the last messages: the room of the user that the
\* last message named has no stream any more, whichever it had.
HangUp(s) ==
  /\ up
  /\ handler[s].pc = "read" /\ handler[s].todo = <<>> /\ s \in closed
  /\ IF handler[s].msg = "none" THEN UNCHANGED <<room, overtaken>>
     ELSE SetStream(s[1], NoStream) /\ overtaken' = Overtakes(s)
  /\ Gone(s)
  /\ UNCHANGED <<up, saved, relayed, asking, client, bounds>>

\* ServerAlive does nothing but answer, when there is a server.
ServerAlive == up

Crash ==
  /\ up
  /\ failures < MaxFailures
  /\ failures' = failures + 1
  /\ Die
  /\ UNCHANGED <<overtaken, asked, mode, first, starting, joining, connected,
                 said, commands>>

\* The chat service of the next master: Init reads the rooms before it serves.
TakeOver ==
  /\ ~up
  /\ up' = TRUE
  /\ room' = ReadBack(saved)
  /\ UNCHANGED <<saved, handler, got, base, relayed, overtaken, network,
                 asking, client, bounds>>

-----------------------------------------------------------------------------
(***************************************************************************)
(* The clients                                                             *)
(***************************************************************************)

\* The client has no stream that works: its reader ends, and Chat returns.
Broken(u) == ~(/\ cur[u] > 0 /\ <<u, cur[u]>> \notin closed
               /\ handler[<<u, cur[u]>>].pc # "ended")

\* Login makes the room of the user, if it is not there, and saves it.  A call
\* that fails, or is answered too is like an answer to the client.
ServeLogin(u) ==
  IF up THEN room' = Join(u, u) /\ saved' = Written(room')
  ELSE UNCHANGED <<room, saved>>

\* Login has been answered.
LoggedIn(u) == IF up THEN logged \cup {u} ELSE logged

\* The client is started.
Start(u) ==
  /\ mode[u] = "out"
  /\ mode' = [mode EXCEPT ![u] = "menu"]
  /\ ServeLogin(u)
  /\ logged' = LoggedIn(u)
  /\ UNCHANGED <<up, asking, handler, got, base, relayed, overtaken, network,
                 cur, first, starting, joining, connected, bounds>>

\* JOIN, LEAVE and LIST.
Command(u, op, w) ==
  /\ mode[u] = "menu" /\ u \in Asker
  /\ commands < MaxCommands
  /\ commands' = commands + 1
  /\ mode' = [mode EXCEPT ![u] = "ask"]
  /\ asked' = [asked EXCEPT ![u] = [op |-> op, arg |-> w]]
  /\ UNCHANGED <<server, call, told, cur, first, starting, joining,
                 connected, logged, network, said, failures>>

\* There is no server to call.
CallFails(u) ==
  /\ ~up
  /\ mode[u] = "ask" /\ call[u] = "no"
  /\ call' = [call EXCEPT ![u] = "failed"]
  /\ UNCHANGED <<server, asked, told, client, network, bounds>>

\* The call reaches the server, which runs the command on the rooms.
RunCommand(u) ==
  /\ up
  /\ mode[u] = "ask" /\ call[u] = "no"
  /\ call' = [call EXCEPT ![u] = "run"]
  /\ room' = CASE asked[u].op = "join"  -> Join(u, asked[u].arg)
               [] asked[u].op = "leave" -> Leave(u, asked[u].arg)
               [] asked[u].op = "list"  -> room
  /\ base' = IF asked[u].op # "leave" THEN base
             ELSE [s \in Stream |->
                     IF s # room[u].stream THEN base[s]
                     ELSE base[s] \cup {chat \in room[u].chats :
                                          chat[1] = asked[u].arg}]
  /\ UNCHANGED <<up, saved, handler, got, relayed, overtaken, asked, told,
                 client, network, bounds>>

\* Mutant: the rooms are not written.
KeepNothing(u) ==
  /\ call[u] = "run"
  /\ call' = [call EXCEPT ![u] = "kept"]
  /\ UNCHANGED <<server, asked, told, client, network, bounds>>

\* The rooms are written, whatever came of the command, unless that is LIST.
KeepCommand(u) ==
  /\ call[u] = "run"
  /\ call' = [call EXCEPT ![u] = "kept"]
  /\ saved' = IF asked[u].op = "list" THEN saved ELSE Written(room)
  /\ UNCHANGED <<up, room, handler, got, base, relayed, overtaken, asked,
                 told, client, network, bounds>>

\* The lock of the peers has been had, and the client is answered.
AnswerCommand(u) ==
  /\ call[u] = "kept"
  /\ call' = [call EXCEPT ![u] = "no"]
  /\ mode' = [mode EXCEPT ![u] = "menu"]
  /\ asked' = [asked EXCEPT ![u] = NoCommand]
  /\ told' = [told EXCEPT ![u] = Participants(u)]
  /\ UNCHANGED <<server, cur, first, starting, joining, connected,
                 logged, network, bounds>>

\* The deadline of a second passes while the handler waits for that lock; what
\* it does afterwards changes nothing here.
LateCommand(u) ==
  /\ call[u] = "kept" /\ asked[u].op # "list"
  /\ failures < MaxFailures
  /\ failures' = failures + 1
  /\ call' = [call EXCEPT ![u] = "failed"]
  /\ UNCHANGED <<server, asked, told, client, network, said, commands>>

\* The loop of the command: ReConnectToServer, and the same call again.
Again(u) ==
  /\ call[u] = "failed"
  /\ call' = [call EXCEPT ![u] = "no"]
  /\ ServeLogin(u)
  /\ logged' = LoggedIn(u)
  /\ UNCHANGED <<up, handler, got, base, relayed, overtaken, asked, told,
                 mode, cur, first, starting, joining, connected, network,
                 bounds>>

\* CHAT: the watchdog is started.
EnterChat(u) ==
  /\ mode[u] = "menu"
  /\ mode' = [mode EXCEPT ![u] = "chat"]
  /\ UNCHANGED <<server, asking, cur, first, starting, joining, connected,
                 logged, network, bounds>>

\* MessengerClient::Chat: a new stream.  The first time, as far as first_chat
\* tells, a writer thread is started.
Open(u) ==
  /\ up
  /\ mode[u] = "chat" /\ Broken(u) /\ ~joining[u]
  /\ cur[u] < MaxStreams
  /\ cur' = [cur EXCEPT ![u] = @ + 1]
  /\ handler' = [handler EXCEPT ![<<u, cur[u] + 1>>] = Waiting]
  /\ IF first[u]
     THEN /\ starting[u] < MaxWriters
          /\ starting' = [starting EXCEPT ![u] = @ + 1]
          /\ UNCHANGED joining
     ELSE /\ joining' = [joining EXCEPT ![u] = TRUE]
          /\ UNCHANGED starting
  /\ UNCHANGED <<up, asking, room, saved, got, base, relayed, overtaken,
                 network, mode, first, connected, logged, bounds>>

\* The same without a server: the stream fails at once, and a writer may have
\* been started.
OpenInVain(u) ==
  /\ ~up
  /\ mode[u] = "chat" /\ first[u]
  /\ starting[u] < MaxWriters
  /\ starting' = [starting EXCEPT ![u] = @ + 1]
  /\ UNCHANGED <<server, asking, network, mode, cur, first, joining, connected,
                 logged, bounds>>

\* A write to _stream, whatever that is now; it is lost when that is broken.
Write(u, what) ==
  wire' = IF Broken(u) THEN wire
          ELSE [wire EXCEPT ![<<u, cur[u]>>] = Append(@, what)]

\* The writer thread writes "Set Stream".
WriteSet(u) ==
  /\ mode[u] = "chat" /\ starting[u] > 0
  /\ Write(u, "set")
  /\ starting' = [starting EXCEPT ![u] = @ - 1]
  /\ first' = [first EXCEPT ![u] = FALSE]
  /\ UNCHANGED <<server, asking, closed, mode, cur, joining, connected, logged,
                 bounds>>

\* The main thread writes "Set Stream2".
WriteSet2(u) ==
  /\ mode[u] = "chat" /\ joining[u]
  /\ Write(u, "set2")
  /\ joining' = [joining EXCEPT ![u] = FALSE]
  /\ UNCHANGED <<server, asking, closed, mode, cur, first, starting, connected,
                 logged, bounds>>

\* A writer thread writes what the user says.
Say(u, m) ==
  /\ mode[u] = "chat" /\ ~first[u] /\ connected[u] = 2
  /\ u \in Speaker
  /\ m \notin said
  /\ said' = said \cup {m}
  /\ Write(u, m)
  /\ UNCHANGED <<server, closed, asking, client, commands, failures>>

\* The watchdog: ServerAlive fails; GetServerAddr and Login follow, and then
\* the client holds itself for connected again, whatever came of them.
WatchFails(u) ==
  /\ ~ServerAlive
  /\ mode[u] = "chat" /\ connected[u] = 2
  /\ connected' = [connected EXCEPT ![u] = 0]
  /\ UNCHANGED <<server, asking, network, mode, cur, first, starting, joining,
                 logged, bounds>>

ReConnect(u) ==
  /\ mode[u] = "chat" /\ connected[u] = 0
  /\ ServeLogin(u)
  /\ connected' = [connected EXCEPT ![u] = 2]
  /\ UNCHANGED <<up, asking, handler, got, base, relayed, overtaken, network,
                 mode, cur, first, starting, joining, logged, bounds>>

\* The user ends his client, and may start it again.
Kill(u) ==
  /\ mode[u] = "chat"
  /\ failures < MaxFailures
  /\ failures' = failures + 1
  /\ mode' = [mode EXCEPT ![u] = "out"]
  /\ closed' = IF Broken(u) THEN closed ELSE closed \cup {<<u, cur[u]>>}
  /\ first' = [first EXCEPT ![u] = TRUE]
  /\ starting' = [starting EXCEPT ![u] = 0]
  /\ joining' = [joining EXCEPT ![u] = FALSE]
  /\ connected' = [connected EXCEPT ![u] = 2]
  /\ logged' = logged \ {u}
  /\ UNCHANGED <<server, asking, wire, cur, said, commands>>

-----------------------------------------------------------------------------
Init ==
  /\ up = TRUE
  /\ room = [u \in User |-> NoRoom]
  /\ saved = Written(room)
  /\ asked = [u \in User |-> NoCommand] /\ call = [u \in User |-> "no"]
  /\ told = [u \in User |-> {}]
  /\ handler = [s \in Stream |-> Ended]
  /\ wire = [s \in Stream |-> <<>>] /\ closed = {}
  /\ mode = [u \in User |-> "out"] /\ cur = [u \in User |-> 0]
  /\ first = [u \in User |-> TRUE] /\ starting = [u \in User |-> 0]
  /\ joining = [u \in User |-> FALSE] /\ connected = [u \in User |-> 2]
  /\ said = {} /\ commands = 0 /\ failures = 0
  /\ logged = {} /\ relayed = {} /\ overtaken = {}
  /\ got = [s \in Stream |-> {}] /\ base = [s \in Stream |-> {}]

Serve(s) == Receive(s) \/ AddStream(s) \/ ShowChats(s) \/ PostChat(s)
            \/ SaveRooms(s) \/ Collect(s) \/ Send(s) \/ HangUp(s)

RunsCommand(u) == CallFails(u) \/ RunCommand(u) \/ KeepCommand(u)
                  \/ AnswerCommand(u) \/ Again(u)

MainThread(u) == Open(u) \/ WriteSet2(u)

Next ==
  \/ \E s \in Stream : Serve(s)
  \/ Crash \/ TakeOver
  \/ \E u \in User :
       \/ Start(u) \/ EnterChat(u) \/ RunsCommand(u) \/ LateCommand(u)
       \/ \E w \in User : Command(u, "join", w) \/ Command(u, "leave", w)
       \/ Command(u, "list", u)
       \/ MainThread(u) \/ OpenInVain(u)
       \/ WriteSet(u) \/ WatchFails(u) \/ ReConnect(u) \/ Kill(u)
       \/ \E m \in Message : Say(u, m)

\* The handlers and the threads of the clients are scheduled.
Spec ==
  /\ Init /\ [][Next]_vars
  /\ \A s \in Stream : WF_vars(Serve(s))
  /\ \A u \in User : WF_vars(MainThread(u)) /\ WF_vars(WriteSet(u))

-----------------------------------------------------------------------------
(***************************************************************************)
(* Properties                                                              *)
(***************************************************************************)

Chat == User \X Message
What == {"set", "set2"} \cup Message
Room == [exists : BOOLEAN, follows : SUBSET User, chats : SUBSET Chat,
         stream : Stream \cup {NoStream}]
SavedRoom == [exists : BOOLEAN, follows : SUBSET User, chats : SUBSET Chat]

Handler == [pc : {"read", "ended"},
            todo : Seq({"add", "show", "post", "save", "collect", "send"}),
            msg : What \cup {"none"}, left : SUBSET Stream]
AnyCommand == [op : {"join", "leave", "list"}, arg : User]

TypeOK ==
  /\ up \in BOOLEAN
  /\ room \in [User -> Room] /\ saved \in [User -> SavedRoom]
  /\ handler \in [Stream -> Handler]
  /\ wire \in [Stream -> Seq(What)] /\ closed \subseteq Stream
  /\ mode \in [User -> {"out", "menu", "ask", "chat"}]
  /\ asked \in [User -> AnyCommand \cup {NoCommand}]
  /\ call \in [User -> {"no", "run", "kept", "failed"}]
  /\ told \in [User -> SUBSET User]
  /\ cur \in [User -> 0 .. MaxStreams]
  /\ first \in [User -> BOOLEAN] /\ joining \in [User -> BOOLEAN]
  /\ starting \in [User -> 0 .. MaxWriters] /\ connected \in [User -> {0, 2}]
  /\ said \subseteq Message
  /\ commands \in 0 .. MaxCommands /\ failures \in 0 .. MaxFailures
  /\ got \in [Stream -> SUBSET Chat] /\ base \in [Stream -> SUBSET Chat]
  /\ relayed \subseteq User \X Chat
  /\ logged \subseteq User /\ overtaken \subseteq User
  /\ \A u \in User : room[u].stream # NoStream => room[u].stream[1] = u

\* The stream of a room belongs to a handler that runs: chats are never
\* collected for a stream that is gone already.
StreamsLive ==
  \A u \in User :
    room[u].stream # NoStream => handler[room[u].stream].pc = "read"

\* A handler that will still write a chat to a stream.
Coming(chat, s) ==
  \E t \in Stream :
    /\ t[1] = chat[1] /\ handler[t].msg = chat[2]
    /\ LET steps == {handler[t].todo[i] : i \in DOMAIN handler[t].todo} IN
         "collect" \in steps \/ ("send" \in steps /\ s \in handler[t].left)

\* A user whose stream is set misses no chat of the others: each has been
\* shown by ShowChats, or is written to the stream, or will be.  A stream that
\* is opened again gets what comes after it has been set.  Nobody is owed the
\* chats of a user whom he leaves while they are posted.
NothingMissed ==
  \A u \in User :
    LET s == room[u].stream IN
    s # NoStream /\ handler[s].todo # <<"show">> =>
      \A chat \in room[u].chats \ base[s] :
        chat[1] # u => chat \in got[s] \/ Coming(chat, s)

\* What followers have been told is still there after the master dies, unless
\* the file was cut short then: those whose rooms were written keep it.
RelayedSurvives == \A r \in relayed : r[2] \in saved[r[1]].chats

\* Whom a user follows after the last answer he got is what the next master
\* will read, unless he has asked for something else since, or his room was in
\* no file that the last one left.
AnsweredCommandsKept ==
  \A u \in User :
    mode[u] # "ask" /\ told[u] # {} => saved[u].follows = told[u]

\* The stream of a client in chat mode is the one its room has.
Heard(u) == cur[u] # 0 /\ room[u].stream = <<u, cur[u]>>

\* A user in chat mode whose login was answered is heard from and hears again
\* after every change of the master, if that lasts, has not lost his room, and no
\* handler of an older client of his comes late.
HearsAgain ==
  \A u \in User :
    up /\ mode[u] = "chat" /\ u \in logged
      ~> Heard(u) \/ ~up \/ mode[u] # "chat" \/ u \in overtaken
=============================================================================
