---------------------------- MODULE SingleServer ----------------------------
(***************************************************************************)
(* The chat server of hw2 and its clients: hw2/src/fbsd (fbsd.cc,          *)
(* chat_manager.cc, chat_room.cc, chatroom_io.cc) and hw2/src/fbc/fbc.cc.  *)
(*                                                                         *)
(* Every RPC has a thread of the server that takes lock_manager, runs the  *)
(* command on the rooms, rewrites data.dat, and gives the lock back before *)
(* the answer is sent.  A client has two calls at a time: a command, and,  *)
(* in chat mode, WaitForChat in a loop, whose thread in the server polls   *)
(* the new chats of the user's room until there is one.  Clients leave     *)
(* chat mode by being killed, which the threads in the server do not see.  *)
(*                                                                         *)
(* A chat is written into every room that follows its sender; the copies   *)
(* are objects of their own, named by the room and the message.            *)
(***************************************************************************)
EXTENDS Integers, Sequences, FiniteSets, SequencesExt

CONSTANTS
  Client,      \* runs of the client program
  User,        \* user names
  Names,       \* the user names that the clients may be started with
  Message,     \* the messages that are posted, each at most once
  ChatSize,    \* the size MakeSureChatSize is called with (20 in the code)
  MaxTime,     \* bound: the last time(0)
  MaxCommands, \* bound: JOIN, LEAVE and LIST commands, all together
  MaxCrashes,  \* bound: how often the server is killed
  NoThread     \* nobody holds the lock

ASSUME NamesAssumption == Names \subseteq [Client -> User]
ASSUME ChatSizeAssumption == ChatSize \in Nat \ {0}
ASSUME BoundsAssumption == /\ MaxTime \in Nat /\ MaxCommands \in Nat
                           /\ MaxCrashes \in Nat

\* The threads of the server: one for the command of a client, one for its
\* WaitForChat.
Thread == Client \X {"command", "wait"}

ASSUME NoThreadAssumption == NoThread \notin Thread

VARIABLES
  user,     \* the user name a client is started with
  srv,      \* the server: "up", "down", or "stuck" in reading a cut file
  rooms,    \* _chatRooms
  file,     \* data.dat: its whole rooms, and if it is cut off after them
  lock,     \* who holds lock_manager
  thread,   \* the threads of the server
  mode,     \* of a client: "out", "menu", "list", "chat", "killed"
  clock,    \* time(0), when a post last looked
  posted,   \* the messages that have been sent
  commands, \* bound: commands so far
  crashes,  \* bound: kills of the server so far
  seen,     \* history: copies that clients have shown since the server runs
  answered, \* history: copies whose sender has been answered
  trimmed,  \* history: copies that MakeSureChatSize has deleted
  wasted,   \* history: copies handed since then to clients that were killed
  ruined    \* history: the server has been killed while it wrote data.dat

server  == <<srv, rooms, file, lock, thread>>
history == <<seen, answered, trimmed, wasted, ruined>>
bounds  == <<clock, posted, commands, crashes>>
vars == <<user, server, mode, bounds, history>>

-----------------------------------------------------------------------------
(***************************************************************************)
(* Chat rooms                                                              *)
(***************************************************************************)

\* A copy of a chat, in the room of owner.
Copy(owner, chat) == <<owner, chat.msg>>

\* GetChatRoom: the index of the first room with that owner, or 0.
RoomIndex(u) == SelectInSeq(rooms, LAMBDA r : r.owner = u)
HasRoom(u) == RoomIndex(u) # 0
RoomOf(u) == rooms[RoomIndex(u)]

NewRoom(u) == [owner |-> u, follows |-> {u}, chats |-> <<>>, fresh |-> <<>>]

\* Following and leaving: participants, and their HasJoined.
Followed(r, u) == [r EXCEPT !.follows = @ \cup {u}]
Unfollowed(r, u) == [r EXCEPT !.follows = @ \ {u}]
HasJoined(r, u) == u \in r.follows

\* AddChat: a chat is new until it is taken.
AddChat(r, chat) == [r EXCEPT !.fresh = Append(@, chat)]

\* GetWaitingPost: the oldest new chat is one of the others now.
Taken(r) == [r EXCEPT !.fresh = Tail(@), !.chats = Append(@, Head(r.fresh))]

\* JoinChatRoom: the first join makes the room of a user.
Join(u, target) ==
  IF ~HasRoom(u)
  THEN IF u = target THEN Append(rooms, NewRoom(u)) ELSE rooms
  ELSE IF HasRoom(target)
       THEN [rooms EXCEPT ![RoomIndex(u)] = Followed(@, target)]
       ELSE rooms

\* LeaveChatRoom: nobody leaves himself.
Leave(u, target) ==
  IF u # target /\ HasRoom(u)
  THEN [rooms EXCEPT ![RoomIndex(u)] = Unfollowed(@, target)]
  ELSE rooms

\* Mutant: the copies are put among the chats that have been taken.
PostIntoChats(chat) ==
  [i \in DOMAIN rooms |->
     IF HasJoined(rooms[i], chat.sender)
     THEN [rooms[i] EXCEPT !.chats = Append(@, chat)] ELSE rooms[i]]

\* PostChat: a copy into every room that follows the sender.
Post(chat) ==
  [i \in DOMAIN rooms |->
     IF HasJoined(rooms[i], chat.sender)
     THEN AddChat(rooms[i], chat) ELSE rooms[i]]

\* What std::sort may make of chats: the latest first.
Sorted(chats) ==
  {s \in SetToSeqs(ToSet(chats)) :
     \A i, j \in DOMAIN s : i < j => s[i].time >= s[j].time}

\* MakeSureChatSize(ChatSize): it deletes from the front while there are
\* ChatSize or more.
Excess(chats) == IF Len(chats) < ChatSize THEN 0 ELSE Len(chats) - ChatSize + 1

\* WriteToFile: the new chats behind the others, with nothing between them.
Written(rs) == [i \in DOMAIN rs |->
                 [owner |-> rs[i].owner, follows |-> rs[i].follows,
                  chats |-> rs[i].chats \o rs[i].fresh]]

\* The copies in the rooms of a file.
Copies(rs) == UNION {{Copy(rs[i].owner, (rs[i].chats)[k]) :
                        k \in DOMAIN rs[i].chats} : i \in DOMAIN rs}

\* ReadNextChatRoom: AddChat makes every chat a new one.
ReadBack(rs) == [i \in DOMAIN rs |->
                  [owner |-> rs[i].owner, follows |-> rs[i].follows,
                   chats |-> <<>>, fresh |-> rs[i].chats]]

-----------------------------------------------------------------------------
(***************************************************************************)
(* The server                                                              *)
(***************************************************************************)

Idle == [pc |-> "idle"]

\* A call has arrived; a post is stamped with the time of its arrival.
Called(op, arg) == [pc |-> "called", op |-> op, arg |-> arg, time |-> clock']

\* The command is done, and data.dat is being rewritten; then the answer.
Saving(op, got) == [pc |-> "saving", op |-> op, got |-> got]
Answering(op, got) == [pc |-> "answering", op |-> op, got |-> got]

\* A thread takes the lock, runs its command and starts to write.
Begin(t, op, got) ==
  /\ lock' = t
  /\ thread' = [thread EXCEPT ![t] = Saving(op, got)]
  /\ UNCHANGED <<srv, file, mode, bounds>>

Ready(t) == lock = NoThread /\ thread[t].pc = "called"

\* GetAllChatRooms, GetJoinedChatRooms, JoinChatRoom, LeaveChatRoom.
RunCommand(t) ==
  LET u == user[t[1]]  a == thread[t].arg IN
  /\ Ready(t)
  /\ thread[t].op \in {"all", "joined", "join", "leave"}
  /\ rooms' = CASE thread[t].op = "join"  -> Join(u, a)
                [] thread[t].op = "leave" -> Leave(u, a)
                [] OTHER -> rooms
  /\ Begin(t, thread[t].op, <<>>)
  /\ UNCHANGED history

\* PostChat.
RunPost(t) ==
  LET chat == [sender |-> user[t[1]], msg |-> thread[t].arg,
               time |-> thread[t].time]
  IN /\ Ready(t)
     /\ thread[t].op = "post"
     /\ rooms' = Post(chat)
     /\ Begin(t, "post", <<chat>>)
     /\ UNCHANGED history

\* ShowChats: the new chats join the others, and what is too many is deleted.
RunShow(t) ==
  LET u == user[t[1]] IN
  /\ Ready(t)
  /\ thread[t].op = "show"
  /\ \/ /\ ~HasRoom(u)
        /\ Begin(t, "show", <<>>)
        /\ UNCHANGED <<rooms, trimmed>>
     \/ /\ HasRoom(u)
        /\ \E s \in Sorted(RoomOf(u).chats \o RoomOf(u).fresh) :
             LET n == Excess(s)
                 kept == SubSeq(s, n + 1, Len(s))
             IN /\ rooms' = [rooms EXCEPT ![RoomIndex(u)].chats = kept,
                                          ![RoomIndex(u)].fresh = <<>>]
                /\ trimmed' = trimmed \cup {Copy(u, s[i]) : i \in 1 .. n}
                /\ Begin(t, "show", kept)
  /\ UNCHANGED <<seen, answered, wasted, ruined>>

\* Mutant: the chat is handed out and dropped.
RunWaitForgets(t) ==
  LET u == user[t[1]] IN
  /\ Ready(t) /\ thread[t].op = "wait" /\ HasRoom(u) /\ RoomOf(u).fresh # <<>>
  /\ rooms' = [rooms EXCEPT ![RoomIndex(u)].fresh = Tail(@)]
  /\ Begin(t, "wait", <<Head(RoomOf(u).fresh)>>)
  /\ UNCHANGED history

\* Mutant: only a user without a room is answered.
RunWaitStrangers(t) ==
  LET u == user[t[1]] IN
  /\ Ready(t) /\ thread[t].op = "wait" /\ ~HasRoom(u)
  /\ Begin(t, "wait", <<>>)
  /\ UNCHANGED <<rooms, history>>

\* WaitForChat: the pass of its loop that ends it, with the oldest new chat,
\* or with none when the user has no room.  Passes that find nothing change
\* nothing.
RunWait(t) ==
  LET u == user[t[1]] IN
  /\ Ready(t)
  /\ thread[t].op = "wait"
  /\ \/ /\ ~HasRoom(u)
        /\ Begin(t, "wait", <<>>)
        /\ UNCHANGED rooms
     \/ /\ HasRoom(u)
        /\ RoomOf(u).fresh # <<>>
        /\ LET chat == Head(RoomOf(u).fresh) IN
             /\ rooms' = [rooms EXCEPT ![RoomIndex(u)] = Taken(@)]
             /\ Begin(t, "wait", <<chat>>)
  /\ UNCHANGED history

\* Mutant: a return without unlock.
SaveLocked(t) ==
  /\ lock = t /\ thread[t].pc = "saving"
  /\ file' = [rooms |-> Written(rooms), cut |-> FALSE]
  /\ thread' = [thread EXCEPT ![t] = Answering(@.op, @.got)]
  /\ UNCHANGED <<srv, rooms, lock, mode, bounds, history>>

\* data.dat is written and closed, and the lock given back.
Save(t) ==
  /\ lock = t
  /\ file' = [rooms |-> Written(rooms), cut |-> FALSE]
  /\ lock' = NoThread
  /\ thread' = [thread EXCEPT ![t] = Answering(@.op, @.got)]
  /\ UNCHANGED <<srv, rooms, mode, bounds, history>>

\* The answer is made of the chats, without the lock: a chat that ShowChats of
\* another thread has deleted in between may come out right or not.  Nobody
\* hears the answer to a client that has been killed.
Answer(t) ==
  LET c == t[1]
      u == user[c]
      got == ToSet(thread[t].got)
      dangling == {chat \in got : Copy(u, chat) \in trimmed}
  IN /\ thread[t].pc = "answering"
     /\ thread' = [thread EXCEPT ![t] = Idle]
     /\ IF thread[t].op = "post"
        THEN /\ answered' = answered \cup
                  {<<rooms[i].owner, thread[t].got[1].msg>> :
                     i \in {j \in DOMAIN rooms :
                              \E k \in DOMAIN (rooms[j].chats \o rooms[j].fresh) :
                                (rooms[j].chats \o rooms[j].fresh)[k] \in got}}
             /\ UNCHANGED <<seen, wasted>>
        ELSE /\ IF mode[c] = "killed"
                THEN /\ wasted' = wasted \cup {Copy(u, chat) : chat \in got}
                     /\ UNCHANGED seen
                ELSE /\ \E bad \in SUBSET dangling :
                          seen' = seen \cup {Copy(u, chat) : chat \in got \ bad}
                     /\ UNCHANGED wasted
             /\ UNCHANGED answered
     /\ UNCHANGED <<srv, rooms, file, lock, mode, bounds, trimmed, ruined>>

-----------------------------------------------------------------------------
(***************************************************************************)
(* The clients                                                             *)
(***************************************************************************)

CommandOf(c) == <<c, "command">>
WaitOf(c) == <<c, "wait">>
Free(t) == thread[t].pc = "idle"

\* A call; without a server it fails, and the client prints that.
Call(t, op, arg) ==
  /\ Free(t)
  /\ op # "post" => UNCHANGED clock
  /\ thread' = IF srv = "up" THEN [thread EXCEPT ![t] = Called(op, arg)]
               ELSE thread
  /\ UNCHANGED <<srv, rooms, file, lock, crashes, history>>

\* main: the first call is the join of the own room, whatever comes of it.
Login(c) ==
  /\ mode[c] = "out"
  /\ Call(CommandOf(c), "join", user[c])
  /\ mode' = [mode EXCEPT ![c] = "menu"]
  /\ UNCHANGED <<posted, commands>>

\* The menu, up to a number that it knows.
InMenu(c) == mode[c] = "menu"

\* JOIN and LEAVE.
Follow(c, op, target) ==
  /\ InMenu(c)
  /\ commands < MaxCommands
  /\ commands' = commands + 1
  /\ Call(CommandOf(c), op, target)
  /\ UNCHANGED <<mode, posted>>

\* LIST: the rooms of all users, and then those the user follows.
List(c) ==
  \/ /\ InMenu(c)
     /\ commands < MaxCommands
     /\ commands' = commands + 1
     /\ mode' = [mode EXCEPT ![c] = "list"]
     /\ Call(CommandOf(c), "all", user[c])
     /\ UNCHANGED posted
  \/ /\ mode[c] = "list"
     /\ mode' = [mode EXCEPT ![c] = "menu"]
     /\ Call(CommandOf(c), "joined", user[c])
     /\ UNCHANGED <<posted, commands>>

\* CHAT: the thread that waits for chats is started, and the chats are shown.
Chat(c) ==
  /\ InMenu(c)
  /\ mode' = [mode EXCEPT ![c] = "chat"]
  /\ Call(CommandOf(c), "show", user[c])
  /\ UNCHANGED <<posted, commands>>

\* The loop of WaitChat: one call after the other, also after a failure.
Wait(c) ==
  /\ mode[c] = "chat"
  /\ srv = "up"
  /\ Call(WaitOf(c), "wait", user[c])
  /\ UNCHANGED <<mode, posted, commands>>

\* The loop of chatInRoom: messages are posted; it does not look at the status
\* of the call.
Say(c, m) ==
  /\ mode[c] = "chat"
  /\ m \notin posted
  /\ posted' = posted \cup {m}
  /\ clock' \in clock .. MaxTime
  /\ Call(CommandOf(c), "post", m)
  /\ UNCHANGED <<mode, commands>>

\* A user kills his client, the only way out of chat mode.
Kill(c) ==
  /\ mode[c] = "chat"
  /\ mode' = [mode EXCEPT ![c] = "killed"]
  /\ UNCHANGED <<server, bounds, history>>

-----------------------------------------------------------------------------
\* The server is killed; its calls fail.  When a command was done, data.dat is
\* as it was before, or has the rooms that had been written, and may end within
\* one.
Crash ==
  /\ srv = "up"
  /\ crashes < MaxCrashes
  /\ crashes' = crashes + 1
  /\ srv' = "down"
  /\ rooms' = <<>>
  /\ lock' = NoThread
  /\ thread' = [t \in Thread |-> Idle]
  /\ IF lock = NoThread THEN UNCHANGED <<file, ruined>>
     ELSE \/ UNCHANGED <<file, ruined>>
          \/ /\ ruined' = TRUE
             /\ \E k \in 0 .. Len(rooms), cut \in BOOLEAN :
                  file' = [rooms |-> SubSeq(Written(rooms), 1, k),
                           cut |-> cut /\ k < Len(rooms)]
  /\ trimmed' = trimmed \ Copies(file'.rooms)
  /\ seen' = {} /\ wasted' = {}
  /\ UNCHANGED <<mode, clock, posted, commands, answered>>

\* The server is started: Init reads data.dat.  The parser does not come to an
\* end, or throws, at the end of a file that is cut.
Start ==
  /\ srv = "down"
  /\ IF file.cut THEN srv' = "stuck" /\ UNCHANGED rooms
     ELSE srv' = "up" /\ rooms' = ReadBack(file.rooms)
  /\ UNCHANGED <<file, lock, thread, mode, bounds, history>>

Init ==
  /\ user \in Names
  /\ srv = "up" /\ rooms = <<>>
  /\ file = [rooms |-> <<>>, cut |-> FALSE]
  /\ lock = NoThread
  /\ thread = [t \in Thread |-> Idle]
  /\ mode = [c \in Client |-> "out"]
  /\ clock = 0 /\ posted = {} /\ commands = 0 /\ crashes = 0
  /\ seen = {} /\ answered = {} /\ trimmed = {} /\ wasted = {}
  /\ ruined = FALSE

Serve(t) == RunCommand(t) \/ RunPost(t) \/ RunShow(t) \/ RunWait(t)
            \/ Save(t) \/ Answer(t)

Step ==
  \/ \E t \in Thread : Serve(t)
  \/ \E c \in Client :
       \/ Login(c) \/ List(c) \/ Chat(c) \/ Wait(c) \/ Kill(c)
       \/ \E u \in User : Follow(c, "join", u) \/ Follow(c, "leave", u)
       \/ \E m \in Message : Say(c, m)
  \/ Crash \/ Start

Next == Step /\ UNCHANGED user

Spec == Init /\ [][Next]_vars

\* The threads of the server are scheduled, and so is the thread of a client
\* that waits for chats.
FairSpec ==
  /\ Spec
  /\ \A t \in Thread : WF_vars(Serve(t) /\ UNCHANGED user)
  /\ \A c \in Client : WF_vars(Wait(c) /\ UNCHANGED user)

-----------------------------------------------------------------------------
(***************************************************************************)
(* Properties                                                              *)
(***************************************************************************)

ChatRecord == [sender : User, msg : Message, time : 0 .. MaxTime]
Room == [owner : User, follows : SUBSET User,
         chats : Seq(ChatRecord), fresh : Seq(ChatRecord)]
SavedRoom == [owner : User, follows : SUBSET User, chats : Seq(ChatRecord)]
UserOp == {"all", "joined", "join", "leave", "show", "wait"}
ThreadState ==
  {Idle}
  \cup [pc : {"called"}, op : UserOp, arg : User, time : 0 .. MaxTime]
  \cup [pc : {"called"}, op : {"post"}, arg : Message, time : 0 .. MaxTime]
  \cup [pc : {"saving", "answering"}, op : UserOp \cup {"post"},
        got : Seq(ChatRecord)]

TypeOK ==
  /\ user \in [Client -> User]
  /\ srv \in {"up", "down", "stuck"}
  /\ rooms \in Seq(Room)
  /\ file \in [rooms : Seq(SavedRoom), cut : BOOLEAN]
  /\ thread \in [Thread -> ThreadState]
  /\ lock \in Thread \cup {NoThread}
  /\ lock # NoThread => srv = "up" /\ thread[lock].pc = "saving"
  /\ mode \in [Client -> {"out", "menu", "list", "chat", "killed"}]
  /\ clock \in 0 .. MaxTime
  /\ posted \subseteq Message
  /\ seen \cup answered \cup trimmed \cup wasted \subseteq User \X Message
  /\ commands \in Nat /\ crashes \in Nat

\* The copies that the server has, or will have when it is started again.
Stored == IF srv = "up" THEN Copies(Written(rooms)) ELSE Copies(file.rooms)

\* A chat whose sender has been answered survives until MakeSureChatSize deletes
\* it, which begins with the latest chats (ShowsRecent), whenever the server is
\* killed, unless it is killed while it writes data.dat.
AnsweredSurvive == ~ruined => answered \subseteq Stored \cup trimmed

\* The copies that threads of the server are about to send to clients.
UnderWay(u) ==
  {<<u, chat.msg>> : chat \in UNION {ToSet(thread[t].got) :
     t \in {x \in Thread : /\ user[x[1]] = u
                           /\ thread[x].pc \in {"saving", "answering"}
                           /\ thread[x].op \in {"show", "wait"}}}}

\* A chat that the room keeps and that is not new any more has been shown to
\* the user, or is on its way: otherwise it went to a client that was killed.
TakenIsShown ==
  srv = "up" =>
    \A i \in DOMAIN rooms : \A k \in DOMAIN rooms[i].chats :
      LET u == rooms[i].owner IN
      Copy(u, rooms[i].chats[k])
        \in seen \cup UnderWay(u) \cup wasted

IsNew(c, m) ==
  /\ srv = "up" /\ mode[c] = "chat"
  /\ \E i \in DOMAIN rooms : /\ rooms[i].owner = user[c]
                             /\ \E chat \in ToSet(rooms[i].fresh) : chat.msg = m

\* A chat that is new while its user is in chat mode is shown to a client of the
\* user, as long as the server runs and the user does not leave, or
\* MakeSureChatSize deletes it, or its answer goes to a client that was killed.
NewChatsArrive ==
  \A c \in Client, m \in Message :
    IsNew(c, m) ~> \/ <<user[c], m>> \in seen \cup trimmed \cup wasted
                  \/ srv # "up" \/ mode[c] # "chat"

\* ShowChats returns the ChatSize most recent chats of the room: "return recent
\* 20 message" (chat_room.h).
ShowsRecent ==
  [][\A t \in Thread :
       LET u   == user[t[1]]
           all == ToSet(RoomOf(u).chats \o RoomOf(u).fresh)
           got == ToSet(thread'[t].got)
       IN thread[t].pc = "called" /\ thread[t].op = "show"
            /\ thread'[t].pc = "saving" /\ HasRoom(u) =>
              /\ Cardinality(got) = Min({ChatSize, Cardinality(all)})
              /\ \A left \in all \ got, shown \in got : left.time <= shown.time]_vars
=============================================================================
