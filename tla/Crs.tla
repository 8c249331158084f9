-------------------------------- MODULE Crs --------------------------------
(***************************************************************************)
(* The chat room server of hw1 (hw1/src/crsd) and its clients              *)
(* (hw1/src/crc/client.c).                                                 *)
(*                                                                         *)
(* One thread of the server answers the commands of all clients.  Every    *)
(* room has a port and a thread that sends what a member says to the other *)
(* members.  To delete a room, the command thread takes it off the list,   *)
(* connects to it like a member, waits for its greeting and says           *)
(* "admin-delete".  All the threads are one process: what ends one of them *)
(* by exit or by a signal ends the server.                                 *)
(*                                                                         *)
(* Connections are TCP.  What a client has sent and what it has to read    *)
(* are sequences; what is read at once is one element.                     *)
(***************************************************************************)
EXTENDS Integers, Sequences

CONSTANTS
  Client,      \* runs of the client program
  Name,        \* names of rooms, in lower case and without a colon
  Port,        \* the ports from 1024 on that no other program has
  Message,     \* what is said, each at most once
  MaxCommands, \* bound: commands, all together
  Admin,       \* the command thread as a member of a room
  Listener,    \* the listening socket of a room
  NoRoom       \* no thread listens at a port

ASSUME PortAssumption == Port \subseteq Nat
ASSUME BoundAssumption == MaxCommands \in Nat
ASSUME NamesDiffer == /\ Admin \notin Client /\ Listener \notin Client
                      /\ Admin # Listener

\* The ends of connections, and the thread of a room.
End == Client \cup {Admin}
Room == [name : Name, members : SUBSET End, struck : SUBSET End,
         pass : SUBSET (End \cup {Listener}), backlog : Seq(End)]

ASSUME NoRoomAssumption == NoRoom \notin Room

VARIABLES
  ended,  \* why the server has ended, "no" as long as it runs
  list,   \* g_chatinfo: the rooms that have been created; only what LIST shows
          \* has their order
  room,   \* the thread at each port, or NoRoom
  admin,  \* at each port: what the command thread has done to delete the room
  delete, \* the DELETE that the command thread is busy with, or none
  mode,   \* where each client is
  link,   \* what sockfd of each client is connected to
  asked,  \* the type of the command that each client waits for or repeats
  sent,   \* what each client has sent and nobody has read
  inbox,  \* what each client can read
  count,  \* bound: commands so far
  said,   \* the messages that have been said
  warned,   \* history: clients that have been warned
  dismissed \* history: clients put out of a chat after all they said was read

server == <<ended, list, room, admin, delete>>
clients == <<mode, link, asked, sent, inbox>>
vars == <<server, clients, count, said, warned, dismissed>>

-----------------------------------------------------------------------------
\* get_chat: an entry of that name, if there is one.
Entries(name) == {r \in list : r.name = name}
Entry(name) == CHOOSE r \in list : r.name = name

Free == {p \in Port : room[p] = NoRoom}
Least(p) == p \in Free /\ \A q \in Free : p <= q

\* Where a socket is connected to, if it is not a room.
Nowhere == -1
Calling == -2
ToServer == -3

NoDelete == [client |-> "none", port |-> 0]

\* A thread of a room: the accepted connections, those it has still to look at
\* in this pass over the result of select, those that wait for accept, and
\* those it has sent to although the other end was closed.
NewRoom(name) ==
  [name |-> name, members |-> {}, pass |-> {}, backlog |-> <<>>, struck |-> {}]

\* A connection whose other end is closed.
Gone(p, x) == IF x = Admin THEN admin[p] = "sent" ELSE mode[x] = "ended"

\* The clients that wait for accept.
Waiting(backlog) == {backlog[i] : i \in DOMAIN backlog}

\* Something can be read.
Readable(p, x) ==
  IF x = Admin THEN admin[p] = "sent"
  ELSE sent[x] # <<>> \/ mode[x] = "ended"

Put(box, S, what) ==
  [c \in Client |-> IF c \in S /\ mode[c] # "ended"
                    THEN Append(box[c], what) ELSE box[c]]

Reply(c, what) == inbox' = Put(inbox, {c}, what)

-----------------------------------------------------------------------------
(***************************************************************************)
(* The command thread                                                      *)
(***************************************************************************)

Ready == ended = "no" /\ delete = NoDelete

\* accept, and the greeting.
CommandAccept(c) ==
  /\ Ready
  /\ link[c] = Calling
  /\ link' = [link EXCEPT ![c] = ToServer]
  /\ Reply(c, [what |-> "hello"])
  /\ UNCHANGED <<server, mode, asked, sent, count, said, warned, dismissed>>

Success(p) == [what |-> "success", port |-> p]
Denied == [what |-> "denied"]

\* get_list: what it lists is shown to the user, and used for nothing.
Listing == [what |-> "list"]

\* Mutant: the client is answered before the room has a port.
CreateBeforePort(c, name) ==
  /\ Entries(name) = {}
  /\ list' = list \cup {[name |-> name, port |-> 0]}
  /\ Reply(c, Success(0))
  /\ UNCHANGED <<ended, room, admin, delete>>

\* add_newchat and create_new_conn: the room has the first port that can be
\* bound; without any, the server exits.
Create(c, name) ==
  \/ /\ Entries(name) # {}
     /\ Reply(c, Denied)
     /\ UNCHANGED server
  \/ /\ Entries(name) = {}
     /\ \E p \in Port :
          /\ Least(p)
          /\ list' = list \cup {[name |-> name, port |-> p]}
          /\ room' = [room EXCEPT ![p] = NewRoom(name)]
          /\ Reply(c, Success(p))
     /\ UNCHANGED <<ended, admin, delete>>
  \/ /\ Entries(name) = {}
     /\ Free = {}
     /\ ended' = "ports"
     /\ UNCHANGED <<list, room, admin, delete, inbox>>

\* broadcast_to, its first half: the server connects to the room, and exits
\* when it cannot.
Connect(c, p) ==
  IF room[p] = NoRoom
  THEN /\ ended' = "connect"
       /\ UNCHANGED <<room, admin, delete>>
  ELSE /\ room' = [room EXCEPT ![p].backlog = Append(@, Admin)]
       /\ admin' = [admin EXCEPT ![p] = "pending"]
       /\ delete' = [client |-> c, port |-> p]
       /\ UNCHANGED ended

\* Mutant: the entry stays in the list.
DeleteKeeps(c, name) ==
  /\ Entries(name) # {}
  /\ Connect(c, Entry(name).port)
  /\ UNCHANGED <<list, inbox>>

\* Mutant: the thread of the room is not told.
DeleteForgets(c, name) ==
  /\ Entries(name) # {}
  /\ list' = list \ {Entry(name)}
  /\ Reply(c, [what |-> "deleted"])
  /\ UNCHANGED <<ended, room, admin, delete>>

\* delete_chat: the entry leaves the list, and the room is told.
Delete(c, name) ==
  \/ /\ Entries(name) = {}
     /\ Reply(c, Denied)
     /\ UNCHANGED server
  \/ /\ Entries(name) # {}
     /\ list' = list \ {Entry(name)}
     /\ Connect(c, Entry(name).port)
     /\ UNCHANGED inbox

\* The second half: the greeting has come; "admin-delete" is sent and the
\* connection closed, and the client is answered.
DeleteDone ==
  /\ ended = "no" /\ delete # NoDelete
  /\ admin[delete.port] = "accepted"
  /\ admin' = [admin EXCEPT ![delete.port] = "sent"]
  /\ delete' = NoDelete
  /\ Reply(delete.client, [what |-> "deleted"])
  /\ UNCHANGED <<ended, list, room, mode, link, asked, sent, count, said,
                 warned, dismissed>>

\* A command of a client.
Command(c) ==
  /\ Ready
  /\ link[c] = ToServer /\ sent[c] # <<>>
  /\ sent' = [sent EXCEPT ![c] = Tail(@)]
  /\ LET comm == Head(sent[c]) IN
       \/ comm.type = "create" /\ Create(c, comm.name)
       \/ comm.type = "delete" /\ Delete(c, comm.name)
       \/ /\ comm.type = "join"
          /\ Reply(c, IF Entries(comm.name) = {} THEN Denied
                      ELSE Success(Entry(comm.name).port))
          /\ UNCHANGED server
       \/ /\ comm.type = "list"
          /\ Reply(c, Listing)
          /\ UNCHANGED server
  /\ UNCHANGED <<mode, link, asked, count, said, warned, dismissed>>

-----------------------------------------------------------------------------
(***************************************************************************)
(* The thread of a room                                                    *)
(***************************************************************************)

Running(p) == ended = "no" /\ room[p] # NoRoom

\* select.
Select(p) ==
  /\ Running(p)
  /\ room[p].pass = {}
  /\ LET pass == {x \in room[p].members : Readable(p, x)}
                 \cup (IF room[p].backlog # <<>> THEN {Listener} ELSE {})
     IN /\ pass # {}
        /\ room' = [room EXCEPT ![p].pass = pass]
  /\ UNCHANGED <<ended, list, admin, delete, clients, count, said, warned,
                 dismissed>>

\* Mutant: no greeting to the command thread.
AcceptSilently(p) ==
  /\ Running(p)
  /\ Listener \in room[p].pass
  /\ LET x == Head(room[p].backlog) IN
       /\ room' = [room EXCEPT ![p].pass = @ \ {Listener},
                               ![p].members = @ \cup {x},
                               ![p].backlog = Tail(@)]
       /\ inbox' = Put(inbox, {x}, [what |-> "hello"])
  /\ UNCHANGED <<ended, list, admin, delete, mode, link, asked, sent, count,
                 said, warned, dismissed>>

\* accept, and the greeting.
Accept(p) ==
  /\ Running(p)
  /\ Listener \in room[p].pass
  /\ LET x == Head(room[p].backlog) IN
       /\ room' = [room EXCEPT ![p].pass = @ \ {Listener},
                               ![p].members = @ \cup {x},
                               ![p].backlog = Tail(@)]
       /\ admin' = [admin EXCEPT ![p] = IF x = Admin THEN "accepted" ELSE @]
       /\ inbox' = Put(inbox, {x}, [what |-> "hello"])
  /\ UNCHANGED <<ended, list, delete, mode, link, asked, sent, count, said,
                 warned, dismissed>>

\* What a send to connections makes of the server: the first to one whose
\* other end is closed is answered by a reset, and one after that raises
\* SIGPIPE, which nobody has told the process to ignore, unless the reset has
\* not come yet.
SendTo(p, S) ==
  LET struck == {x \in S : Gone(p, x)} IN
  \/ UNCHANGED ended
  \/ struck \cap room[p].struck # {} /\ ended' = "pipe"

\* A member is heard by the others.
Relay(p, c) ==
  /\ Running(p)
  /\ c \in room[p].pass
  /\ sent[c] # <<>>
  /\ sent' = [sent EXCEPT ![c] = Tail(@)]
  /\ LET others == room[p].members \ {c} IN
       /\ inbox' = Put(inbox, others, [what |-> "message"])
       /\ SendTo(p, others)
       /\ room' = [room EXCEPT ![p].pass = @ \ {c},
                     ![p].struck = @ \cup {x \in others : Gone(p, x)}]
  /\ UNCHANGED <<list, admin, delete, mode, link, asked, count, said, warned,
                 dismissed>>

\* recv returns no data: the member is gone.
Hangup(p, c) ==
  /\ Running(p)
  /\ c \in room[p].pass
  /\ sent[c] = <<>> /\ mode[c] = "ended"
  /\ room' = [room EXCEPT ![p].pass = @ \ {c}, ![p].members = @ \ {c},
                          ![p].struck = @ \ {c}]
  /\ UNCHANGED <<ended, list, admin, delete, clients, count, said, warned,
                 dismissed>>

\* Mutant: all is closed without a warning.
CloseSilently(p) ==
  /\ Running(p)
  /\ Admin \in room[p].pass
  /\ inbox' = Put(inbox, room[p].members, [what |-> "end"])
  /\ room' = [room EXCEPT ![p] = NoRoom]
  /\ admin' = [admin EXCEPT ![p] = "none"]
  /\ UNCHANGED <<ended, list, delete, mode, link, asked, sent, count, said,
                 warned, dismissed>>

\* "admin-delete": the members are warned, all is closed, and the thread ends.
\* The connections that have not been accepted, and those with unread data, are
\* reset; what has not been transmitted by then, as the warning behind a message
\* that is not acknowledged yet, is dropped.
Close(p) ==
  LET members == room[p].members \ {Admin}
      unread  == {c \in members : sent[c] # <<>>}
      linked  == members \cup Waiting(room[p].backlog)
      last(c) == [what |-> IF c \in members \ unread THEN "end" ELSE "reset"]
  IN /\ Running(p)
     /\ Admin \in room[p].pass
     /\ SendTo(p, members)
     /\ \E dropped \in SUBSET unread :
          LET box == Put(inbox, members \ dropped, [what |-> "warning"])
          IN inbox' = [c \in Client |->
                         IF c \in linked /\ mode[c] # "ended"
                         THEN Append(box[c], last(c)) ELSE box[c]]
     /\ room' = [room EXCEPT ![p] = NoRoom]
     /\ admin' = [admin EXCEPT ![p] = "none"]
     /\ UNCHANGED <<list, delete, mode, link, asked, sent, count, said, warned,
                    dismissed>>

-----------------------------------------------------------------------------
(***************************************************************************)
(* The clients                                                             *)
(***************************************************************************)

\* The menu, or the loop that asks for another name: deliverer writes a
\* command.  On the socket that a client has closed after a chat, write fails
\* and the client exits.
Ask(c, type, name) ==
  /\ ended = "no"
  /\ count < MaxCommands
  /\ mode[c] = "menu" \/ (mode[c] = "again" /\ type = asked[c])
  /\ count' = count + 1
  /\ IF link[c] = Nowhere
     THEN /\ mode' = [mode EXCEPT ![c] = "ended"]
          /\ UNCHANGED <<asked, sent>>
     ELSE /\ mode' = [mode EXCEPT ![c] = "wait"]
          /\ asked' = [asked EXCEPT ![c] = type]
          /\ sent' = [sent EXCEPT ![c] =
                        Append(@, [type |-> type, name |-> name])]
  /\ UNCHANGED <<server, link, inbox, said, warned, dismissed>>

\* JOIN has a port: the command socket is closed, and the client connects to
\* the room, or exits when nobody listens there.
Enter(c, p) ==
  IF p \in Port /\ room[p] # NoRoom
  THEN /\ mode' = [mode EXCEPT ![c] = "enter"]
       /\ link' = [link EXCEPT ![c] = p]
       /\ room' = [room EXCEPT ![p].backlog = Append(@, c)]
  ELSE /\ mode' = [mode EXCEPT ![c] = "ended"]
       /\ link' = [link EXCEPT ![c] = Nowhere]
       /\ UNCHANGED room

Stay(c, where) ==
  /\ mode' = [mode EXCEPT ![c] = where]
  /\ UNCHANGED <<link, room>>

\* deliverer reads the answer.  It looks for "DENIDED" and the server says
\* "DENIEDED": the value it returns then is whatever happens to be there.  To
\* DELETE the server answers without a port, and atoi(NULL) ends the client.
Answered(c) ==
  /\ ended = "no"
  /\ mode[c] = "wait" /\ inbox[c] # <<>>
  /\ inbox' = [inbox EXCEPT ![c] = Tail(@)]
  /\ LET answer == Head(inbox[c]) IN
       \/ answer.what = "success" /\ asked[c] = "create" /\ Stay(c, "menu")
       \/ answer.what = "success" /\ asked[c] = "join" /\ Enter(c, answer.port)
       \/ answer.what = "deleted" /\ Stay(c, "ended")
       \/ answer.what = "list" /\ Stay(c, "menu")
       \/ answer.what = "denied" /\ Stay(c, "again")
       \/ answer.what = "denied" /\ asked[c] # "join" /\ Stay(c, "menu")
       \/ /\ answer.what = "denied" /\ asked[c] = "join"
          /\ \E p \in Port \cup {0} : Enter(c, p)
  /\ asked' = [asked EXCEPT ![c] = IF mode'[c] = "again" THEN @ ELSE "none"]
  /\ UNCHANGED <<ended, list, admin, delete, sent, count, said, warned,
                 dismissed>>

\* What else a client reads: the greetings, and in the chat the messages.  When
\* the connection is closed the client is back in the menu, with no socket;
\* after a reset it exits.
Read(c) ==
  /\ ended = "no"
  /\ mode[c] \in {"greet", "enter", "chat"} /\ inbox[c] # <<>>
  /\ LET what == (Head(inbox[c])).what IN
       /\ inbox' = [inbox EXCEPT ![c] = Tail(@)]
       /\ mode' = [mode EXCEPT ![c] =
                     CASE what = "reset" -> "ended"
                       [] what = "end" -> "menu"
                       [] mode[c] = "greet" -> "menu"
                       [] OTHER -> "chat"]
       /\ link' = [link EXCEPT ![c] = IF what = "end" THEN Nowhere ELSE @]
       /\ sent' = [sent EXCEPT ![c] = IF what \in {"end", "reset"}
                                      THEN <<>> ELSE @]
       /\ warned' = IF what = "warning" THEN warned \cup {c} ELSE warned
       /\ dismissed' = IF what \in {"end", "reset"} /\ mode[c] = "chat"
                            /\ sent[c] = <<>>
                       THEN dismissed \cup {c} ELSE dismissed
  /\ UNCHANGED <<server, asked, count, said>>

\* The connection has been closed, and what comes for it is answered by a reset,
\* which drops what has not been transmitted.
Refused(c) ==
  /\ inbox[c] # <<>> /\ inbox[c][Len(inbox[c])].what = "end"
  /\ \E k \in 0 .. Len(inbox[c]) - 1 :
       inbox' = [inbox EXCEPT ![c] = Append(SubSeq(@, 1, k), [what |-> "reset"])]

\* The user says something in the chat.
Say(c, m) ==
  /\ ended = "no"
  /\ mode[c] = "chat"
  /\ m \notin said
  /\ said' = said \cup {m}
  /\ sent' = [sent EXCEPT ![c] = Append(@, [msg |-> m])]
  /\ Refused(c) \/ UNCHANGED inbox
  /\ UNCHANGED <<server, mode, link, asked, count, warned, dismissed>>

\* The user ends the client with Ctrl+C.  In the menu nobody waits for him, and
\* it is as if he did nothing any more.
Kill(c) ==
  /\ ended = "no"
  /\ mode[c] \in {"wait", "enter", "chat"}
  /\ mode' = [mode EXCEPT ![c] = "ended"]
  /\ inbox' = [inbox EXCEPT ![c] = <<>>]
  /\ UNCHANGED <<server, link, asked, sent, count, said, warned, dismissed>>

-----------------------------------------------------------------------------
\* The server has been started, and the clients have called it.
Init ==
  /\ ended = "no" /\ list = {}
  /\ room = [p \in Port |-> NoRoom]
  /\ admin = [p \in Port |-> "none"]
  /\ delete = NoDelete
  /\ mode = [c \in Client |-> "greet"]
  /\ link = [c \in Client |-> Calling]
  /\ asked = [c \in Client |-> "none"]
  /\ sent = [c \in Client |-> <<>>] /\ inbox = [c \in Client |-> <<>>]
  /\ count = 0 /\ said = {} /\ warned = {} /\ dismissed = {}

CommandThread == DeleteDone \/ \E c \in Client : CommandAccept(c) \/ Command(c)

RoomThread(p) ==
  Select(p) \/ Accept(p) \/ Close(p)
  \/ \E c \in Client : Relay(p, c) \/ Hangup(p, c)

Next ==
  \/ CommandThread
  \/ \E p \in Port : RoomThread(p)
  \/ \E c \in Client :
       \/ Answered(c) \/ Read(c) \/ Kill(c)
       \/ \E name \in Name :
            \/ Ask(c, "create", name) \/ Ask(c, "join", name)
            \/ Ask(c, "delete", name)
       \/ Ask(c, "list", "none")
       \/ \E m \in Message : Say(c, m)

\* The threads of the server are scheduled: each goes on as long as it has
\* something to do.
Spec ==
  /\ Init /\ [][Next]_vars
  /\ WF_vars(CommandThread)
  /\ \A p \in Port : WF_vars(RoomThread(p))

-----------------------------------------------------------------------------
(***************************************************************************)
(* Properties                                                              *)
(***************************************************************************)

Comm == [type : {"create", "join", "delete"}, name : Name]
        \cup [type : {"list"}, name : {"none"}] \cup [msg : Message]
Item == [what : {"hello", "denied", "deleted", "list", "message", "warning",
                 "end", "reset"}]
        \cup [what : {"success"}, port : Port]

TypeOK ==
  /\ ended \in {"no", "ports", "connect", "pipe"}
  /\ list \subseteq [name : Name, port : Port]
  /\ room \in [Port -> Room \cup {NoRoom}]
  /\ \A p \in Port :
       room[p] # NoRoom =>
         room[p].pass \subseteq room[p].members \cup {Listener}
  /\ admin \in [Port -> {"none", "pending", "accepted", "sent"}]
  /\ delete \in {NoDelete} \cup [client : Client, port : Port]
  /\ mode \in [Client -> {"greet", "menu", "again", "wait", "enter",
                          "chat", "ended"}]
  /\ link \in [Client -> {Nowhere, Calling, ToServer} \cup Port]
  /\ sent \in [Client -> Seq(Comm)] /\ inbox \in [Client -> Seq(Item)]

\* Every room of the list has its own name and its own port, and the thread
\* that listens there is the thread of that room: JOIN and DELETE reach it, and
\* the server never exits because it could not connect to a room of its own.
ListedRoomsListen ==
  /\ ended # "connect"
  /\ \A r \in list :
       /\ room[r.port] # NoRoom /\ room[r.port].name = r.name
       /\ admin[r.port] = "none"
       /\ \A q \in list : q.name = r.name => q = r

\* A thread that listens belongs to a room of the list, or to one that is being
\* deleted: no thread and no port is left behind.
NoRoomLeftBehind ==
  \A p \in Port :
    room[p] # NoRoom => (\E r \in list : r.port = p) \/ admin[p] # "none"

\* Who has been in a chat, and has said nothing that the thread of the room has
\* not read, is warned before he is put out of it: whatever greetings, messages
\* and connections are on their way when the room is closed.  The others are
\* reset, and the warning may be dropped.
WarnedBeforeDismissed == dismissed \subseteq warned

\* The command thread waits for one room at a time, and every client that asks
\* is answered, unless the client or the server ends.
CommandsAnswered ==
  \A c \in Client :
    mode[c] = "wait" ~> inbox[c] # <<>> \/ mode[c] # "wait" \/ ended # "no"

\* A room that is deleted comes to its end, and its port is free again.
DeletedRoomsEnd ==
  \A p \in Port : admin[p] # "none" ~> room[p] = NoRoom \/ ended # "no"
=============================================================================
