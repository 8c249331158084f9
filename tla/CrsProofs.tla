----------------------------- MODULE CrsProofs -----------------------------
(***************************************************************************)
(* Proofs about Crs, for every set of clients, names, ports and messages.  *)
(***************************************************************************)
EXTENDS Crs, TLAPS

CommandMsg == [type : {"create", "join", "delete"}, name : Name]
              \cup [type : {"list"}, name : {"none"}]

\* Where the clients are: only who is in a room, or on the way into one, says
\* anything but commands.
ClientInv ==
  \A c \in Client :
    /\ mode[c] \in {"enter", "chat"} => link[c] \in Port
    /\ mode[c] \in {"greet", "menu", "again", "wait"} => link[c] \notin Port
    /\ link[c] \notin Port => sent[c] \in Seq(CommandMsg)

\* The command thread is in a room only when it deletes it.
AdminInv ==
  \A p \in Port :
    /\ room[p] = NoRoom => admin[p] = "none"
    /\ room[p] # NoRoom =>
         /\ Listener \in room[p].pass => room[p].backlog # <<>>
         /\ Admin \in room[p].members \cup room[p].pass
                      \cup Waiting(room[p].backlog)
            => admin[p] # "none"

\* The inductive invariant.
IInv == TypeOK /\ ClientInv /\ AdminInv /\ ListedRoomsListen /\ NoRoomLeftBehind

-----------------------------------------------------------------------------
(***************************************************************************)
(* The operators                                                           *)
(***************************************************************************)

\* Whoever comes waits for accept.
LEMMA BacklogGrows ==
  ASSUME NEW s \in Seq(End), NEW x \in End
  PROVE  /\ Append(s, x) \in Seq(End) /\ Append(s, x) # <<>>
         /\ Waiting(Append(s, x)) = Waiting(s) \cup {x}
<1>1. Append(s, x) \in Seq(End) /\ Len(Append(s, x)) = Len(s) + 1
  OBVIOUS
<1>2. /\ DOMAIN Append(s, x) = DOMAIN s \cup {Len(s) + 1}
      /\ \A i \in DOMAIN s : Append(s, x)[i] = s[i]
      /\ Append(s, x)[Len(s) + 1] = x
  OBVIOUS
<1> QED
  BY <1>1, <1>2 DEF Waiting

\* The first of those who wait is accepted.
LEMMA BacklogShrinks ==
  ASSUME NEW s \in Seq(End), s # <<>>
  PROVE  /\ Head(s) \in Waiting(s) /\ Head(s) \in End
         /\ Tail(s) \in Seq(End)
         /\ Waiting(Tail(s)) \subseteq Waiting(s)
<1>1. /\ Tail(s) \in Seq(End) /\ DOMAIN Tail(s) = 1 .. Len(s) - 1
      /\ \A i \in DOMAIN Tail(s) : i + 1 \in DOMAIN s /\ Tail(s)[i] = s[i + 1]
  OBVIOUS
<1>2. Head(s) = s[1] /\ 1 \in DOMAIN s /\ s[1] \in End
  OBVIOUS
<1> QED
  BY <1>1, <1>2 DEF Waiting

\* Whatever is put into an inbox can be read.
LEMMA PutType ==
  ASSUME NEW box \in [Client -> Seq(Item)], NEW S, NEW what \in Item
  PROVE  Put(box, S, what) \in [Client -> Seq(Item)]
BY DEF Put

LEMMA Items ==
  /\ \A w \in {"hello", "denied", "deleted", "list", "message", "warning",
               "end", "reset"} : [what |-> w] \in Item
  /\ \A p \in Port : Success(p) \in Item
  /\ Denied \in Item /\ Listing \in Item
BY DEF Item, Success, Denied, Listing

\* An entry of the list that has the name.
LEMMA EntryListed ==
  ASSUME NEW name, Entries(name) # {}
  PROVE  Entry(name) \in list /\ Entry(name).name = name
BY DEF Entries, Entry

\* Ports are not taken for other places.
LEMMA Places ==
  /\ Nowhere \notin Port /\ Calling \notin Port /\ ToServer \notin Port
BY PortAssumption DEF Nowhere, Calling, ToServer

\* Two entries of the list have two ports.
LEMMA OwnPorts ==
  ASSUME ListedRoomsListen, NEW r \in list, NEW q \in list, q.port = r.port
  PROVE  q = r
BY DEF ListedRoomsListen

-----------------------------------------------------------------------------
LEMMA InitInv == Init => IInv
<1> SUFFICES ASSUME Init PROVE IInv
  OBVIOUS
<1>1. TypeOK
  BY DEF Init, TypeOK, NoDelete
<1>2. ClientInv
  <2>1. <<>> \in Seq(CommandMsg)
    OBVIOUS
  <2> QED
    BY <2>1, Places DEF Init, ClientInv
<1>3. AdminInv
  BY DEF Init, AdminInv
<1> QED
  BY <1>1, <1>2, <1>3 DEF Init, IInv, ListedRoomsListen, NoRoomLeftBehind

\* The invariant speaks of these variables only.
LEMMA Stutter ==
  ASSUME IInv, UNCHANGED <<server, mode, link, sent, inbox>> PROVE IInv'
BY DEF IInv, TypeOK, ClientInv, AdminInv, ListedRoomsListen,
       NoRoomLeftBehind, server, Entries

\* What the clients do to their own variables.
LEMMA ClientStep ==
  ASSUME IInv, UNCHANGED server, ClientInv',
         mode' \in [Client -> {"greet", "menu", "again", "wait", "enter",
                               "chat", "ended"}],
         link' \in [Client -> {Nowhere, Calling, ToServer} \cup Port],
         sent' \in [Client -> Seq(Comm)], inbox' \in [Client -> Seq(Item)]
  PROVE  IInv'
BY DEF IInv, TypeOK, AdminInv, ListedRoomsListen, NoRoomLeftBehind, server

-----------------------------------------------------------------------------
(***************************************************************************)
(* The clients                                                             *)
(***************************************************************************)

LEMMA CommandAcceptInv ==
  ASSUME IInv, NEW c \in Client, CommandAccept(c) PROVE IInv'
<1>1. inbox' \in [Client -> Seq(Item)]
  BY PutType, Items DEF CommandAccept, Reply, IInv, TypeOK
<1>2. ClientInv'
  BY Places DEF CommandAccept, IInv, TypeOK, ClientInv
<1>3. /\ link' \in [Client -> {Nowhere, Calling, ToServer} \cup Port]
      /\ UNCHANGED <<server, mode, sent>>
  BY DEF CommandAccept, IInv, TypeOK
<1> QED
  BY <1>1, <1>2, <1>3, ClientStep DEF IInv, TypeOK

\* Commands are sent to the command thread only.
LEMMA AskInv ==
  ASSUME IInv, NEW c \in Client, NEW type, NEW name,
         [type |-> type, name |-> name] \in CommandMsg, Ask(c, type, name)
  PROVE  IInv'
<1>1. /\ link[c] \notin Port /\ sent[c] \in Seq(CommandMsg)
      /\ sent[c] \in Seq(Comm)
  BY DEF Ask, IInv, TypeOK, ClientInv
<1>2. [type |-> type, name |-> name] \in Comm
  BY DEF CommandMsg, Comm
<1>3. /\ Append(sent[c], [type |-> type, name |-> name]) \in Seq(CommandMsg)
      /\ Append(sent[c], [type |-> type, name |-> name]) \in Seq(Comm)
  BY <1>1, <1>2
<1>4. /\ mode' \in [Client -> {"greet", "menu", "again", "wait", "enter",
                               "chat", "ended"}]
      /\ sent' \in [Client -> Seq(Comm)]
      /\ UNCHANGED <<server, link, inbox>>
  <2> DEFINE m == Append(sent[c], [type |-> type, name |-> name])
  <2>1. CASE link[c] = Nowhere
    BY <2>1 DEF Ask, IInv, TypeOK
  <2>2. CASE link[c] # Nowhere
    <3>1. /\ mode' = [mode EXCEPT ![c] = "wait"]
          /\ sent' = [sent EXCEPT ![c] = m]
          /\ UNCHANGED <<server, link, inbox>>
      BY <2>2 DEF Ask
    <3>2. m \in Seq(Comm)
      BY <1>3
    <3> HIDE DEF m
    <3> QED
      BY <3>1, <3>2 DEF IInv, TypeOK
  <2> QED
    BY <2>1, <2>2
<1>5. ClientInv'
  BY <1>1, <1>3 DEF Ask, IInv, TypeOK, ClientInv
<1> QED
  BY <1>4, <1>5, ClientStep DEF IInv, TypeOK

LEMMA ReadInv ==
  ASSUME IInv, NEW c \in Client, Read(c) PROVE IInv'
<1> DEFINE what == (Head(inbox[c])).what
<1>1. inbox' \in [Client -> Seq(Item)]
  BY DEF Read, IInv, TypeOK
<1>2. <<>> \in Seq(Comm) /\ <<>> \in Seq(CommandMsg)
  OBVIOUS
<1>3. /\ mode[c] \in {"greet", "enter", "chat"}
      /\ mode' = [mode EXCEPT ![c] = CASE what = "reset" -> "ended"
                                      [] what = "end" -> "menu"
                                      [] mode[c] = "greet" -> "menu"
                                      [] OTHER -> "chat"]
      /\ link' = [link EXCEPT ![c] = IF what = "end" THEN Nowhere ELSE @]
      /\ sent' = [sent EXCEPT ![c] = IF what \in {"end", "reset"}
                                     THEN <<>> ELSE @]
      /\ UNCHANGED server
  BY DEF Read
<1> HIDE DEF what
<1>4. /\ mode' \in [Client -> {"greet", "menu", "again", "wait", "enter",
                               "chat", "ended"}]
      /\ link' \in [Client -> {Nowhere, Calling, ToServer} \cup Port]
      /\ sent' \in [Client -> Seq(Comm)]
  BY <1>2, <1>3 DEF IInv, TypeOK
<1>5. ClientInv'
  <2>1. CASE what = "reset"
    BY <2>1, <1>2, <1>3 DEF IInv, TypeOK, ClientInv
  <2>2. CASE what = "end"
    BY <2>2, <1>2, <1>3, Places DEF IInv, TypeOK, ClientInv
  <2>3. CASE what \notin {"reset", "end"}
    BY <2>3, <1>3 DEF IInv, TypeOK, ClientInv
  <2> QED
    BY <2>1, <2>2, <2>3
<1> QED
  BY <1>1, <1>3, <1>4, <1>5, ClientStep

\* Only who is in a room says anything.
LEMMA SayInv ==
  ASSUME IInv, NEW c \in Client, NEW m \in Message, Say(c, m) PROVE IInv'
<1>1. [msg |-> m] \in Comm /\ sent[c] \in Seq(Comm) /\ link[c] \in Port
  BY DEF Comm, Say, IInv, TypeOK, ClientInv
<1>2. Append(sent[c], [msg |-> m]) \in Seq(Comm)
  BY <1>1
<1>3. /\ sent' \in [Client -> Seq(Comm)]
      /\ UNCHANGED <<server, mode, link>>
  BY <1>2 DEF Say, IInv, TypeOK
<1>4. ClientInv'
  BY <1>1 DEF Say, IInv, TypeOK, ClientInv
<1>5. inbox' \in [Client -> Seq(Item)]
  <2>1. CASE Refused(c)
    <3>1. PICK k \in 0 .. Len(inbox[c]) - 1 :
            inbox' = [inbox EXCEPT ![c] = Append(SubSeq(@, 1, k),
                                                 [what |-> "reset"])]
      BY <2>1 DEF Refused
    <3>2. PICK reset : reset = [what |-> "reset"]
      OBVIOUS
    <3>3. reset \in Item /\ inbox[c] \in Seq(Item)
      BY <3>2, Items DEF IInv, TypeOK
    <3>4. SubSeq(inbox[c], 1, k) \in Seq(Item)
      BY <3>3
    <3>5. Append(SubSeq(inbox[c], 1, k), reset) \in Seq(Item)
      BY <3>3, <3>4
    <3> QED
      BY <3>1, <3>2, <3>5 DEF IInv, TypeOK
  <2>2. CASE UNCHANGED inbox
    BY <2>2 DEF IInv, TypeOK
  <2> QED
    BY <2>1, <2>2 DEF Say
<1> QED
  BY <1>3, <1>4, <1>5, ClientStep DEF IInv, TypeOK

LEMMA KillInv ==
  ASSUME IInv, NEW c \in Client, Kill(c) PROVE IInv'
<1>1. <<>> \in Seq(Item)
  OBVIOUS
<1>2. /\ mode' \in [Client -> {"greet", "menu", "again", "wait", "enter",
                               "chat", "ended"}]
      /\ inbox' \in [Client -> Seq(Item)]
      /\ UNCHANGED <<server, link, sent>>
  BY <1>1 DEF Kill, IInv, TypeOK
<1>3. ClientInv'
  BY DEF Kill, IInv, TypeOK, ClientInv
<1> QED
  BY <1>2, <1>3, ClientStep DEF IInv, TypeOK

-----------------------------------------------------------------------------
(***************************************************************************)
(* The thread of a room                                                    *)
(***************************************************************************)

\* A room of the list is not being deleted: the command thread is not in it.
LEMMA ListedFree ==
  ASSUME IInv, NEW r \in list
  PROVE  /\ r.port \in Port /\ r.name \in Name
         /\ room[r.port] \in Room /\ admin[r.port] = "none"
         /\ Admin \notin room[r.port].members \cup room[r.port].pass
                         \cup Waiting(room[r.port].backlog)
BY DEF IInv, TypeOK, ListedRoomsListen, AdminInv

\* A step that changes one room, and not whether it is being deleted, keeps
\* what the invariant says of the others.
LEMMA RoomStep ==
  ASSUME IInv, NEW p \in Port, room[p] # NoRoom, NEW new \in Room,
         room' = [room EXCEPT ![p] = new], new.name = room[p].name,
         new.pass \subseteq new.members \cup {Listener},
         Listener \in new.pass => new.backlog # <<>>,
         admin' \in [Port -> {"none", "pending", "accepted", "sent"}],
         \A q \in Port : admin'[q] = "none" <=> admin[q] = "none",
         Admin \in new.members \cup new.pass \cup Waiting(new.backlog)
           => admin[p] # "none",
         ended' \in {ended, "pipe"}, list' = list,
         delete' \in {NoDelete} \cup [client : Client, port : Port],
         ClientInv',
         mode' \in [Client -> {"greet", "menu", "again", "wait", "enter",
                               "chat", "ended"}],
         link' \in [Client -> {Nowhere, Calling, ToServer} \cup Port],
         sent' \in [Client -> Seq(Comm)], inbox' \in [Client -> Seq(Item)]
  PROVE  IInv'
<1>1. new # NoRoom
  BY NoRoomAssumption
<1>2. /\ room'[p] = new /\ \A q \in Port \ {p} : room'[q] = room[q]
      /\ room' \in [Port -> Room \cup {NoRoom}]
  BY DEF IInv, TypeOK
<1>3. TypeOK'
  BY <1>2 DEF IInv, TypeOK
<1>4. AdminInv'
  <2> SUFFICES ASSUME NEW q \in Port
               PROVE  /\ room'[q] = NoRoom => admin'[q] = "none"
                      /\ room'[q] # NoRoom =>
                           /\ Listener \in room'[q].pass
                                => room'[q].backlog # <<>>
                           /\ Admin \in room'[q].members \cup room'[q].pass
                                        \cup Waiting(room'[q].backlog)
                                => admin'[q] # "none"
    BY DEF AdminInv
  <2>1. CASE q = p
    BY <1>1, <1>2, <2>1
  <2>2. CASE q # p
    BY <1>2, <2>2 DEF IInv, AdminInv
  <2> QED
    BY <2>1, <2>2
<1>5. ListedRoomsListen'
  <2>1. ended' # "connect"
    BY DEF IInv, ListedRoomsListen
  <2>2. ASSUME NEW r \in list
        PROVE  /\ room'[r.port] # NoRoom /\ room'[r.port].name = r.name
               /\ admin'[r.port] = "none"
               /\ \A q \in list : q.name = r.name => q = r
    <3>1. r.port \in Port
      BY DEF IInv, TypeOK
    <3> QED
      BY <1>1, <1>2, <3>1 DEF IInv, ListedRoomsListen
  <2> QED
    BY <2>1, <2>2 DEF ListedRoomsListen
<1>6. NoRoomLeftBehind'
  <2> SUFFICES ASSUME NEW q \in Port, room'[q] # NoRoom
               PROVE  (\E r \in list : r.port = q) \/ admin'[q] # "none"
    BY DEF NoRoomLeftBehind
  <2>1. room[q] # NoRoom
    BY <1>2
  <2> QED
    BY <2>1 DEF IInv, NoRoomLeftBehind
<1> QED
  BY <1>3, <1>4, <1>5, <1>6 DEF IInv

\* The fields of a room.
LEMMA RoomFields ==
  ASSUME IInv, NEW p \in Port, room[p] # NoRoom
  PROVE  /\ room[p] \in Room
         /\ room[p] = [name |-> room[p].name, members |-> room[p].members,
                       struck |-> room[p].struck, pass |-> room[p].pass,
                       backlog |-> room[p].backlog]
         /\ room[p].name \in Name /\ room[p].members \subseteq End
         /\ room[p].struck \subseteq End
         /\ room[p].pass \subseteq room[p].members \cup {Listener}
         /\ room[p].backlog \in Seq(End)
BY DEF IInv, TypeOK, Room

LEMMA SelectInv ==
  ASSUME IInv, NEW p \in Port, Select(p) PROVE IInv'
<1> DEFINE pass == {x \in room[p].members : Readable(p, x)}
                   \cup (IF room[p].backlog # <<>> THEN {Listener} ELSE {})
           new == [room[p] EXCEPT !.pass = pass]
<1>1. /\ room[p] # NoRoom /\ room' = [room EXCEPT ![p] = new]
      /\ UNCHANGED <<ended, list, admin, delete, mode, link, sent, inbox>>
  BY DEF Select, Running, clients
<1>2. /\ pass \subseteq room[p].members \cup {Listener}
      /\ Listener \in pass => room[p].backlog # <<>>
  BY <1>1, RoomFields, NamesDiffer DEF End
<1> HIDE DEF pass
<1>3. /\ new \in Room /\ new.name = room[p].name
      /\ new.members = room[p].members /\ new.backlog = room[p].backlog
      /\ new.pass = pass
  BY <1>1, <1>2, RoomFields DEF Room, End
<1> HIDE DEF new
<1>4. Admin \in new.members \cup new.pass \cup Waiting(new.backlog)
        => admin[p] # "none"
  BY <1>1, <1>2, <1>3, NamesDiffer DEF IInv, AdminInv
<1>5. ClientInv'
  BY <1>1 DEF IInv, ClientInv
<1> QED
  BY <1>1, <1>2, <1>3, <1>4, <1>5, RoomStep DEF IInv, TypeOK

LEMMA AcceptInv ==
  ASSUME IInv, NEW p \in Port, Accept(p) PROVE IInv'
<1> DEFINE x == Head(room[p].backlog)
           new == [room[p] EXCEPT !.pass = @ \ {Listener},
                                  !.members = @ \cup {x},
                                  !.backlog = Tail(@)]
<1>1. /\ room[p] # NoRoom /\ Listener \in room[p].pass
      /\ room' = [room EXCEPT ![p] = new]
      /\ admin' = [admin EXCEPT ![p] = IF x = Admin THEN "accepted" ELSE @]
      /\ inbox' = Put(inbox, {x}, [what |-> "hello"])
      /\ UNCHANGED <<ended, list, delete, mode, link, sent>>
  BY DEF Accept, Running
<1>2. room[p].backlog \in Seq(End) /\ room[p].backlog # <<>>
  BY <1>1, RoomFields DEF IInv, AdminInv
<1>3. /\ x \in Waiting(room[p].backlog) /\ x \in End
      /\ Tail(room[p].backlog) \in Seq(End)
      /\ Waiting(Tail(room[p].backlog)) \subseteq Waiting(room[p].backlog)
  BY <1>2, BacklogShrinks
<1> HIDE DEF x
<1>4. /\ new \in Room /\ new.name = room[p].name
      /\ new.members = room[p].members \cup {x}
      /\ new.backlog = Tail(room[p].backlog)
      /\ new.pass = room[p].pass \ {Listener}
  BY <1>1, <1>3, RoomFields DEF Room
<1>5. inbox' \in [Client -> Seq(Item)]
  BY <1>1, PutType, Items DEF IInv, TypeOK
<1> HIDE DEF new
<1>6. x = Admin => admin[p] # "none"
  BY <1>1, <1>3 DEF IInv, AdminInv
<1>7. /\ admin' \in [Port -> {"none", "pending", "accepted", "sent"}]
      /\ \A q \in Port : admin'[q] = "none" <=> admin[q] = "none"
  BY <1>1, <1>6 DEF IInv, TypeOK
<1>8. Admin \in new.members \cup new.pass \cup Waiting(new.backlog)
        => admin[p] # "none"
  BY <1>1, <1>3, <1>4, <1>6 DEF IInv, AdminInv
<1>9. ClientInv'
  BY <1>1 DEF IInv, ClientInv
<1>10. new.pass \subseteq new.members \cup {Listener} /\ Listener \notin new.pass
  BY <1>1, <1>4, RoomFields
<1> QED
  BY <1>1, <1>4, <1>5, <1>7, <1>8, <1>9, <1>10, RoomStep DEF IInv, TypeOK

LEMMA RelayInv ==
  ASSUME IInv, NEW p \in Port, NEW c \in Client, Relay(p, c) PROVE IInv'
<1> DEFINE others == room[p].members \ {c}
           new == [room[p] EXCEPT !.pass = @ \ {c},
                     !.struck = @ \cup {x \in others : Gone(p, x)}]
<1>1. /\ room[p] # NoRoom /\ room' = [room EXCEPT ![p] = new]
      /\ sent[c] # <<>> /\ sent' = [sent EXCEPT ![c] = Tail(@)]
      /\ inbox' = Put(inbox, others, [what |-> "message"])
      /\ ended' \in {ended, "pipe"}
      /\ UNCHANGED <<list, admin, delete, mode, link>>
  BY DEF Relay, Running, SendTo
<1>2. inbox' \in [Client -> Seq(Item)]
  BY <1>1, PutType, Items DEF IInv, TypeOK
<1>3. {x \in others : Gone(p, x)} \subseteq End
  BY <1>1, RoomFields
<1> HIDE DEF others
<1>4. /\ new \in Room /\ new.name = room[p].name
      /\ new.members = room[p].members
      /\ new.backlog = room[p].backlog
      /\ new.pass = room[p].pass \ {c}
  BY <1>1, <1>3, RoomFields DEF Room
<1> HIDE DEF new
<1>5. /\ new.pass \subseteq new.members \cup {Listener}
      /\ Listener \in new.pass => new.backlog # <<>>
      /\ Admin \in new.members \cup new.pass \cup Waiting(new.backlog)
           => admin[p] # "none"
  BY <1>1, <1>4, RoomFields DEF IInv, AdminInv
<1>6. /\ sent' \in [Client -> Seq(Comm)]
      /\ ClientInv'
  <2>1. /\ Tail(sent[c]) \in Seq(Comm)
        /\ link[c] \notin Port => Tail(sent[c]) \in Seq(CommandMsg)
    BY <1>1 DEF IInv, TypeOK, ClientInv
  <2> QED
    BY <1>1, <2>1 DEF IInv, TypeOK, ClientInv
<1> QED
  BY <1>1, <1>2, <1>4, <1>5, <1>6, RoomStep DEF IInv, TypeOK

LEMMA HangupInv ==
  ASSUME IInv, NEW p \in Port, NEW c \in Client, Hangup(p, c) PROVE IInv'
<1> DEFINE new == [room[p] EXCEPT !.pass = @ \ {c}, !.members = @ \ {c},
                                  !.struck = @ \ {c}]
<1>1. /\ room[p] # NoRoom /\ room' = [room EXCEPT ![p] = new]
      /\ UNCHANGED <<ended, list, admin, delete, mode, link, sent, inbox>>
  BY DEF Hangup, Running, clients
<1>2. /\ new \in Room /\ new.name = room[p].name
      /\ new.members = room[p].members \ {c}
      /\ new.backlog = room[p].backlog
      /\ new.pass = room[p].pass \ {c}
  BY <1>1, RoomFields DEF Room
<1> HIDE DEF new
<1>3. /\ new.pass \subseteq new.members \cup {Listener}
      /\ Listener \in new.pass => new.backlog # <<>>
      /\ Admin \in new.members \cup new.pass \cup Waiting(new.backlog)
           => admin[p] # "none"
  BY <1>1, <1>2, RoomFields DEF IInv, AdminInv
<1>4. ClientInv'
  BY <1>1 DEF IInv, ClientInv
<1> QED
  BY <1>1, <1>2, <1>3, <1>4, RoomStep DEF IInv, TypeOK

\* A room that comes to its end is not in the list.
LEMMA CloseInv ==
  ASSUME IInv, NEW p \in Port, Close(p) PROVE IInv'
<1> DEFINE members == room[p].members \ {Admin}
           unread  == {c \in members : sent[c] # <<>>}
           linked  == members \cup Waiting(room[p].backlog)
           last(c) == [what |-> IF c \in members \ unread THEN "end" ELSE "reset"]
<1>0. PICK dropped \in SUBSET unread :
        LET box == Put(inbox, members \ dropped, [what |-> "warning"])
        IN inbox' = [c \in Client |-> IF c \in linked /\ mode[c] # "ended"
                                      THEN Append(box[c], last(c)) ELSE box[c]]
  BY DEF Close
<1> DEFINE box == Put(inbox, members \ dropped, [what |-> "warning"])
<1>1. /\ room[p] # NoRoom /\ Admin \in room[p].pass
      /\ room' = [room EXCEPT ![p] = NoRoom]
      /\ admin' = [admin EXCEPT ![p] = "none"]
      /\ ended' \in {ended, "pipe"}
      /\ inbox' = [c \in Client |-> IF c \in linked /\ mode[c] # "ended"
                                    THEN Append(box[c], last(c)) ELSE box[c]]
      /\ UNCHANGED <<list, delete, mode, link, sent>>
  BY <1>0 DEF Close, Running, SendTo
<1>2. \A r \in list : r.port # p
  BY <1>1, ListedFree
<1>3. box \in [Client -> Seq(Item)]
  BY PutType, Items DEF IInv, TypeOK
<1>4. \A c \in Client : last(c) \in Item
  BY Items
<1> HIDE DEF members, unread, linked, box, last
<1>5. inbox' \in [Client -> Seq(Item)]
  BY <1>1, <1>3, <1>4
<1>6. /\ room' \in [Port -> Room \cup {NoRoom}] /\ room'[p] = NoRoom
      /\ admin' \in [Port -> {"none", "pending", "accepted", "sent"}]
      /\ admin'[p] = "none"
      /\ \A q \in Port \ {p} : room'[q] = room[q] /\ admin'[q] = admin[q]
  BY <1>1 DEF IInv, TypeOK
<1>7. TypeOK'
  BY <1>1, <1>5, <1>6 DEF IInv, TypeOK
<1>8. ClientInv' /\ AdminInv'
  BY <1>1, <1>6 DEF IInv, ClientInv, AdminInv
<1>9. ListedRoomsListen' /\ NoRoomLeftBehind'
  BY <1>1, <1>2, <1>6 DEF IInv, TypeOK, ListedRoomsListen, NoRoomLeftBehind
<1> QED
  BY <1>7, <1>8, <1>9 DEF IInv

-----------------------------------------------------------------------------
(***************************************************************************)
(* The command thread                                                      *)
(***************************************************************************)

\* The rooms and what is being deleted stay as they are.
LEMMA AnswerStep ==
  ASSUME IInv, UNCHANGED <<ended, list, room, admin, delete, mode, link>>,
         ClientInv', sent' \in [Client -> Seq(Comm)],
         inbox' \in [Client -> Seq(Item)]
  PROVE  IInv'
BY ClientStep DEF IInv, TypeOK, server

\* What a client has sent to the command thread is a command.
LEMMA CommandRead ==
  ASSUME IInv, NEW c \in Client, Command(c)
  PROVE  /\ Head(sent[c]) \in CommandMsg
         /\ sent' \in [Client -> Seq(Comm)] /\ ClientInv'
         /\ UNCHANGED <<mode, link>>
<1>1. /\ link[c] = ToServer /\ sent[c] # <<>>
      /\ sent' = [sent EXCEPT ![c] = Tail(@)] /\ UNCHANGED <<mode, link>>
  BY DEF Command
<1>2. sent[c] \in Seq(CommandMsg) /\ sent[c] \in Seq(Comm)
  BY <1>1, Places DEF IInv, TypeOK, ClientInv
<1>3. /\ Head(sent[c]) \in CommandMsg
      /\ Tail(sent[c]) \in Seq(CommandMsg) /\ Tail(sent[c]) \in Seq(Comm)
  BY <1>1, <1>2
<1>4. sent' \in [Client -> Seq(Comm)] /\ ClientInv'
  BY <1>1, <1>3 DEF IInv, TypeOK, ClientInv
<1> QED
  BY <1>1, <1>3, <1>4

\* The new room has a port that no thread listens at, so that no entry of the
\* list has it.
LEMMA CreateInv ==
  ASSUME IInv, NEW c \in Client, NEW name \in Name, Create(c, name),
         sent' \in [Client -> Seq(Comm)], ClientInv',
         UNCHANGED <<mode, link>>
  PROVE  IInv'
<1>1. CASE Entries(name) # {} /\ Reply(c, Denied) /\ UNCHANGED server
  <2>1. inbox' \in [Client -> Seq(Item)]
    BY <1>1, PutType, Items DEF Reply, IInv, TypeOK
  <2> QED
    BY <1>1, <2>1, AnswerStep DEF server
<1>2. ASSUME Entries(name) = {}, NEW p \in Port, Least(p),
             list' = list \cup {[name |-> name, port |-> p]},
             room' = [room EXCEPT ![p] = NewRoom(name)],
             Reply(c, Success(p)), UNCHANGED <<ended, admin, delete>>
      PROVE  IInv'
  <2> DEFINE new == NewRoom(name)
  <2>1. inbox' \in [Client -> Seq(Item)]
    BY <1>2, PutType, Items DEF Reply, IInv, TypeOK
  <2>2. /\ new \in Room /\ new.name = name /\ new.members = {}
        /\ new.pass = {} /\ new.backlog = <<>>
    <3>1. <<>> \in Seq(End)
      OBVIOUS
    <3> QED
      BY <3>1 DEF NewRoom, Room
  <2>3. room[p] = NoRoom /\ admin[p] = "none"
    BY <1>2 DEF Least, Free, IInv, AdminInv
  <2>4. \A r \in list : r.port # p /\ r.name # name
    BY <1>2, <2>3 DEF Entries, IInv, ListedRoomsListen
  <2>5. new # NoRoom /\ Waiting(new.backlog) = {}
    BY <2>2, NoRoomAssumption DEF Waiting
  <2> HIDE DEF new
  <2>6. /\ room' \in [Port -> Room \cup {NoRoom}] /\ room'[p] = new
        /\ \A q \in Port \ {p} : room'[q] = room[q]
    BY <1>2, <2>2 DEF IInv, TypeOK, new
  <2>7. TypeOK'
    BY <1>2, <2>1, <2>2, <2>6 DEF IInv, TypeOK
  <2>8. AdminInv'
    BY <1>2, <2>2, <2>5, <2>6 DEF IInv, AdminInv
  <2>9. ListedRoomsListen'
    <3>1. /\ list' = list \cup {[name |-> name, port |-> p]}
          /\ UNCHANGED <<ended, admin>>
      BY <1>2
    <3>2. ASSUME NEW r \in list
          PROVE  /\ r.port \in Port
                 /\ room'[r.port] # NoRoom /\ room'[r.port].name = r.name
                 /\ admin'[r.port] = "none"
                 /\ \A q \in list' : q.name = r.name => q = r
      BY <2>4, <2>6, <3>1 DEF IInv, TypeOK, ListedRoomsListen
    <3>3. \A q \in list' : q.name = name => q = [name |-> name, port |-> p]
      BY <2>4, <3>1
    <3> QED
      BY <2>2, <2>3, <2>5, <2>6, <3>1, <3>2, <3>3 DEF IInv, ListedRoomsListen
  <2>10. NoRoomLeftBehind'
    <3>1. [name |-> name, port |-> p] \in list'
          /\ [name |-> name, port |-> p].port = p
      BY <1>2
    <3> QED
      BY <1>2, <2>6, <3>1 DEF IInv, NoRoomLeftBehind
  <2> QED
    BY <2>7, <2>8, <2>9, <2>10 DEF IInv
<1>3. CASE /\ Entries(name) = {} /\ Free = {} /\ ended' = "ports"
           /\ UNCHANGED <<list, room, admin, delete, inbox>>
  BY <1>3 DEF IInv, TypeOK, AdminInv, ListedRoomsListen, NoRoomLeftBehind
<1> QED
  BY <1>1, <1>2, <1>3 DEF Create

\* The room has left the list before the command thread enters it.
LEMMA DeleteInv ==
  ASSUME IInv, NEW c \in Client, NEW name \in Name, Delete(c, name),
         sent' \in [Client -> Seq(Comm)], ClientInv',
         UNCHANGED <<mode, link>>
  PROVE  IInv'
<1>1. CASE Entries(name) = {} /\ Reply(c, Denied) /\ UNCHANGED server
  <2>1. inbox' \in [Client -> Seq(Item)]
    BY <1>1, PutType, Items DEF Reply, IInv, TypeOK
  <2> QED
    BY <1>1, <2>1, AnswerStep DEF server
<1>2. CASE /\ Entries(name) # {} /\ list' = list \ {Entry(name)}
           /\ Connect(c, Entry(name).port) /\ UNCHANGED inbox
  <2> DEFINE p == Entry(name).port
             new == [room[p] EXCEPT !.backlog = Append(@, Admin)]
  <2>1. Entry(name) \in list
    BY <1>2, EntryListed
  <2>2. /\ p \in Port /\ room[p] \in Room /\ room[p] # NoRoom
        /\ \A r \in list' : r \in list /\ r.port # p
    BY <1>2, <2>1, ListedFree, OwnPorts, NoRoomAssumption DEF IInv
  <2>3. /\ room' = [room EXCEPT ![p] = new]
        /\ admin' = [admin EXCEPT ![p] = "pending"]
        /\ delete' = [client |-> c, port |-> p] /\ UNCHANGED ended
    BY <1>2, <2>2 DEF Connect
  <2>4. /\ Append(room[p].backlog, Admin) \in Seq(End)
        /\ Append(room[p].backlog, Admin) # <<>>
    BY <2>2, RoomFields, BacklogGrows DEF End
  <2>5. \A r \in list \ list' : r.port = p
    BY <1>2
  <2> HIDE DEF p
  <2>6. /\ new \in Room /\ new.name = room[p].name
        /\ new.members = room[p].members /\ new.pass = room[p].pass
        /\ new.backlog # <<>>
    BY <2>2, <2>4 DEF Room
  <2> HIDE DEF new
  <2>7. /\ room' \in [Port -> Room \cup {NoRoom}] /\ room'[p] = new
        /\ admin' \in [Port -> {"none", "pending", "accepted", "sent"}]
        /\ admin'[p] = "pending" /\ new # NoRoom
        /\ \A q \in Port \ {p} : room'[q] = room[q] /\ admin'[q] = admin[q]
    BY <2>2, <2>3, <2>6, NoRoomAssumption DEF IInv, TypeOK
  <2>8. TypeOK'
    BY <1>2, <2>2, <2>3, <2>6, <2>7 DEF IInv, TypeOK
  <2>9. AdminInv'
    BY <2>2, <2>6, <2>7 DEF IInv, AdminInv
  <2>10. ListedRoomsListen'
    BY <2>2, <2>3, <2>7 DEF IInv, TypeOK, ListedRoomsListen
  <2>11. NoRoomLeftBehind'
    BY <2>5, <2>7 DEF IInv, NoRoomLeftBehind
  <2> QED
    BY <2>8, <2>9, <2>10, <2>11 DEF IInv
<1> QED
  BY <1>1, <1>2 DEF Delete

LEMMA CommandInv ==
  ASSUME IInv, NEW c \in Client, Command(c) PROVE IInv'
<1> DEFINE comm == Head(sent[c])
<1>1. /\ comm \in CommandMsg /\ sent' \in [Client -> Seq(Comm)]
      /\ ClientInv' /\ UNCHANGED <<mode, link>>
  BY CommandRead
<1>2. \/ comm.type = "create" /\ Create(c, comm.name)
      \/ comm.type = "delete" /\ Delete(c, comm.name)
      \/ /\ comm.type = "join"
         /\ Reply(c, IF Entries(comm.name) = {} THEN Denied
                     ELSE Success(Entry(comm.name).port))
         /\ UNCHANGED server
      \/ comm.type = "list" /\ Reply(c, Listing) /\ UNCHANGED server
  BY DEF Command
<1> HIDE DEF comm
<1>3. comm.type # "list" => comm.name \in Name
  BY <1>1 DEF CommandMsg
<1>4. CASE comm.type = "create" /\ Create(c, comm.name)
  BY <1>1, <1>3, <1>4, CreateInv
<1>5. CASE comm.type = "delete" /\ Delete(c, comm.name)
  BY <1>1, <1>3, <1>5, DeleteInv
<1>6. ASSUME NEW what \in Item, Reply(c, what), UNCHANGED server PROVE IInv'
  <2>1. inbox' \in [Client -> Seq(Item)]
    BY <1>6, PutType DEF Reply, IInv, TypeOK
  <2> QED
    BY <1>1, <1>6, <2>1, AnswerStep DEF server
<1>7. (IF Entries(comm.name) = {} THEN Denied
       ELSE Success(Entry(comm.name).port)) \in Item
  BY EntryListed, ListedFree, Items
<1> QED
  BY <1>2, <1>4, <1>5, <1>6, <1>7, Items

LEMMA DeleteDoneInv ==
  ASSUME IInv, DeleteDone PROVE IInv'
<1> DEFINE p == delete.port
<1>1. p \in Port /\ delete.client \in Client
  BY DEF DeleteDone, IInv, TypeOK
<1>2. inbox' \in [Client -> Seq(Item)]
  BY PutType, Items DEF DeleteDone, Reply, IInv, TypeOK
<1>3. /\ admin[p] = "accepted" /\ admin' = [admin EXCEPT ![p] = "sent"]
      /\ delete' = NoDelete
      /\ UNCHANGED <<ended, list, room, mode, link, sent>>
  BY DEF DeleteDone
<1> HIDE DEF p
<1>4. /\ admin' \in [Port -> {"none", "pending", "accepted", "sent"}]
      /\ \A q \in Port : admin'[q] = "none" <=> admin[q] = "none"
  BY <1>3 DEF IInv, TypeOK
<1>5. TypeOK'
  BY <1>2, <1>3, <1>4 DEF IInv, TypeOK
<1>6. ClientInv' /\ AdminInv'
  BY <1>3, <1>4 DEF IInv, ClientInv, AdminInv
<1>7. ListedRoomsListen' /\ NoRoomLeftBehind'
  BY <1>3, <1>4 DEF IInv, TypeOK, ListedRoomsListen, NoRoomLeftBehind
<1> QED
  BY <1>5, <1>6, <1>7 DEF IInv

\* A client enters a room like anybody else, and never as the command thread.
LEMMA AnsweredInv ==
  ASSUME IInv, NEW c \in Client, Answered(c) PROVE IInv'
<1>1. /\ mode[c] = "wait" /\ link[c] \notin Port /\ sent[c] \in Seq(CommandMsg)
      /\ UNCHANGED <<ended, list, admin, delete, sent>>
  BY DEF Answered, IInv, ClientInv
<1>2. inbox' \in [Client -> Seq(Item)]
  BY DEF Answered, IInv, TypeOK
<1>3. \/ \E where \in {"menu", "again", "ended"} : Stay(c, where)
      \/ \E p : Enter(c, p)
  BY DEF Answered
<1>4. ASSUME NEW where \in {"menu", "again", "ended"}, Stay(c, where)
      PROVE  IInv'
  <2>1. /\ mode' \in [Client -> {"greet", "menu", "again", "wait", "enter",
                                 "chat", "ended"}]
        /\ UNCHANGED <<link, room>> /\ ClientInv'
    BY <1>1, <1>4 DEF Stay, IInv, TypeOK, ClientInv
  <2> QED
    BY <1>1, <1>2, <2>1, ClientStep DEF IInv, TypeOK, server
<1>5. ASSUME NEW p, Enter(c, p) PROVE IInv'
  <2>1. CASE p \in Port /\ room[p] # NoRoom
    <3> DEFINE new == [room[p] EXCEPT !.backlog = Append(@, c)]
    <3>1. /\ mode' = [mode EXCEPT ![c] = "enter"]
          /\ link' = [link EXCEPT ![c] = p]
          /\ room' = [room EXCEPT ![p] = new]
      BY <1>5, <2>1 DEF Enter
    <3>2. /\ Append(room[p].backlog, c) \in Seq(End)
          /\ Append(room[p].backlog, c) # <<>>
          /\ Waiting(Append(room[p].backlog, c))
               = Waiting(room[p].backlog) \cup {c}
      BY <2>1, RoomFields, BacklogGrows DEF End
    <3>3. /\ new \in Room /\ new.name = room[p].name
          /\ new.members = room[p].members /\ new.pass = room[p].pass
          /\ new.backlog = Append(room[p].backlog, c)
      BY <2>1, <3>2, RoomFields DEF Room
    <3> HIDE DEF new
    <3>4. /\ new.pass \subseteq new.members \cup {Listener}
          /\ Listener \in new.pass => new.backlog # <<>>
          /\ Admin \in new.members \cup new.pass \cup Waiting(new.backlog)
               => admin[p] # "none"
      BY <2>1, <3>2, <3>3, RoomFields, NamesDiffer DEF IInv, AdminInv
    <3>5. ClientInv'
      BY <1>1, <2>1, <3>1 DEF IInv, TypeOK, ClientInv
    <3>6. /\ mode' \in [Client -> {"greet", "menu", "again", "wait", "enter",
                                   "chat", "ended"}]
          /\ link' \in [Client -> {Nowhere, Calling, ToServer} \cup Port]
      BY <2>1, <3>1 DEF IInv, TypeOK
    <3> QED
      BY <1>1, <1>2, <2>1, <3>1, <3>3, <3>4, <3>5, <3>6, RoomStep
         DEF IInv, TypeOK
  <2>2. CASE ~(p \in Port /\ room[p] # NoRoom)
    <3>1. /\ mode' = [mode EXCEPT ![c] = "ended"]
          /\ link' = [link EXCEPT ![c] = Nowhere] /\ UNCHANGED room
      BY <1>5, <2>2 DEF Enter
    <3>2. ClientInv'
      BY <1>1, <3>1 DEF IInv, TypeOK, ClientInv
    <3>3. /\ mode' \in [Client -> {"greet", "menu", "again", "wait", "enter",
                                   "chat", "ended"}]
          /\ link' \in [Client -> {Nowhere, Calling, ToServer} \cup Port]
      BY <3>1 DEF IInv, TypeOK
    <3> QED
      BY <1>1, <1>2, <3>1, <3>2, <3>3, ClientStep DEF IInv, TypeOK, server
  <2> QED
    BY <2>1, <2>2
<1> QED
  BY <1>3, <1>4, <1>5

-----------------------------------------------------------------------------
(***************************************************************************)
(* The theorems                                                            *)
(***************************************************************************)

LEMMA NextInv == IInv /\ [Next]_vars => IInv'
<1> SUFFICES ASSUME IInv, [Next]_vars PROVE IInv'
  OBVIOUS
<1>1. CASE CommandThread
  BY <1>1, DeleteDoneInv, CommandAcceptInv, CommandInv DEF CommandThread
<1>2. ASSUME NEW p \in Port, RoomThread(p) PROVE IInv'
  BY <1>2, SelectInv, AcceptInv, CloseInv, RelayInv, HangupInv DEF RoomThread
<1>3. ASSUME NEW c \in Client, NEW type, NEW name, Ask(c, type, name),
             \/ type \in {"create", "join", "delete"} /\ name \in Name
             \/ type = "list" /\ name = "none"
      PROVE  IInv'
  <2>1. [type |-> type, name |-> name] \in CommandMsg
    BY <1>3 DEF CommandMsg
  <2> QED
    BY <1>3, <2>1, AskInv
<1>4. ASSUME NEW c \in Client,
             \/ Answered(c) \/ Read(c) \/ Kill(c)
             \/ \E m \in Message : Say(c, m)
      PROVE  IInv'
  BY <1>4, AnsweredInv, ReadInv, KillInv, SayInv
<1>5. CASE UNCHANGED vars
  BY <1>5, Stutter DEF vars, server, clients
<1> QED
  BY <1>1, <1>2, <1>3, <1>4, <1>5 DEF Next

LEMMA Invariant == Spec => []IInv
BY InitInv, NextInv, PTL DEF Spec

\* Every variable has its type: the backlog of a room, for one, has clients and
\* the command thread only (struct chatinfo and the sets of file descriptors,
\* hw1/src/crsd/chat.c).
THEOREM Typed == Spec => []TypeOK
<1>1. IInv => TypeOK
  BY DEF IInv
<1> QED
  BY <1>1, Invariant, PTL

\* In every instance, JOIN and DELETE find the thread of the room they name, and
\* the server never exits because a room of its own does not answer
\* (broadcast_to, hw1/src/crsd/chat.c).
THEOREM ListedListen == Spec => []ListedRoomsListen
<1>1. IInv => ListedRoomsListen
  BY DEF IInv
<1> QED
  BY <1>1, Invariant, PTL

\* In every instance, no thread and no port is left without an entry in the list
\* or a DELETE that is on its way to it (delete_chat, hw1/src/crsd/chat.c).
THEOREM NoneLeftBehind == Spec => []NoRoomLeftBehind
<1>1. IInv => NoRoomLeftBehind
  BY DEF IInv
<1> QED
  BY <1>1, Invariant, PTL

-----------------------------------------------------------------------------
(***************************************************************************)
(* Who is put out of a chat has been warned: a second invariant, about     *)
(* what the clients can read, which is inductive where IInv holds.         *)
(***************************************************************************)

\* What ends a chat.
Farewell == {"end", "reset"}

\* The command thread deletes a room for client c, and has not answered it.
Deleting(c) == delete # NoDelete /\ delete.client = c

Warning(item) == item.what = "warning"

\* A client outside the rooms has at most one command under way, or one answer
\* to read.
Talking(c) ==
  /\ mode[c] = "greet" =>
       /\ sent[c] = <<>> /\ ~Deleting(c)
       /\ \/ link[c] = Calling /\ inbox[c] = <<>>
          \/ link[c] = ToServer /\ inbox[c] = <<[what |-> "hello"]>>
  /\ mode[c] \in {"menu", "again"} =>
       /\ sent[c] = <<>> /\ ~Deleting(c) /\ inbox[c] = <<>>
       /\ link[c] \in {ToServer, Nowhere}
  /\ mode[c] = "wait" =>
       /\ link[c] = ToServer
       /\ Len(sent[c]) + Len(inbox[c]) <= 1
       /\ Deleting(c) => sent[c] = <<>> /\ inbox[c] = <<>>

\* What puts a client out of a chat is the last thing it can read, and the
\* warning comes before it; only who has not been greeted is put out at once,
\* and who has said what nobody has read may be.
Chatting(c) ==
  mode[c] \in {"enter", "chat"} =>
    /\ ~Deleting(c)
    /\ link[c] \in Port
    /\ \A i \in DOMAIN inbox[c] :
         inbox[c][i].what \in Farewell =>
           /\ i = Len(inbox[c])
           /\ \/ c \in warned
              \/ \E j \in 1 .. i - 1 : Warning(inbox[c][j])
              \/ mode[c] = "enter" /\ i = 1
              \/ sent[c] # <<>>

Once(s, x) == \A i, j \in DOMAIN s : s[i] = x /\ s[j] = x => i = j

\* Who waits for accept waits once, and has nothing to read; who is a member
\* has not been put out.
AtRoom(p, c) ==
  /\ c \in Waiting(room[p].backlog) =>
       /\ mode[c] = "enter" /\ link[c] = p /\ inbox[c] = <<>>
       /\ c \notin room[p].members
       /\ Once(room[p].backlog, c)
  /\ c \in room[p].members =>
       /\ mode[c] \in {"enter", "chat"} /\ link[c] = p
       /\ \A i \in DOMAIN inbox[c] : inbox[c][i].what \notin Farewell

Served(c) ==
  mode[c] # "ended" =>
    /\ Talking(c) /\ Chatting(c)
    /\ \A p \in Port : room[p] # NoRoom => AtRoom(p, c)

\* The inductive invariant of the warnings, given the first one.
WInv == WarnedBeforeDismissed /\ \A c \in Client : Served(c)

LEMMA OnceLemma ==
  ASSUME NEW s \in Seq(End), NEW x \in End, NEW y \in End
  PROVE  /\ x # y /\ Once(s, x) => Once(Append(s, y), x)
         /\ x \notin Waiting(s) => Once(Append(s, x), x)
         /\ s # <<>> /\ Once(s, x) => Once(Tail(s), x)
         /\ s # <<>> /\ Once(s, Head(s)) => Head(s) \notin Waiting(Tail(s))
<1>1. \A z \in End :
        /\ DOMAIN Append(s, z) = DOMAIN s \cup {Len(s) + 1}
        /\ \A i \in DOMAIN s : Append(s, z)[i] = s[i]
        /\ Append(s, z)[Len(s) + 1] = z
  OBVIOUS
<1>2. x # y /\ Once(s, x) => Once(Append(s, y), x)
  BY <1>1 DEF Once
<1>3. x \notin Waiting(s) => Once(Append(s, x), x)
  BY <1>1 DEF Once, Waiting
<1>4. ASSUME s # <<>>
      PROVE  /\ DOMAIN Tail(s) = 1 .. Len(s) - 1
             /\ \A i \in DOMAIN Tail(s) :
                  i \in Int /\ i + 1 \in DOMAIN s /\ Tail(s)[i] = s[i + 1]
             /\ Head(s) = s[1] /\ 1 \in DOMAIN s
  BY <1>4
<1>5. s # <<>> /\ Once(s, x) => Once(Tail(s), x)
  <2> SUFFICES ASSUME s # <<>>, Once(s, x),
                      NEW i \in DOMAIN Tail(s), NEW j \in DOMAIN Tail(s),
                      Tail(s)[i] = x, Tail(s)[j] = x
               PROVE  i = j
    BY DEF Once
  <2>1. i + 1 = j + 1
    BY <1>4 DEF Once
  <2> QED
    BY <1>4, <2>1
<1>6. s # <<>> /\ Once(s, Head(s)) => Head(s) \notin Waiting(Tail(s))
  <2> SUFFICES ASSUME s # <<>>, Once(s, Head(s)),
                      NEW i \in DOMAIN Tail(s), Tail(s)[i] = Head(s)
               PROVE  FALSE
    BY DEF Waiting
  <2>1. i + 1 = 1 /\ i >= 1
    BY <1>4 DEF Once
  <2> QED
    BY <1>4, <2>1
<1> QED
  BY <1>2, <1>3, <1>5, <1>6

\* A step that a client has no part in.
LEMMA Bystander ==
  ASSUME WInv, NEW c \in Client,
         mode'[c] = mode[c], link'[c] = link[c], sent'[c] = sent[c],
         inbox'[c] = inbox[c], Deleting(c)' => Deleting(c),
         warned \subseteq warned',
         \A p \in Port : room'[p] # NoRoom =>
           \/ c \notin Waiting(room'[p].backlog) \cup room'[p].members
           \/ /\ room[p] # NoRoom
              /\ Waiting(room'[p].backlog) \cap {c}
                   \subseteq Waiting(room[p].backlog)
              /\ Once(room[p].backlog, c) => Once(room'[p].backlog, c)
              /\ room'[p].members \cap {c} \subseteq room[p].members
  PROVE  Served(c)'
<1> SUFFICES ASSUME mode[c] # "ended"
             PROVE  /\ Talking(c)' /\ Chatting(c)'
                    /\ \A p \in Port : room'[p] # NoRoom => AtRoom(p, c)'
  BY DEF Served
<1>1. Talking(c)'
  BY DEF WInv, Served, Talking
<1>2. Chatting(c)'
  BY DEF WInv, Served, Chatting
<1>3. ASSUME NEW p \in Port, room'[p] # NoRoom PROVE AtRoom(p, c)'
  BY <1>3 DEF WInv, Served, AtRoom
<1> QED
  BY <1>1, <1>2, <1>3

\* Only who is in a room, or on the way into one, is known there.
LEMMA Outside ==
  ASSUME WInv, NEW c \in Client, mode[c] \notin {"enter", "chat", "ended"},
         NEW p \in Port, room[p] # NoRoom
  PROVE  c \notin Waiting(room[p].backlog) \cup room[p].members
BY DEF WInv, Served, AtRoom

\* One item is put into the inbox of those who are in S.
LEMMA PutLemma ==
  ASSUME IInv, NEW S, NEW what \in Item, NEW c \in Client
  PROVE  /\ c \notin S \/ mode[c] = "ended"
              => Put(inbox, S, what)[c] = inbox[c]
         /\ c \in S /\ mode[c] # "ended"
              => Put(inbox, S, what)[c] = Append(inbox[c], what)
         /\ inbox[c] \in Seq(Item)
BY DEF IInv, TypeOK, Put

LEMMA AppendLemma ==
  ASSUME NEW X, NEW s \in Seq(X), NEW x \in X
  PROVE  /\ Append(s, x) \in Seq(X) /\ Len(Append(s, x)) = Len(s) + 1
         /\ DOMAIN Append(s, x) = DOMAIN s \cup {Len(s) + 1}
         /\ \A i \in DOMAIN s : Append(s, x)[i] = s[i]
         /\ Append(s, x)[Len(s) + 1] = x
         /\ s = <<>> => Append(s, x) = <<x>>
<1>1. /\ Append(s, x) \in Seq(X) /\ Len(Append(s, x)) = Len(s) + 1
      /\ \A i \in DOMAIN s : Append(s, x)[i] = s[i]
      /\ Append(s, x)[Len(s) + 1] = x
  OBVIOUS
<1>2. DOMAIN Append(s, x) = DOMAIN s \cup {Len(s) + 1}
  OBVIOUS
<1>3. s = <<>> => Append(s, x) = <<x>>
  OBVIOUS
<1> QED
  BY <1>1, <1>2, <1>3

-----------------------------------------------------------------------------
LEMMA InitWarned == Init => WInv
BY DEF Init, WInv, WarnedBeforeDismissed, Served, Talking, Chatting, Deleting

LEMMA CommandAcceptWarned ==
  ASSUME IInv, WInv, NEW c \in Client, CommandAccept(c) PROVE WInv'
<1>1. /\ link[c] = Calling /\ link' = [link EXCEPT ![c] = ToServer]
      /\ inbox' = Put(inbox, {c}, [what |-> "hello"])
      /\ UNCHANGED <<delete, room, mode, sent, warned, dismissed>>
  BY DEF CommandAccept, Reply, server
<1>2. /\ Calling # ToServer /\ Calling # Nowhere
      /\ [what |-> "hello"] \in Item
  BY Items DEF Calling, ToServer, Nowhere
<1>3. mode[c] \in {"greet", "ended"}
  BY <1>1, <1>2, Places DEF IInv, TypeOK, ClientInv, WInv, Served, Talking
<1>4. Served(c)'
  <2>1. mode[c] = "greet" => inbox'[c] = <<[what |-> "hello"]>>
    <3> SUFFICES ASSUME mode[c] = "greet"
                 PROVE  inbox'[c] = <<[what |-> "hello"]>>
      OBVIOUS
    <3>1. inbox[c] = <<>>
      BY <1>1, <1>2 DEF WInv, Served, Talking
    <3>2. inbox'[c] = Append(inbox[c], [what |-> "hello"])
      BY <1>1, <1>2, PutLemma
    <3> QED
      BY <3>1, <3>2, <1>2, PutLemma, AppendLemma
  <2>2. link'[c] = ToServer /\ mode'[c] = mode[c] /\ sent'[c] = sent[c]
        /\ (Deleting(c)' <=> Deleting(c))
    BY <1>1 DEF IInv, TypeOK, Deleting
  <2>3. mode'[c] # "ended" => Talking(c)' /\ Chatting(c)'
    BY <1>2, <1>3, <2>1, <2>2 DEF WInv, Served, Talking, Chatting
  <2>4. mode'[c] # "ended" => \A p \in Port : room'[p] # NoRoom => AtRoom(p, c)'
    BY <1>1, <1>3, Outside DEF AtRoom
  <2> QED
    BY <2>3, <2>4 DEF Served
<1>5. ASSUME NEW d \in Client \ {c} PROVE Served(d)'
  <2>1. inbox'[d] = inbox[d] /\ link'[d] = link[d]
    BY <1>1, <1>2, PutLemma DEF IInv, TypeOK
  <2> QED
    BY <1>1, <2>1, Bystander DEF Deleting
<1> QED
  BY <1>1, <1>4, <1>5 DEF WInv, WarnedBeforeDismissed

LEMMA AskWarned ==
  ASSUME IInv, WInv, NEW c \in Client, NEW type, NEW name,
         [type |-> type, name |-> name] \in CommandMsg, Ask(c, type, name)
  PROVE  WInv'
<1>1. /\ mode[c] \in {"menu", "again"}
      /\ UNCHANGED <<delete, room, link, inbox, warned, dismissed>>
  BY DEF Ask, server
<1>2. \A d \in Client \ {c} : mode'[d] = mode[d] /\ sent'[d] = sent[d]
  BY DEF Ask, IInv, TypeOK
<1>3. \A d \in Client \ {c} : Served(d)'
  BY <1>1, <1>2, Bystander DEF Deleting
<1>4. \A p \in Port : room'[p] # NoRoom => AtRoom(p, c)'
  BY <1>1, Outside DEF AtRoom
<1>5. Served(c)'
  <2>1. CASE link[c] = Nowhere
    <3>1. mode'[c] = "ended"
      BY <2>1 DEF Ask, IInv, TypeOK
    <3> QED
      BY <3>1 DEF Served
  <2>2. CASE link[c] # Nowhere
    <3> DEFINE m == [type |-> type, name |-> name]
    <3>1. /\ mode'[c] = "wait" /\ sent'[c] = Append(sent[c], m)
          /\ sent[c] \in Seq(CommandMsg) /\ m \in CommandMsg
      BY <1>1, <2>2 DEF Ask, IInv, TypeOK, ClientInv
    <3>2. sent[c] = <<>> /\ inbox[c] = <<>> /\ ~Deleting(c) /\ link[c] = ToServer
      BY <1>1, <2>2 DEF WInv, Served, Talking
    <3> HIDE DEF m
    <3>3. Len(sent'[c]) = 1 /\ Len(inbox'[c]) = 0 /\ ~Deleting(c)'
      BY <1>1, <3>1, <3>2, AppendLemma DEF Deleting
    <3>4. Talking(c)' /\ Chatting(c)'
      BY <1>1, <3>1, <3>2, <3>3 DEF Talking, Chatting
    <3> QED
      BY <1>4, <3>4 DEF Served
  <2> QED
    BY <2>1, <2>2
<1> QED
  BY <1>1, <1>3, <1>5 DEF WInv, WarnedBeforeDismissed

LEMMA SayWarned ==
  ASSUME IInv, WInv, NEW c \in Client, NEW m \in Message, Say(c, m) PROVE WInv'
<1>1. /\ mode[c] = "chat"
      /\ UNCHANGED <<delete, room, mode, link, warned, dismissed>>
      /\ sent' = [sent EXCEPT ![c] = Append(@, [msg |-> m])]
      /\ Refused(c) \/ UNCHANGED inbox
  BY DEF Say, server
<1>2. \A d \in Client \ {c} : sent'[d] = sent[d] /\ inbox'[d] = inbox[d]
  BY <1>1 DEF Refused, IInv, TypeOK
<1>3. \A d \in Client \ {c} : Served(d)'
  BY <1>1, <1>2, Bystander DEF Deleting
<1>4. /\ ~Deleting(c) /\ ~Deleting(c)' /\ link'[c] \in Port /\ Chatting(c)
      /\ \A p \in Port : room[p] # NoRoom => AtRoom(p, c)
  BY <1>1 DEF WInv, Served, Chatting, Deleting
<1>5. sent'[c] # <<>>
  <2>1. [msg |-> m] \in Comm /\ sent[c] \in Seq(Comm)
    BY DEF Comm, IInv, TypeOK
  <2> DEFINE word == [msg |-> m]
  <2> HIDE DEF word
  <2>2. Len(Append(sent[c], word)) = Len(sent[c]) + 1 /\ Len(sent[c]) \in Nat
    BY <2>1
  <2>3. Append(sent[c], word) # <<>>
    BY <2>2
  <2> QED
    BY <1>1, <2>3 DEF IInv, TypeOK, word
<1>6. Talking(c)'
  BY <1>1 DEF Talking
<1>7. ASSUME UNCHANGED inbox PROVE Served(c)'
  <2>1. Chatting(c)'
    BY <1>1, <1>4, <1>5, <1>7 DEF Chatting
  <2>2. \A p \in Port : room'[p] # NoRoom => AtRoom(p, c)'
    BY <1>1, <1>4, <1>7 DEF AtRoom
  <2> QED
    BY <1>6, <2>1, <2>2 DEF Served
<1>8. ASSUME Refused(c) PROVE Served(c)'
  <2>1. PICK k \in 0 .. Len(inbox[c]) - 1 :
          inbox' = [inbox EXCEPT ![c] = Append(SubSeq(@, 1, k),
                                               [what |-> "reset"])]
    BY <1>8 DEF Refused
  <2>2. PICK reset : reset = [what |-> "reset"]
    OBVIOUS
  <2>3. /\ inbox[c] \in Seq(Item) /\ inbox[c] # <<>> /\ reset \in Item
        /\ inbox[c][Len(inbox[c])].what \in Farewell
    BY <1>8, <2>2, Items DEF Refused, Farewell, IInv, TypeOK
  <2>4. Len(inbox[c]) \in DOMAIN inbox[c]
    BY <2>3
  <2>5. /\ SubSeq(inbox[c], 1, k) \in Seq(Item)
        /\ Len(SubSeq(inbox[c], 1, k)) = k
        /\ \A i \in 1 .. k : SubSeq(inbox[c], 1, k)[i] = inbox[c][i]
    BY <2>3
  <2>6. inbox'[c] = Append(SubSeq(inbox[c], 1, k), reset)
    BY <2>1, <2>2 DEF IInv, TypeOK
  <2>7. /\ Len(inbox'[c]) = k + 1 /\ DOMAIN inbox'[c] = 1 .. k + 1
        /\ \A i \in 1 .. k : inbox'[c][i] = inbox[c][i]
    BY <2>3, <2>5, <2>6
  <2>8. ASSUME NEW i \in DOMAIN inbox'[c], inbox'[c][i].what \in Farewell
        PROVE  i = Len(inbox'[c])
    <3>1. CASE i \in 1 .. k
      <4>1. i \in DOMAIN inbox[c] /\ i # Len(inbox[c])
        BY <2>3, <3>1
      <4>2. inbox[c][i].what \in Farewell
        BY <2>7, <2>8, <3>1
      <4> QED
        BY <1>1, <1>4, <4>1, <4>2 DEF Chatting
    <3>2. CASE i \notin 1 .. k
      BY <2>7, <3>2
    <3> QED
      BY <3>1, <3>2
  <2>9. Chatting(c)'
    BY <1>4, <1>5, <2>8 DEF Chatting
  <2>10. ASSUME NEW p \in Port, room'[p] # NoRoom PROVE AtRoom(p, c)'
    <3>1. AtRoom(p, c) /\ room'[p] = room[p]
      BY <1>1, <1>4, <2>10
    <3>2. c \notin Waiting(room[p].backlog) \cup room[p].members
      BY <1>1, <2>3, <2>4, <3>1 DEF AtRoom
    <3> QED
      BY <3>1, <3>2 DEF AtRoom
  <2> QED
    BY <1>6, <2>9, <2>10 DEF Served
<1> QED
  BY <1>1, <1>3, <1>7, <1>8 DEF WInv, WarnedBeforeDismissed

LEMMA KillWarned ==
  ASSUME IInv, WInv, NEW c \in Client, Kill(c) PROVE WInv'
<1>1. /\ mode' = [mode EXCEPT ![c] = "ended"]
      /\ inbox' = [inbox EXCEPT ![c] = <<>>]
      /\ UNCHANGED <<delete, room, link, sent, warned, dismissed>>
  BY DEF Kill, server
<1>2. \A d \in Client \ {c} : mode'[d] = mode[d] /\ inbox'[d] = inbox[d]
  BY <1>1 DEF IInv, TypeOK
<1>3. \A d \in Client \ {c} : Served(d)'
  BY <1>1, <1>2, Bystander DEF Deleting
<1>4. Served(c)'
  BY <1>1 DEF IInv, TypeOK, Served
<1> QED
  BY <1>1, <1>3, <1>4 DEF WInv, WarnedBeforeDismissed

\* A client reads the first item of its inbox.
LEMMA TailLemma ==
  ASSUME NEW X, NEW s \in Seq(X), s # <<>>
  PROVE  /\ Head(s) = s[1] /\ 1 \in DOMAIN s /\ Head(s) \in X
         /\ Tail(s) \in Seq(X) /\ Len(Tail(s)) = Len(s) - 1
         /\ Len(s) \in Nat \ {0}
         /\ DOMAIN Tail(s) = 1 .. Len(s) - 1 /\ DOMAIN s = 1 .. Len(s)
         /\ \A i \in DOMAIN Tail(s) : i + 1 \in DOMAIN s /\ Tail(s)[i] = s[i + 1]
         /\ Len(s) = 1 => Tail(s) = <<>>
<1>1. /\ Head(s) = s[1] /\ 1 \in DOMAIN s /\ Head(s) \in X
      /\ Tail(s) \in Seq(X) /\ Len(Tail(s)) = Len(s) - 1
      /\ Len(s) \in Nat \ {0}
      /\ DOMAIN Tail(s) = 1 .. Len(s) - 1 /\ DOMAIN s = 1 .. Len(s)
      /\ \A i \in DOMAIN Tail(s) : i + 1 \in DOMAIN s /\ Tail(s)[i] = s[i + 1]
  OBVIOUS
<1>2. Len(s) = 1 => Tail(s) = <<>>
  BY <1>1
<1> QED
  BY <1>1, <1>2

\* What the first item of the inbox of a client in a room can be.
LEMMA ReadWarned ==
  ASSUME IInv, WInv, NEW c \in Client, Read(c) PROVE WInv'
<1> DEFINE what == (Head(inbox[c])).what
<1>1. /\ mode[c] \in {"greet", "enter", "chat"} /\ inbox[c] # <<>>
      /\ inbox' = [inbox EXCEPT ![c] = Tail(@)]
      /\ mode' = [mode EXCEPT ![c] = CASE what = "reset" -> "ended"
                                      [] what = "end" -> "menu"
                                      [] mode[c] = "greet" -> "menu"
                                      [] OTHER -> "chat"]
      /\ link' = [link EXCEPT ![c] = IF what = "end" THEN Nowhere ELSE @]
      /\ sent' = [sent EXCEPT ![c] = IF what \in {"end", "reset"}
                                     THEN <<>> ELSE @]
      /\ warned' = IF what = "warning" THEN warned \cup {c} ELSE warned
      /\ dismissed' = IF what \in {"end", "reset"} /\ mode[c] = "chat"
                              /\ sent[c] = <<>>
                      THEN dismissed \cup {c} ELSE dismissed
      /\ UNCHANGED <<delete, room>>
  BY DEF Read, server
<1>2. /\ what = inbox[c][1].what /\ 1 \in DOMAIN inbox[c]
      /\ Tail(inbox[c]) \in Seq(Item) /\ Len(Tail(inbox[c])) = Len(inbox[c]) - 1
      /\ Len(inbox[c]) \in Nat \ {0}
      /\ DOMAIN Tail(inbox[c]) = 1 .. Len(inbox[c]) - 1
      /\ \A i \in DOMAIN Tail(inbox[c]) :
           i + 1 \in DOMAIN inbox[c] /\ Tail(inbox[c])[i] = inbox[c][i + 1]
      /\ Len(inbox[c]) = 1 => Tail(inbox[c]) = <<>>
  BY <1>1, TailLemma DEF IInv, TypeOK
<1> HIDE DEF what
<1>3. /\ inbox'[c] = Tail(inbox[c])
      /\ mode'[c] = CASE what = "reset" -> "ended"
                      [] what = "end" -> "menu"
                      [] mode[c] = "greet" -> "menu"
                      [] OTHER -> "chat"
      /\ link'[c] = IF what = "end" THEN Nowhere ELSE link[c]
      /\ sent'[c] = IF what \in {"end", "reset"} THEN <<>> ELSE sent[c]
      /\ \A d \in Client \ {c} : /\ mode'[d] = mode[d] /\ link'[d] = link[d]
                                 /\ sent'[d] = sent[d] /\ inbox'[d] = inbox[d]
  BY <1>1 DEF IInv, TypeOK
<1>4. \A d \in Client \ {c} : Served(d)'
  BY <1>1, <1>3, Bystander DEF Deleting
<1>5. Deleting(c)' <=> Deleting(c)
  BY <1>1 DEF Deleting
<1>6. CASE mode[c] = "greet"
  <2>1. /\ link[c] = ToServer /\ inbox[c] = <<[what |-> "hello"]>>
        /\ sent[c] = <<>> /\ ~Deleting(c)
    BY <1>1, <1>6 DEF WInv, Served, Talking
  <2>2. what = "hello" /\ Tail(inbox[c]) = <<>>
    BY <1>2, <2>1
  <2>3. mode'[c] = "menu" /\ link'[c] = ToServer /\ sent'[c] = <<>>
        /\ inbox'[c] = <<>> /\ ~Deleting(c)'
    BY <1>3, <1>5, <1>6, <2>1, <2>2
  <2>4. Talking(c)' /\ Chatting(c)'
    BY <2>3 DEF Talking, Chatting
  <2>5. \A p \in Port : room'[p] # NoRoom => AtRoom(p, c)'
    BY <1>1, <1>6, Outside DEF AtRoom
  <2>6. dismissed' = dismissed /\ warned \subseteq warned'
    BY <1>1, <1>6
  <2> QED
    BY <1>4, <2>4, <2>5, <2>6 DEF WInv, Served, WarnedBeforeDismissed
<1>7. CASE mode[c] \in {"enter", "chat"}
  <2>1. /\ ~Deleting(c) /\ link[c] \in Port
        /\ \A i \in DOMAIN inbox[c] :
             inbox[c][i].what \in Farewell =>
               /\ i = Len(inbox[c])
               /\ \/ c \in warned
                  \/ \E j \in 1 .. i - 1 : Warning(inbox[c][j])
                  \/ mode[c] = "enter" /\ i = 1
                  \/ sent[c] # <<>>
    BY <1>7 DEF WInv, Served, Chatting
  <2>2. CASE what \in Farewell
    <3>1. /\ Len(inbox[c]) = 1
          /\ c \in warned \/ mode[c] = "enter" \/ sent[c] # <<>>
      <4>1. inbox[c][1].what \in Farewell
        BY <1>2, <2>2
      <4>2. /\ 1 = Len(inbox[c])
            /\ \/ c \in warned
               \/ \E j \in 1 .. 1 - 1 : Warning(inbox[c][j])
               \/ mode[c] = "enter"
               \/ sent[c] # <<>>
        BY <1>2, <2>1, <4>1
      <4>3. 1 .. 1 - 1 = {}
        OBVIOUS
      <4> QED
        BY <4>2, <4>3
    <3>2. inbox'[c] = <<>> /\ sent'[c] = <<>>
          /\ mode'[c] \in {"ended", "menu"}
          /\ (mode'[c] = "menu" => link'[c] = Nowhere)
      <4>1. inbox'[c] = <<>>
        BY <1>2, <1>3, <3>1
      <4>2. what = "end" \/ what = "reset"
        BY <2>2 DEF Farewell
      <4>3. CASE what = "end"
        <5>1. mode'[c] = "menu"
          BY <1>3, <1>7, <4>3
        <5>2. sent'[c] = <<>> /\ link'[c] = Nowhere
          BY <1>3, <1>7, <4>3
        <5> QED
          BY <4>1, <5>1, <5>2
      <4>4. CASE what = "reset"
        <5>1. mode'[c] = "ended"
          BY <1>3, <1>7, <4>4
        <5>2. sent'[c] = <<>>
          BY <1>3, <4>4
        <5> QED
          BY <4>1, <5>1, <5>2
      <4> QED
        BY <4>2, <4>3, <4>4
    <3>3. mode'[c] # "ended" => Talking(c)' /\ Chatting(c)'
      BY <1>5, <2>1, <3>2 DEF Talking, Chatting
    <3>4. \A p \in Port : room'[p] # NoRoom => AtRoom(p, c)'
      <4> SUFFICES ASSUME NEW p \in Port, room[p] # NoRoom
                   PROVE  c \notin Waiting(room[p].backlog) \cup room[p].members
        BY <1>1 DEF AtRoom
      <4>1. AtRoom(p, c)
        BY <1>7 DEF WInv, Served
      <4> QED
        BY <1>1, <1>2, <2>2, <4>1 DEF AtRoom
    <3>5. WarnedBeforeDismissed'
      BY <1>1, <3>1 DEF WInv, WarnedBeforeDismissed
    <3> QED
      BY <1>4, <3>3, <3>4, <3>5 DEF WInv, Served
  <2>3. CASE what \notin Farewell
    <3>1. /\ mode'[c] = "chat" /\ link'[c] = link[c] /\ sent'[c] = sent[c]
          /\ link'[c] \in Port
      <4>1. mode'[c] = "chat"
        BY <1>3, <1>7, <2>3 DEF Farewell
      <4>2. link'[c] = link[c] /\ sent'[c] = sent[c]
        BY <1>3, <2>3 DEF Farewell
      <4> QED
        BY <2>1, <4>1, <4>2
    <3>2. c \in warned' \/ ~Warning(inbox[c][1])
      BY <1>1, <1>2 DEF Warning
    <3>3. Chatting(c)'
      <4> SUFFICES ASSUME NEW i \in DOMAIN Tail(inbox[c]),
                          Tail(inbox[c])[i].what \in Farewell
                   PROVE  /\ i = Len(Tail(inbox[c]))
                          /\ \/ c \in warned'
                             \/ \E j \in 1 .. i - 1 :
                                  Warning(Tail(inbox[c])[j])
                             \/ sent[c] # <<>>
        BY <1>3, <1>5, <1>7, <2>1, <2>3, <3>1
        DEF Chatting, Warning, WInv, Served, Farewell
      <4>1. /\ i + 1 \in DOMAIN inbox[c] /\ inbox[c][i + 1].what \in Farewell
            /\ i \in 1 .. Len(inbox[c]) - 1
        BY <1>2
      <4>2. i + 1 = Len(inbox[c])
        BY <2>1, <4>1
      <4>3. \/ c \in warned
            \/ \E j \in 1 .. i : Warning(inbox[c][j])
            \/ sent[c] # <<>>
        BY <2>1, <4>1
      <4>4. ASSUME NEW j \in 1 .. i, Warning(inbox[c][j])
            PROVE  \/ c \in warned'
                   \/ \E k \in 1 .. i - 1 : Warning(Tail(inbox[c])[k])
        <5>1. CASE j = 1
          BY <3>2, <4>4, <5>1
        <5>2. CASE j # 1
          <6>1. j - 1 \in 1 .. i - 1 /\ j - 1 \in DOMAIN Tail(inbox[c])
                /\ (j - 1) + 1 = j
            BY <1>2, <4>1, <5>2
          <6>2. Tail(inbox[c])[j - 1] = inbox[c][j]
            BY <1>2, <6>1
          <6> QED
            BY <4>4, <6>1, <6>2
        <5> QED
          BY <5>1, <5>2
      <4>5. warned \subseteq warned'
        BY <1>1
      <4>6. i = Len(Tail(inbox[c]))
        BY <1>2, <4>2
      <4>7. CASE c \in warned
        BY <4>5, <4>6, <4>7
      <4>8. CASE \E j \in 1 .. i : Warning(inbox[c][j])
        BY <4>4, <4>6, <4>8
      <4>9. CASE sent[c] # <<>>
        BY <4>6, <4>9
      <4> QED
        BY <4>3, <4>7, <4>8, <4>9
    <3>4. Talking(c)'
      BY <3>1 DEF Talking
    <3>5. ASSUME NEW p \in Port, room'[p] # NoRoom PROVE AtRoom(p, c)'
      <4>1. AtRoom(p, c) /\ room'[p] = room[p]
        BY <1>1, <1>7, <3>5 DEF WInv, Served
      <4>2. inbox[c] # <<>>
        BY <1>1
      <4> QED
        BY <1>2, <1>3, <3>1, <4>1, <4>2 DEF AtRoom
    <3>6. WarnedBeforeDismissed'
      BY <1>1, <2>3 DEF Farewell, WInv, WarnedBeforeDismissed
    <3> QED
      BY <1>4, <3>3, <3>4, <3>5, <3>6 DEF WInv, Served
  <2> QED
    BY <2>2, <2>3
<1> QED
  BY <1>1, <1>6, <1>7

-----------------------------------------------------------------------------
\* A client leaves the command thread for a room, or it does not.
LEMMA AnsweredWarned ==
  ASSUME IInv, WInv, NEW c \in Client, Answered(c) PROVE WInv'
<1>1. /\ mode[c] = "wait" /\ inbox[c] # <<>>
      /\ inbox' = [inbox EXCEPT ![c] = Tail(@)]
      /\ UNCHANGED <<delete, sent, warned, dismissed>>
  BY DEF Answered
<1>2. \/ \E where \in {"menu", "again", "ended"} : Stay(c, where)
      \/ \E p : Enter(c, p)
  BY DEF Answered
<1>3. /\ link[c] = ToServer /\ sent[c] = <<>> /\ ~Deleting(c)
      /\ Len(inbox[c]) = 1
  <2>1. /\ link[c] = ToServer /\ Len(sent[c]) + Len(inbox[c]) <= 1
        /\ ~Deleting(c)
    BY <1>1 DEF WInv, Served, Talking
  <2>2. /\ Len(inbox[c]) \in Nat \ {0} /\ sent[c] \in Seq(Comm)
    BY <1>1, TailLemma DEF IInv, TypeOK
  <2>3. Len(sent[c]) \in Nat
    BY <2>2
  <2>4. Len(sent[c]) = 0 /\ Len(inbox[c]) = 1
    <3>1. \A a \in Nat, b \in Nat : b # 0 /\ a + b <= 1 => a = 0 /\ b = 1
      OBVIOUS
    <3> QED
      BY <2>1, <2>2, <2>3, <3>1
  <2> QED
    BY <2>1, <2>2, <2>4
<1>4. inbox'[c] = <<>> /\ sent'[c] = <<>> /\ ~Deleting(c)'
  BY <1>1, <1>3, TailLemma DEF IInv, TypeOK, Deleting
<1>5. \A d \in Client \ {c} : inbox'[d] = inbox[d]
  BY <1>1 DEF IInv, TypeOK
<1>6. ASSUME NEW where \in {"menu", "again", "ended"}, Stay(c, where)
      PROVE  \A d \in Client : Served(d)'
  <2>1. /\ mode'[c] = where /\ link' = link /\ room' = room
        /\ \A d \in Client \ {c} : mode'[d] = mode[d]
    BY <1>6 DEF Stay, IInv, TypeOK
  <2>2. \A d \in Client \ {c} : Served(d)'
    BY <1>1, <1>5, <2>1, Bystander DEF Deleting
  <2>3. Talking(c)' /\ Chatting(c)'
    BY <1>3, <1>4, <2>1 DEF Talking, Chatting
  <2>4. \A p \in Port : room'[p] # NoRoom => AtRoom(p, c)'
    BY <1>1, <2>1, Outside DEF AtRoom
  <2> QED
    BY <2>2, <2>3, <2>4 DEF Served
<1>7. ASSUME NEW p, Enter(c, p)
      PROVE  \A d \in Client : Served(d)'
  <2>1. CASE p \in Port /\ room[p] # NoRoom
    <3> DEFINE new == [room[p] EXCEPT !.backlog = Append(@, c)]
    <3>1. /\ mode' = [mode EXCEPT ![c] = "enter"]
          /\ link' = [link EXCEPT ![c] = p]
          /\ room' = [room EXCEPT ![p] = new]
      BY <1>7, <2>1 DEF Enter
    <3>2. /\ room[p].backlog \in Seq(End) /\ c \in End
          /\ Waiting(Append(room[p].backlog, c))
               = Waiting(room[p].backlog) \cup {c}
      BY <2>1, RoomFields, BacklogGrows DEF End
    <3>3. /\ new.members = room[p].members
          /\ new.backlog = Append(room[p].backlog, c)
      BY <2>1, RoomFields DEF Room
    <3> HIDE DEF new
    <3>4. /\ room'[p] = new
          /\ \A q \in Port \ {p} : room'[q] = room[q]
          /\ mode'[c] = "enter" /\ link'[c] = p
          /\ \A d \in Client \ {c} : mode'[d] = mode[d] /\ link'[d] = link[d]
      BY <2>1, <3>1 DEF IInv, TypeOK
    <3>5. ASSUME NEW d \in Client \ {c} PROVE Served(d)'
      <4>1. Once(room[p].backlog, d) => Once(new.backlog, d)
        BY <3>2, <3>3, OnceLemma DEF End
      <4>2. Waiting(new.backlog) \cap {d} \subseteq Waiting(room[p].backlog)
        BY <3>2, <3>3
      <4>3. ASSUME NEW q \in Port, room'[q] # NoRoom
            PROVE  /\ room[q] # NoRoom
                   /\ Waiting(room'[q].backlog) \cap {d}
                        \subseteq Waiting(room[q].backlog)
                   /\ Once(room[q].backlog, d) => Once(room'[q].backlog, d)
                   /\ room'[q].members \cap {d} \subseteq room[q].members
        BY <2>1, <3>3, <3>4, <4>1, <4>2, <4>3
      <4>4. sent'[d] = sent[d] /\ warned \subseteq warned'
            /\ (Deleting(d)' => Deleting(d))
        BY <1>1 DEF Deleting
      <4> QED
        BY <1>5, <3>4, <4>3, <4>4, Bystander
    <3>6. Talking(c)' /\ Chatting(c)'
      BY <1>4, <2>1, <3>4 DEF Talking, Chatting
    <3>7. ASSUME NEW q \in Port, room'[q] # NoRoom PROVE AtRoom(q, c)'
      <4>1. CASE q # p
        BY <1>1, <3>4, <3>7, <4>1, Outside DEF AtRoom
      <4>2. CASE q = p
        <5>1. c \notin Waiting(room[p].backlog) \cup room[p].members
          BY <1>1, <2>1, Outside
        <5>2. Once(new.backlog, c)
          BY <3>2, <3>3, <5>1, OnceLemma
        <5> QED
          BY <1>4, <3>3, <3>4, <4>2, <5>1, <5>2 DEF AtRoom
      <4> QED
        BY <4>1, <4>2
    <3> QED
      BY <3>5, <3>6, <3>7 DEF Served
  <2>2. CASE ~(p \in Port /\ room[p] # NoRoom)
    <3>1. /\ mode' = [mode EXCEPT ![c] = "ended"]
          /\ link' = [link EXCEPT ![c] = Nowhere] /\ UNCHANGED room
      BY <1>7, <2>2 DEF Enter
    <3>2. /\ mode'[c] = "ended"
          /\ \A d \in Client \ {c} : mode'[d] = mode[d] /\ link'[d] = link[d]
      BY <3>1 DEF IInv, TypeOK
    <3>3. \A d \in Client \ {c} : Served(d)'
      BY <1>1, <1>5, <3>1, <3>2, Bystander DEF Deleting
    <3> QED
      BY <3>2, <3>3 DEF Served
  <2> QED
    BY <2>1, <2>2
<1> QED
  BY <1>1, <1>2, <1>6, <1>7 DEF WInv, WarnedBeforeDismissed

\* An answer of the command thread to a client that waits for it.
LEMMA ReplyServed ==
  ASSUME IInv, WInv, NEW c \in Client, NEW what \in Item, Reply(c, what),
         UNCHANGED <<mode, link, warned>>,
         mode[c] = "wait" => sent'[c] = <<>> /\ inbox[c] = <<>> /\ ~Deleting(c)',
         mode[c] \in {"wait", "ended"},
         \A d \in Client \ {c} : /\ sent'[d] = sent[d]
                                 /\ Deleting(d)' => Deleting(d),
         \A p \in Port : room'[p] # NoRoom =>
           \/ Waiting(room'[p].backlog) \cup room'[p].members = {}
           \/ room'[p] = room[p]
  PROVE  \A d \in Client : Served(d)'
<1>1. inbox' = Put(inbox, {c}, what)
  BY DEF Reply
<1>2. ASSUME NEW d \in Client \ {c} PROVE Served(d)'
  <2>1. inbox'[d] = inbox[d]
    BY <1>1, PutLemma
  <2> QED
    BY <2>1, Bystander
<1>3. Served(c)'
  <2> SUFFICES ASSUME mode[c] = "wait" PROVE Served(c)'
    BY DEF Served
  <2>1. inbox'[c] = Append(inbox[c], what) /\ inbox[c] = <<>>
    BY <1>1, PutLemma
  <2>2. Len(inbox'[c]) = 1 /\ Len(sent'[c]) = 0
    BY <2>1, PutLemma, AppendLemma
  <2>3. Talking(c)' /\ Chatting(c)'
    <3>1. mode'[c] = "wait" /\ link'[c] = ToServer /\ ~Deleting(c)'
      BY DEF WInv, Served, Talking
    <3>2. Len(sent'[c]) + Len(inbox'[c]) <= 1
      BY <2>2
    <3> QED
      BY <3>1, <3>2 DEF Talking, Chatting
  <2>4. \A p \in Port : room'[p] # NoRoom => AtRoom(p, c)'
    BY Outside DEF AtRoom
  <2> QED
    BY <2>3, <2>4 DEF Served
<1> QED
  BY <1>2, <1>3

\* Only a client that waits for an answer is busy with the command thread.
LEMMA CommandWarned ==
  ASSUME IInv, WInv, NEW c \in Client, Command(c) PROVE WInv'
<1> DEFINE comm == Head(sent[c])
<1>1. /\ link[c] = ToServer /\ sent[c] # <<>> /\ delete = NoDelete
      /\ sent' = [sent EXCEPT ![c] = Tail(@)]
      /\ UNCHANGED <<mode, link, warned, dismissed>>
  BY DEF Command, Ready
<1>2. /\ comm \in CommandMsg
      /\ \/ comm.type = "create" /\ Create(c, comm.name)
         \/ comm.type = "delete" /\ Delete(c, comm.name)
         \/ /\ comm.type = "join"
            /\ Reply(c, IF Entries(comm.name) = {} THEN Denied
                        ELSE Success(Entry(comm.name).port))
            /\ UNCHANGED server
         \/ comm.type = "list" /\ Reply(c, Listing) /\ UNCHANGED server
  BY CommandRead DEF Command
<1> HIDE DEF comm
<1>3. ~Deleting(c) /\ \A d \in Client : ~Deleting(d)
  BY <1>1 DEF Deleting
<1>4. mode[c] \in {"wait", "ended"}
  BY <1>1, Places DEF IInv, TypeOK, ClientInv, WInv, Served, Talking
<1>5. /\ \A d \in Client \ {c} : sent'[d] = sent[d]
      /\ mode[c] = "wait" => sent'[c] = <<>> /\ inbox[c] = <<>>
  <2>1. /\ sent'[c] = Tail(sent[c])
        /\ \A d \in Client \ {c} : sent'[d] = sent[d]
        /\ sent[c] \in Seq(Comm) /\ inbox[c] \in Seq(Item)
    BY <1>1 DEF IInv, TypeOK
  <2>2. ASSUME mode[c] = "wait"
        PROVE  Len(sent[c]) = 1 /\ Len(inbox[c]) = 0
    <3>1. Len(sent[c]) + Len(inbox[c]) <= 1
      BY <2>2 DEF WInv, Served, Talking
    <3>2. Len(sent[c]) \in Nat /\ Len(sent[c]) # 0 /\ Len(inbox[c]) \in Nat
      BY <1>1, <2>1, TailLemma
    <3>3. \A a \in Nat, b \in Nat : b # 0 /\ b + a <= 1 => a = 0 /\ b = 1
      OBVIOUS
    <3> QED
      BY <3>1, <3>2, <3>3
  <2> QED
    BY <1>1, <2>1, <2>2, TailLemma
<1>6. ASSUME NEW what \in Item, Reply(c, what), UNCHANGED delete,
             \A p \in Port : room'[p] # NoRoom =>
               \/ Waiting(room'[p].backlog) \cup room'[p].members = {}
               \/ room'[p] = room[p]
      PROVE  \A d \in Client : Served(d)'
  <2>1. \A d \in Client : ~Deleting(d)'
    BY <1>3, <1>6 DEF Deleting
  <2> QED
    BY <1>1, <1>4, <1>5, <1>6, <2>1, ReplyServed
<1>7. CASE comm.type \in {"join", "list"}
  <2>1. (IF Entries(comm.name) = {} THEN Denied
         ELSE Success(Entry(comm.name).port)) \in Item
    BY EntryListed, ListedFree, Items
  <2>2. \E what \in Item : Reply(c, what) /\ UNCHANGED server
    BY <1>2, <1>7, <2>1, Items
  <2>3. \A d \in Client : Served(d)'
    BY <1>6, <2>2 DEF server
  <2> QED
    BY <1>1, <2>3 DEF WInv, WarnedBeforeDismissed
\* Nothing is answered, and the client goes on waiting.
<1>8. ASSUME UNCHANGED inbox, delete' = delete \/ delete'.client = c,
             \A p \in Port : room'[p] # NoRoom =>
               /\ room[p] # NoRoom
               /\ room'[p].members = room[p].members
               /\ \A d \in Client :
                    /\ d \in Waiting(room'[p].backlog)
                         => d \in Waiting(room[p].backlog)
                    /\ Once(room[p].backlog, d) => Once(room'[p].backlog, d)
      PROVE  \A d \in Client : Served(d)'
  <2>1. ASSUME NEW d \in Client \ {c} PROVE Served(d)'
    <3>1. Deleting(d)' => Deleting(d)
      BY <1>8 DEF Deleting
    <3>2. \A p \in Port : room'[p] # NoRoom =>
            /\ room[p] # NoRoom
            /\ Waiting(room'[p].backlog) \cap {d} \subseteq Waiting(room[p].backlog)
            /\ Once(room[p].backlog, d) => Once(room'[p].backlog, d)
            /\ room'[p].members \cap {d} \subseteq room[p].members
      BY <1>8
    <3> QED
      BY <1>1, <1>5, <1>8, <3>1, <3>2, Bystander
  <2>2. Served(c)'
    <3> SUFFICES ASSUME mode[c] = "wait" PROVE Served(c)'
      BY <1>1, <1>4 DEF Served
    <3>1. /\ mode'[c] = "wait" /\ link'[c] = ToServer
          /\ sent'[c] = <<>> /\ inbox'[c] = <<>>
      BY <1>1, <1>5, <1>8
    <3>2. Len(sent'[c]) + Len(inbox'[c]) <= 1
      BY <3>1
    <3>3. Talking(c)' /\ Chatting(c)'
      BY <3>1, <3>2 DEF Talking, Chatting
    <3>4. \A p \in Port : room'[p] # NoRoom => AtRoom(p, c)'
      BY <1>8, Outside DEF AtRoom
    <3> QED
      BY <3>3, <3>4 DEF Served
  <2> QED
    BY <2>1, <2>2
<1>9. CASE comm.type = "create"
  <2> SUFFICES \A d \in Client : Served(d)'
    BY <1>1 DEF WInv, WarnedBeforeDismissed
  <2>1. Create(c, comm.name)
    BY <1>2, <1>9
  <2>2. CASE Reply(c, Denied) /\ UNCHANGED server
    <3>1. room' = room /\ delete' = delete /\ Denied \in Item
      BY <2>2, Items DEF server
    <3> QED
      BY <1>6, <2>2, <3>1
  <2>3. ASSUME NEW p \in Port, room' = [room EXCEPT ![p] = NewRoom(comm.name)],
               Reply(c, Success(p)), UNCHANGED <<ended, admin, delete>>
        PROVE  \A d \in Client : Served(d)'
    <3>1. /\ Waiting(room'[p].backlog) \cup room'[p].members = {}
          /\ \A q \in Port \ {p} : room'[q] = room[q]
      BY <2>3 DEF IInv, TypeOK, NewRoom, Waiting
    <3> QED
      BY <1>6, <2>3, <3>1, Items
  <2>4. CASE UNCHANGED <<list, room, admin, delete, inbox>>
    <3>1. room' = room /\ delete' = delete /\ inbox' = inbox
      BY <2>4
    <3> QED
      BY <1>8, <3>1
  <2> QED
    BY <2>1, <2>2, <2>3, <2>4 DEF Create
<1>10. CASE comm.type = "delete"
  <2> SUFFICES \A d \in Client : Served(d)'
    BY <1>1 DEF WInv, WarnedBeforeDismissed
  <2>1. Delete(c, comm.name)
    BY <1>2, <1>10
  <2>2. CASE Reply(c, Denied) /\ UNCHANGED server
    <3>1. room' = room /\ delete' = delete /\ Denied \in Item
      BY <2>2, Items DEF server
    <3> QED
      BY <1>6, <2>2, <3>1
  <2>3. CASE /\ Entries(comm.name) # {}
             /\ Connect(c, Entry(comm.name).port) /\ UNCHANGED inbox
    <3> DEFINE p == Entry(comm.name).port
               new == [room[p] EXCEPT !.backlog = Append(@, Admin)]
    <3>1. Entry(comm.name) \in list
      BY <2>3, EntryListed
    <3>2. p \in Port /\ room[p] \in Room /\ room[p] # NoRoom
      BY <3>1, ListedFree, NoRoomAssumption
    <3>3. room' = [room EXCEPT ![p] = new] /\ delete' = [client |-> c, port |-> p]
      BY <2>3, <3>2 DEF Connect
    <3> HIDE DEF p
    <3>4. /\ new.members = room[p].members
          /\ new.backlog = Append(room[p].backlog, Admin)
          /\ room[p].backlog \in Seq(End) /\ Admin \in End
      BY <3>2, RoomFields DEF Room, End
    <3> HIDE DEF new
    <3>5. /\ room'[p] = new /\ \A q \in Port \ {p} : room'[q] = room[q]
          /\ delete'.client = c
      BY <3>2, <3>3 DEF IInv, TypeOK
    <3>6. /\ Waiting(new.backlog) = Waiting(room[p].backlog) \cup {Admin}
          /\ \A d \in Client : Admin # d /\ d \in End
      BY <3>4, BacklogGrows, NamesDiffer DEF End
    <3>7. \A d \in Client : Once(room[p].backlog, d) => Once(new.backlog, d)
      BY <3>4, <3>6, OnceLemma
    <3>8. ASSUME NEW q \in Port, room'[q] # NoRoom
          PROVE  /\ room[q] # NoRoom
                 /\ room'[q].members = room[q].members
                 /\ \A d \in Client :
                      /\ d \in Waiting(room'[q].backlog)
                           => d \in Waiting(room[q].backlog)
                      /\ Once(room[q].backlog, d) => Once(room'[q].backlog, d)
      BY <3>2, <3>4, <3>5, <3>6, <3>7, <3>8
    <3> QED
      BY <1>8, <2>3, <3>5, <3>8
  <2> QED
    BY <2>1, <2>2, <2>3 DEF Delete
<1> QED
  BY <1>2, <1>7, <1>9, <1>10

LEMMA DeleteDoneWarned ==
  ASSUME IInv, WInv, DeleteDone PROVE WInv'
<1> DEFINE c == delete.client
<1>1. /\ delete # NoDelete /\ delete' = NoDelete
      /\ Reply(c, [what |-> "deleted"])
      /\ UNCHANGED <<room, mode, link, sent, warned, dismissed>>
  BY DEF DeleteDone
<1>2. c \in Client /\ Deleting(c)
  BY <1>1 DEF IInv, TypeOK, Deleting
<1> HIDE DEF c
<1>3. /\ mode[c] \in {"wait", "ended"}
      /\ mode[c] = "wait" => sent[c] = <<>> /\ inbox[c] = <<>>
  BY <1>2 DEF IInv, TypeOK, WInv, Served, Talking, Chatting
<1>4. \A d \in Client : ~Deleting(d)'
  BY <1>1 DEF Deleting
<1>5. \A d \in Client : Served(d)'
  BY <1>1, <1>2, <1>3, <1>4, Items, ReplyServed
<1> QED
  BY <1>1, <1>5 DEF WInv, WarnedBeforeDismissed

-----------------------------------------------------------------------------
LEMMA SelectWarned ==
  ASSUME IInv, WInv, NEW p \in Port, Select(p) PROVE WInv'
<1> DEFINE pass == {x \in room[p].members : Readable(p, x)}
                   \cup (IF room[p].backlog # <<>> THEN {Listener} ELSE {})
<1>1. /\ room[p] # NoRoom /\ room' = [room EXCEPT ![p].pass = pass]
      /\ UNCHANGED <<delete, mode, link, sent, inbox, warned, dismissed>>
  BY DEF Select, Running, clients
<1> HIDE DEF pass
<1>2. ASSUME NEW q \in Port, room'[q] # NoRoom
      PROVE  /\ room[q] # NoRoom /\ room'[q].members = room[q].members
             /\ room'[q].backlog = room[q].backlog
  BY <1>1, <1>2, RoomFields DEF IInv, TypeOK, Room
<1>3. \A c \in Client : Served(c)'
  BY <1>1, <1>2, Bystander DEF Deleting
<1> QED
  BY <1>1, <1>3 DEF WInv, WarnedBeforeDismissed

LEMMA HangupWarned ==
  ASSUME IInv, WInv, NEW p \in Port, NEW d \in Client, Hangup(p, d) PROVE WInv'
<1>1. /\ room[p] # NoRoom
      /\ room' = [room EXCEPT ![p].pass = @ \ {d}, ![p].members = @ \ {d},
                              ![p].struck = @ \ {d}]
      /\ UNCHANGED <<delete, mode, link, sent, inbox, warned, dismissed>>
  BY DEF Hangup, Running, clients
<1>2. ASSUME NEW q \in Port, room'[q] # NoRoom
      PROVE  /\ room[q] # NoRoom /\ room'[q].members \subseteq room[q].members
             /\ room'[q].backlog = room[q].backlog
  BY <1>1, <1>2, RoomFields DEF IInv, TypeOK, Room
<1>3. \A c \in Client : Served(c)'
  BY <1>1, <1>2, Bystander DEF Deleting
<1> QED
  BY <1>1, <1>3 DEF WInv, WarnedBeforeDismissed

\* A member that has not been put out can read one item more, which does not
\* put it out.
LEMMA HearsMore ==
  ASSUME IInv, WInv, NEW c \in Client, NEW what \in Item,
         what.what \notin Farewell,
         mode[c] \in {"enter", "chat"},
         \A i \in DOMAIN inbox[c] : inbox[c][i].what \notin Farewell,
         inbox'[c] = Append(inbox[c], what),
         mode'[c] = mode[c], link'[c] = link[c],
         Deleting(c)' => Deleting(c), warned' = warned
  PROVE  /\ Talking(c)' /\ Chatting(c)'
         /\ \A i \in DOMAIN inbox'[c] : inbox'[c][i].what \notin Farewell
<1>1. /\ DOMAIN inbox'[c] = DOMAIN inbox[c] \cup {Len(inbox[c]) + 1}
      /\ \A i \in DOMAIN inbox[c] : inbox'[c][i] = inbox[c][i]
      /\ inbox'[c][Len(inbox[c]) + 1] = what
  BY PutLemma, AppendLemma
<1>2. \A i \in DOMAIN inbox'[c] : inbox'[c][i].what \notin Farewell
  BY <1>1
<1>3. Talking(c)'
  BY DEF Talking
<1>4. Chatting(c)'
  BY <1>2 DEF Chatting, WInv, Served
<1> QED
  BY <1>2, <1>3, <1>4

LEMMA AcceptWarned ==
  ASSUME IInv, WInv, NEW p \in Port, Accept(p) PROVE WInv'
<1>0. PICK x : x = Head(room[p].backlog)
  OBVIOUS
<1> DEFINE new == [room[p] EXCEPT !.pass = @ \ {Listener},
                                  !.members = @ \cup {x},
                                  !.backlog = Tail(@)]
           hello == [what |-> "hello"]
<1>1. /\ room[p] # NoRoom /\ Listener \in room[p].pass
      /\ room' = [room EXCEPT ![p] = new]
      /\ inbox' = Put(inbox, {x}, hello)
      /\ UNCHANGED <<delete, mode, link, sent, warned, dismissed>>
  BY <1>0 DEF Accept, Running
<1>2. room[p].backlog \in Seq(End) /\ room[p].backlog # <<>>
  BY <1>1, RoomFields DEF IInv, AdminInv
<1>3. /\ x \in Waiting(room[p].backlog) /\ x \in End
      /\ Waiting(Tail(room[p].backlog)) \subseteq Waiting(room[p].backlog)
  BY <1>0, <1>2, BacklogShrinks
<1>4. /\ Once(room[p].backlog, x) => x \notin Waiting(Tail(room[p].backlog))
      /\ \A c \in Client : Once(room[p].backlog, c)
                             => Once(Tail(room[p].backlog), c)
  BY <1>0, <1>2, <1>3, OnceLemma DEF End
<1>5. /\ new.members = room[p].members \cup {x}
      /\ new.backlog = Tail(room[p].backlog)
  BY <1>1, RoomFields DEF Room
<1> HIDE DEF new
<1>6. room'[p] = new /\ \A q \in Port \ {p} : room'[q] = room[q]
  BY <1>1 DEF IInv, TypeOK
<1>7. hello \in Item /\ hello.what \notin Farewell
  BY Items DEF Farewell
<1> HIDE DEF hello
<1>8. ASSUME NEW c \in Client, c # x PROVE Served(c)'
  <2>1. inbox'[c] = inbox[c]
    BY <1>1, <1>7, <1>8, PutLemma
  <2>2. ASSUME NEW q \in Port, room'[q] # NoRoom
        PROVE  /\ room[q] # NoRoom
               /\ Waiting(room'[q].backlog) \cap {c}
                    \subseteq Waiting(room[q].backlog)
               /\ Once(room[q].backlog, c) => Once(room'[q].backlog, c)
               /\ room'[q].members \cap {c} \subseteq room[q].members
    BY <1>1, <1>3, <1>4, <1>5, <1>6, <1>8, <2>2
  <2> QED
    BY <1>1, <2>1, <2>2, Bystander DEF Deleting
<1>9. ASSUME x \in Client, mode[x] # "ended" PROVE Served(x)'
  <2>1. /\ mode[x] = "enter" /\ link[x] = p /\ inbox[x] = <<>>
        /\ Once(room[p].backlog, x)
    BY <1>1, <1>3, <1>9 DEF WInv, Served, AtRoom
  <2>2. inbox'[x] = Append(inbox[x], hello)
    BY <1>1, <1>7, <1>9, PutLemma
  <2>3. \A i \in DOMAIN inbox[x] : inbox[x][i].what \notin Farewell
    BY <2>1
  <2>4. /\ mode'[x] = mode[x] /\ link'[x] = link[x] /\ warned' = warned
        /\ Deleting(x)' => Deleting(x)
    BY <1>1 DEF Deleting
  <2>5. /\ Talking(x)' /\ Chatting(x)'
        /\ \A i \in DOMAIN inbox'[x] : inbox'[x][i].what \notin Farewell
    BY <1>7, <1>9, <2>1, <2>2, <2>3, <2>4, HearsMore
  <2>6. ASSUME NEW q \in Port, room'[q] # NoRoom PROVE AtRoom(q, x)'
    <3>1. CASE q = p
      BY <1>1, <1>4, <1>5, <1>6, <2>1, <2>5, <3>1 DEF AtRoom
    <3>2. CASE q # p
      <4>1. x \notin Waiting(room[q].backlog) \cup room[q].members
        BY <1>6, <1>9, <2>1, <2>6, <3>2 DEF WInv, Served, AtRoom
      <4> QED
        BY <1>6, <3>2, <4>1 DEF AtRoom
    <3> QED
      BY <3>1, <3>2
  <2> QED
    BY <2>5, <2>6 DEF Served
<1>10. ASSUME x \in Client, mode[x] = "ended" PROVE Served(x)'
  BY <1>1, <1>10 DEF Served
<1>11. \A c \in Client : Served(c)'
  BY <1>8, <1>9, <1>10
<1> QED
  BY <1>1, <1>11 DEF WInv, WarnedBeforeDismissed

LEMMA RelayWarned ==
  ASSUME IInv, WInv, NEW p \in Port, NEW d \in Client, Relay(p, d) PROVE WInv'
<1> DEFINE others == room[p].members \ {d}
           message == [what |-> "message"]
           new == [room[p] EXCEPT !.pass = @ \ {d},
                     !.struck = @ \cup {x \in others : Gone(p, x)}]
<1>1. /\ room[p] # NoRoom /\ room' = [room EXCEPT ![p] = new]
      /\ d \in room[p].pass
      /\ sent' = [sent EXCEPT ![d] = Tail(@)]
      /\ inbox' = Put(inbox, others, message)
      /\ UNCHANGED <<delete, mode, link, warned, dismissed>>
  BY DEF Relay, Running
<1>2. new.members = room[p].members /\ new.backlog = room[p].backlog
  BY <1>1, RoomFields DEF Room
<1> HIDE DEF new
<1>3. /\ \A q \in Port : room'[q] # NoRoom =>
           /\ room[q] # NoRoom /\ room'[q].members = room[q].members
           /\ room'[q].backlog = room[q].backlog
      /\ \A c \in Client \ {d} : sent'[c] = sent[c]
  BY <1>1, <1>2 DEF IInv, TypeOK
<1>4. message \in Item /\ message.what \notin Farewell
  BY Items DEF Farewell
<1> HIDE DEF message
<1>5. ASSUME NEW c \in Client \ {d}, c \notin others PROVE Served(c)'
  <2>1. inbox'[c] = inbox[c]
    BY <1>1, <1>4, <1>5, PutLemma
  <2> QED
    BY <1>1, <1>3, <2>1, Bystander DEF Deleting
<1>6. ASSUME NEW c \in others, c \in Client, mode[c] # "ended" PROVE Served(c)'
  <2>1. /\ mode[c] \in {"enter", "chat"}
        /\ \A i \in DOMAIN inbox[c] : inbox[c][i].what \notin Farewell
        /\ \A q \in Port : room[q] # NoRoom => AtRoom(q, c)
        /\ c \notin Waiting(room[p].backlog) /\ link[c] = p
        /\ link'[c] = link[c]
    BY <1>1, <1>6 DEF WInv, Served, AtRoom
  <2>2. inbox'[c] = Append(inbox[c], message)
    BY <1>1, <1>4, <1>6, PutLemma
  <2>3. /\ mode'[c] = mode[c] /\ warned' = warned
        /\ Deleting(c)' => Deleting(c)
    BY <1>1 DEF Deleting
  <2>4. /\ Talking(c)' /\ Chatting(c)'
        /\ \A i \in DOMAIN inbox'[c] : inbox'[c][i].what \notin Farewell
    BY <1>4, <1>6, <2>1, <2>2, <2>3, HearsMore
  <2>5. ASSUME NEW q \in Port, room'[q] # NoRoom PROVE AtRoom(q, c)'
    <3>1. c \notin Waiting(room'[q].backlog)
      BY <1>3, <2>1, <2>5 DEF AtRoom
    <3> QED
      BY <1>1, <1>3, <2>1, <2>4, <2>5, <3>1 DEF AtRoom
  <2> QED
    BY <2>4, <2>5 DEF Served
<1>7. Served(d)'
  <2> SUFFICES ASSUME mode[d] # "ended" PROVE Served(d)'
    BY <1>1 DEF Served
  <2>1. d \in room[p].members
    BY <1>1, RoomFields, NamesDiffer
  <2>2. /\ mode[d] \in {"enter", "chat"}
        /\ Chatting(d) /\ \A q \in Port : room[q] # NoRoom => AtRoom(q, d)
        /\ \A i \in DOMAIN inbox[d] : inbox[d][i].what \notin Farewell
    BY <1>1, <2>1 DEF WInv, Served, AtRoom
  <2>3. inbox'[d] = inbox[d]
    BY <1>1, <1>4, PutLemma
  <2>4. Talking(d)' /\ Chatting(d)'
    BY <1>1, <2>2, <2>3 DEF Talking, Chatting, Deleting
  <2>5. \A q \in Port : room'[q] # NoRoom => AtRoom(q, d)'
    BY <1>1, <1>3, <2>2, <2>3 DEF AtRoom
  <2> QED
    BY <2>4, <2>5 DEF Served
<1>8. \A c \in Client : mode[c] = "ended" => Served(c)'
  BY <1>1 DEF Served
<1>9. \A c \in Client : Served(c)'
  BY <1>5, <1>6, <1>7, <1>8
<1> QED
  BY <1>1, <1>9 DEF WInv, WarnedBeforeDismissed

\* The members read the warning first; who waits for accept has been greeted by
\* nobody.
LEMMA CloseWarned ==
  ASSUME IInv, WInv, NEW p \in Port, Close(p) PROVE WInv'
<1> DEFINE members == room[p].members \ {Admin}
           unread  == {c \in members : sent[c] # <<>>}
           linked  == members \cup Waiting(room[p].backlog)
           warning == [what |-> "warning"]
           last(c) == [what |-> IF c \in members \ unread THEN "end" ELSE "reset"]
<1>0. PICK dropped \in SUBSET unread :
        LET box == Put(inbox, members \ dropped, warning)
        IN inbox' = [c \in Client |-> IF c \in linked /\ mode[c] # "ended"
                                      THEN Append(box[c], last(c)) ELSE box[c]]
  BY DEF Close
<1> DEFINE box == Put(inbox, members \ dropped, warning)
<1>1. /\ room[p] # NoRoom
      /\ room' = [room EXCEPT ![p] = NoRoom]
      /\ inbox' = [c \in Client |-> IF c \in linked /\ mode[c] # "ended"
                                    THEN Append(box[c], last(c)) ELSE box[c]]
      /\ UNCHANGED <<delete, mode, link, sent, warned, dismissed>>
  BY <1>0 DEF Close, Running
<1>2. /\ warning \in Item /\ warning.what \notin Farewell /\ Warning(warning)
      /\ \A c \in Client : last(c) \in Item
  BY Items DEF Farewell, Warning
<1>3. ASSUME NEW c \in Client
      PROVE  /\ c \in linked <=> c \in members \cup Waiting(room[p].backlog)
             /\ c \in members <=> c \in room[p].members
             /\ c \in dropped => c \in members /\ sent[c] # <<>>
             /\ c \notin members \ dropped \/ mode[c] = "ended"
                  => box[c] = inbox[c]
             /\ c \in members \ dropped /\ mode[c] # "ended"
                  => box[c] = Append(inbox[c], warning)
             /\ inbox[c] \in Seq(Item)
  BY <1>2, PutLemma, NamesDiffer
<1>4. /\ room'[p] = NoRoom /\ \A q \in Port \ {p} : room'[q] = room[q]
  BY <1>1 DEF IInv, TypeOK
<1> HIDE DEF members, unread, linked, box, last, warning
<1>5. ASSUME NEW c \in Client, c \notin linked PROVE Served(c)'
  <2>1. inbox'[c] = inbox[c]
    <3>1. box[c] = inbox[c]
      BY <1>3, <1>5
    <3> QED
      BY <1>1, <1>5, <3>1
  <2>2. \A q \in Port : room'[q] # NoRoom => room'[q] = room[q]
    BY <1>4
  <2> QED
    BY <1>1, <2>1, <2>2, Bystander DEF Deleting
<1>6. \A c \in Client : mode[c] = "ended" => Served(c)'
  BY <1>1 DEF Served
<1>7. ASSUME NEW c \in Client, c \in linked, mode[c] # "ended"
      PROVE  Served(c)'
  <2>1. /\ mode[c] \in {"enter", "chat"} /\ link[c] = p /\ ~Deleting(c)
        /\ \A q \in Port : room[q] # NoRoom => AtRoom(q, c)
        /\ AtRoom(p, c)
    BY <1>1, <1>3, <1>7 DEF WInv, Served, AtRoom, Chatting
  <2>2. \A q \in Port : room'[q] # NoRoom => AtRoom(q, c)'
    <3> SUFFICES ASSUME NEW q \in Port, room'[q] # NoRoom
                 PROVE  c \notin Waiting(room'[q].backlog) \cup room'[q].members
      BY DEF AtRoom
    <3>1. q # p /\ room'[q] = room[q] /\ room[q] # NoRoom
      BY <1>4
    <3> QED
      BY <2>1, <3>1 DEF AtRoom
  <2>3. inbox'[c] = Append(box[c], last(c))
    BY <1>1, <1>7
  <2>4. /\ mode'[c] = mode[c] /\ warned' = warned /\ ~Deleting(c)'
        /\ link'[c] \in Port
    BY <1>1, <2>1 DEF Deleting
  <2>5. CASE c \in members \ dropped
    <3>1. box[c] = Append(inbox[c], warning) /\ inbox[c] \in Seq(Item)
      BY <1>3, <1>7, <2>5
    <3>2. \A i \in DOMAIN inbox[c] : inbox[c][i].what \notin Farewell
      BY <1>3, <2>1, <2>5 DEF AtRoom
    <3>3. /\ box[c] \in Seq(Item) /\ Len(box[c]) = Len(inbox[c]) + 1
          /\ DOMAIN box[c] = DOMAIN inbox[c] \cup {Len(inbox[c]) + 1}
          /\ \A i \in DOMAIN inbox[c] : box[c][i] = inbox[c][i]
          /\ box[c][Len(inbox[c]) + 1] = warning
      BY <1>2, <3>1, AppendLemma
    <3>4. /\ Len(inbox'[c]) = Len(box[c]) + 1
          /\ DOMAIN inbox'[c] = DOMAIN box[c] \cup {Len(box[c]) + 1}
          /\ \A i \in DOMAIN box[c] : inbox'[c][i] = box[c][i]
      BY <1>2, <2>3, <3>3, AppendLemma
    <3>5. \A i \in DOMAIN box[c] : inbox'[c][i].what \notin Farewell
      BY <1>2, <3>2, <3>3, <3>4
    <3>6. /\ Len(box[c]) \in 1 .. Len(inbox'[c]) - 1
          /\ Len(box[c]) \in DOMAIN box[c]
          /\ Warning(inbox'[c][Len(box[c])])
      BY <1>2, <3>1, <3>3, <3>4
    <3>7. Chatting(c)'
      <4> SUFFICES ASSUME NEW i \in DOMAIN inbox'[c],
                          inbox'[c][i].what \in Farewell
                   PROVE  /\ i = Len(inbox'[c])
                          /\ \E j \in 1 .. i - 1 : Warning(inbox'[c][j])
        BY <2>4 DEF Chatting, Warning
      <4>1. i = Len(inbox'[c])
        BY <3>4, <3>5
      <4> QED
        BY <3>6, <4>1
    <3>8. Talking(c)'
      BY <2>1, <2>4 DEF Talking
    <3> QED
      BY <2>2, <3>7, <3>8 DEF Served
  <2>6. CASE c \notin members
    <3>1. box[c] = inbox[c] /\ c \in Waiting(room[p].backlog)
      BY <1>3, <1>7, <2>6
    <3>2. mode[c] = "enter" /\ inbox[c] = <<>>
      BY <2>1, <3>1 DEF AtRoom
    <3>3. /\ Len(inbox'[c]) = 1 /\ DOMAIN inbox'[c] = {1}
      <4>1. inbox[c] \in Seq(Item) /\ Len(inbox[c]) = 0 /\ DOMAIN inbox[c] = {}
        BY <1>3, <3>2
      <4> QED
        BY <1>2, <2>3, <3>1, <4>1, AppendLemma
    <3>4. Chatting(c)'
      BY <2>4, <3>2, <3>3 DEF Chatting
    <3>5. Talking(c)'
      BY <2>1, <2>4 DEF Talking
    <3> QED
      BY <2>2, <3>4, <3>5 DEF Served
  <2>7. CASE c \in dropped
    <3>1. sent'[c] # <<>> /\ c \in members
      BY <1>1, <1>3, <2>7
    <3>2. \A i \in DOMAIN inbox[c] : inbox[c][i].what \notin Farewell
      BY <1>3, <2>1, <3>1 DEF AtRoom
    <3>3. box[c] = inbox[c]
      BY <1>3, <2>7
    <3>4. /\ Len(inbox'[c]) = Len(inbox[c]) + 1
          /\ DOMAIN inbox'[c] = DOMAIN inbox[c] \cup {Len(inbox[c]) + 1}
          /\ \A i \in DOMAIN inbox[c] : inbox'[c][i] = inbox[c][i]
      BY <1>2, <1>3, <2>3, <3>3, AppendLemma
    <3>5. Chatting(c)'
      BY <1>1, <2>1, <2>4, <3>1, <3>2, <3>4 DEF Chatting
    <3>6. Talking(c)'
      BY <2>1, <2>4 DEF Talking
    <3> QED
      BY <2>2, <3>5, <3>6 DEF Served
  <2> QED
    BY <2>5, <2>6, <2>7
<1>8. \A c \in Client : Served(c)'
  BY <1>5, <1>6, <1>7
<1> QED
  BY <1>1, <1>8 DEF WInv, WarnedBeforeDismissed

-----------------------------------------------------------------------------
LEMMA NextWarned == IInv /\ WInv /\ [Next]_vars => WInv'
<1> SUFFICES ASSUME IInv, WInv, [Next]_vars PROVE WInv'
  OBVIOUS
<1>1. CASE CommandThread
  BY <1>1, DeleteDoneWarned, CommandAcceptWarned, CommandWarned
     DEF CommandThread
<1>2. ASSUME NEW p \in Port, RoomThread(p) PROVE WInv'
  BY <1>2, SelectWarned, AcceptWarned, CloseWarned, RelayWarned, HangupWarned
     DEF RoomThread
<1>3. ASSUME NEW c \in Client, NEW type, NEW name, Ask(c, type, name),
             \/ type \in {"create", "join", "delete"} /\ name \in Name
             \/ type = "list" /\ name = "none"
      PROVE  WInv'
  <2>1. [type |-> type, name |-> name] \in CommandMsg
    BY <1>3 DEF CommandMsg
  <2> QED
    BY <1>3, <2>1, AskWarned
<1>4. ASSUME NEW c \in Client,
             \/ Answered(c) \/ Read(c) \/ Kill(c)
             \/ \E m \in Message : Say(c, m)
      PROVE  WInv'
  BY <1>4, AnsweredWarned, ReadWarned, KillWarned, SayWarned
<1>5. CASE UNCHANGED vars
  <2>1. UNCHANGED <<delete, room, mode, link, sent, inbox, warned, dismissed>>
    BY <1>5 DEF vars, server, clients
  <2>2. \A c \in Client : Served(c)'
    BY <2>1, Bystander DEF Deleting
  <2> QED
    BY <2>1, <2>2 DEF WInv, WarnedBeforeDismissed
<1> QED
  BY <1>1, <1>2, <1>3, <1>4, <1>5 DEF Next

\* In every instance, a client that is put out of a chat, when the thread of the
\* room has read all that it said, has read the warning before: the warning is
\* sent before "admin-delete" closes the sockets, and only the data that nobody
\* has read makes of that a reset (hw1/src/crsd/chat.c).
THEOREM WarnedFirst == Spec => []WarnedBeforeDismissed
<1>1. Init /\ [][Next]_vars => []WInv
  <2>1. Init /\ [][Next]_vars => []IInv
    BY InitInv, NextInv, PTL
  <2> QED
    BY <2>1, InitWarned, NextWarned, PTL
<1>2. WInv => WarnedBeforeDismissed
  BY DEF WInv
<1> QED
  BY <1>1, <1>2, PTL DEF Spec
=============================================================================
