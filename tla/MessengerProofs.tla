-------------------------- MODULE MessengerProofs --------------------------
(***************************************************************************)
(* Proofs about Messenger, for every set of users and messages and any     *)
(* number of streams, commands and failures.                               *)
(***************************************************************************)
EXTENDS Messenger, TLAPS

\* What is left of the steps that a message asks for.
SetSteps  == <<"add", "show">>
ShowSteps == <<"show">>
Set2Steps == <<"add">>
ChatSteps == <<"post", "save", "collect", "send">>
SaveSteps == <<"save", "collect", "send">>
FindSteps == <<"collect", "send">>
SendSteps == <<"send">>

\* A handler is at a step of its message, or has none left.
AtStep(h) ==
  \/ h.todo = <<>>
  \/ h.msg = "set" /\ h.todo \in {SetSteps, ShowSteps}
  \/ h.msg = "set2" /\ h.todo = Set2Steps
  \/ h.msg \in Message /\ h.todo \in {ChatSteps, SaveSteps, FindSteps, SendSteps}

\* Handlers run only while there is a server, one for each stream that has
\* been opened.
HandlerInv ==
  \A s \in Stream :
    /\ AtStep(handler[s])
    /\ handler[s].pc = "ended" => handler[s] = Ended
    /\ handler[s].pc = "read" => up /\ s[2] <= cur[s[1]]

\* The server has a command only while its client waits.
CallInv ==
  \A u \in User :
    /\ call[u] # "no" => mode[u] = "ask"
    /\ mode[u] = "ask" => asked[u] # NoCommand
    /\ call[u] \in {"run", "kept"} => up

\* A room that exists is followed by its owner, there and in the file.
RoomInv ==
  \A u \in User :
    /\ IF room[u].exists THEN u \in room[u].follows
       ELSE room[u].follows = {} /\ room[u].stream = NoStream
    /\ IF saved[u].exists THEN u \in saved[u].follows
       ELSE saved[u].follows = {}

\* The stream of a room is one that has been set by a handler that runs.
StreamInv ==
  \A u \in User :
    room[u].stream # NoStream =>
      /\ room[u].stream \in Stream /\ room[u].stream[1] = u
      /\ handler[room[u].stream].pc = "read"
      /\ handler[room[u].stream].msg # "none"

\* Each message is in one place: on one wire, or the last one of one handler.
UniqueInv ==
  /\ \A s, t \in Stream :
       handler[s].msg \in Message /\ handler[s].msg = handler[t].msg => s = t
  /\ \A s, t \in Stream : \A i \in DOMAIN wire[s] :
       wire[s][i] \in Message => handler[t].msg # wire[s][i]
  /\ \A s, t \in Stream : \A i \in DOMAIN wire[s], j \in DOMAIN wire[t] :
       wire[s][i] \in Message /\ wire[s][i] = wire[t][j] => s = t /\ i = j

\* What has been written has been said.
SaidInv ==
  \A s \in Stream :
    /\ handler[s].msg \in Message => handler[s].msg \in said
    /\ \A i \in DOMAIN wire[s] : wire[s][i] \in Message => wire[s][i] \in said

\* The file has no chat that the rooms have not, and every chat whose writes
\* are at hand.
FileInv ==
  /\ up => \A u \in User : saved[u].chats \subseteq room[u].chats
  /\ \A s \in Stream : \A u \in User :
       /\ handler[s].todo \in {FindSteps, SendSteps}
       /\ <<s[1], handler[s].msg>> \in room[u].chats
       => <<s[1], handler[s].msg>> \in saved[u].chats

\* The file lags behind a user's room only while a command of his runs.
FollowInv ==
  \A u \in User :
    up /\ ~(call[u] = "run" /\ asked[u].op # "list")
      => saved[u].follows = room[u].follows

\* A handler that will still write a chat of the room of u to the stream s.
Due(chat, u, s) ==
  \E t \in Stream :
    /\ t[1] = chat[1] /\ handler[t].msg = chat[2]
    /\ \/ /\ handler[t].todo \in {SaveSteps, FindSteps}
          /\ chat[1] \in room[u].follows
       \/ handler[t].todo = SendSteps /\ s \in handler[t].left

MissInv ==
  \A u \in User :
    LET s == room[u].stream IN
    s # NoStream /\ handler[s].todo # ShowSteps =>
      \A chat \in room[u].chats \ base[s] :
        chat[1] # u => chat \in got[s] \/ Due(chat, u, s)

\* The inductive invariant.
IInv ==
  /\ TypeOK /\ HandlerInv /\ CallInv /\ RoomInv /\ StreamInv /\ UniqueInv
  /\ SaidInv /\ FileInv /\ RelayedSurvives /\ FollowInv
  /\ AnsweredCommandsKept /\ MissInv

-----------------------------------------------------------------------------
(***************************************************************************)
(* The steps of a message, and the other operators                         *)
(***************************************************************************)

\* They are sequences of steps, and none is empty.
LEMMA StepsType ==
  \A x \in {SetSteps, ShowSteps, Set2Steps, ChatSteps, SaveSteps, FindSteps,
            SendSteps} :
    /\ x \in Seq({"add", "show", "post", "save", "collect", "send"})
    /\ x # <<>>
<1> DEFINE D == {"add", "show", "post", "save", "collect", "send"}
<1>1. SetSteps \in Seq(D) /\ ShowSteps \in Seq(D) /\ Set2Steps \in Seq(D)
  BY DEF SetSteps, ShowSteps, Set2Steps
<1>2. ChatSteps \in Seq(D)
  BY DEF ChatSteps
<1>3. SaveSteps \in Seq(D) /\ FindSteps \in Seq(D) /\ SendSteps \in Seq(D)
  BY DEF SaveSteps, FindSteps, SendSteps
<1>4. \A x \in {SetSteps, ShowSteps, Set2Steps, ChatSteps, SaveSteps,
                FindSteps, SendSteps} : x # <<>>
  BY DEF SetSteps, ShowSteps, Set2Steps, ChatSteps, SaveSteps, FindSteps,
         SendSteps
<1> QED
  BY <1>1, <1>2, <1>3, <1>4

\* The step that each begins with, and what is left then.
LEMMA StepsHead ==
  /\ Head(SetSteps) = "add" /\ Tail(SetSteps) = ShowSteps
  /\ Head(ShowSteps) = "show" /\ Tail(ShowSteps) = <<>>
  /\ Head(Set2Steps) = "add" /\ Tail(Set2Steps) = <<>>
  /\ Head(ChatSteps) = "post" /\ Tail(ChatSteps) = SaveSteps
  /\ Head(SaveSteps) = "save" /\ Tail(SaveSteps) = FindSteps
  /\ Head(FindSteps) = "collect" /\ Tail(FindSteps) = SendSteps
  /\ Head(SendSteps) = "send" /\ Tail(SendSteps) = <<>>
BY DEF SetSteps, ShowSteps, Set2Steps, ChatSteps, SaveSteps, FindSteps, SendSteps

\* None is another.
LEMMA StepsDiffer ==
  /\ SetSteps # ShowSteps /\ Set2Steps # ShowSteps
  /\ ShowSteps \notin {ChatSteps, SaveSteps, FindSteps, SendSteps}
  /\ {SetSteps, ShowSteps, Set2Steps, ChatSteps, SaveSteps}
     \cap {FindSteps, SendSteps} = {}
  /\ FindSteps # SendSteps
  /\ {SetSteps, ShowSteps, Set2Steps, ChatSteps} \cap {SaveSteps} = {}
BY DEF SetSteps, ShowSteps, Set2Steps, ChatSteps, SaveSteps, FindSteps, SendSteps

\* What a handler that takes a step has read, and is left with.
LEMMA StepTaken ==
  ASSUME NEW h, AtStep(h), h.todo # <<>>
  PROVE  /\ Head(h.todo) = "add" =>
              \/ h.msg = "set" /\ Tail(h.todo) = ShowSteps
              \/ h.msg = "set2" /\ Tail(h.todo) = <<>>
         /\ Head(h.todo) = "show" =>
              h.msg = "set" /\ h.todo = ShowSteps /\ Tail(h.todo) = <<>>
         /\ Head(h.todo) = "post" =>
              /\ h.msg \in Message
              /\ h.todo = ChatSteps /\ Tail(h.todo) = SaveSteps
         /\ Head(h.todo) = "save" =>
              /\ h.msg \in Message
              /\ h.todo = SaveSteps /\ Tail(h.todo) = FindSteps
         /\ Head(h.todo) = "collect" =>
              /\ h.msg \in Message
              /\ h.todo = FindSteps /\ Tail(h.todo) = SendSteps
         /\ Head(h.todo) = "send" =>
              /\ h.msg \in Message
              /\ h.todo = SendSteps /\ Tail(h.todo) = <<>>
BY StepsHead DEF AtStep

\* A handler that has read a message is at its first step.
LEMMA MessageSteps ==
  ASSUME NEW what \in What
  PROVE  /\ Steps(what) \in {SetSteps, Set2Steps, ChatSteps}
         /\ Steps(what) \in Seq({"add", "show", "post", "save", "collect",
                                 "send"})
         /\ what # "none"
         /\ \A h : h.msg = what /\ h.todo = Steps(what) => AtStep(h)
<1>1. /\ what = "set" => Steps(what) = SetSteps
      /\ what = "set2" => Steps(what) = Set2Steps
      /\ what \in Message =>
           /\ what \notin {"set", "set2", "none"}
           /\ Steps(what) = ChatSteps
  BY MessageAssumption DEF Steps, SetSteps, Set2Steps, ChatSteps
<1>2. what = "set" \/ what = "set2" \/ what \in Message
  BY DEF What
<1> QED
  BY <1>1, <1>2, StepsType DEF AtStep

\* The handler of s goes on to its next step, and no other moves.
LEMMA StepDone ==
  ASSUME TypeOK, NEW s \in Stream, NEW todo, todo = Tail(handler[s].todo),
         todo = <<>> \/ todo \in {ShowSteps, SaveSteps, FindSteps, SendSteps},
         Done(s)
  PROVE  /\ handler' \in [Stream -> Handler]
         /\ \A t \in Stream \ {s} : handler'[t] = handler[t]
         /\ handler'[s].todo = todo
         /\ \A t \in Stream : /\ handler'[t].pc = handler[t].pc
                              /\ handler'[t].msg = handler[t].msg
                              /\ handler'[t].left = handler[t].left
<1>1. handler \in [Stream -> Handler] /\ handler[s] \in Handler
  BY DEF TypeOK
<1>2. handler' = [handler EXCEPT ![s] = [handler[s] EXCEPT !.todo = todo]]
  BY <1>1 DEF Done, Handler
<1>3. <<>> \in Seq({"add", "show", "post", "save", "collect", "send"})
  OBVIOUS
<1>4. todo \in Seq({"add", "show", "post", "save", "collect", "send"})
  BY <1>3, StepsType
<1> DEFINE new == [handler[s] EXCEPT !.todo = todo]
<1>5. /\ new \in Handler /\ new.todo = todo /\ new.pc = handler[s].pc
      /\ new.msg = handler[s].msg /\ new.left = handler[s].left
  BY <1>1, <1>4 DEF Handler
<1> HIDE DEF new
<1>6. handler' = [handler EXCEPT ![s] = new]
  BY <1>2 DEF new
<1> QED
  BY <1>1, <1>5, <1>6

\* Reading from a wire takes its first message away.
LEMMA WireRead ==
  ASSUME TypeOK, NEW s \in Stream, wire[s] # <<>>,
         wire' = [wire EXCEPT ![s] = Tail(@)]
  PROVE  /\ wire' \in [Stream -> Seq(What)]
         /\ Head(wire[s]) \in What
         /\ 1 \in DOMAIN wire[s] /\ Head(wire[s]) = wire[s][1]
         /\ \A t \in Stream \ {s} : wire'[t] = wire[t]
         /\ \A i \in DOMAIN wire'[s] :
              /\ i + 1 \in DOMAIN wire[s] /\ wire'[s][i] = wire[s][i + 1]
              /\ i \in Nat \ {0}
<1>1. wire \in [Stream -> Seq(What)] /\ wire[s] \in Seq(What)
  BY DEF TypeOK
<1>2. /\ Tail(wire[s]) \in Seq(What) /\ Head(wire[s]) \in What
      /\ 1 \in DOMAIN wire[s] /\ Head(wire[s]) = wire[s][1]
      /\ \A i \in DOMAIN Tail(wire[s]) :
           /\ i + 1 \in DOMAIN wire[s] /\ Tail(wire[s])[i] = wire[s][i + 1]
           /\ i \in Nat \ {0}
  BY <1>1
<1> QED
  BY <1>1, <1>2

\* The stream of one room changes, and nothing else of the rooms.
LEMMA StreamSet ==
  ASSUME TypeOK, NEW u \in User, NEW t \in Stream \cup {NoStream}, SetStream(u, t)
  PROVE  /\ room' \in [User -> Room]
         /\ \A w \in User : /\ room'[w].exists = room[w].exists
                            /\ room'[w].follows = room[w].follows
                            /\ room'[w].chats = room[w].chats
                            /\ w # u => room'[w].stream = room[w].stream
         /\ room'[u].stream = IF room[u].exists THEN t ELSE room[u].stream
<1>1. room \in [User -> Room] /\ room[u] \in Room
  BY DEF TypeOK
<1> DEFINE new == [room[u] EXCEPT !.stream = IF room[u].exists THEN t ELSE @]
<1>2. /\ new \in Room /\ new.exists = room[u].exists
      /\ new.follows = room[u].follows /\ new.chats = room[u].chats
      /\ new.stream = IF room[u].exists THEN t ELSE room[u].stream
  BY <1>1 DEF Room
<1>3. room' = [room EXCEPT ![u] = new]
  BY <1>1 DEF SetStream, Room
<1> HIDE DEF new
<1> QED
  BY <1>1, <1>2, <1>3

\* The file has the rooms, without their streams.
LEMMA WrittenRooms ==
  ASSUME NEW rooms \in [User -> Room]
  PROVE  /\ Written(rooms) \in [User -> SavedRoom]
         /\ \A u \in User : /\ Written(rooms)[u].exists = rooms[u].exists
                            /\ Written(rooms)[u].follows = rooms[u].follows
                            /\ Written(rooms)[u].chats = rooms[u].chats
<1>1. \A u \in User : rooms[u] \in Room
  OBVIOUS
<1> QED
  BY <1>1 DEF Written, Room, SavedRoom

-----------------------------------------------------------------------------
(***************************************************************************)
(* What the steps of a handler leave alone                                 *)
(***************************************************************************)

\* A handler that has something to do reads a stream of the server that runs.
LEMMA BusyReads ==
  ASSUME TypeOK, HandlerInv, NEW s \in Stream, handler[s].todo # <<>>
  PROVE  handler[s].pc = "read" /\ up /\ AtStep(handler[s])
<1>1. handler[s].pc \in {"read", "ended"}
  BY DEF TypeOK, Handler
<1> QED
  BY <1>1 DEF HandlerInv, Ended

\* One handler goes on with the message it has.
LEMMA StepFrame ==
  ASSUME IInv, NEW s \in Stream, handler[s].pc = "read", AtStep(handler[s])',
         \A t \in Stream : /\ handler'[t].pc = handler[t].pc
                          /\ handler'[t].msg = handler[t].msg,
         \A t \in Stream \ {s} : handler'[t] = handler[t],
         UNCHANGED <<up, wire, said, cur, call, mode, asked>>
  PROVE  HandlerInv' /\ UniqueInv' /\ SaidInv' /\ CallInv'
<1>1. HandlerInv /\ UniqueInv /\ SaidInv /\ CallInv
  BY DEF IInv
<1>2. HandlerInv'
  BY <1>1 DEF HandlerInv, AtStep
<1>3. UniqueInv'
  BY <1>1 DEF UniqueInv
<1>4. SaidInv' /\ CallInv'
  BY <1>1 DEF SaidInv, CallInv
<1> QED
  BY <1>2, <1>3, <1>4

\* Chats stay due when nobody who writes them moves and nobody is left.
LEMMA StillDue ==
  ASSUME NEW u \in User, NEW chat, NEW x, Due(chat, u, x),
         \A t \in Stream : handler[t].todo \in {SaveSteps, FindSteps, SendSteps}
                            => handler'[t] = handler[t],
         room[u].follows \subseteq room'[u].follows
  PROVE  Due(chat, u, x)'
BY DEF Due

-----------------------------------------------------------------------------
(***************************************************************************)
(* The handlers                                                            *)
(***************************************************************************)

\* A message is read.
LEMMA ReceiveInv ==
  ASSUME IInv, NEW s \in Stream, Receive(s)
  PROVE  IInv'
<1> DEFINE what == Head(wire[s])
<1>1. /\ TypeOK /\ HandlerInv /\ CallInv /\ RoomInv /\ StreamInv /\ UniqueInv
      /\ SaidInv /\ FileInv /\ RelayedSurvives /\ FollowInv
      /\ AnsweredCommandsKept /\ MissInv
  BY DEF IInv
<1>2. /\ up /\ handler[s].pc = "read" /\ handler[s].todo = <<>>
      /\ wire[s] # <<>> /\ wire' = [wire EXCEPT ![s] = Tail(@)]
      /\ handler' = [handler EXCEPT ![s].todo = Steps(what), ![s].msg = what]
      /\ UNCHANGED <<up, room, saved, got, base, relayed, overtaken, closed,
                     asked, call, told, mode, cur, first, starting, joining,
                     connected, logged, said, commands, failures>>
  BY DEF Receive, asking, client, bounds
<1>3. /\ wire' \in [Stream -> Seq(What)] /\ what \in What
      /\ 1 \in DOMAIN wire[s] /\ what = wire[s][1]
      /\ \A t \in Stream \ {s} : wire'[t] = wire[t]
      /\ \A i \in DOMAIN wire'[s] :
           /\ i + 1 \in DOMAIN wire[s] /\ wire'[s][i] = wire[s][i + 1]
           /\ i \in Nat \ {0}
  BY <1>1, <1>2, WireRead
<1> HIDE DEF what
<1> DEFINE new == [handler[s] EXCEPT !.todo = Steps(what), !.msg = what]
<1>4. handler \in [Stream -> Handler] /\ handler[s] \in Handler
  BY <1>1 DEF TypeOK
<1>5. /\ new \in Handler /\ new.todo = Steps(what) /\ new.pc = "read"
      /\ new.msg = what /\ new.left = handler[s].left
  BY <1>2, <1>3, <1>4, MessageSteps DEF Handler
<1>6. handler' = [handler EXCEPT ![s] = new]
  BY <1>2, <1>4 DEF Handler
<1> HIDE DEF new
<1>7. /\ handler' \in [Stream -> Handler] /\ handler'[s] = new
      /\ \A t \in Stream \ {s} : handler'[t] = handler[t]
      /\ \A t \in Stream :
           /\ handler'[t].pc = handler[t].pc
           /\ handler'[t].msg = IF t = s THEN what ELSE handler[t].msg
           /\ handler'[t].todo = IF t = s THEN Steps(what) ELSE handler[t].todo
  <2>1. /\ handler' \in [Stream -> Handler] /\ handler'[s] = new
        /\ \A t \in Stream \ {s} : handler'[t] = handler[t]
    BY <1>4, <1>5, <1>6
  <2>2. handler[s].pc = "read"
    BY <1>2
  <2> QED
    BY <1>5, <2>1, <2>2
<1>8. Steps(what) \in {SetSteps, Set2Steps, ChatSteps} /\ AtStep(new)
      /\ what # "none"
  BY <1>3, <1>5, MessageSteps
<1>9. TypeOK'
  BY <1>1, <1>2, <1>3, <1>7 DEF TypeOK
<1>10. HandlerInv'
  BY <1>1, <1>2, <1>5, <1>7, <1>8 DEF HandlerInv, AtStep
<1>11. CallInv' /\ RoomInv' /\ FollowInv' /\ RelayedSurvives'
       /\ AnsweredCommandsKept'
  BY <1>1, <1>2 DEF CallInv, RoomInv, FollowInv, RelayedSurvives,
                    AnsweredCommandsKept
<1>12. StreamInv'
  BY <1>1, <1>2, <1>5, <1>7, <1>8 DEF StreamInv
<1>13. SaidInv'
  BY <1>1, <1>2, <1>3, <1>5, <1>7 DEF SaidInv
<1>14. UniqueInv'
  <2> DEFINE Old(t, i) == IF t = s THEN i + 1 ELSE i
  <2>1. \A t \in Stream : \A i \in DOMAIN wire'[t] :
          Old(t, i) \in DOMAIN wire[t] /\ wire'[t][i] = wire[t][Old(t, i)]
    BY <1>3
  <2>2. \A t \in Stream : \A i \in DOMAIN wire'[t], j \in DOMAIN wire'[t] :
          Old(t, i) = Old(t, j) => i = j
    BY <1>3
  <2>3. \A i \in DOMAIN wire'[s] : Old(s, i) # 1
    BY <1>3
  <2> HIDE DEF Old
  <2>4. ASSUME NEW t \in Stream, NEW r \in Stream, handler'[t].msg \in Message,
               handler'[t].msg = handler'[r].msg
        PROVE  t = r
    <3>1. \A x \in Stream : wire[s][1] \in Message => handler[x].msg # wire[s][1]
      BY <1>1, <1>3 DEF UniqueInv
    <3>2. handler[t].msg \in Message /\ handler[t].msg = handler[r].msg => t = r
      BY <1>1 DEF UniqueInv
    <3> QED
      BY <1>3, <1>7, <2>4, <3>1, <3>2
  <2>5. ASSUME NEW t \in Stream, NEW r \in Stream, NEW i \in DOMAIN wire'[t],
               wire'[t][i] \in Message
        PROVE  handler'[r].msg # wire'[t][i]
    <3>1. handler[r].msg # wire'[t][i]
      BY <1>1, <2>1, <2>5 DEF UniqueInv
    <3>2. what # wire'[t][i]
      <4> SUFFICES ASSUME what = wire'[t][i] PROVE FALSE
        OBVIOUS
      <4>1. wire[s][1] \in Message /\ wire[s][1] = wire[t][Old(t, i)]
        BY <1>3, <2>1, <2>5
      <4>2. s = t /\ 1 = Old(t, i)
        BY <1>1, <1>3, <2>1, <4>1 DEF UniqueInv
      <4> QED
        BY <2>3, <4>2
    <3> QED
      BY <1>5, <1>7, <3>1, <3>2
  <2>6. ASSUME NEW t \in Stream, NEW r \in Stream, NEW i \in DOMAIN wire'[t],
               NEW j \in DOMAIN wire'[r],
               wire'[t][i] \in Message, wire'[t][i] = wire'[r][j]
        PROVE  t = r /\ i = j
    <3>1. t = r /\ Old(t, i) = Old(r, j)
      BY <1>1, <2>1, <2>6 DEF UniqueInv
    <3> QED
      BY <2>2, <3>1
  <2> QED
    BY <2>4, <2>5, <2>6 DEF UniqueInv
<1>15. FileInv'
  <2>1. Steps(what) \notin {FindSteps, SendSteps}
    BY <1>8, StepsDiffer
  <2> QED
    BY <1>1, <1>2, <1>7, <2>1 DEF FileInv
<1>16. MissInv'
  <2>1. \A t \in Stream :
          handler[t].todo \in {SaveSteps, FindSteps, SendSteps}
            => handler'[t] = handler[t]
    BY <1>2, <1>7, StepsType
  <2>2. \A u \in User : \A chat, x : Due(chat, u, x) => Due(chat, u, x)'
    BY <1>2, <2>1, StillDue
  <2>3. \A t \in Stream : handler'[t].todo # ShowSteps => handler[t].todo # ShowSteps
    BY <1>2, <1>7, StepsType
  <2> QED
    BY <1>1, <1>2, <2>2, <2>3 DEF MissInv, StreamInv
<1> QED
  BY <1>9, <1>10, <1>11, <1>12, <1>13, <1>14, <1>15, <1>16 DEF IInv

\* The room gets the stream.
LEMMA AddStreamInv ==
  ASSUME IInv, NEW s \in Stream, AddStream(s)
  PROVE  IInv'
<1> DEFINE todo == Tail(handler[s].todo)
<1>1. /\ TypeOK /\ HandlerInv /\ CallInv /\ RoomInv /\ StreamInv /\ UniqueInv
      /\ SaidInv /\ FileInv /\ RelayedSurvives /\ FollowInv
      /\ AnsweredCommandsKept /\ MissInv
  BY DEF IInv
<1>2. /\ handler[s].todo # <<>> /\ Head(handler[s].todo) = "add"
      /\ SetStream(s[1], s) /\ Done(s)
      /\ base' = [base EXCEPT ![s] =
                    IF handler[s].msg = "set" THEN {} ELSE room[s[1]].chats]
      /\ overtaken' = Overtakes(s)
      /\ UNCHANGED <<up, saved, got, relayed, wire, closed, asked, call, told,
                     mode, cur, first, starting, joining, connected, logged,
                     said, commands, failures>>
  BY DEF AddStream, Doing, network, asking, client, bounds
<1>3. handler[s].pc = "read" /\ up /\ AtStep(handler[s])
  BY <1>1, <1>2, BusyReads
<1>4. \/ handler[s].msg = "set" /\ todo = ShowSteps
      \/ handler[s].msg = "set2" /\ todo = <<>>
  BY <1>2, <1>3, StepTaken
<1>5. handler[s].todo \notin {SaveSteps, FindSteps, SendSteps}
  BY <1>2, StepsHead
<1> HIDE DEF todo
<1>6. /\ handler' \in [Stream -> Handler]
      /\ \A t \in Stream \ {s} : handler'[t] = handler[t]
      /\ handler'[s].todo = todo
      /\ \A t \in Stream : /\ handler'[t].pc = handler[t].pc
                           /\ handler'[t].msg = handler[t].msg
                           /\ handler'[t].left = handler[t].left
  BY <1>1, <1>2, <1>4, StepDone DEF todo
<1>7. s[1] \in User
  BY DEF Stream
<1>8. /\ room' \in [User -> Room]
      /\ \A w \in User : /\ room'[w].exists = room[w].exists
                         /\ room'[w].follows = room[w].follows
                         /\ room'[w].chats = room[w].chats
                         /\ w # s[1] => room'[w].stream = room[w].stream
      /\ room'[s[1]].stream = IF room[s[1]].exists THEN s ELSE room[s[1]].stream
  BY <1>1, <1>2, <1>7, StreamSet
<1>9. TypeOK'
  <2>1. base' \in [Stream -> SUBSET Chat]
    BY <1>1, <1>2, <1>7 DEF TypeOK, Room
  <2>2. overtaken' \subseteq User
    BY <1>1, <1>2, <1>7 DEF TypeOK, Overtakes
  <2>3. \A u \in User : room'[u].stream # NoStream => room'[u].stream[1] = u
    BY <1>1, <1>8 DEF StreamInv
  <2> QED
    BY <1>1, <1>2, <1>6, <1>8, <2>1, <2>2, <2>3 DEF TypeOK
<1>10. HandlerInv' /\ UniqueInv' /\ SaidInv' /\ CallInv'
  <2>1. AtStep(handler[s])'
    BY <1>4, <1>6 DEF AtStep
  <2> QED
    BY <1>2, <1>3, <1>6, <2>1, StepFrame
<1>11. RoomInv' /\ FollowInv' /\ RelayedSurvives' /\ AnsweredCommandsKept'
  BY <1>1, <1>2, <1>8 DEF RoomInv, FollowInv, RelayedSurvives,
                          AnsweredCommandsKept
<1>12. StreamInv'
  BY <1>1, <1>3, <1>4, <1>6, <1>8 DEF StreamInv
<1>13. FileInv'
  <2>1. todo \notin {FindSteps, SendSteps}
    BY <1>4, StepsType, StepsDiffer
  <2> QED
    BY <1>1, <1>2, <1>6, <1>8, <2>1 DEF FileInv
<1>14. MissInv'
  <2>1. ASSUME NEW u \in User, room'[u].stream # NoStream,
               handler'[room'[u].stream].todo # ShowSteps,
               NEW chat \in room'[u].chats \ base'[room'[u].stream],
               chat[1] # u
        PROVE  chat \in got'[room'[u].stream] \/ Due(chat, u, room[u].stream)'
    <3>1. CASE u = s[1] /\ room[u].exists
      <4>1. room'[u].stream = s /\ handler[s].msg # "set"
        BY <1>4, <1>6, <1>8, <2>1, <3>1
      <4>2. base'[s] = room[s[1]].chats
        BY <1>1, <1>2, <4>1 DEF TypeOK
      <4> QED
        BY <1>8, <2>1, <3>1, <4>1, <4>2
    <3>2. CASE ~(u = s[1] /\ room[u].exists)
      <4>1. /\ room'[u].stream = room[u].stream /\ room[u].stream \in Stream
            /\ room[u].stream # s
        BY <1>1, <1>8, <2>1, <3>2 DEF RoomInv, StreamInv
      <4>2. chat \in got[room[u].stream] \/ Due(chat, u, room[u].stream)
        <5>1. base'[room[u].stream] = base[room[u].stream]
          BY <1>1, <1>2, <4>1 DEF TypeOK
        <5>2. handler[room[u].stream].todo # ShowSteps
          BY <1>6, <2>1, <4>1
        <5> QED
          BY <1>1, <1>8, <2>1, <4>1, <5>1, <5>2 DEF MissInv
      <4> QED
        BY <1>2, <1>5, <1>6, <1>8, <4>1, <4>2, StillDue
    <3> QED
      BY <3>1, <3>2
  <2> QED
    BY <2>1 DEF MissInv
<1> QED
  BY <1>9, <1>10, <1>11, <1>12, <1>13, <1>14 DEF IInv

\* The chats of the room are written to the stream.
LEMMA ShowChatsInv ==
  ASSUME IInv, NEW s \in Stream, ShowChats(s)
  PROVE  IInv'
<1> DEFINE todo == Tail(handler[s].todo)
<1>1. /\ TypeOK /\ HandlerInv /\ CallInv /\ RoomInv /\ StreamInv /\ UniqueInv
      /\ SaidInv /\ FileInv /\ RelayedSurvives /\ FollowInv
      /\ AnsweredCommandsKept /\ MissInv
  BY DEF IInv
<1>2. /\ handler[s].todo # <<>> /\ Head(handler[s].todo) = "show"
      /\ Done(s)
      /\ got' = [got EXCEPT ![s] = @ \cup room[s[1]].chats]
      /\ UNCHANGED <<up, room, saved, base, relayed, overtaken, wire, closed,
                     asked, call, told, mode, cur, first, starting, joining,
                     connected, logged, said, commands, failures>>
  BY DEF ShowChats, Doing, SortedChats, network, asking, client, bounds
<1>3. handler[s].pc = "read" /\ up /\ AtStep(handler[s])
  BY <1>1, <1>2, BusyReads
<1>4. handler[s].msg = "set" /\ handler[s].todo = ShowSteps /\ todo = <<>>
  BY <1>2, <1>3, StepTaken
<1> HIDE DEF todo
<1>5. /\ handler' \in [Stream -> Handler]
      /\ \A t \in Stream \ {s} : handler'[t] = handler[t]
      /\ handler'[s].todo = todo
      /\ \A t \in Stream : /\ handler'[t].pc = handler[t].pc
                           /\ handler'[t].msg = handler[t].msg
                           /\ handler'[t].left = handler[t].left
  BY <1>1, <1>2, <1>4, StepDone DEF todo
<1>6. s[1] \in User
  BY DEF Stream
<1>7. HandlerInv' /\ UniqueInv' /\ SaidInv' /\ CallInv'
  <2>1. AtStep(handler[s])'
    BY <1>4, <1>5 DEF AtStep
  <2> QED
    BY <1>2, <1>3, <1>5, <2>1, StepFrame
<1>8. /\ got' \in [Stream -> SUBSET Chat]
      /\ \A t \in Stream : got[t] \subseteq got'[t]
      /\ room[s[1]].chats \subseteq got'[s]
  <2>1. got \in [Stream -> SUBSET Chat] /\ room[s[1]].chats \subseteq Chat
    BY <1>1, <1>6 DEF TypeOK, Room
  <2> QED
    BY <1>2, <2>1
<1>9. TypeOK'
  BY <1>1, <1>2, <1>5, <1>8 DEF TypeOK
<1>10. RoomInv' /\ FollowInv' /\ RelayedSurvives' /\ AnsweredCommandsKept'
  BY <1>1, <1>2 DEF RoomInv, FollowInv, RelayedSurvives, AnsweredCommandsKept
<1>11. StreamInv'
  BY <1>1, <1>2, <1>5 DEF StreamInv
<1>12. FileInv'
  <2>1. todo \notin {FindSteps, SendSteps}
    BY <1>4, StepsType
  <2> QED
    BY <1>1, <1>2, <1>5, <2>1 DEF FileInv
<1>13. MissInv'
  <2>1. ASSUME NEW u \in User, room[u].stream # NoStream,
               handler'[room[u].stream].todo # ShowSteps,
               NEW chat \in room[u].chats \ base[room[u].stream],
               chat[1] # u
        PROVE  chat \in got'[room[u].stream] \/ Due(chat, u, room[u].stream)'
    <3>1. room[u].stream \in Stream /\ room[u].stream[1] = u
      BY <1>1, <2>1 DEF StreamInv
    <3>2. CASE room[u].stream = s
      BY <1>8, <2>1, <3>1, <3>2
    <3>3. CASE room[u].stream # s
      <4>1. chat \in got[room[u].stream] \/ Due(chat, u, room[u].stream)
        BY <1>1, <1>5, <2>1, <3>1, <3>3 DEF MissInv
      <4>2. handler[s].todo \notin {SaveSteps, FindSteps, SendSteps}
        BY <1>4, StepsDiffer
      <4> QED
        BY <1>2, <1>5, <1>8, <3>1, <4>1, <4>2, StillDue
    <3> QED
      BY <3>2, <3>3
  <2> QED
    BY <1>2, <2>1 DEF MissInv
<1> QED
  BY <1>7, <1>9, <1>10, <1>11, <1>12, <1>13 DEF IInv

\* The chat is put into the rooms of those who follow its sender.
LEMMA PostChatInv ==
  ASSUME IInv, NEW s \in Stream, PostChat(s)
  PROVE  IInv'
<1> DEFINE todo == Tail(handler[s].todo)
           new == <<s[1], handler[s].msg>>
<1>1. /\ TypeOK /\ HandlerInv /\ CallInv /\ RoomInv /\ StreamInv /\ UniqueInv
      /\ SaidInv /\ FileInv /\ RelayedSurvives /\ FollowInv
      /\ AnsweredCommandsKept /\ MissInv
  BY DEF IInv
<1>2. /\ handler[s].todo # <<>> /\ Head(handler[s].todo) = "post"
      /\ Done(s)
      /\ room' = [u \in User |->
                    IF s[1] \in room[u].follows
                    THEN [room[u] EXCEPT !.chats = @ \cup {new}] ELSE room[u]]
      /\ UNCHANGED <<up, saved, got, base, relayed, overtaken, wire, closed,
                     asked, call, told, mode, cur, first, starting, joining,
                     connected, logged, said, commands, failures>>
  BY DEF PostChat, Doing, HasJoined, network, asking, client, bounds
<1>3. handler[s].pc = "read" /\ up /\ AtStep(handler[s])
  BY <1>1, <1>2, BusyReads
<1>4. /\ handler[s].msg \in Message
      /\ handler[s].todo = ChatSteps /\ todo = SaveSteps
  BY <1>2, <1>3, StepTaken
<1> HIDE DEF todo
<1>5. /\ handler' \in [Stream -> Handler]
      /\ \A t \in Stream \ {s} : handler'[t] = handler[t]
      /\ handler'[s].todo = todo
      /\ \A t \in Stream : /\ handler'[t].pc = handler[t].pc
                           /\ handler'[t].msg = handler[t].msg
                           /\ handler'[t].left = handler[t].left
  BY <1>1, <1>2, <1>4, StepDone DEF todo
<1>6. s[1] \in User
  BY DEF Stream
<1>7. HandlerInv' /\ UniqueInv' /\ SaidInv' /\ CallInv'
  <2>1. AtStep(handler[s])'
    BY <1>4, <1>5 DEF AtStep
  <2> QED
    BY <1>2, <1>3, <1>5, <2>1, StepFrame
<1>8. new \in Chat /\ new[1] = s[1] /\ new[2] = handler[s].msg
  BY <1>4, <1>6 DEF Chat
<1> HIDE DEF new
<1>9. /\ room' \in [User -> Room]
      /\ \A u \in User :
           /\ room'[u].exists = room[u].exists
           /\ room'[u].follows = room[u].follows
           /\ room'[u].stream = room[u].stream
           /\ room'[u].chats = IF s[1] \in room[u].follows
                               THEN room[u].chats \cup {new} ELSE room[u].chats
  <2>1. room \in [User -> Room]
    BY <1>1 DEF TypeOK
  <2>2. ASSUME NEW u \in User
        PROVE  /\ [room[u] EXCEPT !.chats = @ \cup {new}] \in Room
               /\ [room[u] EXCEPT !.chats = @ \cup {new}].exists = room[u].exists
               /\ [room[u] EXCEPT !.chats = @ \cup {new}].follows = room[u].follows
               /\ [room[u] EXCEPT !.chats = @ \cup {new}].stream = room[u].stream
               /\ [room[u] EXCEPT !.chats = @ \cup {new}].chats
                    = room[u].chats \cup {new}
    BY <1>8, <2>1 DEF Room
  <2> QED
    BY <1>2, <2>1, <2>2
<1>10. TypeOK'
  <2>1. \A u \in User : room'[u].stream # NoStream => room'[u].stream[1] = u
    BY <1>1, <1>9 DEF StreamInv
  <2>2. handler' \in [Stream -> Handler] /\ room' \in [User -> Room]
    BY <1>5, <1>9
  <2> QED
    BY <1>1, <1>2, <2>1, <2>2 DEF TypeOK
<1>11. RoomInv' /\ FollowInv' /\ RelayedSurvives' /\ AnsweredCommandsKept'
  BY <1>1, <1>2, <1>9 DEF RoomInv, FollowInv, RelayedSurvives,
                          AnsweredCommandsKept
<1>12. StreamInv'
  BY <1>1, <1>2, <1>5, <1>9 DEF StreamInv
<1>13. FileInv'
  <2>1. todo \notin {FindSteps, SendSteps}
    BY <1>4, StepsDiffer
  <2>2. \A t \in Stream \ {s} : handler[t].msg # handler[s].msg
    BY <1>1, <1>4 DEF UniqueInv
  <2>3. up => \A u \in User : saved[u].chats \subseteq room'[u].chats
    BY <1>1, <1>9 DEF FileInv
  <2>4. ASSUME NEW t \in Stream, NEW u \in User,
               handler'[t].todo \in {FindSteps, SendSteps},
               <<t[1], handler'[t].msg>> \in room'[u].chats
        PROVE  <<t[1], handler'[t].msg>> \in saved[u].chats
    <3>1. t # s
      BY <1>5, <2>1, <2>4
    <3>2. <<t[1], handler[t].msg>> # new
      BY <1>8, <2>2, <3>1
    <3>3. handler'[t] = handler[t]
      BY <1>5, <3>1
    <3>4. <<t[1], handler[t].msg>> \in room'[u].chats
      BY <2>4, <3>3
    <3>5. room'[u].chats \subseteq room[u].chats \cup {new}
      BY <1>9
    <3>6. <<t[1], handler[t].msg>> \in room[u].chats
      BY <3>2, <3>4, <3>5
    <3> QED
      BY <1>1, <2>4, <3>3, <3>6 DEF FileInv
  <2> QED
    BY <1>2, <2>3, <2>4 DEF FileInv
<1>14. MissInv'
  <2>1. ASSUME NEW u \in User, room[u].stream # NoStream,
               handler'[room[u].stream].todo # ShowSteps,
               NEW chat \in room'[u].chats \ base[room[u].stream],
               chat[1] # u
        PROVE  chat \in got[room[u].stream] \/ Due(chat, u, room[u].stream)'
    <3>1. room[u].stream \in Stream
      BY <1>1, <2>1 DEF StreamInv
    <3>2. CASE chat \in room[u].chats
      <4>1. handler[room[u].stream].todo # ShowSteps
        BY <1>4, <1>5, <2>1, <3>1, StepsDiffer
      <4>2. chat \in got[room[u].stream] \/ Due(chat, u, room[u].stream)
        BY <1>1, <2>1, <3>1, <3>2, <4>1 DEF MissInv
      <4>3. handler[s].todo \notin {SaveSteps, FindSteps, SendSteps}
        BY <1>4, StepsDiffer
      <4> QED
        BY <1>5, <1>9, <4>2, <4>3, StillDue
    <3>3. CASE chat \notin room[u].chats
      <4>1. s[1] \in room[u].follows /\ chat = new
        BY <1>9, <2>1, <3>3
      <4> QED
        BY <1>4, <1>5, <1>8, <1>9, <4>1 DEF Due
    <3> QED
      BY <3>2, <3>3
  <2> QED
    BY <1>2, <1>9, <2>1 DEF MissInv
<1> QED
  BY <1>7, <1>10, <1>11, <1>12, <1>13, <1>14 DEF IInv

\* The rooms are written to the file.
LEMMA SaveRoomsInv ==
  ASSUME IInv, NEW s \in Stream, SaveRooms(s)
  PROVE  IInv'
<1> DEFINE todo == Tail(handler[s].todo)
<1>1. /\ TypeOK /\ HandlerInv /\ CallInv /\ RoomInv /\ StreamInv /\ UniqueInv
      /\ SaidInv /\ FileInv /\ RelayedSurvives /\ FollowInv
      /\ AnsweredCommandsKept /\ MissInv
  BY DEF IInv
<1>2. /\ handler[s].todo # <<>> /\ Head(handler[s].todo) = "save"
      /\ Done(s)
      /\ saved' = Written(room)
      /\ UNCHANGED <<up, room, got, base, relayed, overtaken, wire, closed,
                     asked, call, told, mode, cur, first, starting, joining,
                     connected, logged, said, commands, failures>>
  BY DEF SaveRooms, Doing, network, asking, client, bounds
<1>3. handler[s].pc = "read" /\ up /\ AtStep(handler[s])
  BY <1>1, <1>2, BusyReads
<1>4. /\ handler[s].msg \in Message
      /\ handler[s].todo = SaveSteps /\ todo = FindSteps
  BY <1>2, <1>3, StepTaken
<1> HIDE DEF todo
<1>5. /\ handler' \in [Stream -> Handler]
      /\ \A t \in Stream \ {s} : handler'[t] = handler[t]
      /\ handler'[s].todo = todo
      /\ \A t \in Stream : /\ handler'[t].pc = handler[t].pc
                           /\ handler'[t].msg = handler[t].msg
                           /\ handler'[t].left = handler[t].left
  BY <1>1, <1>2, <1>4, StepDone DEF todo
<1>6. s[1] \in User
  BY DEF Stream
<1>7. HandlerInv' /\ UniqueInv' /\ SaidInv' /\ CallInv'
  <2>1. AtStep(handler[s])'
    BY <1>4, <1>5 DEF AtStep
  <2> QED
    BY <1>2, <1>3, <1>5, <2>1, StepFrame
<1>8. /\ saved' \in [User -> SavedRoom]
      /\ \A u \in User : /\ saved'[u].exists = room[u].exists
                         /\ saved'[u].follows = room[u].follows
                         /\ saved'[u].chats = room[u].chats
  <2>1. room \in [User -> Room]
    BY <1>1 DEF TypeOK
  <2> QED
    BY <1>2, <2>1, WrittenRooms
<1>9. TypeOK'
  BY <1>1, <1>2, <1>5, <1>8 DEF TypeOK
<1>10. RoomInv' /\ FollowInv' /\ StreamInv'
  BY <1>1, <1>2, <1>5, <1>8 DEF RoomInv, FollowInv, StreamInv
<1>11. RelayedSurvives' /\ AnsweredCommandsKept' /\ FileInv'
  <2>1. \A r \in relayed : r[1] \in User
    BY <1>1 DEF TypeOK
  <2>2. RelayedSurvives'
    BY <1>1, <1>2, <1>3, <1>8, <2>1 DEF RelayedSurvives, FileInv
  <2>3. \A u \in User : mode[u] # "ask" => saved[u].follows = room[u].follows
    BY <1>1, <1>3 DEF FollowInv, CallInv
  <2>4. AnsweredCommandsKept'
    BY <1>1, <1>2, <1>8, <2>3 DEF AnsweredCommandsKept
  <2> QED
    BY <1>2, <1>8, <2>2, <2>4 DEF FileInv
<1>12. MissInv'
  <2>1. ASSUME NEW u \in User, room[u].stream # NoStream,
               handler'[room[u].stream].todo # ShowSteps,
               NEW chat \in room[u].chats \ base[room[u].stream],
               chat[1] # u
        PROVE  chat \in got[room[u].stream] \/ Due(chat, u, room[u].stream)'
    <3>1. room[u].stream \in Stream
      BY <1>1, <2>1 DEF StreamInv
    <3>2. handler[room[u].stream].todo # ShowSteps
      BY <1>4, <1>5, <2>1, <3>1, StepsDiffer
    <3>3. chat \in got[room[u].stream] \/ Due(chat, u, room[u].stream)
      BY <1>1, <2>1, <3>1, <3>2 DEF MissInv
    <3>4. Due(chat, u, room[u].stream) => Due(chat, u, room[u].stream)'
      BY <1>2, <1>4, <1>5, StepsDiffer DEF Due
    <3> QED
      BY <3>3, <3>4
  <2> QED
    BY <1>2, <2>1 DEF MissInv
<1> QED
  BY <1>7, <1>9, <1>10, <1>11, <1>12 DEF IInv

\* The streams that the chat is to be written to are found.
LEMMA CollectInv ==
  ASSUME IInv, NEW s \in Stream, Collect(s)
  PROVE  IInv'
<1> DEFINE found == {room[u].stream :
                       u \in {w \in User \ {s[1]} : s[1] \in room[w].follows}}
                    \ {NoStream}
<1>1. /\ TypeOK /\ HandlerInv /\ CallInv /\ RoomInv /\ StreamInv /\ UniqueInv
      /\ SaidInv /\ FileInv /\ RelayedSurvives /\ FollowInv
      /\ AnsweredCommandsKept /\ MissInv
  BY DEF IInv
<1>2. /\ handler[s].todo # <<>> /\ Head(handler[s].todo) = "collect"
      /\ handler' = [handler EXCEPT ![s].todo = Tail(@), ![s].left = found]
      /\ UNCHANGED <<up, room, saved, got, base, relayed, overtaken, wire,
                     closed, asked, call, told, mode, cur, first, starting,
                     joining, connected, logged, said, commands, failures>>
  BY DEF Collect, Doing, HasJoined, network, asking, client, bounds
<1>3. handler[s].pc = "read" /\ up /\ AtStep(handler[s])
  BY <1>1, <1>2, BusyReads
<1>4. /\ handler[s].msg \in Message
      /\ handler[s].todo = FindSteps /\ Tail(handler[s].todo) = SendSteps
  BY <1>2, <1>3, StepTaken
<1>5. found \subseteq Stream
  BY <1>1 DEF TypeOK, Room
<1>6. \A u \in User : /\ s[1] \in room[u].follows /\ u # s[1]
                      /\ room[u].stream # NoStream
                      => room[u].stream \in found
  OBVIOUS
<1> HIDE DEF found
<1>7. /\ handler' \in [Stream -> Handler]
      /\ \A t \in Stream \ {s} : handler'[t] = handler[t]
      /\ handler'[s].todo = SendSteps /\ handler'[s].left = found
      /\ \A t \in Stream : /\ handler'[t].pc = handler[t].pc
                           /\ handler'[t].msg = handler[t].msg
  <2> DEFINE new == [handler[s] EXCEPT !.todo = SendSteps, !.left = found]
  <2>1. handler \in [Stream -> Handler] /\ handler[s] \in Handler
    BY <1>1 DEF TypeOK
  <2>2. /\ new \in Handler /\ new.todo = SendSteps /\ new.left = found
        /\ new.pc = handler[s].pc /\ new.msg = handler[s].msg
    BY <1>5, <2>1, StepsType DEF Handler
  <2>3. handler' = [handler EXCEPT ![s] = new]
    BY <1>2, <1>4, <2>1 DEF Handler
  <2> HIDE DEF new
  <2> QED
    BY <2>1, <2>2, <2>3
<1>8. HandlerInv' /\ UniqueInv' /\ SaidInv' /\ CallInv'
  <2>1. AtStep(handler[s])'
    BY <1>4, <1>7 DEF AtStep
  <2> QED
    BY <1>2, <1>3, <1>7, <2>1, StepFrame
<1>9. TypeOK'
  BY <1>1, <1>2, <1>7 DEF TypeOK
<1>10. /\ RoomInv' /\ FollowInv' /\ StreamInv' /\ RelayedSurvives'
       /\ AnsweredCommandsKept'
  BY <1>1, <1>2, <1>7 DEF RoomInv, FollowInv, StreamInv, RelayedSurvives,
                          AnsweredCommandsKept
<1>11. FileInv'
  BY <1>1, <1>2, <1>4, <1>7 DEF FileInv
<1>12. MissInv'
  <2>1. ASSUME NEW u \in User, room[u].stream # NoStream,
               handler'[room[u].stream].todo # ShowSteps,
               NEW chat \in room[u].chats \ base[room[u].stream],
               chat[1] # u
        PROVE  chat \in got[room[u].stream] \/ Due(chat, u, room[u].stream)'
    <3>1. room[u].stream \in Stream
      BY <1>1, <2>1 DEF StreamInv
    <3>2. handler[room[u].stream].todo # ShowSteps
      BY <1>4, <1>7, <2>1, <3>1, StepsDiffer
    <3>3. chat \in got[room[u].stream] \/ Due(chat, u, room[u].stream)
      BY <1>1, <2>1, <3>1, <3>2 DEF MissInv
    <3>4. ASSUME Due(chat, u, room[u].stream)
          PROVE  Due(chat, u, room[u].stream)'
      <4>1. PICK t \in Stream :
              /\ t[1] = chat[1] /\ handler[t].msg = chat[2]
              /\ \/ /\ handler[t].todo \in {SaveSteps, FindSteps}
                    /\ chat[1] \in room[u].follows
                 \/ /\ handler[t].todo = SendSteps
                    /\ room[u].stream \in handler[t].left
        BY <3>4 DEF Due
      <4>2. CASE t = s
        <5>1. room[u].stream \in handler'[s].left
          BY <1>4, <1>6, <1>7, <2>1, <4>1, <4>2, StepsDiffer
        <5> QED
          BY <1>2, <1>7, <4>1, <4>2, <5>1 DEF Due
      <4>3. CASE t # s
        BY <1>2, <1>7, <4>1, <4>3 DEF Due
      <4> QED
        BY <4>2, <4>3
    <3> QED
      BY <3>3, <3>4
  <2> QED
    BY <1>2, <2>1 DEF MissInv
<1> QED
  BY <1>8, <1>9, <1>10, <1>11, <1>12 DEF IInv

\* The file that a master leaves has the rooms that were written, with all that
\* has been answered and told.
LEMMA FileLeft ==
  ASSUME IInv, up, Die, UNCHANGED mode
  PROVE  /\ saved' \in [User -> SavedRoom] /\ told' \in [User -> SUBSET User]
         /\ relayed' \subseteq relayed /\ logged' \subseteq logged
         /\ \A u \in User : IF saved'[u].exists THEN u \in saved'[u].follows
                            ELSE saved'[u].follows = {}
         /\ RelayedSurvives' /\ AnsweredCommandsKept'
<1>1. /\ TypeOK /\ CallInv /\ RoomInv /\ FileInv /\ RelayedSurvives
      /\ FollowInv /\ AnsweredCommandsKept
  BY DEF IInv
<1>2. CASE UNCHANGED <<saved, told, relayed, logged>>
  BY <1>1, <1>2 DEF TypeOK, RoomInv, RelayedSurvives, AnsweredCommandsKept
<1>3. ASSUME NEW whole \in SUBSET User,
             saved' = Written([u \in User |->
                                 IF u \in whole THEN room[u] ELSE NoRoom]),
             told' = [u \in User |-> IF u \in whole THEN told[u] ELSE {}],
             relayed' = {r \in relayed : r[1] \in whole},
             logged' = logged \cap whole
      PROVE  /\ saved' \in [User -> SavedRoom] /\ told' \in [User -> SUBSET User]
             /\ relayed' \subseteq relayed /\ logged' \subseteq logged
             /\ \A u \in User : IF saved'[u].exists THEN u \in saved'[u].follows
                                ELSE saved'[u].follows = {}
             /\ RelayedSurvives' /\ AnsweredCommandsKept'
  <2>1. PICK rooms : rooms = [u \in User |-> IF u \in whole THEN room[u] ELSE NoRoom]
    OBVIOUS
  <2>2. /\ NoRoom \in Room /\ NoRoom.exists = FALSE /\ NoRoom.follows = {}
        /\ room \in [User -> Room] /\ told \in [User -> SUBSET User]
        /\ relayed \subseteq User \X Chat
    BY <1>1 DEF NoRoom, Room, TypeOK
  <2>3. rooms \in [User -> Room]
    BY <2>1, <2>2
  <2>4. /\ saved' \in [User -> SavedRoom]
        /\ \A u \in User : /\ saved'[u].exists = rooms[u].exists
                           /\ saved'[u].follows = rooms[u].follows
                           /\ saved'[u].chats = rooms[u].chats
    BY <1>3, <2>1, <2>3, WrittenRooms
  <2>5. told' \in [User -> SUBSET User]
    BY <1>3, <2>2
  <2>6. ASSUME NEW u \in User
        PROVE  IF saved'[u].exists THEN u \in saved'[u].follows
               ELSE saved'[u].follows = {}
    <3>1. CASE u \in whole
      BY <1>1, <2>1, <2>4, <3>1 DEF RoomInv
    <3>2. CASE u \notin whole
      BY <2>1, <2>2, <2>4, <3>2
    <3> QED
      BY <3>1, <3>2
  <2>7. ASSUME NEW r \in relayed'
        PROVE  r[2] \in saved'[r[1]].chats
    <3>1. r \in relayed /\ r[1] \in whole /\ r[1] \in User
      BY <1>3, <2>2
    <3>2. r[2] \in saved[r[1]].chats
      BY <1>1, <3>1 DEF RelayedSurvives
    <3>3. r[2] \in room[r[1]].chats
      BY <1>1, <3>1, <3>2 DEF FileInv
    <3> QED
      BY <2>1, <2>4, <3>1, <3>3
  <2>8. ASSUME NEW u \in User, mode'[u] # "ask", told'[u] # {}
        PROVE  saved'[u].follows = told'[u]
    <3>1. u \in whole /\ told'[u] = told[u]
      BY <1>3, <2>8
    <3>2. saved[u].follows = told[u] /\ call[u] = "no"
      BY <1>1, <2>8, <3>1 DEF AnsweredCommandsKept, CallInv
    <3>3. saved[u].follows = room[u].follows
      BY <1>1, <3>2 DEF FollowInv
    <3> QED
      BY <2>1, <2>4, <3>1, <3>2, <3>3
  <2> QED
    BY <1>3, <2>4, <2>5, <2>6, <2>7, <2>8 DEF RelayedSurvives,
                                              AnsweredCommandsKept
<1> QED
  BY <1>2, <1>3 DEF Die, CutShort

\* The master is gone.
LEMMA DieInv ==
  ASSUME IInv, up, Die, failures' \in 0 .. MaxFailures,
         UNCHANGED <<overtaken, asked, mode, first, starting, joining,
                     connected, said, commands>>
  PROVE  IInv'
<1>1. /\ TypeOK /\ HandlerInv /\ CallInv /\ RoomInv /\ StreamInv /\ UniqueInv
      /\ SaidInv /\ FileInv /\ RelayedSurvives /\ FollowInv
      /\ AnsweredCommandsKept /\ MissInv
  BY DEF IInv
<1>2. /\ ~up' /\ room' = [u \in User |-> NoRoom]
      /\ call' = [u \in User |-> IF mode[u] = "ask" THEN "failed" ELSE "no"]
      /\ handler' = [s \in Stream |-> Ended] /\ up' \in BOOLEAN
      /\ wire' = [s \in Stream |-> <<>>] /\ closed' = {}
      /\ cur' = [u \in User |-> 0]
      /\ got' = [s \in Stream |-> {}] /\ base' = [s \in Stream |-> {}]
  BY DEF Die
<1>3. /\ NoRoom \in Room /\ NoRoom.exists = FALSE /\ NoRoom.follows = {}
      /\ NoRoom.stream = NoStream
  BY DEF NoRoom, Room
<1>4. /\ Ended \in Handler /\ Ended.pc = "ended" /\ Ended.todo = <<>>
      /\ Ended.msg = "none"
  <2>1. <<>> \in Seq({"add", "show", "post", "save", "collect", "send"})
    OBVIOUS
  <2> QED
    BY <2>1 DEF Ended, Handler
<1>5. "none" \notin Message
  BY MessageAssumption
<1>6. <<>> \in Seq(What) /\ DOMAIN <<>> = {}
  OBVIOUS
<1>7. TypeOK'
  <2>1. MaxStreams \in Nat
    BY BoundsAssumption
  <2>2. room' \in [User -> Room] /\ handler' \in [Stream -> Handler]
    BY <1>2, <1>3, <1>4
  <2>3. /\ wire' \in [Stream -> Seq(What)] /\ closed' \subseteq Stream
        /\ got' \in [Stream -> SUBSET Chat] /\ base' \in [Stream -> SUBSET Chat]
    BY <1>2, <1>6
  <2>4. /\ call' \in [User -> {"no", "run", "kept", "failed"}]
        /\ cur' \in [User -> 0 .. MaxStreams]
    BY <1>2, <2>1
  <2>5. \A u \in User : room'[u].stream # NoStream => room'[u].stream[1] = u
    BY <1>2, <1>3
  <2>6. /\ saved' \in [User -> SavedRoom] /\ told' \in [User -> SUBSET User]
        /\ relayed' \subseteq User \X Chat /\ logged' \subseteq User
    <3>1. /\ saved' \in [User -> SavedRoom] /\ told' \in [User -> SUBSET User]
          /\ relayed' \subseteq relayed /\ logged' \subseteq logged
      BY FileLeft
    <3>2. relayed \subseteq User \X Chat /\ logged \subseteq User
      BY <1>1 DEF TypeOK
    <3> QED
      BY <3>1, <3>2
  <2> QED
    BY <1>1, <1>2, <2>2, <2>3, <2>4, <2>5, <2>6 DEF TypeOK
<1>8. HandlerInv' /\ SaidInv'
  BY <1>2, <1>4, <1>5, <1>6 DEF HandlerInv, SaidInv, AtStep
<1>9. UniqueInv'
  BY <1>2, <1>4, <1>5, <1>6 DEF UniqueInv
<1>10. CallInv' /\ FollowInv'
  BY <1>1, <1>2 DEF CallInv, FollowInv
<1>11. RoomInv' /\ StreamInv' /\ MissInv'
  BY <1>1, <1>2, <1>3, FileLeft DEF RoomInv, StreamInv, MissInv
<1>12. FileInv' /\ RelayedSurvives' /\ AnsweredCommandsKept'
  BY <1>2, <1>4, StepsType, FileLeft DEF FileInv
<1> QED
  BY <1>7, <1>8, <1>9, <1>10, <1>11, <1>12 DEF IInv

\* Nobody is left to be written to.
LEMMA SentInv ==
  ASSUME IInv, NEW s \in Stream, Doing(s, "send"), handler[s].left = {}, Done(s),
         UNCHANGED <<up, room, saved, got, base, relayed, overtaken, wire,
                     closed, asked, call, told, mode, cur, first, starting,
                     joining, connected, logged, said, commands, failures>>
  PROVE  IInv'
<1> DEFINE todo == Tail(handler[s].todo)
<1>1. /\ TypeOK /\ HandlerInv /\ CallInv /\ RoomInv /\ StreamInv /\ UniqueInv
      /\ SaidInv /\ FileInv /\ RelayedSurvives /\ FollowInv
      /\ AnsweredCommandsKept /\ MissInv
  BY DEF IInv
<1>2. handler[s].todo # <<>> /\ Head(handler[s].todo) = "send"
  BY DEF Doing
<1>3. handler[s].pc = "read" /\ up /\ AtStep(handler[s])
  BY <1>1, <1>2, BusyReads
<1>4. /\ handler[s].msg \in Message
      /\ handler[s].todo = SendSteps /\ todo = <<>>
  BY <1>2, <1>3, StepTaken
<1> HIDE DEF todo
<1>5. /\ handler' \in [Stream -> Handler]
      /\ \A t \in Stream \ {s} : handler'[t] = handler[t]
      /\ handler'[s].todo = todo
      /\ \A t \in Stream : /\ handler'[t].pc = handler[t].pc
                           /\ handler'[t].msg = handler[t].msg
                           /\ handler'[t].left = handler[t].left
  BY <1>1, <1>4, StepDone DEF todo
<1>6. HandlerInv' /\ UniqueInv' /\ SaidInv' /\ CallInv'
  <2>1. AtStep(handler[s])'
    BY <1>4, <1>5 DEF AtStep
  <2> QED
    BY <1>3, <1>5, <2>1, StepFrame
<1>7. TypeOK'
  BY <1>1, <1>5 DEF TypeOK
<1>8. /\ RoomInv' /\ FollowInv' /\ StreamInv' /\ RelayedSurvives'
      /\ AnsweredCommandsKept'
  BY <1>1, <1>5 DEF RoomInv, FollowInv, StreamInv, RelayedSurvives,
                    AnsweredCommandsKept
<1>9. FileInv'
  <2>1. todo \notin {FindSteps, SendSteps}
    BY <1>4, StepsType
  <2> QED
    BY <1>1, <1>5, <2>1 DEF FileInv
<1>10. MissInv'
  <2>1. ASSUME NEW u \in User, room[u].stream # NoStream,
               handler'[room[u].stream].todo # ShowSteps,
               NEW chat \in room[u].chats \ base[room[u].stream],
               chat[1] # u
        PROVE  chat \in got[room[u].stream] \/ Due(chat, u, room[u].stream)'
    <3>1. room[u].stream \in Stream
      BY <1>1, <2>1 DEF StreamInv
    <3>2. handler[room[u].stream].todo # ShowSteps
      BY <1>4, <1>5, <2>1, <3>1, StepsDiffer
    <3>3. chat \in got[room[u].stream] \/ Due(chat, u, room[u].stream)
      BY <1>1, <2>1, <3>1, <3>2 DEF MissInv
    <3>4. Due(chat, u, room[u].stream) => Due(chat, u, room[u].stream)'
      BY <1>4, <1>5, StepsDiffer DEF Due
    <3> QED
      BY <3>3, <3>4
  <2> QED
    BY <2>1 DEF MissInv
<1> QED
  BY <1>6, <1>7, <1>8, <1>9, <1>10 DEF IInv

\* One of them is written to.
LEMMA SendInv1 ==
  ASSUME IInv, NEW s \in Stream, Doing(s, "send"), NEW t \in handler[s].left,
         handler' = [handler EXCEPT ![s].left = @ \ {t}],
         got' = [got EXCEPT ![t] =
                   IF handler[t].pc = "ended" THEN @
                   ELSE @ \cup {<<s[1], handler[s].msg>>}],
         relayed' = relayed \cup
           {u \in {t[1]} : <<s[1], handler[s].msg>> \in room[u].chats}
             \X {<<s[1], handler[s].msg>>},
         UNCHANGED <<up, room, saved, base, overtaken, wire, closed, asked,
                     call, told, mode, cur, first, starting, joining,
                     connected, logged, said, commands, failures>>
  PROVE  IInv'
<1> DEFINE chat == <<s[1], handler[s].msg>>
<1>1. /\ TypeOK /\ HandlerInv /\ CallInv /\ RoomInv /\ StreamInv /\ UniqueInv
      /\ SaidInv /\ FileInv /\ RelayedSurvives /\ FollowInv
      /\ AnsweredCommandsKept /\ MissInv
  BY DEF IInv
<1>2. handler[s].todo # <<>> /\ Head(handler[s].todo) = "send"
  BY DEF Doing
<1>3. handler[s].pc = "read" /\ up /\ AtStep(handler[s])
  BY <1>1, <1>2, BusyReads
<1>4. handler[s].msg \in Message /\ handler[s].todo = SendSteps
  BY <1>2, <1>3, StepTaken
<1>5. handler \in [Stream -> Handler] /\ handler[s] \in Handler /\ t \in Stream
  BY <1>1 DEF TypeOK, Handler
<1>6. /\ handler' \in [Stream -> Handler]
      /\ \A r \in Stream \ {s} : handler'[r] = handler[r]
      /\ handler'[s].left = handler[s].left \ {t}
      /\ \A r \in Stream : /\ handler'[r].pc = handler[r].pc
                           /\ handler'[r].msg = handler[r].msg
                           /\ handler'[r].todo = handler[r].todo
  <2> DEFINE new == [handler[s] EXCEPT !.left = @ \ {t}]
  <2>1. /\ new \in Handler /\ new.todo = handler[s].todo
        /\ new.left = handler[s].left \ {t}
        /\ new.pc = handler[s].pc /\ new.msg = handler[s].msg
    BY <1>5 DEF Handler
  <2>2. handler' = [handler EXCEPT ![s] = new]
    BY <1>5 DEF Handler
  <2> HIDE DEF new
  <2> QED
    BY <1>5, <2>1, <2>2
<1>7. chat \in Chat /\ chat[1] = s[1] /\ chat[2] = handler[s].msg /\ t[1] \in User
  BY <1>4, <1>5 DEF Chat, Stream
<1> HIDE DEF chat
<1>8. /\ got' \in [Stream -> SUBSET Chat]
      /\ \A r \in Stream : got[r] \subseteq got'[r]
      /\ handler[t].pc # "ended" => chat \in got'[t]
  <2>1. got \in [Stream -> SUBSET Chat]
    BY <1>1 DEF TypeOK
  <2>2. got' = [got EXCEPT ![t] = IF handler[t].pc = "ended" THEN got[t]
                                  ELSE got[t] \cup {chat}]
    BY <2>1 DEF chat
  <2> QED
    BY <1>5, <1>7, <2>1, <2>2
<1>9. /\ relayed' \subseteq relayed \cup {<<t[1], chat>>}
      /\ <<t[1], chat>> \in relayed' \ relayed => chat \in room[t[1]].chats
  BY DEF chat
<1>10. HandlerInv' /\ UniqueInv' /\ SaidInv' /\ CallInv'
  <2>1. AtStep(handler[s])'
    BY <1>3, <1>6 DEF AtStep
  <2> QED
    BY <1>3, <1>6, <2>1, StepFrame
<1>11. TypeOK'
  <2>1. relayed' \subseteq User \X Chat
    <3>1. relayed \subseteq User \X Chat
      BY <1>1 DEF TypeOK
    <3>2. <<t[1], chat>> \in User \X Chat
      BY <1>7
    <3> QED
      BY <1>9, <3>1, <3>2
  <2> QED
    BY <1>1, <1>6, <1>8, <2>1 DEF TypeOK
<1>12. RoomInv' /\ FollowInv' /\ StreamInv' /\ AnsweredCommandsKept'
  BY <1>1, <1>6 DEF RoomInv, FollowInv, StreamInv, AnsweredCommandsKept
<1>13. RelayedSurvives'
  <2>1. chat \in room[t[1]].chats => chat \in saved[t[1]].chats
    BY <1>1, <1>4, <1>7 DEF FileInv, chat
  <2>2. \A r \in relayed : r[2] \in saved[r[1]].chats
    BY <1>1 DEF RelayedSurvives
  <2> QED
    BY <1>9, <2>1, <2>2 DEF RelayedSurvives
<1>14. FileInv'
  BY <1>1, <1>6 DEF FileInv
<1>15. MissInv'
  <2>1. ASSUME NEW u \in User, room[u].stream # NoStream,
               handler'[room[u].stream].todo # ShowSteps,
               NEW c \in room[u].chats \ base[room[u].stream],
               c[1] # u
        PROVE  c \in got'[room[u].stream] \/ Due(c, u, room[u].stream)'
    <3>1. room[u].stream \in Stream /\ handler[room[u].stream].pc = "read"
      BY <1>1, <2>1 DEF StreamInv
    <3>2. c \in got[room[u].stream] \/ Due(c, u, room[u].stream)
      BY <1>1, <1>6, <2>1, <3>1 DEF MissInv
    <3>3. c \in Chat
      BY <1>1, <2>1 DEF TypeOK, Room
    <3>4. ASSUME Due(c, u, room[u].stream)
          PROVE  c \in got'[room[u].stream] \/ Due(c, u, room[u].stream)'
      <4>1. PICK r \in Stream :
              /\ r[1] = c[1] /\ handler[r].msg = c[2]
              /\ \/ /\ handler[r].todo \in {SaveSteps, FindSteps}
                    /\ c[1] \in room[u].follows
                 \/ /\ handler[r].todo = SendSteps
                    /\ room[u].stream \in handler[r].left
        BY <3>4 DEF Due
      <4>2. CASE r = s /\ room[u].stream = t
        <5>1. c = chat
          BY <1>7, <3>3, <4>1, <4>2 DEF Chat
        <5> QED
          BY <1>8, <3>1, <4>2, <5>1
      <4>3. CASE r = s /\ room[u].stream # t
        <5>1. room[u].stream \in handler'[s].left
          BY <1>4, <1>6, <4>1, <4>3, StepsDiffer
        <5> QED
          BY <1>4, <1>6, <4>1, <4>3, <5>1 DEF Due
      <4>4. CASE r # s
        BY <1>6, <4>1, <4>4 DEF Due
      <4> QED
        BY <4>2, <4>3, <4>4
    <3> QED
      BY <1>8, <3>1, <3>2, <3>4
  <2> QED
    BY <2>1 DEF MissInv
<1> QED
  BY <1>10, <1>11, <1>12, <1>13, <1>14, <1>15 DEF IInv

\* The chat is written to the streams that have been found.
LEMMA SendInv ==
  ASSUME IInv, NEW s \in Stream, Send(s)
  PROVE  IInv'
<1> USE DEF network, asking, client, bounds
<1>1. Doing(s, "send")
  BY DEF Send
<1>2. CASE handler[s].left = {} /\ Done(s)
           /\ UNCHANGED <<up, room, saved, call, told, network, cur, logged,
                          got, base, relayed>>
  BY <1>1, <1>2, SentInv DEF Send
<1>3. ASSUME NEW t \in handler[s].left, handler[t].pc = "ended", Die
      PROVE  IInv'
  BY <1>1, <1>3, DieInv DEF Doing, Send, IInv, TypeOK
<1>4. ASSUME NEW t \in handler[s].left,
             handler' = [handler EXCEPT ![s].left = @ \ {t}],
             got' = [got EXCEPT ![t] =
                       IF handler[t].pc = "ended" THEN @
                       ELSE @ \cup {<<s[1], handler[s].msg>>}],
             relayed' = relayed \cup
               {u \in {t[1]} : <<s[1], handler[s].msg>> \in room[u].chats}
                 \X {<<s[1], handler[s].msg>>},
             UNCHANGED <<up, room, saved, call, told, network, cur, logged,
                         base>>
      PROVE  IInv'
  BY <1>1, <1>4, SendInv1 DEF Send
<1> QED
  BY <1>2, <1>3, <1>4 DEF Send

\* The handler of a stream that is broken ends.
LEMMA HangUpInv ==
  ASSUME IInv, NEW s \in Stream, HangUp(s)
  PROVE  IInv'
<1>1. /\ TypeOK /\ HandlerInv /\ CallInv /\ RoomInv /\ StreamInv /\ UniqueInv
      /\ SaidInv /\ FileInv /\ RelayedSurvives /\ FollowInv
      /\ AnsweredCommandsKept /\ MissInv
  BY DEF IInv
<1>2. /\ up /\ handler[s].pc = "read" /\ handler[s].todo = <<>>
      /\ IF handler[s].msg = "none" THEN UNCHANGED <<room, overtaken>>
         ELSE SetStream(s[1], NoStream) /\ overtaken' = Overtakes(s)
      /\ handler' = [handler EXCEPT ![s] = Ended]
      /\ wire' = [wire EXCEPT ![s] = <<>>] /\ closed' = closed \ {s}
      /\ got' = [got EXCEPT ![s] = {}] /\ base' = [base EXCEPT ![s] = {}]
      /\ UNCHANGED <<up, saved, relayed, asked, call, told, mode, cur, first,
                     starting, joining, connected, logged, said, commands,
                     failures>>
  BY DEF HangUp, Gone, asking, client, bounds
<1>3. s[1] \in User
  BY DEF Stream
<1>4. /\ room' \in [User -> Room]
      /\ \A w \in User : /\ room'[w].exists = room[w].exists
                         /\ room'[w].follows = room[w].follows
                         /\ room'[w].chats = room[w].chats
                         /\ room'[w].stream \in {room[w].stream, NoStream}
                         /\ room'[w].stream # s
  <2>1. CASE handler[s].msg = "none"
    <3>1. \A w \in User : room[w].stream # s
      BY <1>1, <2>1, NoStreamAssumption DEF StreamInv
    <3> QED
      BY <1>1, <1>2, <2>1, <3>1 DEF TypeOK
  <2>2. CASE handler[s].msg # "none"
    <3>1. /\ room' \in [User -> Room]
          /\ \A w \in User : /\ room'[w].exists = room[w].exists
                             /\ room'[w].follows = room[w].follows
                             /\ room'[w].chats = room[w].chats
                             /\ w # s[1] => room'[w].stream = room[w].stream
          /\ room'[s[1]].stream = IF room[s[1]].exists THEN NoStream
                                  ELSE room[s[1]].stream
      BY <1>1, <1>2, <1>3, <2>2, StreamSet
    <3>2. room'[s[1]].stream = NoStream
      BY <1>1, <1>3, <3>1 DEF RoomInv
    <3>3. \A w \in User : w # s[1] => room[w].stream # s
      BY <1>1, NoStreamAssumption DEF StreamInv
    <3> QED
      BY <3>1, <3>2, <3>3, NoStreamAssumption
  <2> QED
    BY <2>1, <2>2
<1>5. /\ Ended \in Handler /\ Ended.pc = "ended" /\ Ended.todo = <<>>
      /\ Ended.msg = "none"
  <2>1. <<>> \in Seq({"add", "show", "post", "save", "collect", "send"})
    OBVIOUS
  <2> QED
    BY <2>1 DEF Ended, Handler
<1>6. /\ handler' \in [Stream -> Handler] /\ handler'[s] = Ended
      /\ \A t \in Stream \ {s} : handler'[t] = handler[t]
  BY <1>1, <1>2, <1>5 DEF TypeOK
<1>7. /\ wire' \in [Stream -> Seq(What)] /\ DOMAIN wire'[s] = {}
      /\ \A t \in Stream \ {s} : wire'[t] = wire[t]
  <2>1. <<>> \in Seq(What) /\ DOMAIN <<>> = {}
    OBVIOUS
  <2> QED
    BY <1>1, <1>2, <2>1 DEF TypeOK
<1>8. /\ got' \in [Stream -> SUBSET Chat] /\ base' \in [Stream -> SUBSET Chat]
      /\ \A t \in Stream \ {s} : got'[t] = got[t] /\ base'[t] = base[t]
  BY <1>1, <1>2 DEF TypeOK
<1>9. "none" \notin Message
  BY MessageAssumption
<1>10. TypeOK'
  <2>1. overtaken' \subseteq User
    BY <1>1, <1>2, <1>3 DEF TypeOK, Overtakes
  <2>2. closed' \subseteq Stream
    BY <1>1, <1>2 DEF TypeOK
  <2>3. \A u \in User : room'[u].stream # NoStream => room'[u].stream[1] = u
    BY <1>1, <1>4 DEF StreamInv
  <2> QED
    BY <1>1, <1>2, <1>4, <1>6, <1>7, <1>8, <2>1, <2>2, <2>3 DEF TypeOK
<1>11. HandlerInv' /\ SaidInv'
  BY <1>1, <1>2, <1>5, <1>6, <1>7, <1>9 DEF HandlerInv, SaidInv, AtStep
<1>12. UniqueInv'
  <2>1. \A t \in Stream :
          handler'[t].msg \in Message => handler'[t].msg = handler[t].msg
    BY <1>5, <1>6, <1>9
  <2>2. \A t \in Stream : handler'[t].msg \in {handler[t].msg, "none"}
    BY <1>5, <1>6
  <2>3. \A t \in Stream : \A i \in DOMAIN wire'[t] :
          i \in DOMAIN wire[t] /\ wire'[t][i] = wire[t][i]
    BY <1>7
  <2> QED
    BY <1>1, <1>9, <2>1, <2>2, <2>3 DEF UniqueInv
<1>13. /\ CallInv' /\ RoomInv' /\ FollowInv' /\ RelayedSurvives'
       /\ AnsweredCommandsKept'
  BY <1>1, <1>2, <1>4 DEF CallInv, RoomInv, FollowInv, RelayedSurvives,
                          AnsweredCommandsKept
<1>14. StreamInv'
  BY <1>1, <1>4, <1>6 DEF StreamInv
<1>15. FileInv'
  BY <1>1, <1>2, <1>4, <1>5, <1>6, StepsType DEF FileInv
<1>16. MissInv'
  <2>1. ASSUME NEW u \in User, room'[u].stream # NoStream,
               handler'[room'[u].stream].todo # ShowSteps,
               NEW chat \in room'[u].chats \ base'[room'[u].stream],
               chat[1] # u
        PROVE  chat \in got'[room'[u].stream] \/ Due(chat, u, room[u].stream)'
    <3>1. /\ room'[u].stream = room[u].stream
          /\ room[u].stream \in Stream \ {s}
      BY <1>1, <1>4, <2>1 DEF StreamInv
    <3>2. chat \in got[room[u].stream] \/ Due(chat, u, room[u].stream)
      BY <1>1, <1>4, <1>6, <1>8, <2>1, <3>1 DEF MissInv
    <3>3. handler[s].todo \notin {SaveSteps, FindSteps, SendSteps}
      BY <1>2, StepsType
    <3> QED
      BY <1>4, <1>6, <1>8, <3>1, <3>2, <3>3, StillDue
  <2> QED
    BY <2>1 DEF MissInv
<1> QED
  BY <1>10, <1>11, <1>12, <1>13, <1>14, <1>15, <1>16 DEF IInv

\* The next master has the rooms of the file, and no stream yet.
LEMMA TakeOverInv ==
  ASSUME IInv, TakeOver
  PROVE  IInv'
<1>1. /\ TypeOK /\ HandlerInv /\ CallInv /\ RoomInv /\ StreamInv /\ UniqueInv
      /\ SaidInv /\ FileInv /\ RelayedSurvives /\ FollowInv
      /\ AnsweredCommandsKept /\ MissInv
  BY DEF IInv
<1>2. /\ ~up /\ up' /\ up' \in BOOLEAN /\ room' = ReadBack(saved)
      /\ UNCHANGED <<saved, handler, got, base, relayed, overtaken, wire,
                     closed, asked, call, told, mode, cur, first, starting,
                     joining, connected, logged, said, commands, failures>>
  BY DEF TakeOver, network, asking, client, bounds
<1>3. /\ room' \in [User -> Room]
      /\ \A u \in User : /\ room'[u].exists = saved[u].exists
                         /\ room'[u].follows = saved[u].follows
                         /\ room'[u].chats = saved[u].chats
                         /\ room'[u].stream = NoStream
  <2>1. saved \in [User -> SavedRoom] /\ \A u \in User : saved[u] \in SavedRoom
    BY <1>1 DEF TypeOK
  <2> QED
    BY <1>2, <2>1 DEF ReadBack, SavedRoom, Room
<1>4. TypeOK'
  BY <1>1, <1>2, <1>3 DEF TypeOK
<1>5. HandlerInv' /\ CallInv' /\ UniqueInv' /\ SaidInv'
  BY <1>1, <1>2 DEF HandlerInv, CallInv, UniqueInv, SaidInv, AtStep
<1>6. RoomInv' /\ StreamInv' /\ FollowInv' /\ MissInv'
  BY <1>1, <1>2, <1>3 DEF RoomInv, StreamInv, FollowInv, MissInv
<1>7. FileInv' /\ RelayedSurvives' /\ AnsweredCommandsKept'
  BY <1>1, <1>2, <1>3 DEF FileInv, RelayedSurvives, AnsweredCommandsKept
<1> QED
  BY <1>4, <1>5, <1>6, <1>7 DEF IInv

\* The master dies.
LEMMA CrashInv ==
  ASSUME IInv, Crash
  PROVE  IInv'
<1>1. failures' \in 0 .. MaxFailures
  BY BoundsAssumption DEF Crash, IInv, TypeOK
<1> QED
  BY <1>1, DieInv DEF Crash

-----------------------------------------------------------------------------
(***************************************************************************)
(* The clients                                                             *)
(***************************************************************************)

\* Nothing moves but a client, and the command that it waits for.
LEMMA ClientFrame ==
  ASSUME IInv, TypeOK', CallInv', FollowInv', AnsweredCommandsKept',
         UNCHANGED <<up, room, saved, handler, got, base, relayed, wire, cur,
                     said>>
  PROVE  IInv'
<1>1. /\ TypeOK /\ HandlerInv /\ CallInv /\ RoomInv /\ StreamInv /\ UniqueInv
      /\ SaidInv /\ FileInv /\ RelayedSurvives /\ FollowInv
      /\ AnsweredCommandsKept /\ MissInv
  BY DEF IInv
<1>2. HandlerInv' /\ RoomInv' /\ StreamInv'
  BY <1>1 DEF HandlerInv, RoomInv, StreamInv, AtStep
<1>3. UniqueInv' /\ SaidInv' /\ FileInv' /\ RelayedSurvives'
  BY <1>1 DEF UniqueInv, SaidInv, FileInv, RelayedSurvives
<1>4. MissInv'
  BY <1>1 DEF MissInv, Due
<1> QED
  BY <1>2, <1>3, <1>4 DEF IInv

\* A login makes the room of the user and writes the rooms.
LEMMA LoginRooms ==
  ASSUME TypeOK, NEW u \in User, up, ServeLogin(u)
  PROVE  /\ room' \in [User -> Room] /\ saved' \in [User -> SavedRoom]
         /\ \A w \in User : /\ room'[w].chats = room[w].chats
                            /\ room'[w].stream = room[w].stream
                            /\ saved'[w].exists = room'[w].exists
                            /\ saved'[w].follows = room'[w].follows
                            /\ saved'[w].chats = room'[w].chats
                            /\ w # u => room'[w] = room[w]
         /\ room'[u].exists /\ room'[u].follows = room[u].follows \cup {u}
<1>1. room \in [User -> Room] /\ room[u] \in Room
  BY DEF TypeOK
<1>2. room' = Join(u, u) /\ saved' = Written(room')
  BY DEF ServeLogin
<1> DEFINE old == IF room[u].exists THEN room[u]
                  ELSE [room[u] EXCEPT !.exists = TRUE]
           new == Followed(old, u)
<1>3. /\ old \in Room /\ old.exists /\ old.follows = room[u].follows
      /\ old.chats = room[u].chats /\ old.stream = room[u].stream
  BY <1>1 DEF Room
<1>4. room' = [room EXCEPT ![u] = new]
  BY <1>1, <1>2 DEF Join
<1> HIDE DEF old
<1>5. /\ new \in Room /\ new.exists /\ new.follows = room[u].follows \cup {u}
      /\ new.chats = room[u].chats /\ new.stream = room[u].stream
  BY <1>3 DEF Followed, Room
<1> HIDE DEF new
<1>6. /\ room' \in [User -> Room] /\ room'[u] = new
      /\ \A w \in User \ {u} : room'[w] = room[w]
  BY <1>1, <1>4, <1>5
<1>7. /\ Written(room') \in [User -> SavedRoom]
      /\ \A w \in User : /\ Written(room')[w].exists = room'[w].exists
                         /\ Written(room')[w].follows = room'[w].follows
                         /\ Written(room')[w].chats = room'[w].chats
  BY <1>6, WrittenRooms
<1> QED
  BY <1>2, <1>5, <1>6, <1>7

\* Logins, answered or not.
LEMMA LoginInv ==
  ASSUME IInv, NEW u \in User, ServeLogin(u), CallInv',
         mode' \in [User -> {"out", "menu", "ask", "chat"}],
         call' \in [User -> {"no", "run", "kept", "failed"}],
         connected' \in [User -> {0, 2}], logged' \subseteq User,
         \A w \in User : mode'[w] # "ask" => mode[w] # "ask",
         \A w \in User : call'[w] = call[w] \/ call[w] = "failed",
         UNCHANGED <<up, handler, got, base, relayed, overtaken, wire, closed,
                     asked, told, cur, first, starting, joining, said,
                     commands, failures>>
  PROVE  IInv'
<1>1. /\ TypeOK /\ HandlerInv /\ CallInv /\ RoomInv /\ StreamInv /\ UniqueInv
      /\ SaidInv /\ FileInv /\ RelayedSurvives /\ FollowInv
      /\ AnsweredCommandsKept /\ MissInv
  BY DEF IInv
<1>2. HandlerInv' /\ UniqueInv' /\ SaidInv'
  BY <1>1 DEF HandlerInv, UniqueInv, SaidInv, AtStep
<1>3. CASE ~up
  <2>1. UNCHANGED <<room, saved>>
    BY <1>3 DEF ServeLogin
  <2>2. TypeOK'
    BY <1>1, <2>1 DEF TypeOK
  <2>3. AnsweredCommandsKept' /\ FollowInv'
    BY <1>1, <1>3, <2>1 DEF AnsweredCommandsKept, FollowInv
  <2> QED
    BY <2>1, <2>2, <2>3, ClientFrame
<1>4. CASE up
  <2>1. /\ room' \in [User -> Room] /\ saved' \in [User -> SavedRoom]
        /\ \A w \in User : /\ room'[w].chats = room[w].chats
                           /\ room'[w].stream = room[w].stream
                           /\ saved'[w].exists = room'[w].exists
                           /\ saved'[w].follows = room'[w].follows
                           /\ saved'[w].chats = room'[w].chats
                           /\ w # u => room'[w] = room[w]
        /\ room'[u].exists /\ room'[u].follows = room[u].follows \cup {u}
    BY <1>1, <1>4, LoginRooms
  <2>2. TypeOK'
    <3>1. \A w \in User : room'[w].stream # NoStream => room'[w].stream[1] = w
      BY <1>1, <2>1 DEF StreamInv
    <3>2. room' \in [User -> Room] /\ saved' \in [User -> SavedRoom]
      BY <2>1
    <3> QED
      BY <1>1, <3>1, <3>2 DEF TypeOK
  <2>3. RoomInv' /\ StreamInv'
    BY <1>1, <2>1 DEF RoomInv, StreamInv
  <2>4. FollowInv'
    BY <2>1 DEF FollowInv
  <2>5. FileInv'
    BY <1>1, <2>1 DEF FileInv
  <2>6. RelayedSurvives'
    <3>1. \A r \in relayed : r[1] \in User
      BY <1>1 DEF TypeOK
    <3> QED
      BY <1>1, <1>4, <2>1, <3>1 DEF RelayedSurvives, FileInv
  <2>7. AnsweredCommandsKept'
    <3>1. ASSUME NEW w \in User, mode'[w] # "ask", told[w] # {}
          PROVE  saved'[w].follows = told[w]
      <4>1. mode[w] # "ask" /\ call[w] = "no"
        BY <1>1, <3>1 DEF CallInv
      <4>2. room[w].follows = saved[w].follows /\ saved[w].follows = told[w]
        BY <1>1, <1>4, <3>1, <4>1 DEF FollowInv, AnsweredCommandsKept
      <4>3. w \in room[w].follows
        BY <1>1, <3>1, <4>2 DEF RoomInv
      <4>4. room'[w].follows = room[w].follows
        <5>1. CASE w = u
          BY <2>1, <4>3, <5>1
        <5>2. CASE w # u
          BY <2>1, <5>2
        <5> QED
          BY <5>1, <5>2
      <4> QED
        BY <2>1, <4>2, <4>4
    <3> QED
      BY <3>1 DEF AnsweredCommandsKept
  <2>8. MissInv'
    <3>1. \A w \in User : room[w].follows \subseteq room'[w].follows
      BY <2>1
    <3>2. \A w \in User : \A chat, x : Due(chat, w, x) => Due(chat, w, x)'
      BY <3>1, StillDue
    <3> QED
      BY <1>1, <2>1, <3>2 DEF MissInv
  <2> QED
    BY <1>2, <2>2, <2>3, <2>4, <2>5, <2>6, <2>7, <2>8 DEF IInv
<1> QED
  BY <1>3, <1>4

\* The client is started.
LEMMA StartInv ==
  ASSUME IInv, NEW u \in User, Start(u)
  PROVE  IInv'
<1>1. TypeOK /\ CallInv
  BY DEF IInv
<1>2. /\ mode[u] = "out" /\ mode' = [mode EXCEPT ![u] = "menu"]
      /\ ServeLogin(u) /\ logged' = LoggedIn(u)
      /\ UNCHANGED <<up, handler, got, base, relayed, overtaken, wire, closed,
                     asked, call, told, cur, first, starting, joining,
                     connected, said, commands, failures>>
  BY DEF Start, asking, network, bounds
<1>3. /\ mode' \in [User -> {"out", "menu", "ask", "chat"}]
      /\ call' \in [User -> {"no", "run", "kept", "failed"}]
      /\ connected' \in [User -> {0, 2}]
  BY <1>1, <1>2 DEF TypeOK
<1>4. logged' \subseteq User
  BY <1>1, <1>2 DEF TypeOK, LoggedIn
<1>5. \A w \in User : /\ w # u => mode'[w] = mode[w]
                      /\ mode[w] = "ask" => w # u
  BY <1>1, <1>2 DEF TypeOK
<1>6. CallInv'
  BY <1>1, <1>2, <1>5 DEF CallInv
<1> QED
  BY <1>2, <1>3, <1>4, <1>5, <1>6, LoginInv

\* A command is tried again, after a login.
LEMMA AgainInv ==
  ASSUME IInv, NEW u \in User, Again(u)
  PROVE  IInv'
<1>1. TypeOK /\ CallInv
  BY DEF IInv
<1>2. /\ call[u] = "failed" /\ call' = [call EXCEPT ![u] = "no"]
      /\ ServeLogin(u) /\ logged' = LoggedIn(u)
      /\ UNCHANGED <<up, handler, got, base, relayed, overtaken, wire, closed,
                     asked, told, mode, cur, first, starting, joining,
                     connected, said, commands, failures>>
  BY DEF Again, network, bounds
<1>3. /\ mode' \in [User -> {"out", "menu", "ask", "chat"}]
      /\ call' \in [User -> {"no", "run", "kept", "failed"}]
      /\ connected' \in [User -> {0, 2}]
  BY <1>1, <1>2 DEF TypeOK
<1>4. logged' \subseteq User
  BY <1>1, <1>2 DEF TypeOK, LoggedIn
<1>5. \A w \in User : /\ w # u => call'[w] = call[w]
                      /\ w = u => call'[w] = "no"
  BY <1>1, <1>2 DEF TypeOK
<1>6. CallInv'
  BY <1>1, <1>2, <1>5 DEF CallInv
<1> QED
  BY <1>2, <1>3, <1>4, <1>5, <1>6, LoginInv

\* The watchdog has connected the client again, as far as it knows.
LEMMA ReConnectInv ==
  ASSUME IInv, NEW u \in User, ReConnect(u)
  PROVE  IInv'
<1>1. TypeOK /\ CallInv
  BY DEF IInv
<1>2. /\ ServeLogin(u) /\ connected' = [connected EXCEPT ![u] = 2]
      /\ UNCHANGED <<up, handler, got, base, relayed, overtaken, wire, closed,
                     asked, call, told, mode, cur, first, starting, joining,
                     logged, said, commands, failures>>
  BY DEF ReConnect, asking, network, bounds
<1>3. /\ mode' \in [User -> {"out", "menu", "ask", "chat"}]
      /\ call' \in [User -> {"no", "run", "kept", "failed"}]
      /\ connected' \in [User -> {0, 2}] /\ logged' \subseteq User
  BY <1>1, <1>2 DEF TypeOK
<1>4. CallInv'
  BY <1>1, <1>2 DEF CallInv
<1> QED
  BY <1>2, <1>3, <1>4, LoginInv

\* A command is given, or fails.
LEMMA CommandInv ==
  ASSUME IInv, NEW u \in User, NEW w \in User,
         NEW op \in {"join", "leave", "list"}, Command(u, op, w)
  PROVE  IInv'
<1>1. TypeOK /\ CallInv /\ FollowInv /\ AnsweredCommandsKept
  BY DEF IInv
<1>2. /\ mode[u] = "menu" /\ mode' = [mode EXCEPT ![u] = "ask"]
      /\ asked' = [asked EXCEPT ![u] = [op |-> op, arg |-> w]]
      /\ commands < MaxCommands /\ commands' = commands + 1
      /\ UNCHANGED <<up, room, saved, handler, got, base, relayed, overtaken,
                     wire, closed, call, told, cur, first, starting, joining,
                     connected, logged, said, failures>>
  BY DEF Command, server, network
<1>3. /\ [op |-> op, arg |-> w] \in AnyCommand
      /\ [op |-> op, arg |-> w] # NoCommand
  <2>1. [op |-> op, arg |-> w].op # NoCommand.op
    BY DEF NoCommand
  <2> QED
    BY <2>1 DEF AnyCommand
<1>4. /\ mode' \in [User -> {"out", "menu", "ask", "chat"}] /\ mode'[u] = "ask"
      /\ asked' \in [User -> AnyCommand \cup {NoCommand}]
      /\ asked'[u] = [op |-> op, arg |-> w]
      /\ \A x \in User \ {u} : mode'[x] = mode[x] /\ asked'[x] = asked[x]
  BY <1>1, <1>2, <1>3 DEF TypeOK
<1>5. commands' \in 0 .. MaxCommands
  BY <1>1, <1>2, BoundsAssumption DEF TypeOK
<1>6. TypeOK'
  BY <1>1, <1>2, <1>4, <1>5 DEF TypeOK
<1>7. call[u] = "no"
  BY <1>1, <1>2 DEF CallInv
<1>8. CallInv'
  BY <1>1, <1>2, <1>3, <1>4, <1>7 DEF CallInv
<1>9. FollowInv' /\ AnsweredCommandsKept'
  BY <1>1, <1>2, <1>4, <1>7 DEF FollowInv, AnsweredCommandsKept
<1> QED
  BY <1>2, <1>6, <1>8, <1>9, ClientFrame

\* A command fails, for want of a server or of time.
LEMMA CommandFailsInv ==
  ASSUME IInv, NEW u \in User, CallFails(u) \/ LateCommand(u)
  PROVE  IInv'
<1>1. TypeOK /\ CallInv /\ FollowInv /\ AnsweredCommandsKept
  BY DEF IInv
<1>2. /\ call[u] \in {"no", "kept"} /\ mode[u] = "ask"
      /\ call' = [call EXCEPT ![u] = "failed"]
      /\ UNCHANGED <<up, room, saved, handler, got, base, relayed, overtaken,
                     wire, closed, asked, told, mode, cur, first, starting,
                     joining, connected, logged, said, commands>>
  BY <1>1 DEF CallFails, LateCommand, CallInv, server, client, network, bounds
<1>3. failures' \in 0 .. MaxFailures
  BY <1>1, BoundsAssumption DEF CallFails, LateCommand, TypeOK, bounds
<1>4. /\ call' \in [User -> {"no", "run", "kept", "failed"}]
      /\ call'[u] = "failed" /\ \A x \in User \ {u} : call'[x] = call[x]
  BY <1>1, <1>2 DEF TypeOK
<1>5. TypeOK'
  BY <1>1, <1>2, <1>3, <1>4 DEF TypeOK
<1>6. CallInv' /\ FollowInv' /\ AnsweredCommandsKept'
  BY <1>1, <1>2, <1>4 DEF CallInv, FollowInv, AnsweredCommandsKept
<1> QED
  BY <1>2, <1>5, <1>6, ClientFrame

\* JOIN and LEAVE change whom one user follows.
LEMMA CommandRooms ==
  ASSUME TypeOK, RoomInv, NEW u \in User, NEW w \in User,
         room' \in {Join(u, w), Leave(u, w), room}
  PROVE  /\ room' \in [User -> Room]
         /\ \A x \in User : /\ room'[x].chats = room[x].chats
                            /\ room'[x].stream = room[x].stream
                            /\ x # u => room'[x] = room[x]
         /\ IF room'[u].exists THEN u \in room'[u].follows
            ELSE room'[u].follows = {} /\ ~room[u].exists
         /\ room' \in {Join(u, w), room} => room[u].follows \subseteq room'[u].follows
         /\ room[u].follows \ {w} \subseteq room'[u].follows
<1>1. room \in [User -> Room] /\ room[u] \in Room
  BY DEF TypeOK
<1>2. IF room[u].exists THEN u \in room[u].follows ELSE room[u].follows = {}
  BY DEF RoomInv
<1>3. CASE room' = room
  BY <1>1, <1>2, <1>3
<1>4. CASE room' = Join(u, w) /\ room' # room
  <2> DEFINE old == IF room[u].exists THEN room[u]
                    ELSE [room[u] EXCEPT !.exists = TRUE]
             new == Followed(old, w)
  <2>1. /\ old \in Room /\ old.exists /\ old.follows = room[u].follows
        /\ old.chats = room[u].chats /\ old.stream = room[u].stream
    BY <1>1 DEF Room
  <2>2. room' = [room EXCEPT ![u] = new] /\ (room[u].exists \/ u = w)
    BY <1>1, <1>4 DEF Join
  <2> HIDE DEF old
  <2>3. /\ new \in Room /\ new.exists /\ new.follows = room[u].follows \cup {w}
        /\ new.chats = room[u].chats /\ new.stream = room[u].stream
    BY <2>1 DEF Followed, Room
  <2> HIDE DEF new
  <2>4. /\ room' \in [User -> Room] /\ room'[u] = new
        /\ \A x \in User \ {u} : room'[x] = room[x]
    BY <1>1, <2>2, <2>3
  <2> QED
    BY <1>2, <2>2, <2>3, <2>4
<1>5. CASE room' = Leave(u, w) /\ room' # room
  <2> DEFINE new == Unfollowed(room[u], w)
  <2>1. room' = [room EXCEPT ![u] = new] /\ u # w
    BY <1>1, <1>5 DEF Leave
  <2>2. /\ new \in Room /\ new.exists = room[u].exists
        /\ new.follows = room[u].follows \ {w}
        /\ new.chats = room[u].chats /\ new.stream = room[u].stream
    BY <1>1 DEF Unfollowed, Room
  <2> HIDE DEF new
  <2>3. /\ room' \in [User -> Room] /\ room'[u] = new
        /\ \A x \in User \ {u} : room'[x] = room[x]
    BY <1>1, <2>1, <2>2
  <2>4. room' # Join(u, w) \/ room[u].follows \subseteq room'[u].follows
    <3>1. ASSUME room' = Join(u, w)
          PROVE  room[u].follows \subseteq room'[u].follows
      <4> DEFINE old == IF room[u].exists THEN room[u]
                        ELSE [room[u] EXCEPT !.exists = TRUE]
      <4>1. old.follows = room[u].follows /\ old \in Room
        BY <1>1 DEF Room
      <4>2. room' = [room EXCEPT ![u] = Followed(old, w)]
        BY <1>1, <1>5, <3>1 DEF Join
      <4> HIDE DEF old
      <4>3. Followed(old, w).follows = room[u].follows \cup {w}
        BY <4>1 DEF Followed, Room
      <4> QED
        BY <1>1, <4>2, <4>3
    <3> QED
      BY <3>1
  <2> QED
    BY <1>2, <1>5, <2>1, <2>2, <2>3, <2>4
<1> QED
  BY <1>3, <1>4, <1>5

\* A command is run on the rooms.
LEMMA RunCommandInv ==
  ASSUME IInv, NEW u \in User, RunCommand(u)
  PROVE  IInv'
<1> DEFINE w == asked[u].arg
<1>1. /\ TypeOK /\ HandlerInv /\ CallInv /\ RoomInv /\ StreamInv /\ UniqueInv
      /\ SaidInv /\ FileInv /\ RelayedSurvives /\ FollowInv
      /\ AnsweredCommandsKept /\ MissInv
  BY DEF IInv
<1>2. /\ up /\ mode[u] = "ask" /\ call[u] = "no"
      /\ call' = [call EXCEPT ![u] = "run"]
      /\ room' = CASE asked[u].op = "join"  -> Join(u, w)
                   [] asked[u].op = "leave" -> Leave(u, w)
                   [] asked[u].op = "list"  -> room
      /\ base' = IF asked[u].op # "leave" THEN base
                 ELSE [s \in Stream |->
                         IF s # room[u].stream THEN base[s]
                         ELSE base[s] \cup {chat \in room[u].chats :
                                              chat[1] = w}]
      /\ UNCHANGED <<up, saved, handler, got, relayed, overtaken, wire, closed,
                     asked, told, mode, cur, first, starting, joining,
                     connected, logged, said, commands, failures>>
  BY DEF RunCommand, client, network, bounds
<1>3. asked[u].op \in {"join", "leave", "list"} /\ w \in User
  <2>1. asked[u] \in AnyCommand
    BY <1>1, <1>2 DEF TypeOK, CallInv
  <2> QED
    BY <2>1 DEF AnyCommand
<1> HIDE DEF w
<1>4. /\ asked[u].op = "join" => room' = Join(u, w)
      /\ asked[u].op = "leave" => room' = Leave(u, w)
      /\ asked[u].op = "list" => room' = room
  BY <1>2
<1>5. /\ room' \in [User -> Room]
      /\ \A x \in User : /\ room'[x].chats = room[x].chats
                         /\ room'[x].stream = room[x].stream
                         /\ x # u => room'[x] = room[x]
      /\ IF room'[u].exists THEN u \in room'[u].follows
         ELSE room'[u].follows = {} /\ ~room[u].exists
      /\ asked[u].op # "leave" => room[u].follows \subseteq room'[u].follows
      /\ room[u].follows \ {w} \subseteq room'[u].follows
  BY <1>1, <1>3, <1>4, CommandRooms
<1>6. /\ base' \in [Stream -> SUBSET Chat]
      /\ \A s \in Stream : base[s] \subseteq base'[s]
      /\ asked[u].op = "leave" /\ room[u].stream \in Stream =>
           \A chat \in room[u].chats :
             chat[1] = w => chat \in base'[room[u].stream]
  <2>1. base \in [Stream -> SUBSET Chat] /\ room[u].chats \subseteq Chat
    BY <1>1 DEF TypeOK, Room
  <2> QED
    BY <1>2, <2>1
<1>7. /\ call' \in [User -> {"no", "run", "kept", "failed"}]
      /\ call'[u] = "run" /\ \A x \in User \ {u} : call'[x] = call[x]
  BY <1>1, <1>2 DEF TypeOK
<1>8. TypeOK'
  <2>1. \A x \in User : room'[x].stream # NoStream => room'[x].stream[1] = x
    BY <1>1, <1>5 DEF StreamInv
  <2> QED
    BY <1>1, <1>2, <1>5, <1>6, <1>7, <2>1 DEF TypeOK
<1>9. HandlerInv' /\ UniqueInv' /\ SaidInv'
  BY <1>1, <1>2 DEF HandlerInv, UniqueInv, SaidInv, AtStep
<1>10. CallInv'
  BY <1>1, <1>2, <1>7 DEF CallInv
<1>11. StreamInv'
  <2>1. \A x \in User : room'[x].stream = room[x].stream
    BY <1>5
  <2>2. handler' = handler /\ StreamInv
    BY <1>1, <1>2
  <2> QED
    BY <2>1, <2>2 DEF StreamInv
<1>12. RoomInv'
  <2>1. \A x \in User : IF room'[x].exists THEN x \in room'[x].follows
                        ELSE room'[x].follows = {} /\ room'[x].stream = NoStream
    BY <1>1, <1>5 DEF RoomInv
  <2> QED
    BY <1>1, <1>2, <2>1 DEF RoomInv
<1>13. FileInv' /\ RelayedSurvives' /\ AnsweredCommandsKept'
  BY <1>1, <1>2, <1>5 DEF FileInv, RelayedSurvives, AnsweredCommandsKept
<1>14. FollowInv'
  BY <1>1, <1>2, <1>3, <1>4, <1>5, <1>7 DEF FollowInv
<1>15. MissInv'
  <2>1. ASSUME NEW x \in User, room'[x].stream # NoStream,
               handler'[room'[x].stream].todo # ShowSteps,
               NEW chat \in room'[x].chats \ base'[room'[x].stream],
               chat[1] # x
        PROVE  chat \in got'[room'[x].stream] \/ Due(chat, x, room[x].stream)'
    <3>1. /\ room'[x].stream = room[x].stream /\ room'[x].chats = room[x].chats
          /\ room[x].stream \in Stream
      BY <1>1, <1>5, <2>1 DEF StreamInv
    <3>2. chat \in got[room[x].stream] \/ Due(chat, x, room[x].stream)
      BY <1>1, <1>2, <1>6, <2>1, <3>1 DEF MissInv
    <3>3. chat[1] \in room[x].follows => chat[1] \in room'[x].follows
      BY <1>5, <1>6, <2>1, <3>1
    <3> QED
      BY <1>2, <3>1, <3>2, <3>3 DEF Due
  <2> QED
    BY <2>1 DEF MissInv
<1> QED
  BY <1>8, <1>9, <1>10, <1>11, <1>12, <1>13, <1>14, <1>15 DEF IInv

\* The rooms are written after it.
LEMMA KeepCommandInv ==
  ASSUME IInv, NEW u \in User, KeepCommand(u)
  PROVE  IInv'
<1>1. /\ TypeOK /\ HandlerInv /\ CallInv /\ RoomInv /\ StreamInv /\ UniqueInv
      /\ SaidInv /\ FileInv /\ RelayedSurvives /\ FollowInv
      /\ AnsweredCommandsKept /\ MissInv
  BY DEF IInv
<1>2. /\ call[u] = "run" /\ call' = [call EXCEPT ![u] = "kept"]
      /\ saved' = IF asked[u].op = "list" THEN saved ELSE Written(room)
      /\ UNCHANGED <<up, room, handler, got, base, relayed, overtaken, wire,
                     closed, asked, told, mode, cur, first, starting, joining,
                     connected, logged, said, commands, failures>>
  BY DEF KeepCommand, client, network, bounds
<1>3. up /\ mode[u] = "ask"
  BY <1>1, <1>2 DEF CallInv
<1>4. /\ call' \in [User -> {"no", "run", "kept", "failed"}]
      /\ call'[u] = "kept" /\ \A x \in User \ {u} : call'[x] = call[x]
  BY <1>1, <1>2 DEF TypeOK
<1>5. CallInv'
  BY <1>1, <1>2, <1>4 DEF CallInv
<1>6. CASE asked[u].op = "list"
  <2>1. TypeOK' /\ FollowInv' /\ AnsweredCommandsKept'
    BY <1>1, <1>2, <1>4, <1>6 DEF TypeOK, FollowInv, AnsweredCommandsKept
  <2> QED
    BY <1>2, <1>5, <1>6, <2>1, ClientFrame
<1>7. CASE asked[u].op # "list"
  <2>1. /\ saved' \in [User -> SavedRoom]
        /\ \A x \in User : /\ saved'[x].exists = room[x].exists
                           /\ saved'[x].follows = room[x].follows
                           /\ saved'[x].chats = room[x].chats
    BY <1>1, <1>2, <1>7, WrittenRooms DEF TypeOK
  <2>2. TypeOK'
    BY <1>1, <1>2, <1>4, <2>1 DEF TypeOK
  <2>3. HandlerInv' /\ UniqueInv' /\ SaidInv' /\ StreamInv'
    BY <1>1, <1>2 DEF HandlerInv, UniqueInv, SaidInv, StreamInv, AtStep
  <2>4. RoomInv' /\ FollowInv' /\ FileInv'
    BY <1>1, <1>2, <2>1 DEF RoomInv, FollowInv, FileInv
  <2>5. RelayedSurvives'
    <3>1. \A r \in relayed : r[1] \in User
      BY <1>1 DEF TypeOK
    <3> QED
      BY <1>1, <1>2, <1>3, <2>1, <3>1 DEF RelayedSurvives, FileInv
  <2>6. AnsweredCommandsKept'
    <3>1. \A x \in User : mode[x] # "ask" => saved[x].follows = room[x].follows
      BY <1>1, <1>3 DEF FollowInv, CallInv
    <3> QED
      BY <1>1, <1>2, <2>1, <3>1 DEF AnsweredCommandsKept
  <2>7. MissInv'
    BY <1>1, <1>2 DEF MissInv, Due
  <2> QED
    BY <1>5, <2>2, <2>3, <2>4, <2>5, <2>6, <2>7 DEF IInv
<1> QED
  BY <1>6, <1>7

\* The client is answered.
LEMMA AnswerCommandInv ==
  ASSUME IInv, NEW u \in User, AnswerCommand(u)
  PROVE  IInv'
<1>1. TypeOK /\ CallInv /\ FollowInv /\ AnsweredCommandsKept
  BY DEF IInv
<1>2. /\ call[u] = "kept" /\ call' = [call EXCEPT ![u] = "no"]
      /\ mode' = [mode EXCEPT ![u] = "menu"]
      /\ asked' = [asked EXCEPT ![u] = NoCommand]
      /\ told' = [told EXCEPT ![u] = room[u].follows]
      /\ UNCHANGED <<up, room, saved, handler, got, base, relayed, overtaken,
                     wire, closed, cur, first, starting, joining, connected,
                     logged, said, commands, failures>>
  BY DEF AnswerCommand, Participants, server, network, bounds
<1>3. up
  BY <1>1, <1>2 DEF CallInv
<1>4. /\ call' \in [User -> {"no", "run", "kept", "failed"}]
      /\ call'[u] = "no" /\ \A x \in User \ {u} : call'[x] = call[x]
      /\ mode' \in [User -> {"out", "menu", "ask", "chat"}]
      /\ mode'[u] = "menu" /\ \A x \in User \ {u} : mode'[x] = mode[x]
      /\ asked' \in [User -> AnyCommand \cup {NoCommand}]
      /\ \A x \in User \ {u} : asked'[x] = asked[x]
  BY <1>1, <1>2 DEF TypeOK
<1>5. /\ told' \in [User -> SUBSET User] /\ told'[u] = room[u].follows
      /\ \A x \in User \ {u} : told'[x] = told[x]
  <2>1. room[u].follows \subseteq User
    BY <1>1 DEF TypeOK, Room
  <2> QED
    BY <1>1, <1>2, <2>1 DEF TypeOK
<1>6. TypeOK'
  BY <1>1, <1>2, <1>4, <1>5 DEF TypeOK
<1>7. CallInv'
  BY <1>1, <1>2, <1>4 DEF CallInv
<1>8. saved[u].follows = room[u].follows
  BY <1>1, <1>2, <1>3 DEF FollowInv
<1>9. FollowInv' /\ AnsweredCommandsKept'
  BY <1>1, <1>2, <1>4, <1>5, <1>8 DEF FollowInv, AnsweredCommandsKept
<1> QED
  BY <1>2, <1>6, <1>7, <1>9, ClientFrame

\* The client goes into chat mode.
LEMMA EnterChatInv ==
  ASSUME IInv, NEW u \in User, EnterChat(u)
  PROVE  IInv'
<1>1. TypeOK /\ CallInv /\ FollowInv /\ AnsweredCommandsKept
  BY DEF IInv
<1>2. /\ mode[u] = "menu" /\ mode' = [mode EXCEPT ![u] = "chat"]
      /\ UNCHANGED <<up, room, saved, handler, got, base, relayed, overtaken,
                     wire, closed, asked, call, told, cur, first, starting,
                     joining, connected, logged, said, commands, failures>>
  BY DEF EnterChat, server, asking, network, bounds
<1>3. /\ mode' \in [User -> {"out", "menu", "ask", "chat"}]
      /\ mode'[u] = "chat" /\ \A x \in User \ {u} : mode'[x] = mode[x]
  BY <1>1, <1>2 DEF TypeOK
<1>4. TypeOK'
  BY <1>1, <1>2, <1>3 DEF TypeOK
<1>5. CallInv' /\ FollowInv' /\ AnsweredCommandsKept'
  BY <1>1, <1>2, <1>3 DEF CallInv, FollowInv, AnsweredCommandsKept
<1> QED
  BY <1>2, <1>4, <1>5, ClientFrame

\* The threads of a client that see no server, and the end of a client.
LEMMA ThreadsInv ==
  ASSUME IInv, NEW u \in User, OpenInVain(u) \/ WatchFails(u) \/ Kill(u)
  PROVE  IInv'
<1>1. TypeOK /\ CallInv /\ FollowInv /\ AnsweredCommandsKept
  BY DEF IInv
<1>2. /\ mode[u] = "chat" /\ mode' \in {mode, [mode EXCEPT ![u] = "out"]}
      /\ first' \in {first, [first EXCEPT ![u] = TRUE]}
      /\ joining' \in {joining, [joining EXCEPT ![u] = FALSE]}
      /\ UNCHANGED <<up, room, saved, handler, got, base, relayed, overtaken,
                     wire, asked, call, told, cur, said, commands>>
  BY DEF OpenInVain, WatchFails, Kill, server, asking, network, bounds
<1>3. /\ starting' \in [User -> 0 .. MaxWriters]
      /\ connected' \in [User -> {0, 2}]
  <2>1. MaxWriters \in Nat
    BY BoundsAssumption
  <2>2. CASE OpenInVain(u)
    <3>1. starting[u] + 1 \in 0 .. MaxWriters
      BY <1>1, <2>1, <2>2 DEF OpenInVain, TypeOK
    <3> QED
      BY <1>1, <2>2, <3>1 DEF OpenInVain, TypeOK
  <2>3. CASE WatchFails(u)
    BY <1>1, <2>3 DEF WatchFails, TypeOK
  <2>4. CASE Kill(u)
    BY <1>1, <2>1, <2>4 DEF Kill, TypeOK
  <2> QED
    BY <2>2, <2>3, <2>4
<1>4. closed' \subseteq Stream /\ logged' \subseteq User
  <2>1. CASE Kill(u)
    <3>1. Broken(u) \/ <<u, cur[u]>> \in Stream
      BY <1>1 DEF Broken, TypeOK, Stream
    <3> QED
      BY <1>1, <2>1, <3>1 DEF Kill, TypeOK
  <2>2. CASE OpenInVain(u) \/ WatchFails(u)
    BY <1>1, <2>2 DEF OpenInVain, WatchFails, network, TypeOK
  <2> QED
    BY <2>1, <2>2
<1>5. failures' \in 0 .. MaxFailures /\ overtaken' = overtaken
  <2>1. CASE Kill(u)
    BY <1>1, <2>1, BoundsAssumption DEF Kill, TypeOK, server
  <2>2. CASE OpenInVain(u) \/ WatchFails(u)
    BY <1>1, <2>2 DEF OpenInVain, WatchFails, bounds, server, TypeOK
  <2> QED
    BY <2>1, <2>2
<1>6. /\ mode' \in [User -> {"out", "menu", "ask", "chat"}]
      /\ mode'[u] # "ask" /\ \A x \in User \ {u} : mode'[x] = mode[x]
      /\ first' \in [User -> BOOLEAN] /\ joining' \in [User -> BOOLEAN]
  <2>1. mode \in [User -> {"out", "menu", "ask", "chat"}]
    BY <1>1 DEF TypeOK
  <2>2. /\ mode' \in [User -> {"out", "menu", "ask", "chat"}]
        /\ mode'[u] # "ask" /\ \A x \in User \ {u} : mode'[x] = mode[x]
    <3>1. CASE mode' = mode
      BY <1>2, <2>1, <3>1
    <3>2. CASE mode' = [mode EXCEPT ![u] = "out"]
      BY <2>1, <3>2
    <3> QED
      BY <1>2, <3>1, <3>2
  <2>3. first \in [User -> BOOLEAN] /\ joining \in [User -> BOOLEAN]
    BY <1>1 DEF TypeOK
  <2>4. first' \in [User -> BOOLEAN] /\ joining' \in [User -> BOOLEAN]
    BY <1>2, <2>3
  <2> QED
    BY <2>2, <2>4
<1>7. TypeOK'
  BY <1>1, <1>2, <1>3, <1>4, <1>5, <1>6 DEF TypeOK
<1>8. CallInv' /\ FollowInv' /\ AnsweredCommandsKept'
  BY <1>1, <1>2, <1>6 DEF CallInv, FollowInv, AnsweredCommandsKept
<1> QED
  BY <1>2, <1>7, <1>8, ClientFrame

\* The stream that a client opens has had no handler.
LEMMA OpenInv ==
  ASSUME IInv, NEW u \in User, Open(u)
  PROVE  IInv'
<1> DEFINE s == <<u, cur[u] + 1>>
<1>1. /\ TypeOK /\ HandlerInv /\ CallInv /\ RoomInv /\ StreamInv /\ UniqueInv
      /\ SaidInv /\ FileInv /\ RelayedSurvives /\ FollowInv
      /\ AnsweredCommandsKept /\ MissInv
  BY DEF IInv
<1>2. /\ up /\ cur[u] < MaxStreams /\ cur' = [cur EXCEPT ![u] = @ + 1]
      /\ handler' = [handler EXCEPT ![s] = Waiting]
      /\ UNCHANGED <<up, room, saved, got, base, relayed, overtaken, wire,
                     closed, asked, call, told, mode, first, connected, logged,
                     said, commands, failures>>
  BY DEF Open, asking, network, bounds
<1>3. /\ cur \in [User -> 0 .. MaxStreams] /\ MaxStreams \in Nat
      /\ cur[u] \in Nat /\ cur[u] + 1 \in 1 .. MaxStreams
  BY <1>1, <1>2, BoundsAssumption DEF TypeOK
<1>4. s \in Stream /\ s[1] = u /\ s[2] = cur[u] + 1
  BY <1>3 DEF Stream
<1> HIDE DEF s
<1>5. /\ cur' \in [User -> 0 .. MaxStreams] /\ cur'[u] = cur[u] + 1
      /\ \A x \in User \ {u} : cur'[x] = cur[x]
  BY <1>2, <1>3
<1>6. handler[s] = Ended
  <2>1. handler[s].pc # "read"
    BY <1>1, <1>3, <1>4 DEF HandlerInv
  <2>2. handler[s].pc \in {"read", "ended"}
    BY <1>1, <1>4 DEF TypeOK, Handler
  <2> QED
    BY <1>1, <1>4, <2>1, <2>2 DEF HandlerInv
<1>7. /\ Waiting \in Handler /\ Waiting.pc = "read" /\ Waiting.todo = <<>>
      /\ Waiting.msg = "none" /\ Waiting.left = {}
      /\ Ended.pc = "ended" /\ Ended.todo = <<>> /\ Ended.msg = "none"
      /\ Ended.left = {}
  <2>1. <<>> \in Seq({"add", "show", "post", "save", "collect", "send"})
    OBVIOUS
  <2> QED
    BY <2>1 DEF Waiting, Ended, Handler
<1>8. /\ handler' \in [Stream -> Handler] /\ handler'[s] = Waiting
      /\ \A t \in Stream \ {s} : handler'[t] = handler[t]
      /\ \A t \in Stream : /\ handler'[t].msg = handler[t].msg
                           /\ handler'[t].todo = handler[t].todo
                           /\ handler'[t].left = handler[t].left
                           /\ handler[t].pc = "read" => handler'[t].pc = "read"
  BY <1>1, <1>2, <1>4, <1>6, <1>7 DEF TypeOK
<1>9. TypeOK'
  <2>1. MaxWriters \in Nat
    BY BoundsAssumption
  <2>2. /\ starting' \in [User -> 0 .. MaxWriters]
        /\ joining' \in [User -> BOOLEAN]
    <3>1. CASE first[u]
      <4>1. starting[u] + 1 \in 0 .. MaxWriters
        BY <1>1, <2>1, <3>1 DEF Open, TypeOK
      <4> QED
        BY <1>1, <3>1, <4>1 DEF Open, TypeOK
    <3>2. CASE ~first[u]
      BY <1>1, <3>2 DEF Open, TypeOK
    <3> QED
      BY <3>1, <3>2
  <2> QED
    BY <1>1, <1>2, <1>5, <1>8, <2>2 DEF TypeOK
<1>10. HandlerInv'
  <2>1. ASSUME NEW t \in Stream
        PROVE  /\ AtStep(handler'[t])
               /\ handler'[t].pc = "ended" => handler'[t] = Ended
               /\ handler'[t].pc = "read" => up' /\ t[2] <= cur'[t[1]]
    <3>1. CASE t = s
      BY <1>2, <1>3, <1>4, <1>5, <1>7, <1>8, <3>1 DEF AtStep
    <3>2. CASE t # s
      <4>1. t[1] \in User /\ t[2] \in Nat
        BY <1>3 DEF Stream
      <4>2. cur[t[1]] \in Nat /\ cur[t[1]] <= cur'[t[1]]
        BY <1>3, <1>5, <4>1
      <4>3. handler[t].pc = "read" => up /\ t[2] <= cur[t[1]]
        BY <1>1 DEF HandlerInv
      <4>4. handler[t].pc = "read" => t[2] <= cur'[t[1]]
        BY <1>5, <4>1, <4>2, <4>3
      <4> QED
        BY <1>1, <1>2, <1>8, <3>2, <4>3, <4>4 DEF HandlerInv
    <3> QED
      BY <3>1, <3>2
  <2> QED
    BY <2>1 DEF HandlerInv, AtStep
<1>11. UniqueInv' /\ SaidInv'
  <2>1. UniqueInv'
    BY <1>1, <1>2, <1>8 DEF UniqueInv
  <2> QED
    BY <1>1, <1>2, <1>8, <2>1 DEF SaidInv
<1>12. CallInv' /\ RoomInv' /\ FollowInv' /\ RelayedSurvives'
       /\ AnsweredCommandsKept'
  BY <1>1, <1>2 DEF CallInv, RoomInv, FollowInv, RelayedSurvives,
                    AnsweredCommandsKept
<1>13. StreamInv' /\ FileInv'
  <2>1. StreamInv'
    BY <1>1, <1>2, <1>8 DEF StreamInv
  <2> QED
    BY <1>1, <1>2, <1>8, <2>1 DEF FileInv
<1>14. MissInv'
  <2>1. \A x \in User : \A chat, t : Due(chat, x, t) => Due(chat, x, t)'
    BY <1>2, <1>8 DEF Due
  <2> QED
    BY <1>1, <1>2, <1>8, <2>1 DEF MissInv, StreamInv
<1> QED
  BY <1>9, <1>10, <1>11, <1>12, <1>13, <1>14 DEF IInv

\* A message that is new is written to the stream of a client, or is lost.
LEMMA WriteInv ==
  ASSUME IInv, NEW u \in User, NEW what \in What, Write(u, what),
         what \in Message => what \notin said /\ what \in said',
         said \subseteq said', said' \subseteq Message,
         first' \in [User -> BOOLEAN], joining' \in [User -> BOOLEAN],
         starting' \in [User -> 0 .. MaxWriters],
         UNCHANGED <<up, room, saved, handler, got, base, relayed, overtaken,
                     closed, asked, call, told, mode, cur, connected, logged,
                     commands, failures>>
  PROVE  IInv'
<1> DEFINE s == <<u, cur[u]>>
<1>1. /\ TypeOK /\ HandlerInv /\ CallInv /\ RoomInv /\ StreamInv /\ UniqueInv
      /\ SaidInv /\ FileInv /\ RelayedSurvives /\ FollowInv
      /\ AnsweredCommandsKept /\ MissInv
  BY DEF IInv
<1>2. /\ CallInv' /\ RoomInv' /\ StreamInv' /\ HandlerInv'
      /\ FileInv' /\ RelayedSurvives'
  BY <1>1 DEF CallInv, RoomInv, StreamInv, HandlerInv, FileInv,
              RelayedSurvives, AtStep
<1>3. FollowInv' /\ AnsweredCommandsKept' /\ MissInv'
  BY <1>1 DEF FollowInv, AnsweredCommandsKept, MissInv, Due
<1>4. CASE Broken(u)
  <2>1. wire' = wire
    BY <1>4 DEF Write
  <2>2. TypeOK' /\ UniqueInv' /\ SaidInv'
    BY <1>1, <2>1 DEF TypeOK, UniqueInv, SaidInv
  <2> QED
    BY <1>2, <1>3, <2>2 DEF IInv
<1>5. CASE ~Broken(u)
  <2>1. wire' = [wire EXCEPT ![s] = Append(@, what)]
    BY <1>5 DEF Write
  <2>2. s \in Stream
    BY <1>1, <1>5 DEF Broken, TypeOK, Stream
  <2> HIDE DEF s
  <2>3. wire \in [Stream -> Seq(What)] /\ wire[s] \in Seq(What)
    BY <1>1, <2>2 DEF TypeOK
  <2> DEFINE n == Len(wire[s]) + 1
  <2>4. /\ Append(wire[s], what) \in Seq(What)
        /\ n \notin DOMAIN wire[s]
        /\ DOMAIN Append(wire[s], what) = DOMAIN wire[s] \cup {n}
        /\ Append(wire[s], what)[n] = what
        /\ \A i \in DOMAIN wire[s] : Append(wire[s], what)[i] = wire[s][i]
    BY <2>3
  <2> HIDE DEF n
  <2>5. /\ wire' \in [Stream -> Seq(What)]
        /\ wire'[s] = Append(wire[s], what)
        /\ \A t \in Stream \ {s} : wire'[t] = wire[t]
    BY <2>1, <2>2, <2>3, <2>4
  <2>6. \A t \in Stream : \A i \in DOMAIN wire'[t] :
          \/ t = s /\ i = n /\ wire'[t][i] = what
          \/ i \in DOMAIN wire[t] /\ wire'[t][i] = wire[t][i]
    BY <2>4, <2>5
  <2>7. TypeOK'
    BY <1>1, <2>5 DEF TypeOK
  <2>8. SaidInv'
    BY <1>1, <2>6 DEF SaidInv
  <2>9. UniqueInv'
    <3>1. /\ \A t \in Stream : handler[t].msg # what \/ what \notin Message
          /\ \A t \in Stream : \A i \in DOMAIN wire[t] :
               wire[t][i] # what \/ what \notin Message
      BY <1>1 DEF SaidInv
    <3>2. \A t, r \in Stream : \A i \in DOMAIN wire'[t] :
            wire'[t][i] \in Message => handler[r].msg # wire'[t][i]
      BY <1>1, <2>6, <3>1 DEF UniqueInv
    <3>3. ASSUME NEW t \in Stream, NEW r \in Stream, NEW i \in DOMAIN wire'[t],
                 NEW j \in DOMAIN wire'[r],
                 wire'[t][i] \in Message, wire'[t][i] = wire'[r][j]
          PROVE  t = r /\ i = j
      BY <1>1, <2>6, <3>1, <3>3 DEF UniqueInv
    <3> QED
      BY <1>1, <3>2, <3>3 DEF UniqueInv
  <2> QED
    BY <1>2, <1>3, <2>7, <2>8, <2>9 DEF IInv
<1> QED
  BY <1>4, <1>5

\* What the threads of a client write.
LEMMA WritersInv ==
  ASSUME IInv, NEW u \in User,
         WriteSet(u) \/ WriteSet2(u) \/ \E m \in Message : Say(u, m)
  PROVE  IInv'
<1>1. TypeOK
  BY DEF IInv
<1>2. {"set", "set2"} \subseteq What /\ Message \subseteq What
  BY DEF What
<1>3. "set" \notin Message /\ "set2" \notin Message
  BY MessageAssumption
<1> USE DEF server, asking, client, bounds
<1>4. CASE WriteSet(u)
  <2>1. MaxWriters \in Nat
    BY BoundsAssumption
  <2>2. starting[u] - 1 \in 0 .. MaxWriters
    BY <1>1, <1>4, <2>1 DEF WriteSet, TypeOK
  <2>3. /\ starting' \in [User -> 0 .. MaxWriters]
        /\ first' \in [User -> BOOLEAN] /\ joining' \in [User -> BOOLEAN]
    BY <1>1, <1>4, <2>2 DEF WriteSet, TypeOK
  <2>4. said' = said /\ said \subseteq Message
    BY <1>1, <1>4 DEF WriteSet, TypeOK
  <2> QED
    BY <1>2, <1>3, <1>4, <2>3, <2>4, WriteInv DEF WriteSet
<1>5. CASE WriteSet2(u)
  <2>1. /\ starting' \in [User -> 0 .. MaxWriters]
        /\ first' \in [User -> BOOLEAN] /\ joining' \in [User -> BOOLEAN]
    BY <1>1, <1>5 DEF WriteSet2, TypeOK
  <2>2. said' = said /\ said \subseteq Message
    BY <1>1, <1>5 DEF WriteSet2, TypeOK
  <2> QED
    BY <1>2, <1>3, <1>5, <2>1, <2>2, WriteInv DEF WriteSet2
<1>6. ASSUME NEW m \in Message, Say(u, m)
      PROVE  IInv'
  <2>1. /\ starting' \in [User -> 0 .. MaxWriters]
        /\ first' \in [User -> BOOLEAN] /\ joining' \in [User -> BOOLEAN]
    BY <1>1, <1>6 DEF Say, TypeOK
  <2>2. m \notin said /\ said' = said \cup {m} /\ said' \subseteq Message
    BY <1>1, <1>6 DEF Say, TypeOK
  <2> QED
    BY <1>2, <1>6, <2>1, <2>2, WriteInv DEF Say
<1> QED
  BY <1>4, <1>5, <1>6

-----------------------------------------------------------------------------
(***************************************************************************)
(* The theorems                                                            *)
(***************************************************************************)

\* The invariant holds at first.
LEMMA InitInv ==
  Init => IInv
<1> SUFFICES ASSUME Init PROVE IInv
  OBVIOUS
<1> USE DEF Init
<1>1. /\ NoRoom \in Room /\ NoRoom.exists = FALSE /\ NoRoom.follows = {}
      /\ NoRoom.stream = NoStream /\ NoRoom.chats = {}
  BY DEF NoRoom, Room
<1>2. /\ Ended \in Handler /\ Ended.pc = "ended" /\ Ended.todo = <<>>
      /\ Ended.msg = "none"
  <2>1. <<>> \in Seq({"add", "show", "post", "save", "collect", "send"})
    OBVIOUS
  <2> QED
    BY <2>1 DEF Ended, Handler
<1>3. room \in [User -> Room] /\ \A u \in User : room[u] = NoRoom
  BY <1>1
<1>4. /\ saved \in [User -> SavedRoom]
      /\ \A u \in User : /\ saved[u].exists = FALSE
                         /\ saved[u].follows = {} /\ saved[u].chats = {}
  BY <1>1, <1>3, WrittenRooms
<1>5. "none" \notin Message
  BY MessageAssumption
<1>6. <<>> \in Seq(What) /\ DOMAIN <<>> = {}
  OBVIOUS
<1>7. handler \in [Stream -> Handler] /\ \A s \in Stream : handler[s] = Ended
  BY <1>2
<1>8. wire \in [Stream -> Seq(What)] /\ \A s \in Stream : DOMAIN wire[s] = {}
  BY <1>6
<1>9. TypeOK
  <2>1. MaxStreams \in Nat /\ MaxWriters \in Nat /\ MaxCommands \in Nat
        /\ MaxFailures \in Nat
    BY BoundsAssumption
  <2> QED
    BY <1>1, <1>3, <1>4, <1>7, <1>8, <2>1 DEF TypeOK
<1>10. HandlerInv /\ CallInv
  BY <1>2, <1>7 DEF HandlerInv, CallInv, AtStep
<1>11. RoomInv /\ StreamInv /\ MissInv
  BY <1>1, <1>3, <1>4 DEF RoomInv, StreamInv, MissInv
<1>12. UniqueInv /\ SaidInv
  BY <1>2, <1>5, <1>7, <1>8 DEF UniqueInv, SaidInv
<1>13. FileInv /\ RelayedSurvives /\ FollowInv /\ AnsweredCommandsKept
  BY <1>1, <1>2, <1>3, <1>4, <1>7, StepsType
     DEF FileInv, RelayedSurvives, FollowInv, AnsweredCommandsKept
<1> QED
  BY <1>9, <1>10, <1>11, <1>12, <1>13 DEF IInv

\* Every step keeps it.
LEMMA NextInv ==
  IInv /\ [Next]_vars => IInv'
<1> SUFFICES ASSUME IInv, [Next]_vars PROVE IInv'
  OBVIOUS
<1>1. ASSUME NEW s \in Stream, Serve(s)
      PROVE  IInv'
  BY <1>1, ReceiveInv, AddStreamInv, ShowChatsInv, PostChatInv, SaveRoomsInv,
     CollectInv, SendInv, HangUpInv DEF Serve
<1>2. CASE Crash
  BY <1>2, CrashInv
<1>3. CASE TakeOver
  BY <1>3, TakeOverInv
<1>4. ASSUME NEW u \in User, RunsCommand(u) \/ LateCommand(u)
      PROVE  IInv'
  BY <1>4, CommandFailsInv, RunCommandInv, KeepCommandInv, AnswerCommandInv,
     AgainInv DEF RunsCommand
<1>5. ASSUME NEW u \in User, NEW w \in User,
             Command(u, "join", w) \/ Command(u, "leave", w)
             \/ Command(u, "list", w)
      PROVE  IInv'
  BY <1>5, CommandInv
<1>6. ASSUME NEW u \in User,
             \/ Start(u) \/ EnterChat(u) \/ ReConnect(u) \/ Kill(u)
             \/ OpenInVain(u) \/ WatchFails(u)
      PROVE  IInv'
  BY <1>6, StartInv, EnterChatInv, ReConnectInv, ThreadsInv
<1>7. ASSUME NEW u \in User, Open(u)
      PROVE  IInv'
  BY <1>7, OpenInv
<1>8. ASSUME NEW u \in User,
             WriteSet(u) \/ WriteSet2(u) \/ \E m \in Message : Say(u, m)
      PROVE  IInv'
  BY <1>8, WritersInv
<1>9. CASE UNCHANGED vars
  <2>1. UNCHANGED <<up, room, saved, handler, got, base, relayed, overtaken,
                    wire, closed, asked, call, told, mode, cur, first,
                    starting, joining, connected, logged, said, commands,
                    failures>>
    BY <1>9 DEF vars, server, asking, client, network, bounds
  <2>2. TypeOK' /\ CallInv' /\ FollowInv' /\ AnsweredCommandsKept'
    BY <2>1 DEF IInv, TypeOK, CallInv, FollowInv, AnsweredCommandsKept
  <2> QED
    BY <2>1, <2>2, ClientFrame
<1> QED
  BY <1>1, <1>2, <1>3, <1>4, <1>5, <1>6, <1>7, <1>8, <1>9 DEF Next, MainThread

\* The inductive invariant holds.
THEOREM Invariant == Spec => []IInv
BY InitInv, NextInv, PTL DEF Spec

\* Every variable has its type, and no room has the stream of another user.
THEOREM TypeCorrect == Spec => []TypeOK
<1>1. IInv => TypeOK
  BY DEF IInv
<1> QED
  BY <1>1, Invariant, PTL

\* A chat is never collected for a stream whose handler has ended.
THEOREM Streams == Spec => []StreamsLive
<1>1. IInv => StreamsLive
  BY DEF IInv, StreamInv, StreamsLive
<1> QED
  BY <1>1, Invariant, PTL

\* A chat that is due is coming.
LEMMA DueComes ==
  ASSUME NEW chat, NEW u, NEW s, Due(chat, u, s)
  PROVE  Coming(chat, s)
<1>1. PICK t \in Stream :
        /\ t[1] = chat[1] /\ handler[t].msg = chat[2]
        /\ \/ handler[t].todo \in {SaveSteps, FindSteps}
           \/ handler[t].todo = SendSteps /\ s \in handler[t].left
  BY DEF Due
<1>2. /\ 2 \in DOMAIN SaveSteps /\ SaveSteps[2] = "collect"
      /\ 1 \in DOMAIN FindSteps /\ FindSteps[1] = "collect"
      /\ 1 \in DOMAIN SendSteps /\ SendSteps[1] = "send"
  BY DEF SaveSteps, FindSteps, SendSteps
<1> QED
  BY <1>1, <1>2 DEF Coming

\* Whoever is in a chat misses nothing that others say in the rooms he follows.
THEOREM Complete == Spec => []NothingMissed
<1>1. IInv => NothingMissed
  <2> SUFFICES ASSUME IInv PROVE NothingMissed
    OBVIOUS
  <2>1. MissInv
    BY DEF IInv
  <2> QED
    BY <2>1, DueComes DEF MissInv, NothingMissed, ShowSteps
<1> QED
  BY <1>1, Invariant, PTL

\* What followers have been told outlives the master, unless their rooms were
\* not in the file when it was cut short.
THEOREM Relayed == Spec => []RelayedSurvives
<1>1. IInv => RelayedSurvives
  BY DEF IInv
<1> QED
  BY <1>1, Invariant, PTL

\* Answers to JOIN and LEAVE outlive the master, with the same exception.
THEOREM Answered == Spec => []AnsweredCommandsKept
<1>1. IInv => AnsweredCommandsKept
  BY DEF IInv
<1> QED
  BY <1>1, Invariant, PTL
=============================================================================
