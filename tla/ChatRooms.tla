----------------------------- MODULE ChatRooms -----------------------------
(***************************************************************************)
(* What the three commands of the chat service do to the chat rooms of a   *)
(* process: the parts of hw3/src/fbsd/chat_manager.cc under lock_manager,  *)
(* and chat_room.cc below them.                                            *)
(*                                                                         *)
(* rooms is _chatRooms, as a function from the owners: a room holds the    *)
(* names its owner follows and the chats it has been sent.                 *)
(***************************************************************************)
EXTENDS SequencesExt, TLC

NoRooms == <<>>

NewRoom(user) == [participants |-> {user}, chats |-> <<>>]

\* JoinChatRoom: a user who has no room gets one by joining himself; who has
\* one can follow any user who has one.
Join(rooms, user, target) ==
  IF user \notin DOMAIN rooms
  THEN IF user = target THEN rooms @@ (user :> NewRoom(user)) ELSE rooms
  ELSE IF target \in DOMAIN rooms
       THEN [rooms EXCEPT ![user].participants = @ \cup {target}]
       ELSE rooms

\* LeaveChatRoom: nobody leaves himself.
Leave(rooms, user, target) ==
  IF user # target /\ user \in DOMAIN rooms
  THEN [rooms EXCEPT ![user].participants = @ \ {target}]
  ELSE rooms

\* PostChat: into every room that follows the sender.
PostTo(room, sender, chat) ==
  IF sender \in room.participants
  THEN [room EXCEPT !.chats = Append(@, chat)] ELSE room

Post(rooms, sender, chat) ==
  [owner \in DOMAIN rooms |-> PostTo(rooms[owner], sender, chat)]

\* A command as OnDataUpdated and runCmd take it apart.
RunCmd(rooms, cmd) ==
  CASE cmd.op = "join"  -> Join(rooms, cmd.user, cmd.arg)
    [] cmd.op = "leave" -> Leave(rooms, cmd.user, cmd.arg)
    [] cmd.op = "post"  -> Post(rooms, cmd.user, cmd.arg)

\* The rooms that a sequence of commands has made.
RoomsOf(log) == FoldLeft(RunCmd, NoRooms, log)
=============================================================================
