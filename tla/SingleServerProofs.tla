------------------------- MODULE SingleServerProofs -------------------------
(***************************************************************************)
(* Proofs about SingleServer, for every set of clients, users and messages *)
(* and any number of commands and crashes.                                 *)
(***************************************************************************)
EXTENDS SingleServer, FiniteSetTheorems, WellFoundedInduction, TLAPS

\* The chats of a room, new or not.
ChatsOf(r) == ToSet(r.chats) \cup ToSet(r.fresh)

\* The room of a user has a chat, has it as one that is not new, the file has
\* it, and what is left of it when the server is started the next time.
Kept(o, c) == \E i \in DOMAIN rooms : rooms[i].owner = o /\ c \in ChatsOf(rooms[i])
Old(o, c) == \E i \in DOMAIN rooms :
                rooms[i].owner = o /\ c \in ToSet(rooms[i].chats)
Filed(o, c) == \E i \in DOMAIN file.rooms :
                  file.rooms[i].owner = o /\ c \in ToSet(file.rooms[i].chats)
Held(o, c) == IF srv = "up" THEN Kept(o, c) ELSE Filed(o, c)

\* The threads that have run their command and have not answered.
Busy(t) == thread[t].pc \in {"saving", "answering"}
PostCalled(t) == thread[t].pc = "called" /\ thread[t].op = "post"
PostDone(t) == Busy(t) /\ thread[t].op = "post"
InAnswer(t, c) == Busy(t) /\ c \in ToSet(thread[t].got)

\* A chat is in a room, in the file, or in an answer that is not sent yet.
About(c) == \/ \E o \in User : Kept(o, c) \/ Filed(o, c)
            \/ \E t \in Thread : InAnswer(t, c)

\* A thread writes only with the lock, and none is left when the server is not
\* up; the answer to a post is its chat.
ThreadInv ==
  /\ \A t \in Thread : /\ thread[t].pc = "saving" => lock = t
                       /\ srv # "up" => thread[t].pc = "idle"
                       /\ PostDone(t) => Len(thread[t].got) = 1
  /\ srv # "up" => rooms = <<>>

\* No user has two rooms.
OneEach(rs) == \A i, j \in DOMAIN rs : rs[i].owner = rs[j].owner => i = j
OwnerInv == OneEach(rooms) /\ OneEach(file.rooms)

\* Each message is posted once.
ChatInv == \A c, d \in ChatRecord : About(c) /\ About(d) /\ c.msg = d.msg => c = d

PostInv ==
  \A t \in Thread :
    /\ PostCalled(t) =>
         /\ thread[t].arg \in posted
         /\ \A c \in ChatRecord : About(c) => c.msg # thread[t].arg
         /\ \A p \in trimmed : p[2] # thread[t].arg
         /\ \A x \in Thread :
              PostCalled(x) /\ thread[x].arg = thread[t].arg => x = t
    /\ PostDone(t) =>
         \A x \in Thread :
           PostDone(x) /\ thread[x].got[1] = thread[t].got[1] => x = t
PostedInv == /\ \A c \in ChatRecord : About(c) => c.msg \in posted
             /\ \A p \in trimmed : p[2] \in posted

\* What has been deleted is not there any more.
TrimInv == \A o \in User, c \in ChatRecord : Held(o, c) => Copy(o, c) \notin trimmed

\* A copy that is there, by the chats of the rooms and by those of the file.
AnswerInv ==
  ~ruined => \A p \in answered :
               \/ p \in trimmed
               \/ \E c \in ChatRecord : Held(p[1], c) /\ c.msg = p[2]

\* The file lags behind the rooms only by the post that is being written.
FileInv ==
  ~ruined =>
    /\ ~file.cut
    /\ \A p \in answered :
         \/ p \in trimmed
         \/ \E c \in ChatRecord : Filed(p[1], c) /\ c.msg = p[2]
    /\ \A o \in User, c \in ChatRecord :
         Kept(o, c) =>
           \/ Filed(o, c)
           \/ lock # NoThread /\ thread[lock].op = "post" /\ c = thread[lock].got[1]

\* A chat that is not new any more.
OnItsWay(o, c) ==
  \E t \in Thread : /\ InAnswer(t, c)
                    /\ user[t[1]] = o /\ thread[t].op \in {"show", "wait"}
TakenInv ==
  srv = "up" =>
    \A o \in User, c \in ChatRecord :
      Old(o, c) => Copy(o, c) \in seen \cup wasted \/ OnItsWay(o, c)

\* The inductive invariant.
IInv ==
  /\ TypeOK /\ ThreadInv /\ OwnerInv /\ ChatInv /\ PostInv /\ PostedInv
  /\ TrimInv /\ AnswerInv /\ FileInv /\ TakenInv

-----------------------------------------------------------------------------
(***************************************************************************)
(* Sequences                                                               *)
(***************************************************************************)

\* A set of positions has a first one.
LEMMA FirstPosition ==
  ASSUME NEW n \in Nat, NEW I \in SUBSET (1 .. n), I # {}
  PROVE  Min(I) \in I
<1> DEFINE Up(x) == 1 .. x
           F == {Up(x) : x \in I}
<1>1. \A x \in I : Up(x) \in FiniteSubsetsOf(Nat)
  BY FS_Interval DEF FiniteSubsetsOf
<1>2. F \subseteq FiniteSubsetsOf(Nat) /\ F # {}
  BY <1>1
<1> HIDE DEF F
<1>3. PICK T \in F : \A U \in F : <<U, T>> \notin StrictSubsetOrdering(Nat)
  BY <1>2, FS_StrictSubsetOrderingWellFounded, WFMin
<1>4. PICK x \in I : T = Up(x)
  BY <1>3 DEF F
<1>5. ASSUME NEW y \in I
      PROVE  x =< y
  <2>1. Up(y) \in F
    BY DEF F
  <2>2. ~(Up(y) \subseteq Up(x) /\ Up(y) # Up(x))
    <3>1. <<Up(y), Up(x)>> \notin StrictSubsetOrdering(Nat)
      BY <1>3, <1>4, <2>1
    <3>2. Up(y) \in SUBSET Nat /\ Up(x) \in SUBSET Nat
      BY <1>1 DEF FiniteSubsetsOf
    <3> HIDE DEF Up
    <3> QED
      BY <3>1, <3>2 DEF StrictSubsetOrdering
  <2>3. x \in 1 .. n /\ y \in 1 .. n
    OBVIOUS
  <2> QED
    BY <2>2, <2>3
<1> QED
  BY <1>5 DEF Min

\* The elements of sequences that are put together.
LEMMA SetOfConcat ==
  ASSUME NEW S, NEW s \in Seq(S), NEW t \in Seq(S)
  PROVE  s \o t \in Seq(S) /\ ToSet(s \o t) = ToSet(s) \cup ToSet(t)
<1>1. /\ s \o t \in Seq(S) /\ Len(s \o t) = Len(s) + Len(t)
      /\ DOMAIN s = 1 .. Len(s) /\ DOMAIN t = 1 .. Len(t)
      /\ DOMAIN (s \o t) = 1 .. (Len(s) + Len(t))
      /\ Len(s) \in Nat /\ Len(t) \in Nat
      /\ \A i \in DOMAIN s : (s \o t)[i] = s[i]
      /\ \A i \in DOMAIN t : (s \o t)[Len(s) + i] = t[i]
  OBVIOUS
<1>2. \A i \in DOMAIN (s \o t) :
        i \in DOMAIN s \/ (i - Len(s) \in DOMAIN t /\ i = Len(s) + (i - Len(s)))
  BY <1>1
<1>3. ASSUME NEW i \in DOMAIN (s \o t)
      PROVE  (s \o t)[i] \in ToSet(s) \cup ToSet(t)
  <2>1. CASE i \in DOMAIN s
    BY <1>1, <2>1 DEF ToSet
  <2>2. CASE i - Len(s) \in DOMAIN t /\ i = Len(s) + (i - Len(s))
    <3>1. (s \o t)[i] = t[i - Len(s)]
      BY <1>1, <2>2
    <3> QED
      BY <2>2, <3>1 DEF ToSet
  <2> QED
    BY <1>2, <2>1, <2>2
<1>4. \A i \in DOMAIN s : s[i] \in ToSet(s \o t)
  <2>1. \A i \in DOMAIN s : i \in DOMAIN (s \o t) /\ s[i] = (s \o t)[i]
    BY <1>1
  <2> QED
    BY <2>1 DEF ToSet
<1>5. \A i \in DOMAIN t : t[i] \in ToSet(s \o t)
  <2>1. \A i \in DOMAIN t : /\ Len(s) + i \in DOMAIN (s \o t)
                            /\ t[i] = (s \o t)[Len(s) + i]
    BY <1>1
  <2> QED
    BY <2>1 DEF ToSet
<1> QED
  BY <1>1, <1>3, <1>4, <1>5 DEF ToSet

LEMMA SetOfAppend ==
  ASSUME NEW S, NEW s \in Seq(S), NEW x \in S
  PROVE  /\ Append(s, x) \in Seq(S) /\ ToSet(Append(s, x)) = ToSet(s) \cup {x}
         /\ \A k \in DOMAIN Append(s, x) :
              (k \in DOMAIN s /\ Append(s, x)[k] = s[k]) \/ Append(s, x)[k] = x
<1>1. /\ Append(s, x) \in Seq(S)
      /\ DOMAIN Append(s, x) = DOMAIN s \cup {Len(s) + 1}
      /\ \A i \in DOMAIN s : Append(s, x)[i] = s[i]
      /\ Append(s, x)[Len(s) + 1] = x
  OBVIOUS
<1> QED
  BY <1>1 DEF ToSet

LEMMA SetOfTail ==
  ASSUME NEW S, NEW s \in Seq(S), s # <<>>
  PROVE  /\ Tail(s) \in Seq(S) /\ Head(s) \in S
         /\ ToSet(s) = {Head(s)} \cup ToSet(Tail(s))
<1>1. /\ Tail(s) \in Seq(S) /\ Head(s) \in S /\ Head(s) = s[1]
      /\ 1 \in DOMAIN s /\ DOMAIN s = 1 .. Len(s) /\ Len(s) \in Nat
      /\ \A i \in DOMAIN Tail(s) : i + 1 \in DOMAIN s /\ Tail(s)[i] = s[i + 1]
      /\ DOMAIN Tail(s) = 1 .. (Len(s) - 1)
  OBVIOUS
<1>2. \A i \in DOMAIN s : i = 1 \/ (i - 1 \in DOMAIN Tail(s) /\ i = (i - 1) + 1)
  BY <1>1
<1>3. \A i \in DOMAIN s : s[i] \in {Head(s)} \cup ToSet(Tail(s))
  BY <1>1, <1>2 DEF ToSet
<1>4. \A i \in DOMAIN Tail(s) : Tail(s)[i] \in ToSet(s)
  BY <1>1 DEF ToSet
<1>5. ToSet(s) \subseteq {Head(s)} \cup ToSet(Tail(s))
  BY <1>3 DEF ToSet
<1>6. Head(s) \in ToSet(s) /\ ToSet(Tail(s)) \subseteq ToSet(s)
  BY <1>1, <1>4 DEF ToSet
<1> QED
  BY <1>1, <1>5, <1>6

\* The elements of a sequence are finitely many.
LEMMA SetOfFinite ==
  ASSUME NEW S, NEW s \in Seq(S)
  PROVE  IsFiniteSet(ToSet(s)) /\ ToSet(s) \subseteq S
<1>1. DOMAIN s = 1 .. Len(s) /\ Len(s) \in Nat /\ \A i \in DOMAIN s : s[i] \in S
  OBVIOUS
<1>2. IsFiniteSet(DOMAIN s)
  BY <1>1, FS_Interval
<1>3. s \in Surjection(DOMAIN s, ToSet(s))
  BY <1>1 DEF Surjection, ToSet
<1> QED
  BY <1>1, <1>2, <1>3, FS_Surjection DEF ToSet

\* What the sort may return has the same chats, each once.
LEMMA SortedChats ==
  ASSUME NEW S, NEW chats \in Seq(S), NEW s \in Sorted(chats)
  PROVE  /\ s \in Seq(S) /\ ToSet(s) = ToSet(chats)
         /\ \A i, j \in DOMAIN s : s[i] = s[j] => i = j
<1> DEFINE T == ToSet(chats)
           n == Cardinality(T)
<1>1. IsFiniteSet(T) /\ T \subseteq S
  BY SetOfFinite
<1>2. n \in Nat
  BY <1>1, FS_CardinalityType
<1>3. s \in SetToSeqs(T)
  BY DEF Sorted
<1>4. s \in [1 .. n -> T] /\ \A i, j \in 1 .. n : i # j => s[i] # s[j]
  BY <1>3 DEF SetToSeqs
<1> HIDE DEF T, n
<1>5. s \in Injection(1 .. n, T)
  BY <1>4 DEF Injection, IsInjective
<1>6. Cardinality(1 .. n) = n
  BY <1>2, FS_Interval
<1>7. s \in Surjection(1 .. n, T)
  BY <1>1, <1>5, <1>6, FS_Injection DEF n
<1>8. DOMAIN s = 1 .. n /\ s \in Seq(S)
  BY <1>1, <1>2, <1>4
<1>9. ToSet(s) = T
  BY <1>4, <1>7, <1>8 DEF Surjection, ToSet
<1> QED
  BY <1>4, <1>8, <1>9 DEF T

-----------------------------------------------------------------------------
(***************************************************************************)
(* Rooms                                                                   *)
(***************************************************************************)

\* GetChatRoom finds the room of a user when there is one.
LEMMA RoomFound ==
  ASSUME rooms \in Seq(Room), NEW u
  PROVE  /\ HasRoom(u) => /\ RoomIndex(u) \in DOMAIN rooms
                          /\ RoomOf(u) = rooms[RoomIndex(u)]
                          /\ RoomOf(u).owner = u
         /\ ~HasRoom(u) => \A i \in DOMAIN rooms : rooms[i].owner # u
<1> DEFINE I == {i \in 1 .. Len(rooms) : rooms[i].owner = u}
<1>1. DOMAIN rooms = 1 .. Len(rooms) /\ Len(rooms) \in Nat
  OBVIOUS
<1>2. RoomIndex(u) = IF I # {} THEN Min(I) ELSE 0
  BY DEF RoomIndex, SelectInSeq
<1>3. I # {} => Min(I) \in I
  BY <1>1, FirstPosition
<1>4. ~HasRoom(u) => I = {}
  BY <1>1, <1>2, <1>3 DEF HasRoom
<1>5. HasRoom(u) => RoomIndex(u) \in I
  BY <1>2, <1>3 DEF HasRoom
<1> QED
  BY <1>1, <1>4, <1>5 DEF RoomOf

\* Rooms have sets of chats.
LEMMA RoomChats ==
  ASSUME NEW r \in Room
  PROVE  /\ r.owner \in User /\ r.follows \in SUBSET User
         /\ r.chats \in Seq(ChatRecord) /\ r.fresh \in Seq(ChatRecord)
         /\ ChatsOf(r) \subseteq ChatRecord
         /\ r.chats \o r.fresh \in Seq(ChatRecord)
         /\ ToSet(r.chats \o r.fresh) = ChatsOf(r)
<1>1. /\ r.owner \in User /\ r.follows \in SUBSET User
      /\ r.chats \in Seq(ChatRecord) /\ r.fresh \in Seq(ChatRecord)
  BY DEF Room
<1> QED
  BY <1>1, SetOfConcat, SetOfFinite DEF ChatsOf

\* Other rooms than the one that is changed are as they were.
LEMMA RoomChanged ==
  ASSUME rooms \in Seq(Room), NEW k \in DOMAIN rooms, NEW r \in Room,
         rooms' = [rooms EXCEPT ![k] = r]
  PROVE  /\ rooms' \in Seq(Room) /\ DOMAIN rooms' = DOMAIN rooms
         /\ rooms'[k] = r
         /\ \A i \in DOMAIN rooms : i # k => rooms'[i] = rooms[i]
  OBVIOUS

\* The chats of the rooms when one room is changed that keeps its owner.
LEMMA KeptChanged ==
  ASSUME rooms \in Seq(Room), OneEach(rooms), NEW k \in DOMAIN rooms,
         NEW r \in Room, r.owner = rooms[k].owner,
         rooms' = [rooms EXCEPT ![k] = r]
  PROVE  /\ rooms' \in Seq(Room) /\ OneEach(rooms')
         /\ \A o, c : Kept(o, c)' <=>
              IF o = rooms[k].owner THEN c \in ChatsOf(r) ELSE Kept(o, c)
         /\ \A o, c : Old(o, c)' <=>
              IF o = rooms[k].owner THEN c \in ToSet(r.chats) ELSE Old(o, c)
<1>1. /\ rooms' \in Seq(Room) /\ DOMAIN rooms' = DOMAIN rooms
      /\ rooms'[k] = r
      /\ \A i \in DOMAIN rooms : i # k => rooms'[i] = rooms[i]
  BY RoomChanged
<1>2. \A i \in DOMAIN rooms : rooms'[i].owner = rooms[i].owner
  BY <1>1
<1>3. OneEach(rooms')
  BY <1>1, <1>2 DEF OneEach
<1>4. \A i \in DOMAIN rooms : rooms[i].owner = rooms[k].owner => i = k
  BY DEF OneEach
<1>5. ASSUME NEW o, NEW c
      PROVE  Kept(o, c)' <=>
               IF o = rooms[k].owner THEN c \in ChatsOf(r) ELSE Kept(o, c)
  <2>1. Kept(o, c)' <=> \E i \in DOMAIN rooms' :
                          rooms'[i].owner = o /\ c \in ChatsOf(rooms'[i])
    BY DEF Kept, ChatsOf
  <2> QED
    BY <1>1, <1>2, <1>4, <2>1 DEF Kept
<1>6. ASSUME NEW o, NEW c
      PROVE  Old(o, c)' <=>
               IF o = rooms[k].owner THEN c \in ToSet(r.chats) ELSE Old(o, c)
  <2>1. Old(o, c)' <=> \E i \in DOMAIN rooms' :
                         rooms'[i].owner = o /\ c \in ToSet(rooms'[i].chats)
    BY DEF Old
  <2> QED
    BY <1>1, <1>2, <1>4, <2>1 DEF Old
<1> QED
  BY <1>1, <1>3, <1>5, <1>6

\* WriteToFile keeps the owners and writes every chat.
LEMMA WrittenRooms ==
  ASSUME NEW rs \in Seq(Room)
  PROVE  /\ Written(rs) \in Seq(SavedRoom) /\ DOMAIN Written(rs) = DOMAIN rs
         /\ \A i \in DOMAIN rs : /\ Written(rs)[i].owner = rs[i].owner
                                 /\ ToSet(Written(rs)[i].chats) = ChatsOf(rs[i])
<1>1. /\ rs \in [1 .. Len(rs) -> Room] /\ Len(rs) \in Nat
      /\ DOMAIN rs = 1 .. Len(rs)
  OBVIOUS
<1>2. ASSUME NEW i \in DOMAIN rs
      PROVE  /\ Written(rs)[i] \in SavedRoom
             /\ Written(rs)[i].owner = rs[i].owner
             /\ ToSet(Written(rs)[i].chats) = ChatsOf(rs[i])
  <2>1. /\ rs[i].owner \in User /\ rs[i].follows \in SUBSET User
        /\ rs[i].chats \o rs[i].fresh \in Seq(ChatRecord)
        /\ ToSet(rs[i].chats \o rs[i].fresh) = ChatsOf(rs[i])
    BY <1>1, RoomChats
  <2>2. Written(rs)[i] = [owner |-> rs[i].owner, follows |-> rs[i].follows,
                          chats |-> rs[i].chats \o rs[i].fresh]
    BY DEF Written
  <2> QED
    BY <2>1, <2>2 DEF SavedRoom
<1>3. DOMAIN Written(rs) = DOMAIN rs
  BY DEF Written
<1>4. Written(rs) \in [1 .. Len(rs) -> SavedRoom]
  <2>1. Written(rs) = [i \in 1 .. Len(rs) |-> Written(rs)[i]]
    BY <1>1 DEF Written
  <2> QED
    BY <1>1, <1>2, <2>1
<1>5. Written(rs) \in Seq(SavedRoom)
  BY <1>1, <1>4
<1> QED
  BY <1>2, <1>3, <1>5

\* The copies in a file, by their chats.
LEMMA FileCopies ==
  ASSUME NEW rs \in Seq(SavedRoom)
  PROVE  /\ Copies(rs) \subseteq User \X Message
         /\ \A o \in User, m \in Message :
              <<o, m>> \in Copies(rs) <=>
                \E i \in DOMAIN rs : \E c \in ToSet(rs[i].chats) :
                  rs[i].owner = o /\ c.msg = m
         /\ \A i \in DOMAIN rs : rs[i].owner \in User
                                 /\ ToSet(rs[i].chats) \subseteq ChatRecord
<1>1. \A i \in DOMAIN rs : rs[i].owner \in User /\ rs[i].chats \in Seq(ChatRecord)
  <2>1. \A i \in DOMAIN rs : rs[i] \in SavedRoom
    OBVIOUS
  <2> QED
    BY <2>1 DEF SavedRoom
<1>2. \A i \in DOMAIN rs : ToSet(rs[i].chats) \subseteq ChatRecord
  BY <1>1, SetOfFinite
<1>3. \A p : p \in Copies(rs) <=>
        \E i \in DOMAIN rs : \E k \in DOMAIN rs[i].chats :
          p = <<rs[i].owner, rs[i].chats[k].msg>>
  BY DEF Copies, Copy
<1>4. \A p : p \in Copies(rs) <=>
        \E i \in DOMAIN rs : \E c \in ToSet(rs[i].chats) :
          p = <<rs[i].owner, c.msg>>
  BY <1>3 DEF ToSet
<1>5. \A c \in ChatRecord : c.msg \in Message
  BY DEF ChatRecord
<1>6. Copies(rs) \subseteq User \X Message
  BY <1>1, <1>2, <1>4, <1>5
<1> QED
  BY <1>1, <1>2, <1>4, <1>6

\* Reading gives rooms with the chats of the file, and all of them are new.
LEMMA RoomsRead ==
  ASSUME NEW rs \in Seq(SavedRoom)
  PROVE  /\ ReadBack(rs) \in Seq(Room) /\ DOMAIN ReadBack(rs) = DOMAIN rs
         /\ \A i \in DOMAIN rs : /\ ReadBack(rs)[i].owner = rs[i].owner
                                 /\ ToSet(ReadBack(rs)[i].chats) = {}
                                 /\ ChatsOf(ReadBack(rs)[i]) = ToSet(rs[i].chats)
<1>1. /\ rs \in [1 .. Len(rs) -> SavedRoom] /\ Len(rs) \in Nat
      /\ DOMAIN rs = 1 .. Len(rs)
  OBVIOUS
<1>2. ASSUME NEW i \in DOMAIN rs
      PROVE  /\ ReadBack(rs)[i] \in Room
             /\ ReadBack(rs)[i].owner = rs[i].owner
             /\ ToSet(ReadBack(rs)[i].chats) = {}
             /\ ChatsOf(ReadBack(rs)[i]) = ToSet(rs[i].chats)
  <2>1. /\ rs[i].owner \in User /\ rs[i].follows \in SUBSET User
        /\ rs[i].chats \in Seq(ChatRecord)
    BY <1>1 DEF SavedRoom
  <2>2. ReadBack(rs)[i] = [owner |-> rs[i].owner, follows |-> rs[i].follows,
                           chats |-> <<>>, fresh |-> rs[i].chats]
    BY DEF ReadBack
  <2>3. <<>> \in Seq(ChatRecord) /\ ToSet(<<>>) = {}
    BY DEF ToSet
  <2> QED
    BY <2>1, <2>2, <2>3 DEF Room, ChatsOf
<1>3. DOMAIN ReadBack(rs) = DOMAIN rs
  BY DEF ReadBack
<1>4. ReadBack(rs) \in [1 .. Len(rs) -> Room]
  <2>1. ReadBack(rs) = [i \in 1 .. Len(rs) |-> ReadBack(rs)[i]]
    BY <1>1 DEF ReadBack
  <2> QED
    BY <1>1, <1>2, <2>1
<1>5. ReadBack(rs) \in Seq(Room)
  BY <1>1, <1>4
<1> QED
  BY <1>2, <1>3, <1>5

-----------------------------------------------------------------------------
(***************************************************************************)
(* Threads                                                                 *)
(***************************************************************************)

\* What a thread of the server holds in each of its steps.
LEMMA ThreadFields ==
  ASSUME thread \in [Thread -> ThreadState], NEW t \in Thread
  PROVE  /\ thread[t].pc \in {"idle", "called", "saving", "answering"}
         /\ thread[t].pc = "called" =>
              \/ thread[t].op \in UserOp /\ thread[t].arg \in User
              \/ /\ thread[t].op = "post" /\ thread[t].arg \in Message
                 /\ thread[t].time \in 0 .. MaxTime
         /\ Busy(t) => /\ thread[t].op \in UserOp \cup {"post"}
                       /\ thread[t].got \in Seq(ChatRecord)
<1>1. thread[t] \in ThreadState
  OBVIOUS
<1> QED
  BY <1>1 DEF ThreadState, Idle, Busy

\* One thread goes on.
LEMMA ThreadSteps ==
  ASSUME thread \in [Thread -> ThreadState], NEW t \in Thread,
         NEW new \in ThreadState, thread' = [thread EXCEPT ![t] = new]
  PROVE  /\ thread' \in [Thread -> ThreadState] /\ thread'[t] = new
         /\ \A x \in Thread : x # t =>
              /\ thread'[x] = thread[x]
              /\ Busy(x)' <=> Busy(x)
              /\ PostCalled(x)' <=> PostCalled(x)
              /\ PostDone(x)' <=> PostDone(x)
              /\ \A c : InAnswer(x, c)' <=> InAnswer(x, c)
<1>1. /\ thread' \in [Thread -> ThreadState] /\ thread'[t] = new
      /\ \A x \in Thread : x # t => thread'[x] = thread[x]
  OBVIOUS
<1> QED
  BY <1>1 DEF Busy, PostCalled, PostDone, InAnswer

\* A thread is done with its command.
LEMMA ThreadDone ==
  ASSUME thread \in [Thread -> ThreadState], NEW t \in Thread,
         NEW op \in UserOp \cup {"post"}, NEW got \in Seq(ChatRecord),
         \/ thread' = [thread EXCEPT ![t] = Saving(op, got)]
         \/ thread' = [thread EXCEPT ![t] = Answering(op, got)]
  PROVE  /\ thread' \in [Thread -> ThreadState]
         /\ thread'[t].op = op /\ thread'[t].got = got /\ Busy(t)'
         /\ thread'[t].pc \in {"saving", "answering"}
         /\ ~PostCalled(t)' /\ (PostDone(t)' <=> op = "post")
         /\ \A c : InAnswer(t, c)' <=> c \in ToSet(got)
         /\ \A x \in Thread : x # t =>
              /\ thread'[x] = thread[x]
              /\ Busy(x)' <=> Busy(x)
              /\ PostCalled(x)' <=> PostCalled(x)
              /\ PostDone(x)' <=> PostDone(x)
              /\ \A c : InAnswer(x, c)' <=> InAnswer(x, c)
<1>1. PICK new \in {Saving(op, got), Answering(op, got)} :
        thread' = [thread EXCEPT ![t] = new]
  OBVIOUS
<1>2. /\ new \in ThreadState /\ new.op = op /\ new.got = got
      /\ new.pc \in {"saving", "answering"}
  BY <1>1 DEF ThreadState, Saving, Answering
<1>3. /\ thread' \in [Thread -> ThreadState] /\ thread'[t] = new
      /\ \A x \in Thread : x # t =>
           /\ thread'[x] = thread[x]
           /\ Busy(x)' <=> Busy(x)
           /\ PostCalled(x)' <=> PostCalled(x)
           /\ PostDone(x)' <=> PostDone(x)
           /\ \A c : InAnswer(x, c)' <=> InAnswer(x, c)
  BY <1>1, <1>2, ThreadSteps
<1> QED
  BY <1>2, <1>3 DEF Busy, PostCalled, PostDone, InAnswer

-----------------------------------------------------------------------------
(***************************************************************************)
(* The invariant                                                           *)
(***************************************************************************)

LEMMA InitInv == Init => IInv
<1> SUFFICES ASSUME Init PROVE IInv
  OBVIOUS
<1>1. /\ <<>> \in Seq(Room) /\ <<>> \in Seq(SavedRoom)
      /\ DOMAIN rooms = {} /\ DOMAIN file.rooms = {}
  BY DEF Init
<1>2. /\ \A o, c : ~Kept(o, c) /\ ~Old(o, c) /\ ~Filed(o, c) /\ ~Held(o, c)
      /\ \A t \in Thread : thread[t] = Idle /\ thread[t].pc = "idle"
  BY <1>1 DEF Init, Kept, Old, Filed, Held, Idle
<1>3. \A t \in Thread : ~Busy(t) /\ ~PostCalled(t) /\ ~PostDone(t)
                        /\ \A c : ~InAnswer(t, c)
  BY <1>2 DEF Busy, PostCalled, PostDone, InAnswer
<1>4. \A c : ~About(c)
  BY <1>2, <1>3 DEF About
<1>5. TypeOK
  <2>1. user \in [Client -> User]
    BY NamesAssumption DEF Init
  <2>2. thread \in [Thread -> ThreadState]
    BY DEF Init, ThreadState
  <2> QED
    BY <1>1, <2>1, <2>2, BoundsAssumption DEF Init, TypeOK
<1> QED
  BY <1>1, <1>2, <1>3, <1>4, <1>5
  DEF IInv, ThreadInv, OwnerInv, OneEach, ChatInv, PostInv, PostedInv, TrimInv,
      AnswerInv, FileInv, TakenInv, Init

\* A thread has run a command that adds no chat to a room, with some chats of
\* the rooms as its answer: what it has taken out of a room has been deleted,
\* and what is not new any more is in its answer.
LEMMA BeginInv ==
  ASSUME IInv, NEW t \in Thread, Ready(t), thread[t].op \in UserOp,
         NEW got \in Seq(ChatRecord), Begin(t, thread[t].op, got),
         UNCHANGED <<user, seen, answered, wasted, ruined>>,
         rooms' \in Seq(Room), OneEach(rooms'),
         \A o \in User, c \in ChatRecord : Kept(o, c)' => Kept(o, c),
         \A c \in ToSet(got) : \E o \in User : Kept(o, c),
         trimmed \subseteq trimmed', trimmed' \subseteq User \X Message,
         \A o \in User, c \in ChatRecord :
           Kept(o, c) => Kept(o, c)' \/ Copy(o, c) \in trimmed',
         \A o \in User, c \in ChatRecord :
           Kept(o, c)' => Copy(o, c) \notin trimmed' \ trimmed,
         \A p \in trimmed' \ trimmed :
           \E c \in ChatRecord : Kept(p[1], c) /\ c.msg = p[2],
         \A o \in User, c \in ChatRecord :
           Old(o, c)' => \/ Old(o, c)
                         \/ /\ o = user[t[1]] /\ c \in ToSet(got)
                            /\ thread[t].op \in {"show", "wait"}
  PROVE  IInv'
<1>1. /\ TypeOK /\ ThreadInv /\ OwnerInv /\ ChatInv /\ PostInv /\ PostedInv
      /\ TrimInv /\ AnswerInv /\ FileInv /\ TakenInv
  BY DEF IInv
<1>2. /\ lock = NoThread /\ thread[t].pc = "called"
      /\ lock' = t /\ thread' = [thread EXCEPT ![t] = Saving(thread[t].op, got)]
      /\ UNCHANGED <<user, srv, file, mode, clock, posted, commands, crashes,
                     seen, answered, wasted, ruined>>
  BY DEF Ready, Begin, bounds
<1>3. thread \in [Thread -> ThreadState]
  BY <1>1 DEF TypeOK
<1>4. /\ thread' \in [Thread -> ThreadState]
      /\ thread'[t].op = thread[t].op /\ Busy(t)'
      /\ ~PostCalled(t)' /\ ~PostDone(t)'
      /\ \A c : InAnswer(t, c)' <=> c \in ToSet(got)
      /\ \A x \in Thread : x # t =>
           /\ thread'[x] = thread[x]
           /\ Busy(x)' <=> Busy(x)
           /\ PostCalled(x)' <=> PostCalled(x)
           /\ PostDone(x)' <=> PostDone(x)
           /\ \A c : InAnswer(x, c)' <=> InAnswer(x, c)
  <2>1. thread[t].op # "post"
    BY DEF UserOp
  <2> QED
    BY <1>2, <1>3, <2>1, ThreadDone
<1>5. thread'[t].pc = "saving"
  BY <1>2, <1>3 DEF Saving
<1>6. srv = "up" /\ \A x \in Thread : x # t => thread[x].pc # "saving"
  BY <1>1, <1>2, NoThreadAssumption DEF ThreadInv
<1>7. \A o, c : /\ Filed(o, c)' <=> Filed(o, c)
                /\ Held(o, c) <=> Kept(o, c)
                /\ Held(o, c)' <=> Kept(o, c)'
  BY <1>2, <1>6 DEF Filed, Held
<1>8. \A c \in ChatRecord : About(c)' => About(c)
  <2>1. ASSUME NEW c \in ChatRecord, NEW x \in Thread, InAnswer(x, c)'
        PROVE  About(c)
    <3>1. CASE x = t
      BY <1>4, <2>1, <3>1 DEF About
    <3>2. CASE x # t
      BY <1>4, <2>1, <3>2 DEF About
    <3> QED
      BY <3>1, <3>2
  <2> QED
    BY <1>7, <2>1 DEF About
<1>9. TypeOK'
  BY <1>1, <1>2, <1>4, <1>5, <1>6 DEF TypeOK
<1>10. ThreadInv'
  BY <1>1, <1>2, <1>4, <1>5, <1>6 DEF ThreadInv
<1>11. OwnerInv'
  BY <1>1, <1>2 DEF OwnerInv
<1>12. ChatInv'
  BY <1>1, <1>8 DEF ChatInv
<1>13. PostedInv'
  <2>1. ASSUME NEW p \in trimmed'
        PROVE  p[2] \in posted
    <3>1. CASE p \in trimmed
      BY <1>1, <3>1 DEF PostedInv
    <3>2. CASE p \notin trimmed
      <4>1. PICK c \in ChatRecord : Kept(p[1], c) /\ c.msg = p[2]
        BY <3>2
      <4>2. About(c)
        BY <4>1 DEF About
      <4> QED
        BY <1>1, <4>1, <4>2 DEF PostedInv
    <3> QED
      BY <3>1, <3>2
  <2> QED
    BY <1>1, <1>2, <1>8, <2>1 DEF PostedInv
<1>14. PostInv'
  <2>1. ASSUME NEW x \in Thread, PostCalled(x)'
        PROVE  /\ thread'[x].arg \in posted'
               /\ \A c \in ChatRecord : About(c)' => c.msg # thread'[x].arg
               /\ \A p \in trimmed' : p[2] # thread'[x].arg
               /\ \A y \in Thread :
                    PostCalled(y)' /\ thread'[y].arg = thread'[x].arg => y = x
    <3>1. x # t /\ PostCalled(x) /\ thread'[x] = thread[x]
      BY <1>4, <2>1
    <3>2. /\ thread[x].arg \in posted
          /\ \A c \in ChatRecord : About(c) => c.msg # thread[x].arg
          /\ \A p \in trimmed : p[2] # thread[x].arg
          /\ \A y \in Thread :
               PostCalled(y) /\ thread[y].arg = thread[x].arg => y = x
      BY <1>1, <3>1 DEF PostInv
    <3>3. ASSUME NEW p \in trimmed', p[2] = thread[x].arg
          PROVE  FALSE
      <4>1. PICK c \in ChatRecord : Kept(p[1], c) /\ c.msg = p[2]
        BY <3>2, <3>3
      <4>2. About(c)
        BY <4>1 DEF About
      <4> QED
        BY <3>2, <3>3, <4>1, <4>2
    <3> QED
      BY <1>2, <1>4, <1>8, <3>1, <3>2, <3>3
  <2>2. ASSUME NEW x \in Thread, NEW y \in Thread, PostDone(x)', PostDone(y)',
               thread'[y].got[1] = thread'[x].got[1]
        PROVE  y = x
    BY <1>1, <1>4, <2>2 DEF PostInv
  <2> QED
    BY <2>1, <2>2 DEF PostInv
<1>15. TrimInv'
  BY <1>1, <1>7 DEF TrimInv
<1>16. AnswerInv'
  <2>1. ASSUME ~ruined, NEW p \in answered
        PROVE  \/ p \in trimmed'
               \/ \E c \in ChatRecord : Kept(p[1], c)' /\ c.msg = p[2]
    <3>1. p \in User \X Message
      BY <1>1 DEF TypeOK
    <3>2. CASE p \in trimmed
      BY <3>2
    <3>3. CASE p \notin trimmed
      <4>1. PICK c \in ChatRecord : Kept(p[1], c) /\ c.msg = p[2]
        BY <1>1, <1>7, <2>1, <3>3 DEF AnswerInv
      <4>2. Copy(p[1], c) = p
        BY <3>1, <4>1 DEF Copy
      <4> QED
        BY <3>1, <4>1, <4>2
    <3> QED
      BY <3>2, <3>3
  <2> QED
    BY <1>2, <1>7, <2>1 DEF AnswerInv
<1>17. FileInv'
  BY <1>1, <1>2, <1>7 DEF FileInv
<1>18. TakenInv'
  <2>1. ASSUME NEW o \in User, NEW c \in ChatRecord, Old(o, c)'
        PROVE  Copy(o, c) \in seen \cup wasted \/ OnItsWay(o, c)'
    <3>1. CASE /\ o = user[t[1]] /\ c \in ToSet(got)
               /\ thread[t].op \in {"show", "wait"}
      BY <1>2, <1>4, <3>1 DEF OnItsWay
    <3>2. CASE Old(o, c)
      <4>1. CASE Copy(o, c) \in seen \cup wasted
        BY <4>1
      <4>2. CASE OnItsWay(o, c)
        <5>1. PICK x \in Thread :
                /\ InAnswer(x, c) /\ user[x[1]] = o
                /\ thread[x].op \in {"show", "wait"}
          BY <4>2 DEF OnItsWay
        <5>2. x # t
          BY <1>2, <5>1 DEF InAnswer, Busy
        <5> QED
          BY <1>2, <1>4, <5>1, <5>2 DEF OnItsWay
      <4> QED
        BY <1>1, <1>6, <3>2, <4>1, <4>2 DEF TakenInv
    <3> QED
      BY <2>1, <3>1, <3>2
  <2> QED
    BY <1>2, <2>1 DEF TakenInv
<1> QED
  BY <1>9, <1>10, <1>11, <1>12, <1>13, <1>14, <1>15, <1>16, <1>17, <1>18
  DEF IInv

\* Joining and leaving leave the chats alone; a room that is made has none.
LEMMA CommandRooms ==
  ASSUME rooms \in Seq(Room), OneEach(rooms), NEW u \in User, NEW w \in User,
         \/ rooms' = Join(u, w) \/ rooms' = Leave(u, w) \/ rooms' = rooms
  PROVE  /\ rooms' \in Seq(Room) /\ OneEach(rooms')
         /\ \A o, c : Kept(o, c)' <=> Kept(o, c)
         /\ \A o, c : Old(o, c)' <=> Old(o, c)
<1>1. CASE rooms' = rooms
  BY <1>1 DEF Kept, Old
<1>2. CASE HasRoom(u)
           /\ \E F \in SUBSET User :
                rooms' = [rooms EXCEPT ![RoomIndex(u)].follows = F]
  <2> DEFINE k == RoomIndex(u)
  <2>1. k \in DOMAIN rooms /\ rooms[k] \in Room
    BY <1>2, RoomFound
  <2> HIDE DEF k
  <2>2. PICK F \in SUBSET User : rooms' = [rooms EXCEPT ![k].follows = F]
    BY <1>2 DEF k
  <2> DEFINE r == [rooms[k] EXCEPT !.follows = F]
  <2>3. /\ r \in Room /\ r.owner = rooms[k].owner
        /\ r.chats = rooms[k].chats /\ r.fresh = rooms[k].fresh
    BY <2>1 DEF Room
  <2>4. rooms' = [rooms EXCEPT ![k] = r]
    BY <2>1, <2>2
  <2> HIDE DEF r
  <2>5. /\ rooms' \in Seq(Room) /\ OneEach(rooms')
        /\ \A o, c : Kept(o, c)' <=>
             IF o = rooms[k].owner THEN c \in ChatsOf(r) ELSE Kept(o, c)
        /\ \A o, c : Old(o, c)' <=>
             IF o = rooms[k].owner THEN c \in ToSet(r.chats) ELSE Old(o, c)
    BY <2>1, <2>3, <2>4, KeptChanged
  <2>6. \A i \in DOMAIN rooms : rooms[i].owner = rooms[k].owner => i = k
    BY <2>1 DEF OneEach
  <2>7. \A c : /\ Kept(rooms[k].owner, c) <=> c \in ChatsOf(rooms[k])
               /\ Old(rooms[k].owner, c) <=> c \in ToSet(rooms[k].chats)
    BY <2>1, <2>6 DEF Kept, Old
  <2>8. ChatsOf(r) = ChatsOf(rooms[k])
    BY <2>3 DEF ChatsOf
  <2> QED
    BY <2>3, <2>5, <2>7, <2>8
<1>3. CASE ~HasRoom(u) /\ rooms' = Append(rooms, NewRoom(u))
  <2> DEFINE new == NewRoom(u)
  <2>1. <<>> \in Seq(ChatRecord) /\ ToSet(<<>>) = {}
    BY DEF ToSet
  <2>2. /\ new \in Room /\ new.owner = u
        /\ ToSet(new.chats) = {} /\ ChatsOf(new) = {}
    BY <2>1 DEF NewRoom, Room, ChatsOf
  <2> HIDE DEF new
  <2>3. \A i \in DOMAIN rooms : rooms[i].owner # u
    BY <1>3, RoomFound
  <2>4. /\ rooms' \in Seq(Room)
        /\ DOMAIN rooms' = DOMAIN rooms \cup {Len(rooms) + 1}
        /\ \A i \in DOMAIN rooms : rooms'[i] = rooms[i]
        /\ rooms'[Len(rooms) + 1] = new
    BY <1>3, <2>2 DEF new
  <2>5. OneEach(rooms')
    BY <2>2, <2>3, <2>4 DEF OneEach
  <2>6. ASSUME NEW o, NEW c
        PROVE  (Kept(o, c)' <=> Kept(o, c)) /\ (Old(o, c)' <=> Old(o, c))
    <3>1. Kept(o, c)' <=> \E i \in DOMAIN rooms' :
                            rooms'[i].owner = o /\ c \in ChatsOf(rooms'[i])
      BY DEF Kept, ChatsOf
    <3>2. Old(o, c)' <=> \E i \in DOMAIN rooms' :
                           rooms'[i].owner = o /\ c \in ToSet(rooms'[i].chats)
      BY DEF Old
    <3> QED
      BY <2>2, <2>4, <3>1, <3>2 DEF Kept, Old
  <2> QED
    BY <2>4, <2>5, <2>6
<1>4. \/ rooms' = rooms
      \/ ~HasRoom(u) /\ rooms' = Append(rooms, NewRoom(u))
      \/ HasRoom(u) /\ \E F \in SUBSET User :
           rooms' = [rooms EXCEPT ![RoomIndex(u)].follows = F]
  <2>1. CASE HasRoom(u)
    <3>1. RoomIndex(u) \in DOMAIN rooms /\ rooms[RoomIndex(u)] \in Room
      BY <2>1, RoomFound
    <3>2. /\ rooms[RoomIndex(u)].follows \cup {w} \in SUBSET User
          /\ rooms[RoomIndex(u)].follows \ {w} \in SUBSET User
      BY <3>1 DEF Room
    <3>3. CASE rooms' = Join(u, w)
      BY <2>1, <3>1, <3>2, <3>3 DEF Join, Followed
    <3>4. CASE rooms' = Leave(u, w)
      BY <2>1, <3>1, <3>2, <3>4 DEF Leave, Unfollowed
    <3> QED
      BY <3>3, <3>4
  <2>2. CASE ~HasRoom(u)
    BY <2>2 DEF Join, Leave
  <2> QED
    BY <2>1, <2>2
<1> QED
  BY <1>1, <1>2, <1>3, <1>4

\* GetAllChatRooms, GetJoinedChatRooms, JoinChatRoom and LeaveChatRoom.
LEMMA RunCommandInv ==
  ASSUME IInv, NEW t \in Thread, RunCommand(t), user' = user
  PROVE  IInv'
<1>1. TypeOK /\ OwnerInv
  BY DEF IInv
<1>2. /\ rooms \in Seq(Room) /\ thread \in [Thread -> ThreadState]
      /\ user \in [Client -> User] /\ OneEach(rooms)
      /\ trimmed \subseteq User \X Message
  BY <1>1 DEF TypeOK, OwnerInv
<1>3. /\ Ready(t) /\ Begin(t, thread[t].op, <<>>)
      /\ thread[t].op \in {"all", "joined", "join", "leave"}
      /\ UNCHANGED <<seen, answered, trimmed, wasted, ruined>>
  BY DEF RunCommand, history
<1>4. user[t[1]] \in User
  BY <1>2 DEF Thread
<1>5. thread[t].arg \in User
  <2>1. thread[t].pc = "called" /\ thread[t].op # "post"
    BY <1>3 DEF Ready
  <2> QED
    BY <1>2, <2>1, ThreadFields
<1>6. \/ rooms' = Join(user[t[1]], thread[t].arg)
      \/ rooms' = Leave(user[t[1]], thread[t].arg)
      \/ rooms' = rooms
  BY DEF RunCommand
<1>7. /\ rooms' \in Seq(Room) /\ OneEach(rooms')
      /\ \A o, c : Kept(o, c)' <=> Kept(o, c)
      /\ \A o, c : Old(o, c)' <=> Old(o, c)
  BY <1>2, <1>4, <1>5, <1>6, CommandRooms
<1>8. thread[t].op \in UserOp /\ <<>> \in Seq(ChatRecord) /\ ToSet(<<>>) = {}
  BY <1>3 DEF UserOp, ToSet
<1> QED
  BY <1>2, <1>3, <1>7, <1>8, BeginInv

\* WaitForChat.
LEMMA RunWaitInv ==
  ASSUME IInv, NEW t \in Thread, RunWait(t), user' = user
  PROVE  IInv'
<1> DEFINE u == user[t[1]]
           k == RoomIndex(u)
<1>1. TypeOK /\ OwnerInv
  BY DEF IInv
<1>2. /\ rooms \in Seq(Room) /\ OneEach(rooms)
      /\ user \in [Client -> User] /\ trimmed \subseteq User \X Message
  BY <1>1 DEF TypeOK, OwnerInv
<1>3. /\ Ready(t) /\ thread[t].op = "wait"
      /\ UNCHANGED <<seen, answered, trimmed, wasted, ruined>>
      /\ \/ Begin(t, "wait", <<>>) /\ rooms' = rooms
         \/ /\ HasRoom(u) /\ RoomOf(u).fresh # <<>>
            /\ rooms' = [rooms EXCEPT ![k] = Taken(@)]
            /\ Begin(t, "wait", <<Head(RoomOf(u).fresh)>>)
  BY DEF RunWait, history
<1>4. thread[t].op \in UserOp /\ u \in User
  BY <1>2, <1>3 DEF UserOp, Thread
<1>5. CASE Begin(t, "wait", <<>>) /\ rooms' = rooms
  <2>1. <<>> \in Seq(ChatRecord) /\ ToSet(<<>>) = {}
    BY DEF ToSet
  <2>2. \A o, c : (Kept(o, c)' <=> Kept(o, c)) /\ (Old(o, c)' <=> Old(o, c))
    BY <1>5 DEF Kept, Old
  <2> QED
    BY <1>2, <1>3, <1>4, <1>5, <2>1, <2>2, BeginInv
<1>6. CASE /\ HasRoom(u) /\ RoomOf(u).fresh # <<>>
           /\ rooms' = [rooms EXCEPT ![k] = Taken(@)]
           /\ Begin(t, "wait", <<Head(RoomOf(u).fresh)>>)
  <2>1. /\ k \in DOMAIN rooms /\ rooms[k] \in Room
        /\ rooms[k].owner = u /\ RoomOf(u) = rooms[k]
    BY <1>2, <1>6, RoomFound
  <2> HIDE DEF k, u
  <2> DEFINE old == rooms[k]
             h == Head(old.fresh)
             r == [old EXCEPT !.fresh = Tail(@), !.chats = Append(@, h)]
  <2>2. /\ old.chats \in Seq(ChatRecord) /\ old.fresh \in Seq(ChatRecord)
        /\ old.fresh # <<>>
    BY <1>6, <2>1 DEF Room
  <2>3. /\ Tail(old.fresh) \in Seq(ChatRecord) /\ h \in ChatRecord
        /\ ToSet(old.fresh) = {h} \cup ToSet(Tail(old.fresh))
    BY <2>2, SetOfTail
  <2>4. /\ Append(old.chats, h) \in Seq(ChatRecord)
        /\ ToSet(Append(old.chats, h)) = ToSet(old.chats) \cup {h}
    BY <2>2, <2>3, SetOfAppend
  <2>5. /\ r \in Room /\ r.owner = old.owner
        /\ r.chats = Append(old.chats, h) /\ r.fresh = Tail(old.fresh)
    BY <2>1, <2>3, <2>4 DEF Room
  <2>6. rooms' = [rooms EXCEPT ![k] = r]
    BY <1>6, <2>1 DEF Taken
  <2> HIDE DEF r, h
  <2>7. ChatsOf(r) = ChatsOf(old)
    BY <2>3, <2>4, <2>5 DEF ChatsOf
  <2>8. /\ rooms' \in Seq(Room) /\ OneEach(rooms')
        /\ \A o, c : Kept(o, c)' <=>
             IF o = u THEN c \in ChatsOf(r) ELSE Kept(o, c)
        /\ \A o, c : Old(o, c)' <=>
             IF o = u THEN c \in ToSet(r.chats) ELSE Old(o, c)
    BY <1>2, <2>1, <2>5, <2>6, KeptChanged
  <2>9. \A i \in DOMAIN rooms : rooms[i].owner = u => i = k
    BY <1>2, <2>1 DEF OneEach
  <2>10. \A c : /\ Kept(u, c) <=> c \in ChatsOf(old)
                /\ Old(u, c) <=> c \in ToSet(old.chats)
    BY <2>1, <2>9 DEF Kept, Old
  <2>11. \A o, c : Kept(o, c)' <=> Kept(o, c)
    BY <2>7, <2>8, <2>10
  <2>12. \A o, c : Old(o, c)' => Old(o, c) \/ (o = u /\ c = h)
    BY <2>4, <2>5, <2>8, <2>10
  <2>13. /\ <<h>> \in Seq(ChatRecord) /\ ToSet(<<h>>) = {h}
         /\ Begin(t, "wait", <<h>>) /\ Kept(u, h)
    <3>1. h \in ChatsOf(old)
      BY <2>3 DEF ChatsOf
    <3> QED
      BY <1>6, <2>1, <2>3, <2>10, <3>1 DEF ToSet, h
  <2>14. /\ Begin(t, thread[t].op, <<h>>) /\ thread[t].op \in {"show", "wait"}
         /\ \A c \in ToSet(<<h>>) : \E o \in User : Kept(o, c)
         /\ \A o \in User, c \in ChatRecord :
              Old(o, c)' => Old(o, c) \/ (o = user[t[1]] /\ c \in ToSet(<<h>>))
    BY <1>3, <1>4, <2>12, <2>13 DEF u
  <2> QED
    BY <1>2, <1>3, <1>4, <2>8, <2>11, <2>13, <2>14, BeginInv
<1> QED
  BY <1>3, <1>5, <1>6

\* The chats that ShowChats keeps and those that it deletes are different.
LEMMA ShownAndDeleted ==
  ASSUME NEW chats \in Seq(ChatRecord), NEW s \in Sorted(chats)
  PROVE  LET n == Excess(s)
             kept == SubSeq(s, n + 1, Len(s))
             gone == {s[i] : i \in 1 .. n}
         IN /\ kept \in Seq(ChatRecord) /\ gone \cap ToSet(kept) = {}
            /\ ToSet(chats) = ToSet(kept) \cup gone
<1> DEFINE n == Excess(s)
           kept == SubSeq(s, n + 1, Len(s))
           gone == {s[i] : i \in 1 .. n}
<1>1. /\ s \in Seq(ChatRecord) /\ ToSet(s) = ToSet(chats)
      /\ \A i, j \in DOMAIN s : s[i] = s[j] => i = j
  BY SortedChats
<1>2. Len(s) \in Nat /\ DOMAIN s = 1 .. Len(s)
  BY <1>1
<1>3. n \in 0 .. Len(s)
  BY <1>2, ChatSizeAssumption DEF Excess
<1> HIDE DEF n
<1>4. /\ kept \in Seq(ChatRecord) /\ DOMAIN kept = 1 .. (Len(s) - n)
      /\ \A i \in DOMAIN kept : n + i \in DOMAIN s /\ kept[i] = s[n + i]
  BY <1>1, <1>2, <1>3
<1>5. \A i \in DOMAIN s : i \in 1 .. n \/ (i - n \in DOMAIN kept /\ i = n + (i - n))
  BY <1>2, <1>3, <1>4
<1>6. \A i \in 1 .. n : i \in DOMAIN s /\ \A j \in DOMAIN kept : i # n + j
  BY <1>2, <1>3, <1>4
<1> HIDE DEF kept
<1>7. gone \cap ToSet(kept) = {}
  BY <1>1, <1>4, <1>6 DEF ToSet
<1>8. ToSet(s) \subseteq ToSet(kept) \cup gone
  <2>1. ASSUME NEW i \in DOMAIN s
        PROVE  s[i] \in ToSet(kept) \cup gone
    <3>1. CASE i \in 1 .. n
      BY <3>1
    <3>2. CASE i - n \in DOMAIN kept /\ i = n + (i - n)
      <4>1. s[i] = kept[i - n]
        BY <1>4, <3>2
      <4> QED
        BY <3>2, <4>1 DEF ToSet
    <3> QED
      BY <1>5, <3>1, <3>2
  <2> QED
    BY <2>1 DEF ToSet
<1>9. ToSet(kept) \cup gone \subseteq ToSet(s)
  BY <1>4, <1>6 DEF ToSet
<1> QED
  BY <1>1, <1>4, <1>7, <1>8, <1>9 DEF n, kept

\* ShowChats.
LEMMA RunShowInv ==
  ASSUME IInv, NEW t \in Thread, RunShow(t), user' = user
  PROVE  IInv'
<1> DEFINE u == user[t[1]]
           k == RoomIndex(u)
           all == RoomOf(u).chats \o RoomOf(u).fresh
<1>1. TypeOK /\ OwnerInv /\ ChatInv
  BY DEF IInv
<1>2. /\ rooms \in Seq(Room) /\ OneEach(rooms)
      /\ user \in [Client -> User] /\ trimmed \subseteq User \X Message
  BY <1>1 DEF TypeOK, OwnerInv
<1>3. /\ Ready(t) /\ thread[t].op = "show"
      /\ UNCHANGED <<seen, answered, wasted, ruined>>
      /\ \/ Begin(t, "show", <<>>) /\ rooms' = rooms /\ trimmed' = trimmed
         \/ /\ HasRoom(u)
            /\ \E s \in Sorted(all) :
                 LET n == Excess(s)
                     kept == SubSeq(s, n + 1, Len(s))
                 IN /\ rooms' = [rooms EXCEPT ![k].chats = kept,
                                              ![k].fresh = <<>>]
                    /\ trimmed' = trimmed \cup {Copy(u, s[i]) : i \in 1 .. n}
                    /\ Begin(t, "show", kept)
  BY DEF RunShow
<1>4. thread[t].op \in UserOp /\ u \in User
  BY <1>2, <1>3 DEF UserOp, Thread
<1>5. CASE Begin(t, "show", <<>>) /\ rooms' = rooms /\ trimmed' = trimmed
  <2>1. <<>> \in Seq(ChatRecord) /\ ToSet(<<>>) = {}
    BY DEF ToSet
  <2>2. \A o, c : (Kept(o, c)' <=> Kept(o, c)) /\ (Old(o, c)' <=> Old(o, c))
    BY <1>5 DEF Kept, Old
  <2> QED
    BY <1>2, <1>3, <1>4, <1>5, <2>1, <2>2, BeginInv
<1>6. CASE /\ HasRoom(u)
           /\ \E s \in Sorted(all) :
                LET n == Excess(s)
                    kept == SubSeq(s, n + 1, Len(s))
                IN /\ rooms' = [rooms EXCEPT ![k].chats = kept,
                                             ![k].fresh = <<>>]
                   /\ trimmed' = trimmed \cup {Copy(u, s[i]) : i \in 1 .. n}
                   /\ Begin(t, "show", kept)
  <2> DEFINE old == rooms[k]
  <2>1. /\ k \in DOMAIN rooms /\ old \in Room
        /\ old.owner = u /\ RoomOf(u) = old
    BY <1>2, <1>6, RoomFound
  <2>2. PICK s \in Sorted(all) :
          LET n == Excess(s)
              kept == SubSeq(s, n + 1, Len(s))
          IN /\ rooms' = [rooms EXCEPT ![k].chats = kept, ![k].fresh = <<>>]
             /\ trimmed' = trimmed \cup {Copy(u, s[i]) : i \in 1 .. n}
             /\ Begin(t, "show", kept)
    BY <1>6
  <2> DEFINE n == Excess(s)
             kept == SubSeq(s, n + 1, Len(s))
             gone == {s[i] : i \in 1 .. n}
             r == [old EXCEPT !.chats = kept, !.fresh = <<>>]
  <2>3. all \in Seq(ChatRecord) /\ ToSet(all) = ChatsOf(old)
    BY <2>1, RoomChats
  <2>4. /\ kept \in Seq(ChatRecord) /\ gone \cap ToSet(kept) = {}
        /\ ChatsOf(old) = ToSet(kept) \cup gone
    BY <2>3, ShownAndDeleted
  <2>5. /\ rooms' = [rooms EXCEPT ![k] = r]
        /\ trimmed' = trimmed \cup {Copy(u, c) : c \in gone}
        /\ Begin(t, "show", kept)
    BY <2>1, <2>2
  <2>6. ChatsOf(old) \subseteq ChatRecord
    BY <2>1, RoomChats
  <2> HIDE DEF k, u, n, kept, gone, all
  <2>7. /\ r \in Room /\ r.owner = old.owner
        /\ r.chats = kept /\ r.fresh = <<>>
    <3>1. <<>> \in Seq(ChatRecord)
      OBVIOUS
    <3> QED
      BY <2>1, <2>4, <3>1 DEF Room
  <2> HIDE DEF r
  <2>8. ChatsOf(r) = ToSet(kept)
    BY <2>7 DEF ChatsOf, ToSet
  <2>9. /\ rooms' \in Seq(Room) /\ OneEach(rooms')
        /\ \A o, c : Kept(o, c)' <=>
             IF o = u THEN c \in ToSet(kept) ELSE Kept(o, c)
        /\ \A o, c : Old(o, c)' <=>
             IF o = u THEN c \in ToSet(kept) ELSE Old(o, c)
    <3>1. /\ r.owner = rooms[k].owner /\ rooms[k].owner = u
          /\ rooms' = [rooms EXCEPT ![k] = r]
      BY <2>1, <2>5, <2>7
    <3>2. /\ rooms' \in Seq(Room) /\ OneEach(rooms')
          /\ \A o, c : Kept(o, c)' <=>
               IF o = rooms[k].owner THEN c \in ChatsOf(r) ELSE Kept(o, c)
          /\ \A o, c : Old(o, c)' <=>
               IF o = rooms[k].owner THEN c \in ToSet(r.chats) ELSE Old(o, c)
      BY <1>2, <2>1, <2>7, <3>1, KeptChanged
    <3> QED
      BY <2>7, <2>8, <3>1, <3>2
  <2>10. \A i \in DOMAIN rooms : rooms[i].owner = u => i = k
    BY <1>2, <2>1 DEF OneEach
  <2>11. \A c : Kept(u, c) <=> c \in ToSet(kept) \/ c \in gone
    BY <2>1, <2>4, <2>10 DEF Kept
  <2>12. \A o, c : Kept(o, c)' => Kept(o, c)
    BY <2>9, <2>11
  <2>13. /\ trimmed \subseteq trimmed' /\ trimmed' \subseteq User \X Message
         /\ \A p \in trimmed' \ trimmed : \E c \in gone : p = <<u, c.msg>>
    <3>1. \A c \in gone : c.msg \in Message
      BY <2>4, <2>6 DEF ChatRecord
    <3> QED
      BY <1>2, <1>4, <2>5, <3>1 DEF Copy
  <2>14. \A o \in User, c \in ChatRecord :
           Kept(o, c) => Kept(o, c)' \/ Copy(o, c) \in trimmed'
    BY <2>5, <2>9, <2>11
  <2>15. ASSUME NEW o \in User, NEW c \in ChatRecord, Kept(o, c)',
                Copy(o, c) \in trimmed' \ trimmed
         PROVE  FALSE
    <3>1. PICK g \in gone : Copy(o, c) = <<u, g.msg>>
      BY <2>13, <2>15
    <3>2. o = u /\ c.msg = g.msg
      BY <3>1 DEF Copy
    <3>3. c \in ToSet(kept) /\ Kept(u, c) /\ Kept(u, g) /\ g \in ChatRecord
      BY <2>4, <2>6, <2>9, <2>11, <2>15, <3>2
    <3>4. About(c) /\ About(g)
      BY <1>4, <3>3 DEF About
    <3>5. c = g
      BY <1>1, <3>2, <3>3, <3>4 DEF ChatInv
    <3> QED
      BY <2>4, <3>3, <3>5
  <2>16. \A p \in trimmed' \ trimmed :
           \E c \in ChatRecord : Kept(p[1], c) /\ c.msg = p[2]
    <3>1. ASSUME NEW p \in trimmed' \ trimmed
          PROVE  \E c \in ChatRecord : Kept(p[1], c) /\ c.msg = p[2]
      <4>1. PICK g \in gone : p = <<u, g.msg>>
        BY <2>13
      <4>2. g \in ChatRecord /\ Kept(u, g) /\ p[1] = u /\ p[2] = g.msg
        BY <2>4, <2>6, <2>11, <4>1
      <4> QED
        BY <4>2
    <3> QED
      BY <3>1
  <2>17. /\ Begin(t, thread[t].op, kept) /\ thread[t].op \in {"show", "wait"}
         /\ \A c \in ToSet(kept) : \E o \in User : Kept(o, c)
         /\ \A o \in User, c \in ChatRecord :
              Old(o, c)' => Old(o, c) \/ (o = user[t[1]] /\ c \in ToSet(kept))
    BY <1>3, <1>4, <2>5, <2>9, <2>11 DEF u
  <2> QED
    BY <1>3, <1>4, <2>4, <2>9, <2>12, <2>13, <2>14, <2>15, <2>16, <2>17, BeginInv
<1> QED
  BY <1>3, <1>5, <1>6

\* A post puts new copies into rooms and changes nothing else in them.
LEMMA PostRooms ==
  ASSUME rooms \in Seq(Room), OneEach(rooms), NEW chat \in ChatRecord,
         rooms' = Post(chat)
  PROVE  /\ rooms' \in Seq(Room) /\ OneEach(rooms')
         /\ \A o, c : Kept(o, c) => Kept(o, c)'
         /\ \A o, c : Kept(o, c)' => Kept(o, c) \/ c = chat
         /\ \A o, c : Old(o, c)' <=> Old(o, c)
<1>1. /\ rooms \in [1 .. Len(rooms) -> Room] /\ Len(rooms) \in Nat
      /\ DOMAIN rooms = 1 .. Len(rooms) /\ DOMAIN rooms' = DOMAIN rooms
  BY DEF Post
<1>2. ASSUME NEW i \in DOMAIN rooms
      PROVE  /\ rooms'[i] \in Room /\ rooms'[i].owner = rooms[i].owner
             /\ rooms'[i].chats = rooms[i].chats
             /\ \/ ChatsOf(rooms'[i]) = ChatsOf(rooms[i])
                \/ ChatsOf(rooms'[i]) = ChatsOf(rooms[i]) \cup {chat}
  <2> DEFINE old == rooms[i]
             fresh == Append(old.fresh, chat)
  <2>1. old \in Room /\ old.fresh \in Seq(ChatRecord)
    BY <1>1 DEF Room
  <2>2. fresh \in Seq(ChatRecord) /\ ToSet(fresh) = ToSet(old.fresh) \cup {chat}
    BY <2>1, SetOfAppend
  <2>3. rooms'[i] = old \/ rooms'[i] = [old EXCEPT !.fresh = fresh]
    BY <2>1 DEF Post, AddChat
  <2> HIDE DEF fresh
  <2>4. CASE rooms'[i] = [old EXCEPT !.fresh = fresh]
    <3>1. /\ rooms'[i] \in Room /\ rooms'[i].owner = old.owner
          /\ rooms'[i].chats = old.chats /\ rooms'[i].fresh = fresh
      BY <2>1, <2>2, <2>4 DEF Room
    <3>2. ChatsOf(rooms'[i]) = ChatsOf(old) \cup {chat}
      BY <2>2, <3>1 DEF ChatsOf
    <3> QED
      BY <3>1, <3>2
  <2> QED
    BY <2>1, <2>3, <2>4
<1>3. rooms' \in Seq(Room)
  <2>1. rooms' = [i \in 1 .. Len(rooms) |-> rooms'[i]]
    BY <1>1 DEF Post
  <2>2. rooms' \in [1 .. Len(rooms) -> Room]
    BY <1>1, <1>2, <2>1
  <2> QED
    BY <1>1, <2>2
<1>4. OneEach(rooms')
  BY <1>1, <1>2 DEF OneEach
<1>5. ASSUME NEW o, NEW c
      PROVE  /\ Kept(o, c) => Kept(o, c)'
             /\ Kept(o, c)' => Kept(o, c) \/ c = chat
             /\ Old(o, c)' <=> Old(o, c)
  <2>1. Kept(o, c)' <=> \E i \in DOMAIN rooms' :
                          rooms'[i].owner = o /\ c \in ChatsOf(rooms'[i])
    BY DEF Kept, ChatsOf
  <2>2. Old(o, c)' <=> \E i \in DOMAIN rooms' :
                         rooms'[i].owner = o /\ c \in ToSet(rooms'[i].chats)
    BY DEF Old
  <2>3. \A i \in DOMAIN rooms :
          /\ c \in ChatsOf(rooms[i]) => c \in ChatsOf(rooms'[i])
          /\ c \in ChatsOf(rooms'[i]) => c \in ChatsOf(rooms[i]) \/ c = chat
    BY <1>2
  <2> QED
    BY <1>1, <1>2, <2>1, <2>2, <2>3 DEF Kept, Old
<1> QED
  BY <1>3, <1>4, <1>5

\* PostChat.
LEMMA RunPostInv ==
  ASSUME IInv, NEW t \in Thread, RunPost(t), user' = user
  PROVE  IInv'
<1> DEFINE chat == [sender |-> user[t[1]], msg |-> thread[t].arg,
                    time |-> thread[t].time]
<1>1. /\ TypeOK /\ ThreadInv /\ OwnerInv /\ ChatInv /\ PostInv /\ PostedInv
      /\ TrimInv /\ AnswerInv /\ FileInv /\ TakenInv
  BY DEF IInv
<1>2. /\ lock = NoThread /\ PostCalled(t) /\ thread[t].pc = "called"
      /\ rooms' = Post(chat) /\ lock' = t
      /\ thread' = [thread EXCEPT ![t] = Saving("post", <<chat>>)]
      /\ UNCHANGED <<srv, file, mode, clock, posted, commands, crashes,
                     seen, answered, trimmed, wasted, ruined>>
  BY DEF RunPost, Ready, Begin, bounds, history, PostCalled
<1>3. /\ rooms \in Seq(Room) /\ thread \in [Thread -> ThreadState]
      /\ user \in [Client -> User] /\ OneEach(rooms)
  BY <1>1 DEF TypeOK, OwnerInv
<1>4. chat \in ChatRecord /\ chat.msg = thread[t].arg
  <2>1. user[t[1]] \in User
    BY <1>3 DEF Thread
  <2>2. thread[t].arg \in Message /\ thread[t].time \in 0 .. MaxTime
    BY <1>2, <1>3, ThreadFields DEF PostCalled, UserOp
  <2> QED
    BY <2>1, <2>2 DEF ChatRecord
<1> HIDE DEF chat
<1>5. /\ rooms' \in Seq(Room) /\ OneEach(rooms')
      /\ \A o, c : Kept(o, c) => Kept(o, c)'
      /\ \A o, c : Kept(o, c)' => Kept(o, c) \/ c = chat
      /\ \A o, c : Old(o, c)' <=> Old(o, c)
  BY <1>2, <1>3, <1>4, PostRooms
<1>6. /\ <<chat>> \in Seq(ChatRecord) /\ ToSet(<<chat>>) = {chat}
      /\ Len(<<chat>>) = 1 /\ <<chat>>[1] = chat
  BY <1>4 DEF ToSet
<1>7. /\ thread' \in [Thread -> ThreadState]
      /\ thread'[t].op = "post" /\ Busy(t)' /\ thread'[t].got = <<chat>>
      /\ ~PostCalled(t)' /\ PostDone(t)'
      /\ \A c : InAnswer(t, c)' <=> c = chat
      /\ \A x \in Thread : x # t =>
           /\ thread'[x] = thread[x]
           /\ Busy(x)' <=> Busy(x)
           /\ PostCalled(x)' <=> PostCalled(x)
           /\ PostDone(x)' <=> PostDone(x)
           /\ \A c : InAnswer(x, c)' <=> InAnswer(x, c)
  <2>1. "post" \in UserOp \cup {"post"} /\ <<chat>> \in Seq(ChatRecord)
    BY <1>6
  <2>2. /\ thread' \in [Thread -> ThreadState]
        /\ thread'[t].op = "post" /\ thread'[t].got = <<chat>> /\ Busy(t)'
        /\ ~PostCalled(t)' /\ PostDone(t)'
        /\ \A c : InAnswer(t, c)' <=> c \in ToSet(<<chat>>)
        /\ \A x \in Thread : x # t =>
             /\ thread'[x] = thread[x]
             /\ Busy(x)' <=> Busy(x)
             /\ PostCalled(x)' <=> PostCalled(x)
             /\ PostDone(x)' <=> PostDone(x)
             /\ \A c : InAnswer(x, c)' <=> InAnswer(x, c)
    BY <1>2, <1>3, <2>1, ThreadDone
  <2> QED
    BY <1>6, <2>2
<1>8. thread'[t].pc = "saving"
  BY <1>2, <1>3 DEF Saving
<1>9. srv = "up" /\ \A x \in Thread : x # t => thread[x].pc # "saving"
  BY <1>1, <1>2, NoThreadAssumption DEF ThreadInv
<1>10. \A o, c : /\ Filed(o, c)' <=> Filed(o, c)
                 /\ Held(o, c) <=> Kept(o, c)
                 /\ Held(o, c)' <=> Kept(o, c)'
  BY <1>2, <1>9 DEF Filed, Held
<1>11. \A c \in ChatRecord : About(c)' => About(c) \/ c = chat
  <2>1. ASSUME NEW c \in ChatRecord, NEW x \in Thread, InAnswer(x, c)'
        PROVE  About(c) \/ c = chat
    <3>1. CASE x = t
      BY <1>7, <2>1, <3>1
    <3>2. CASE x # t
      BY <1>7, <2>1, <3>2 DEF About
    <3> QED
      BY <3>1, <3>2
  <2> QED
    BY <1>5, <1>10, <2>1 DEF About
<1>12. /\ chat.msg \in posted
       /\ \A c \in ChatRecord : About(c) => c.msg # chat.msg
       /\ \A p \in trimmed : p[2] # chat.msg
       /\ \A x \in Thread : PostCalled(x) /\ thread[x].arg = chat.msg => x = t
  BY <1>1, <1>2, <1>4 DEF PostInv
<1>13. TypeOK'
  BY <1>1, <1>2, <1>5, <1>7, <1>8, <1>9 DEF TypeOK
<1>14. ThreadInv'
  BY <1>1, <1>2, <1>6, <1>7, <1>8, <1>9 DEF ThreadInv
<1>15. OwnerInv'
  BY <1>1, <1>2, <1>5 DEF OwnerInv
<1>16. ChatInv'
  BY <1>1, <1>11, <1>12 DEF ChatInv
<1>17. PostedInv'
  BY <1>1, <1>2, <1>11, <1>12 DEF PostedInv
<1>18. PostInv'
  <2>1. ASSUME NEW x \in Thread, PostCalled(x)'
        PROVE  /\ thread'[x].arg \in posted'
               /\ \A c \in ChatRecord : About(c)' => c.msg # thread'[x].arg
               /\ \A p \in trimmed' : p[2] # thread'[x].arg
               /\ \A y \in Thread :
                    PostCalled(y)' /\ thread'[y].arg = thread'[x].arg => y = x
    <3>1. x # t /\ PostCalled(x) /\ thread'[x] = thread[x]
      BY <1>7, <2>1
    <3>2. /\ thread[x].arg \in posted /\ thread[x].arg # chat.msg
          /\ \A c \in ChatRecord : About(c) => c.msg # thread[x].arg
          /\ \A p \in trimmed : p[2] # thread[x].arg
          /\ \A y \in Thread :
               PostCalled(y) /\ thread[y].arg = thread[x].arg => y = x
      BY <1>1, <1>12, <3>1 DEF PostInv
    <3> QED
      BY <1>2, <1>7, <1>11, <3>1, <3>2
  <2>2. ASSUME NEW x \in Thread, x # t, PostDone(x)
        PROVE  thread[x].got[1] # chat
    <3>1. Busy(x) /\ Len(thread[x].got) = 1 /\ thread[x].got \in Seq(ChatRecord)
      BY <1>1, <1>3, <2>2, ThreadFields DEF ThreadInv, PostDone
    <3>2. thread[x].got[1] \in ToSet(thread[x].got) /\ thread[x].got[1] \in ChatRecord
      BY <3>1 DEF ToSet
    <3>3. About(thread[x].got[1])
      BY <3>1, <3>2 DEF About, InAnswer
    <3> QED
      BY <1>12, <3>2, <3>3
  <2>3. ASSUME NEW x \in Thread, NEW y \in Thread, PostDone(x)', PostDone(y)',
               thread'[y].got[1] = thread'[x].got[1]
        PROVE  y = x
    <3>1. CASE x # t /\ y # t
      BY <1>1, <1>7, <2>3, <3>1 DEF PostInv
    <3>2. CASE x = t \/ y = t
      BY <1>6, <1>7, <2>2, <2>3, <3>2
    <3> QED
      BY <3>1, <3>2
  <2> QED
    BY <2>1, <2>3 DEF PostInv
<1>19. TrimInv'
  BY <1>1, <1>2, <1>5, <1>10, <1>12 DEF TrimInv, Copy
<1>20. AnswerInv'
  BY <1>1, <1>2, <1>5, <1>10 DEF AnswerInv
<1>21. FileInv'
  BY <1>1, <1>2, <1>5, <1>6, <1>7, <1>10, NoThreadAssumption DEF FileInv
<1>22. TakenInv'
  <2>1. ASSUME NEW o \in User, NEW c \in ChatRecord, OnItsWay(o, c)
        PROVE  OnItsWay(o, c)'
    <3>1. PICK x \in Thread :
            /\ InAnswer(x, c) /\ user[x[1]] = o
            /\ thread[x].op \in {"show", "wait"}
      BY <2>1 DEF OnItsWay
    <3>2. x # t
      BY <1>2, <3>1 DEF InAnswer, Busy
    <3> QED
      BY <1>7, <3>1, <3>2 DEF OnItsWay
  <2> QED
    BY <1>1, <1>2, <1>5, <2>1 DEF TakenInv
<1> QED
  BY <1>13, <1>14, <1>15, <1>16, <1>17, <1>18, <1>19, <1>20, <1>21, <1>22
  DEF IInv

\* data.dat has been written.
LEMMA SaveInv ==
  ASSUME IInv, NEW t \in Thread, Save(t), user' = user
  PROVE  IInv'
<1>1. /\ TypeOK /\ ThreadInv /\ OwnerInv /\ ChatInv /\ PostInv /\ PostedInv
      /\ TrimInv /\ AnswerInv /\ FileInv /\ TakenInv
  BY DEF IInv
<1>2. /\ lock = t /\ lock' = NoThread
      /\ file' = [rooms |-> Written(rooms), cut |-> FALSE]
      /\ thread' = [thread EXCEPT ![t] = Answering(thread[t].op, thread[t].got)]
      /\ UNCHANGED <<srv, rooms, mode, clock, posted, commands, crashes,
                     seen, answered, trimmed, wasted, ruined>>
  <2>1. Save(t) => thread' = [thread EXCEPT ![t] =
                                Answering(thread[t].op, thread[t].got)]
    BY <1>1 DEF TypeOK, Save
  <2> QED
    BY <2>1 DEF Save, bounds, history
<1>3. rooms \in Seq(Room) /\ thread \in [Thread -> ThreadState]
  BY <1>1 DEF TypeOK
<1>4. srv = "up" /\ thread[t].pc = "saving" /\ Busy(t)
  BY <1>1, <1>2, NoThreadAssumption DEF TypeOK, Busy
<1>5. /\ thread' \in [Thread -> ThreadState]
      /\ thread'[t].op = thread[t].op /\ thread'[t].got = thread[t].got
      /\ \A x \in Thread :
           /\ x # t => thread'[x] = thread[x]
           /\ Busy(x)' <=> Busy(x)
           /\ PostCalled(x)' <=> PostCalled(x)
           /\ PostDone(x)' <=> PostDone(x)
           /\ \A c : InAnswer(x, c)' <=> InAnswer(x, c)
  <2>1. thread[t].op \in UserOp \cup {"post"} /\ thread[t].got \in Seq(ChatRecord)
    BY <1>3, <1>4, ThreadFields
  <2>2. ~PostCalled(t) /\ (PostDone(t) <=> thread[t].op = "post")
        /\ \A c : InAnswer(t, c) <=> c \in ToSet(thread[t].got)
    BY <1>4 DEF PostCalled, PostDone, InAnswer
  <2>3. /\ thread' \in [Thread -> ThreadState]
        /\ thread'[t].op = thread[t].op /\ thread'[t].got = thread[t].got
        /\ Busy(t)' /\ ~PostCalled(t)'
        /\ PostDone(t)' <=> thread[t].op = "post"
        /\ \A c : InAnswer(t, c)' <=> c \in ToSet(thread[t].got)
        /\ \A x \in Thread : x # t =>
             /\ thread'[x] = thread[x]
             /\ Busy(x)' <=> Busy(x)
             /\ PostCalled(x)' <=> PostCalled(x)
             /\ PostDone(x)' <=> PostDone(x)
             /\ \A c : InAnswer(x, c)' <=> InAnswer(x, c)
    BY <1>2, <1>3, <2>1, ThreadDone
  <2> QED
    BY <1>4, <2>2, <2>3
<1>6. thread'[t].pc = "answering"
  BY <1>2, <1>3 DEF Answering
<1>7. /\ file'.rooms \in Seq(SavedRoom) /\ DOMAIN file'.rooms = DOMAIN rooms
      /\ ~file'.cut /\ file' \in [rooms : Seq(SavedRoom), cut : BOOLEAN]
      /\ \A i \in DOMAIN rooms :
           /\ file'.rooms[i].owner = rooms[i].owner
           /\ ToSet(file'.rooms[i].chats) = ChatsOf(rooms[i])
  <2>1. /\ Written(rooms) \in Seq(SavedRoom) /\ DOMAIN Written(rooms) = DOMAIN rooms
        /\ \A i \in DOMAIN rooms :
             /\ Written(rooms)[i].owner = rooms[i].owner
             /\ ToSet(Written(rooms)[i].chats) = ChatsOf(rooms[i])
    BY <1>3, WrittenRooms
  <2> QED
    BY <1>2, <2>1
<1>8. \A o, c : /\ Filed(o, c)' <=> Kept(o, c)
                /\ Kept(o, c)' <=> Kept(o, c)
                /\ Old(o, c)' <=> Old(o, c)
                /\ Held(o, c) <=> Kept(o, c)
                /\ Held(o, c)' <=> Kept(o, c)
  BY <1>2, <1>4, <1>7 DEF Filed, Kept, Old, Held
<1>9. \A c \in ChatRecord : About(c)' => About(c)
  BY <1>5, <1>8 DEF About
<1>10. TypeOK'
  BY <1>1, <1>2, <1>5, <1>7 DEF TypeOK
<1>11. ThreadInv'
  <2>1. \A x \in Thread : x # t => thread[x].pc # "saving"
    BY <1>1, <1>2 DEF ThreadInv
  <2>2. \A x \in Thread : PostDone(x)' => Len(thread'[x].got) = 1
    BY <1>1, <1>5 DEF ThreadInv
  <2> QED
    BY <1>1, <1>2, <1>4, <1>5, <1>6, <2>1, <2>2 DEF ThreadInv
<1>12. OwnerInv'
  BY <1>1, <1>2, <1>7 DEF OwnerInv, OneEach
<1>13. ChatInv' /\ PostedInv'
  BY <1>1, <1>2, <1>9 DEF ChatInv, PostedInv
<1>14. PostInv'
  <2>1. \A x \in Thread : PostCalled(x)' => PostCalled(x) /\ thread'[x] = thread[x]
    <3>1. ~PostCalled(t)
      BY <1>4 DEF PostCalled
    <3> QED
      BY <1>5, <3>1
  <2>2. \A x \in Thread : PostDone(x)' => /\ PostDone(x)
                                          /\ thread'[x].got = thread[x].got
    BY <1>5
  <2> QED
    BY <1>1, <1>2, <1>9, <2>1, <2>2 DEF PostInv
<1>15. TrimInv' /\ AnswerInv'
  BY <1>1, <1>2, <1>8 DEF TrimInv, AnswerInv
<1>16. FileInv'
  BY <1>1, <1>2, <1>7, <1>8 DEF AnswerInv, FileInv
<1>17. TakenInv'
  <2>1. \A o, c : OnItsWay(o, c) => OnItsWay(o, c)'
    BY <1>5 DEF OnItsWay
  <2> QED
    BY <1>1, <1>2, <1>8, <2>1 DEF TakenInv
<1> QED
  BY <1>10, <1>11, <1>12, <1>13, <1>14, <1>15, <1>16, <1>17 DEF IInv

\* The answer leaves the server.
LEMMA AnswerStepInv ==
  ASSUME IInv, NEW t \in Thread, Answer(t), user' = user
  PROVE  IInv'
<1> DEFINE u == user[t[1]]
           got == ToSet(thread[t].got)
<1>1. /\ TypeOK /\ ThreadInv /\ OwnerInv /\ ChatInv /\ PostInv /\ PostedInv
      /\ TrimInv /\ AnswerInv /\ FileInv /\ TakenInv
  BY DEF IInv
<1>2. /\ thread[t].pc = "answering" /\ thread' = [thread EXCEPT ![t] = Idle]
      /\ UNCHANGED <<srv, rooms, file, lock, mode, clock, posted, commands,
                     crashes, trimmed, ruined>>
  BY DEF Answer, bounds
<1>3. /\ rooms \in Seq(Room) /\ thread \in [Thread -> ThreadState]
      /\ user \in [Client -> User] /\ u \in User
  BY <1>1 DEF TypeOK, Thread
<1>4. /\ thread' \in [Thread -> ThreadState] /\ ~Busy(t)'
      /\ thread'[t].pc = "idle"
      /\ ~PostCalled(t)' /\ ~PostDone(t)' /\ \A c : ~InAnswer(t, c)'
      /\ \A x \in Thread : x # t =>
           /\ thread'[x] = thread[x]
           /\ Busy(x)' <=> Busy(x)
           /\ PostCalled(x)' <=> PostCalled(x)
           /\ PostDone(x)' <=> PostDone(x)
           /\ \A c : InAnswer(x, c)' <=> InAnswer(x, c)
  <2>1. Idle \in ThreadState /\ Idle.pc = "idle"
    BY DEF ThreadState, Idle
  <2> HIDE DEF u, got
  <2>2. /\ thread' \in [Thread -> ThreadState] /\ thread'[t] = Idle
        /\ \A x \in Thread : x # t =>
             /\ thread'[x] = thread[x]
             /\ Busy(x)' <=> Busy(x)
             /\ PostCalled(x)' <=> PostCalled(x)
             /\ PostDone(x)' <=> PostDone(x)
             /\ \A c : InAnswer(x, c)' <=> InAnswer(x, c)
    BY <1>2, <1>3, <2>1, ThreadSteps
  <2> QED
    BY <2>1, <2>2 DEF Busy, PostCalled, PostDone, InAnswer
<1>5. /\ Busy(t) /\ srv = "up" /\ thread[t].got \in Seq(ChatRecord)
      /\ got \subseteq ChatRecord
  <2>1. Busy(t) /\ thread[t].pc # "idle"
    BY <1>2 DEF Busy
  <2>2. thread[t].got \in Seq(ChatRecord)
    BY <1>3, <2>1, ThreadFields
  <2> QED
    BY <1>1, <2>1, <2>2, SetOfFinite DEF ThreadInv
<1>6. \A o, c : /\ Filed(o, c)' <=> Filed(o, c)
                /\ Kept(o, c)' <=> Kept(o, c)
                /\ Old(o, c)' <=> Old(o, c)
                /\ Held(o, c) <=> Kept(o, c)
                /\ Held(o, c)' <=> Held(o, c)
  BY <1>2, <1>5 DEF Filed, Kept, Old, Held
<1>7. \A c \in ChatRecord : About(c)' => About(c)
  BY <1>4, <1>6 DEF About
<1>8. /\ answered \subseteq answered' /\ seen \cup wasted \subseteq seen' \cup wasted'
      /\ seen' \cup wasted' \subseteq User \X Message
      /\ \A p \in answered' \ answered :
           /\ thread[t].op = "post"
           /\ \E c \in got : p[2] = c.msg /\ p[1] \in User /\ Kept(p[1], c)
                             /\ p = <<p[1], p[2]>>
      /\ thread[t].op \in {"show", "wait"} =>
           \A c \in got : \/ Copy(u, c) \in trimmed
                          \/ Copy(u, c) \in seen' \cup wasted'
  <2>1. CASE thread[t].op = "post"
    <3>1. /\ seen' = seen /\ wasted' = wasted
          /\ answered' = answered \cup
               {<<rooms[i].owner, thread[t].got[1].msg>> :
                  i \in {j \in DOMAIN rooms :
                           \E k \in DOMAIN (rooms[j].chats \o rooms[j].fresh) :
                             (rooms[j].chats \o rooms[j].fresh)[k] \in got}}
      BY <2>1 DEF Answer
    <3>2. Len(thread[t].got) = 1
      BY <1>1, <1>5, <2>1 DEF ThreadInv, PostDone
    <3>3. got = {thread[t].got[1]}
      BY <1>5, <3>2 DEF ToSet
    <3>4. ASSUME NEW j \in DOMAIN rooms,
                 NEW k \in DOMAIN (rooms[j].chats \o rooms[j].fresh),
                 (rooms[j].chats \o rooms[j].fresh)[k] \in got
          PROVE  /\ rooms[j].owner \in User
                 /\ Kept(rooms[j].owner, thread[t].got[1])
      <4>1. /\ rooms[j].owner \in User
            /\ ToSet(rooms[j].chats \o rooms[j].fresh) = ChatsOf(rooms[j])
        BY <1>3, RoomChats
      <4>2. (rooms[j].chats \o rooms[j].fresh)[k] = thread[t].got[1]
        BY <3>3, <3>4
      <4>3. thread[t].got[1] \in ChatsOf(rooms[j])
        BY <4>1, <4>2 DEF ToSet
      <4> QED
        BY <4>1, <4>3 DEF Kept
    <3>5. \A p \in answered' \ answered :
            \E c \in got : p[2] = c.msg /\ p[1] \in User /\ Kept(p[1], c)
                           /\ p = <<p[1], p[2]>>
      <4>1. ASSUME NEW p \in answered' \ answered
            PROVE  \E c \in got : p[2] = c.msg /\ p[1] \in User
                                  /\ Kept(p[1], c) /\ p = <<p[1], p[2]>>
        <5>1. PICK j \in DOMAIN rooms :
                /\ \E k \in DOMAIN (rooms[j].chats \o rooms[j].fresh) :
                     (rooms[j].chats \o rooms[j].fresh)[k] \in got
                /\ p = <<rooms[j].owner, thread[t].got[1].msg>>
          BY <3>1
        <5>2. rooms[j].owner \in User /\ Kept(rooms[j].owner, thread[t].got[1])
          BY <3>4, <5>1
        <5>3. p[1] = rooms[j].owner /\ p[2] = thread[t].got[1].msg
          BY <5>1
        <5> QED
          BY <3>3, <5>1, <5>2, <5>3
      <4> QED
        BY <4>1
    <3>6. seen \cup wasted \subseteq User \X Message
      BY <1>1 DEF TypeOK
    <3> QED
      BY <2>1, <3>1, <3>5, <3>6
  <2>2. CASE thread[t].op # "post"
    <3> DEFINE dangling == {c \in got : Copy(u, c) \in trimmed}
    <3>1. /\ answered' = answered
          /\ \/ /\ wasted' = wasted \cup {Copy(u, c) : c \in got} /\ seen' = seen
             \/ /\ wasted' = wasted
                /\ \E bad \in SUBSET dangling :
                     seen' = seen \cup {Copy(u, c) : c \in got \ bad}
      BY <2>2 DEF Answer
    <3>2. seen \cup wasted \subseteq User \X Message
      BY <1>1 DEF TypeOK
    <3>3. \A c \in got : Copy(u, c) \in User \X Message
      BY <1>3, <1>5 DEF ChatRecord, Copy
    <3> HIDE DEF u, got
    <3>4. CASE wasted' = wasted \cup {Copy(u, c) : c \in got} /\ seen' = seen
      BY <2>2, <3>1, <3>2, <3>3, <3>4
    <3>5. CASE /\ wasted' = wasted
               /\ \E bad \in SUBSET dangling :
                    seen' = seen \cup {Copy(u, c) : c \in got \ bad}
      <4>1. PICK bad \in SUBSET dangling :
              seen' = seen \cup {Copy(u, c) : c \in got \ bad}
        BY <3>5
      <4>2. \A c \in got : Copy(u, c) \in trimmed \/ c \notin bad
        BY <4>1
      <4> QED
        BY <2>2, <3>1, <3>2, <3>3, <3>5, <4>1, <4>2
    <3> QED
      BY <3>1, <3>4, <3>5
  <2> QED
    BY <2>1, <2>2
<1>9. \A p \in answered' \ answered : p \in User \X Message
  BY <1>5, <1>8 DEF ChatRecord
<1>10. TypeOK'
  <2>1. seen' \cup answered' \cup trimmed' \cup wasted' \subseteq User \X Message
    BY <1>1, <1>2, <1>8, <1>9 DEF TypeOK
  <2>2. lock' # NoThread => srv' = "up" /\ thread'[lock'].pc = "saving"
    <3>1. lock # NoThread => lock # t /\ lock \in Thread
      BY <1>1, <1>2 DEF TypeOK
    <3> QED
      BY <1>1, <1>2, <1>4, <3>1 DEF TypeOK
  <2> QED
    BY <1>1, <1>2, <1>4, <2>1, <2>2 DEF TypeOK
<1>11. ThreadInv'
  BY <1>1, <1>2, <1>4 DEF ThreadInv
<1>12. OwnerInv' /\ ChatInv' /\ PostedInv'
  BY <1>1, <1>2, <1>7 DEF OwnerInv, ChatInv, PostedInv
<1>13. PostInv'
  BY <1>1, <1>2, <1>4, <1>7 DEF PostInv
<1>14. TrimInv'
  BY <1>1, <1>2, <1>6 DEF TrimInv
<1>15. AnswerInv'
  <2>1. \A p \in answered' \ answered :
          \E c \in ChatRecord : Held(p[1], c)' /\ c.msg = p[2]
    BY <1>5, <1>6, <1>8
  <2> QED
    BY <1>1, <1>2, <1>6, <2>1 DEF AnswerInv
<1>16. FileInv'
  <2>1. ASSUME ~ruined, NEW p \in answered' \ answered
        PROVE  \E c \in ChatRecord : Filed(p[1], c) /\ c.msg = p[2]
    <3>1. PICK c \in got : p[2] = c.msg /\ p[1] \in User /\ Kept(p[1], c)
      BY <1>8, <2>1
    <3>2. CASE Filed(p[1], c)
      BY <1>5, <3>1, <3>2
    <3>3. CASE ~Filed(p[1], c)
      <4>1. /\ lock # NoThread /\ thread[lock].op = "post"
            /\ c = thread[lock].got[1]
        BY <1>1, <1>5, <2>1, <3>1, <3>3 DEF FileInv
      <4>2. lock \in Thread /\ thread[lock].pc = "saving"
        BY <1>1, <4>1 DEF TypeOK
      <4>3. PostDone(lock) /\ PostDone(t) /\ lock # t
        BY <1>2, <1>5, <1>8, <2>1, <4>1, <4>2 DEF PostDone, Busy
      <4>4. thread[t].got[1] = c
        <5>1. Len(thread[t].got) = 1
          BY <1>1, <4>3 DEF ThreadInv
        <5> QED
          BY <1>5, <3>1, <5>1 DEF ToSet
      <4> QED
        BY <1>1, <4>1, <4>2, <4>3, <4>4 DEF PostInv
    <3> QED
      BY <3>2, <3>3
  <2>2. lock # NoThread => lock # t /\ lock \in Thread
    BY <1>1, <1>2 DEF TypeOK
  <2>3. lock # NoThread => thread'[lock] = thread[lock]
    BY <1>4, <2>2
  <2> QED
    BY <1>1, <1>2, <1>6, <2>1, <2>3 DEF FileInv
<1>17. TakenInv'
  <2>1. ASSUME NEW o \in User, NEW c \in ChatRecord, Old(o, c)
        PROVE  Copy(o, c) \in seen' \cup wasted' \/ OnItsWay(o, c)'
    <3>1. CASE Copy(o, c) \in seen \cup wasted
      BY <1>8, <3>1
    <3>2. CASE OnItsWay(o, c)
      <4>1. PICK x \in Thread :
              /\ InAnswer(x, c) /\ user[x[1]] = o
              /\ thread[x].op \in {"show", "wait"}
        BY <3>2 DEF OnItsWay
      <4>2. CASE x # t
        BY <1>4, <4>1, <4>2 DEF OnItsWay
      <4>3. CASE x = t
        <5>1. o = u /\ c \in got
          BY <4>1, <4>3 DEF InAnswer
        <5>2. Kept(o, c)
          BY <2>1 DEF Old, Kept, ChatsOf
        <5>3. Copy(o, c) \notin trimmed
          BY <1>1, <1>6, <5>2 DEF TrimInv
        <5> QED
          BY <1>8, <4>1, <4>3, <5>1, <5>3
      <4> QED
        BY <4>2, <4>3
    <3> QED
      BY <1>1, <1>5, <2>1, <3>1, <3>2 DEF TakenInv
  <2> QED
    BY <1>2, <1>6, <2>1 DEF TakenInv
<1> QED
  BY <1>10, <1>11, <1>12, <1>13, <1>14, <1>15, <1>16, <1>17 DEF IInv

\* A call of a client changes one thread that was idle, or none.
LEMMA CallMade ==
  ASSUME TypeOK, ThreadInv, NEW t \in Thread, NEW op, NEW arg, Call(t, op, arg),
         clock' \in 0 .. MaxTime,
         (op \in UserOp /\ arg \in User) \/ (op = "post" /\ arg \in Message)
  PROVE  /\ UNCHANGED <<srv, rooms, file, lock, crashes, history>>
         /\ thread' \in [Thread -> ThreadState]
         /\ \A x \in Thread :
              /\ x # t => thread'[x] = thread[x]
              /\ thread[x].pc # "idle" => thread'[x] = thread[x]
              /\ thread'[x].pc = "saving" => thread[x].pc = "saving"
              /\ srv # "up" => thread'[x] = thread[x]
              /\ Busy(x)' => Busy(x) /\ thread'[x] = thread[x]
              /\ PostDone(x)' => PostDone(x) /\ thread'[x] = thread[x]
              /\ \A c : InAnswer(x, c)' <=> InAnswer(x, c)
              /\ PostCalled(x)' =>
                   \/ PostCalled(x) /\ thread'[x] = thread[x]
                   \/ x = t /\ op = "post" /\ thread'[x].arg = arg
<1>1. thread \in [Thread -> ThreadState]
  BY DEF TypeOK
<1>2. /\ UNCHANGED <<srv, rooms, file, lock, crashes, history>>
      /\ thread[t].pc = "idle"
      /\ \/ thread' = thread
         \/ srv = "up" /\ thread' = [thread EXCEPT ![t] = Called(op, arg)]
  BY DEF Call, Free
<1>3. CASE thread' = thread
  BY <1>1, <1>2, <1>3 DEF Busy, PostDone, InAnswer, PostCalled
<1>4. CASE srv = "up" /\ thread' = [thread EXCEPT ![t] = Called(op, arg)]
  <2> DEFINE new == Called(op, arg)
  <2>1. /\ new \in ThreadState /\ new.pc = "called" /\ new.op = op
        /\ new.arg = arg
    BY DEF Called, ThreadState
  <2>2. thread' = [thread EXCEPT ![t] = new]
    BY <1>4
  <2> HIDE DEF new
  <2>3. /\ thread' \in [Thread -> ThreadState] /\ thread'[t] = new
        /\ \A x \in Thread : x # t =>
             /\ thread'[x] = thread[x]
             /\ Busy(x)' <=> Busy(x)
             /\ PostCalled(x)' <=> PostCalled(x)
             /\ PostDone(x)' <=> PostDone(x)
             /\ \A c : InAnswer(x, c)' <=> InAnswer(x, c)
    BY <1>1, <2>1, <2>2, ThreadSteps
  <2>4. /\ ~Busy(t) /\ ~Busy(t)' /\ ~PostDone(t)'
        /\ \A c : ~InAnswer(t, c) /\ ~InAnswer(t, c)'
    BY <1>2, <2>1, <2>3 DEF Busy, PostDone, InAnswer
  <2>5. PostCalled(t)' => op = "post" /\ thread'[t].arg = arg
    BY <2>1, <2>3 DEF PostCalled
  <2>6. \A x \in Thread : (Busy(x) <=> thread[x].pc \in {"saving", "answering"})
                          /\ (PostDone(x) => Busy(x))
    BY DEF Busy, PostDone
  <2> QED
    BY <1>2, <1>4, <2>1, <2>3, <2>4, <2>5, <2>6
<1> QED
  BY <1>2, <1>3, <1>4

\* What stays of the invariant when a call is made.
LEMMA CallFrame ==
  ASSUME IInv, NEW t \in Thread, NEW op, NEW arg, Call(t, op, arg),
         clock' \in 0 .. MaxTime, user' = user,
         mode' \in [Client -> {"out", "menu", "list", "chat", "killed"}],
         posted \subseteq posted', posted' \subseteq Message, commands' \in Nat,
         (op \in UserOp /\ arg \in User) \/ (op = "post" /\ arg \in Message)
  PROVE  /\ \A c \in ChatRecord : About(c)' => About(c)
         /\ TypeOK' /\ ThreadInv' /\ OwnerInv' /\ ChatInv' /\ PostedInv'
         /\ TrimInv' /\ AnswerInv' /\ FileInv' /\ TakenInv'
<1>1. /\ TypeOK /\ ThreadInv /\ OwnerInv /\ ChatInv /\ PostedInv
      /\ TrimInv /\ AnswerInv /\ FileInv /\ TakenInv
  BY DEF IInv
<1>2. /\ UNCHANGED <<srv, rooms, file, lock, crashes, seen, answered, trimmed,
                     wasted, ruined>>
      /\ thread' \in [Thread -> ThreadState]
      /\ \A x \in Thread :
           /\ thread[x].pc # "idle" => thread'[x] = thread[x]
           /\ thread'[x].pc = "saving" => thread[x].pc = "saving"
           /\ srv # "up" => thread'[x] = thread[x]
           /\ PostDone(x)' => PostDone(x) /\ thread'[x] = thread[x]
           /\ \A c : InAnswer(x, c)' <=> InAnswer(x, c)
  BY <1>1, CallMade DEF history
<1>3. \A o, c : /\ Filed(o, c)' <=> Filed(o, c)
                /\ Kept(o, c)' <=> Kept(o, c)
                /\ Old(o, c)' <=> Old(o, c)
                /\ Held(o, c)' <=> Held(o, c)
  BY <1>2 DEF Filed, Kept, Old, Held
<1>4. \A c \in ChatRecord : About(c)' => About(c)
  BY <1>2, <1>3 DEF About
<1>5. lock # NoThread => lock \in Thread /\ thread'[lock] = thread[lock]
  <2>1. lock # NoThread => lock \in Thread /\ thread[lock].pc = "saving"
    BY <1>1 DEF TypeOK
  <2> QED
    BY <1>2, <2>1
<1>6. TypeOK'
  BY <1>1, <1>2, <1>5 DEF TypeOK
<1>7. ThreadInv'
  BY <1>1, <1>2 DEF ThreadInv
<1>8. OwnerInv' /\ ChatInv' /\ PostedInv'
  BY <1>1, <1>2, <1>4 DEF OwnerInv, ChatInv, PostedInv
<1>9. TrimInv' /\ AnswerInv' /\ FileInv'
  BY <1>1, <1>2, <1>3, <1>5 DEF TrimInv, AnswerInv, FileInv
<1>10. TakenInv'
  <2>1. ASSUME NEW o \in User, NEW c \in ChatRecord, OnItsWay(o, c)
        PROVE  OnItsWay(o, c)'
    <3>1. PICK x \in Thread :
            /\ InAnswer(x, c) /\ user[x[1]] = o
            /\ thread[x].op \in {"show", "wait"}
      BY <2>1 DEF OnItsWay
    <3>2. thread'[x] = thread[x]
      BY <1>2, <3>1 DEF InAnswer, Busy
    <3> QED
      BY <1>2, <3>1, <3>2 DEF OnItsWay
  <2> QED
    BY <1>1, <1>2, <1>3, <2>1 DEF TakenInv
<1> QED
  BY <1>4, <1>6, <1>7, <1>8, <1>9, <1>10

\* Commands and WaitForChat.
LEMMA CallStepInv ==
  ASSUME IInv, NEW t \in Thread, NEW op \in UserOp, NEW arg \in User,
         Call(t, op, arg), user' = user, posted' = posted, commands' \in Nat,
         mode' \in [Client -> {"out", "menu", "list", "chat", "killed"}]
  PROVE  IInv'
<1>1. TypeOK /\ ThreadInv /\ PostInv
  BY DEF IInv
<1>2. op # "post" /\ posted \subseteq Message /\ clock \in 0 .. MaxTime
  BY <1>1 DEF UserOp, TypeOK
<1>3. clock' \in 0 .. MaxTime
  BY <1>2 DEF Call
<1>4. /\ \A c \in ChatRecord : About(c)' => About(c)
      /\ TypeOK' /\ ThreadInv' /\ OwnerInv' /\ ChatInv' /\ PostedInv'
      /\ TrimInv' /\ AnswerInv' /\ FileInv' /\ TakenInv'
  BY <1>2, <1>3, CallFrame
<1>5. /\ trimmed' = trimmed
      /\ \A x \in Thread :
           /\ PostDone(x)' => PostDone(x) /\ thread'[x] = thread[x]
           /\ PostCalled(x)' => PostCalled(x) /\ thread'[x] = thread[x]
  BY <1>1, <1>2, <1>3, CallMade DEF history
<1>6. PostInv'
  BY <1>1, <1>4, <1>5 DEF PostInv
<1> QED
  BY <1>4, <1>6 DEF IInv

\* Messages.
LEMMA SayInv ==
  ASSUME IInv, NEW c \in Client, NEW m \in Message, Say(c, m), user' = user
  PROVE  IInv'
<1> DEFINE t == CommandOf(c)
<1>1. TypeOK /\ ThreadInv /\ PostInv /\ PostedInv
  BY DEF IInv
<1>2. /\ m \notin posted /\ posted' = posted \cup {m}
      /\ clock' \in clock .. MaxTime /\ Call(t, "post", m)
      /\ UNCHANGED <<mode, commands>> /\ t \in Thread
  BY DEF Say, CommandOf, Thread
<1> HIDE DEF t
<1>3. /\ clock' \in 0 .. MaxTime /\ posted' \subseteq Message /\ commands' \in Nat
      /\ mode' \in [Client -> {"out", "menu", "list", "chat", "killed"}]
  <2>1. /\ clock \in 0 .. MaxTime /\ posted \subseteq Message /\ commands \in Nat
        /\ mode \in [Client -> {"out", "menu", "list", "chat", "killed"}]
    BY <1>1 DEF TypeOK
  <2> QED
    BY <1>2, <2>1, BoundsAssumption
<1>4. /\ \A d \in ChatRecord : About(d)' => About(d)
      /\ TypeOK' /\ ThreadInv' /\ OwnerInv' /\ ChatInv' /\ PostedInv'
      /\ TrimInv' /\ AnswerInv' /\ FileInv' /\ TakenInv'
  BY <1>2, <1>3, CallFrame
<1>5. /\ trimmed' = trimmed
      /\ \A x \in Thread :
           /\ PostDone(x)' => PostDone(x) /\ thread'[x] = thread[x]
           /\ PostCalled(x)' =>
                \/ PostCalled(x) /\ thread'[x] = thread[x]
                \/ x = t /\ thread'[x].arg = m
  BY <1>1, <1>2, <1>3, CallMade DEF history
<1>6. ASSUME NEW x \in Thread, PostCalled(x)'
      PROVE  /\ thread'[x].arg \in posted'
             /\ \A d \in ChatRecord : About(d)' => d.msg # thread'[x].arg
             /\ \A p \in trimmed' : p[2] # thread'[x].arg
             /\ \A y \in Thread :
                  PostCalled(y)' /\ thread'[y].arg = thread'[x].arg => y = x
  <2>1. \A y \in Thread :
          PostCalled(y) => thread[y].arg \in posted /\ thread[y].arg # m
    BY <1>1, <1>2 DEF PostInv
  <2>2. CASE x = t /\ thread'[x].arg = m
    <3>1. \A d \in ChatRecord : About(d)' => d.msg # m
      BY <1>1, <1>2, <1>4 DEF PostedInv
    <3>2. \A p \in trimmed' : p[2] # m
      BY <1>1, <1>2, <1>5 DEF PostedInv
    <3> QED
      BY <1>2, <1>5, <2>1, <2>2, <3>1, <3>2
  <2>3. CASE PostCalled(x) /\ thread'[x] = thread[x]
    <3>1. /\ thread[x].arg \in posted
          /\ \A d \in ChatRecord : About(d) => d.msg # thread[x].arg
          /\ \A p \in trimmed : p[2] # thread[x].arg
          /\ \A y \in Thread :
               PostCalled(y) /\ thread[y].arg = thread[x].arg => y = x
      BY <1>1, <2>3 DEF PostInv
    <3> QED
      BY <1>2, <1>4, <1>5, <2>1, <2>3, <3>1
  <2> QED
    BY <1>5, <1>6, <2>2, <2>3
<1>7. PostInv'
  <2>1. ASSUME NEW x \in Thread, NEW y \in Thread, PostDone(x)', PostDone(y)',
               thread'[y].got[1] = thread'[x].got[1]
        PROVE  y = x
    BY <1>1, <1>5, <2>1 DEF PostInv
  <2> QED
    BY <1>6, <2>1 DEF PostInv
<1> QED
  BY <1>4, <1>7 DEF IInv

\* The calls of a client, and its end.
LEMMA ClientInv ==
  ASSUME IInv, NEW c \in Client, user' = user,
         \/ Login(c) \/ List(c) \/ Chat(c) \/ Wait(c)
         \/ \E u \in User : Follow(c, "join", u) \/ Follow(c, "leave", u)
  PROVE  IInv'
<1>1. /\ user[c] \in User /\ commands \in Nat
      /\ mode \in [Client -> {"out", "menu", "list", "chat", "killed"}]
      /\ CommandOf(c) \in Thread /\ WaitOf(c) \in Thread
  BY DEF IInv, TypeOK, CommandOf, WaitOf, Thread
<1>2. PICK t \in Thread, op \in UserOp, arg \in User :
        /\ Call(t, op, arg) /\ posted' = posted
        /\ commands' \in {commands, commands + 1}
        /\ \E to \in {"menu", "list", "chat"} :
             mode' \in {mode, [mode EXCEPT ![c] = to]}
  <2>1. CASE Login(c)
    BY <1>1, <2>1 DEF Login, UserOp
  <2>2. CASE List(c)
    BY <1>1, <2>2 DEF List, UserOp
  <2>3. CASE Chat(c)
    BY <1>1, <2>3 DEF Chat, UserOp
  <2>4. CASE Wait(c)
    BY <1>1, <2>4 DEF Wait, UserOp
  <2>5. ASSUME NEW u \in User, Follow(c, "join", u) \/ Follow(c, "leave", u)
        PROVE  \E t \in Thread, op \in UserOp, arg \in User :
                 /\ Call(t, op, arg) /\ posted' = posted
                 /\ commands' \in {commands, commands + 1}
                 /\ \E to \in {"menu", "list", "chat"} :
                      mode' \in {mode, [mode EXCEPT ![c] = to]}
    BY <1>1, <2>5 DEF Follow, UserOp
  <2> QED
    BY <2>1, <2>2, <2>3, <2>4, <2>5
<1>3. /\ commands' \in Nat
      /\ mode' \in [Client -> {"out", "menu", "list", "chat", "killed"}]
  BY <1>1, <1>2
<1> QED
  BY <1>2, <1>3, CallStepInv

\* When only modes and what the server runs change.
LEMMA KillInv ==
  ASSUME IInv, NEW c \in Client, Kill(c), user' = user
  PROVE  IInv'
<1>1. /\ TypeOK /\ ThreadInv /\ OwnerInv /\ ChatInv /\ PostInv /\ PostedInv
      /\ TrimInv /\ AnswerInv /\ FileInv /\ TakenInv
  BY DEF IInv
<1>2. /\ mode' = [mode EXCEPT ![c] = "killed"]
      /\ UNCHANGED <<srv, rooms, file, lock, thread, clock, posted, commands,
                     crashes, seen, answered, trimmed, wasted, ruined>>
  BY DEF Kill, server, bounds, history
<1>3. /\ \A o, d : /\ Filed(o, d)' <=> Filed(o, d)
                   /\ Kept(o, d)' <=> Kept(o, d)
                   /\ Old(o, d)' <=> Old(o, d)
                   /\ Held(o, d)' <=> Held(o, d)
                   /\ OnItsWay(o, d)' <=> OnItsWay(o, d)
      /\ \A t \in Thread :
           /\ PostDone(t)' <=> PostDone(t)
           /\ PostCalled(t)' <=> PostCalled(t)
           /\ \A d : InAnswer(t, d)' <=> InAnswer(t, d)
  BY <1>2 DEF Filed, Kept, Old, Held, OnItsWay, PostDone, PostCalled, InAnswer,
              Busy
<1>4. \A d : About(d)' <=> About(d)
  BY <1>3 DEF About
<1>5. TypeOK'
  BY <1>1, <1>2 DEF TypeOK
<1>6. ThreadInv' /\ OwnerInv'
  BY <1>1, <1>2, <1>3 DEF ThreadInv, OwnerInv
<1>7. ChatInv' /\ PostInv' /\ PostedInv'
  BY <1>1, <1>2, <1>3, <1>4 DEF ChatInv, PostInv, PostedInv
<1>8. TrimInv' /\ AnswerInv' /\ FileInv' /\ TakenInv'
  BY <1>1, <1>2, <1>3 DEF TrimInv, AnswerInv, FileInv, TakenInv
<1> QED
  BY <1>5, <1>6, <1>7, <1>8 DEF IInv

\* A file that has been read or written in part has no chats of its own.
LEMMA PartWritten ==
  ASSUME rooms \in Seq(Room), OneEach(rooms), NEW k \in 0 .. Len(rooms)
  PROVE  LET rs == SubSeq(Written(rooms), 1, k) IN
         /\ rs \in Seq(SavedRoom) /\ OneEach(rs)
         /\ \A i \in DOMAIN rs : \A c \in ToSet(rs[i].chats) :
              Kept(rs[i].owner, c)
<1> DEFINE all == Written(rooms)
           rs == SubSeq(all, 1, k)
<1>1. /\ all \in Seq(SavedRoom) /\ DOMAIN all = DOMAIN rooms
      /\ \A i \in DOMAIN rooms : /\ all[i].owner = rooms[i].owner
                                 /\ ToSet(all[i].chats) = ChatsOf(rooms[i])
  BY WrittenRooms
<1>2. Len(all) = Len(rooms) /\ Len(rooms) \in Nat
      /\ DOMAIN rooms = 1 .. Len(rooms)
  BY <1>1
<1> HIDE DEF all
<1>3. /\ rs \in Seq(SavedRoom) /\ DOMAIN rs = 1 .. k
      /\ \A i \in 1 .. k : rs[i] = all[i]
  BY <1>1, <1>2
<1>4. 1 .. k \subseteq DOMAIN rooms
  BY <1>2
<1> HIDE DEF rs
<1>5. OneEach(rs)
  BY <1>1, <1>3, <1>4 DEF OneEach
<1>6. \A i \in DOMAIN rs : \A c \in ToSet(rs[i].chats) : Kept(rs[i].owner, c)
  BY <1>1, <1>3, <1>4 DEF Kept
<1> QED
  BY <1>3, <1>5, <1>6 DEF rs, all

\* The server is killed.
LEMMA CrashInv ==
  ASSUME IInv, Crash, user' = user
  PROVE  IInv'
<1>1. /\ TypeOK /\ ThreadInv /\ OwnerInv /\ ChatInv /\ PostInv /\ PostedInv
      /\ TrimInv /\ AnswerInv /\ FileInv /\ TakenInv
  BY DEF IInv
<1>2. /\ srv' = "down" /\ rooms' = <<>> /\ lock' = NoThread
      /\ thread' = [t \in Thread |-> Idle] /\ crashes' = crashes + 1
      /\ trimmed' = trimmed \ Copies(file'.rooms)
      /\ seen' = {} /\ wasted' = {}
      /\ UNCHANGED <<mode, clock, posted, commands, answered>>
  BY DEF Crash
<1>3. \/ file' = file /\ ruined' = ruined
      \/ /\ ruined' = TRUE
         /\ \E k \in 0 .. Len(rooms), cut \in BOOLEAN :
              file' = [rooms |-> SubSeq(Written(rooms), 1, k), cut |-> cut]
  BY DEF Crash
<1>4. rooms \in Seq(Room) /\ OneEach(rooms)
  BY <1>1 DEF TypeOK, OwnerInv
<1>5. /\ file' \in [rooms : Seq(SavedRoom), cut : BOOLEAN]
      /\ OneEach(file'.rooms)
      /\ \A o, c : Filed(o, c)' => Filed(o, c) \/ Kept(o, c)
  <2>1. CASE file' = file /\ ruined' = ruined
    BY <1>1, <2>1 DEF TypeOK, OwnerInv, Filed
  <2>2. ASSUME NEW k \in 0 .. Len(rooms), NEW cut \in BOOLEAN,
               file' = [rooms |-> SubSeq(Written(rooms), 1, k), cut |-> cut]
        PROVE  /\ file' \in [rooms : Seq(SavedRoom), cut : BOOLEAN]
               /\ OneEach(file'.rooms)
               /\ \A o, c : Filed(o, c)' => Kept(o, c)
    <3> DEFINE rs == SubSeq(Written(rooms), 1, k)
    <3>1. /\ rs \in Seq(SavedRoom) /\ OneEach(rs)
          /\ \A i \in DOMAIN rs : \A c \in ToSet(rs[i].chats) :
               Kept(rs[i].owner, c)
      BY <1>4, PartWritten
    <3>2. file'.rooms = rs
      BY <2>2
    <3> HIDE DEF rs
    <3>3. file' \in [rooms : Seq(SavedRoom), cut : BOOLEAN]
      BY <2>2, <3>1 DEF rs
    <3> QED
      BY <3>1, <3>2, <3>3 DEF Filed
  <2> QED
    BY <1>3, <2>1, <2>2
<1>6. /\ DOMAIN rooms' = {} /\ thread' \in [Thread -> ThreadState]
      /\ <<>> \in Seq(Room)
      /\ \A t \in Thread : thread'[t] = Idle /\ thread'[t].pc = "idle"
  BY <1>2 DEF Idle, ThreadState
<1>7. \A o, c : /\ ~Kept(o, c)' /\ ~Old(o, c)'
                /\ Held(o, c)' <=> Filed(o, c)'
  BY <1>2, <1>6 DEF Kept, Old, Held
<1>8. \A t \in Thread : /\ ~PostDone(t)' /\ ~PostCalled(t)'
                        /\ \A c : ~InAnswer(t, c)'
  BY <1>6 DEF PostDone, PostCalled, InAnswer, Busy
<1>9. \A c \in ChatRecord : About(c)' => About(c)
  BY <1>5, <1>7, <1>8 DEF About
<1>10. /\ \A o \in User, m \in Message :
            <<o, m>> \in Copies(file'.rooms) <=>
              \E i \in DOMAIN file'.rooms : \E c \in ToSet(file'.rooms[i].chats) :
                file'.rooms[i].owner = o /\ c.msg = m
       /\ \A i \in DOMAIN file'.rooms : ToSet(file'.rooms[i].chats) \subseteq ChatRecord
  BY <1>5, FileCopies
<1>11. /\ \A o \in User, c \in ChatRecord : Filed(o, c)' => Copy(o, c) \notin trimmed'
       /\ \A p \in trimmed \ trimmed' :
            \E c \in ChatRecord : Filed(p[1], c)' /\ c.msg = p[2]
  <2>1. \A o, c : Filed(o, c)' <=>
          \E i \in DOMAIN file'.rooms :
            file'.rooms[i].owner = o /\ c \in ToSet(file'.rooms[i].chats)
    BY DEF Filed
  <2>2. ASSUME NEW o \in User, NEW c \in ChatRecord, Filed(o, c)'
        PROVE  Copy(o, c) \notin trimmed'
    <3>1. c.msg \in Message
      BY DEF ChatRecord
    <3> QED
      BY <1>2, <1>10, <2>1, <2>2, <3>1 DEF Copy
  <2>3. ASSUME NEW p \in trimmed \ trimmed'
        PROVE  \E c \in ChatRecord : Filed(p[1], c)' /\ c.msg = p[2]
    <3>1. p \in User \X Message /\ p \in Copies(file'.rooms)
      BY <1>1, <1>2 DEF TypeOK
    <3>2. p = <<p[1], p[2]>> /\ p[1] \in User /\ p[2] \in Message
      BY <3>1
    <3> QED
      BY <1>10, <2>1, <3>1, <3>2
  <2> QED
    BY <2>2, <2>3
<1>12. TypeOK'
  BY <1>1, <1>2, <1>5, <1>6 DEF TypeOK
<1>13. ThreadInv' /\ OwnerInv'
  BY <1>2, <1>5, <1>6, <1>8 DEF ThreadInv, OwnerInv, OneEach
<1>14. ChatInv' /\ PostedInv' /\ PostInv'
  BY <1>1, <1>2, <1>8, <1>9 DEF ChatInv, PostedInv, PostInv
<1>15. TrimInv' /\ TakenInv'
  BY <1>2, <1>7, <1>11 DEF TrimInv, TakenInv
<1>16. AnswerInv' /\ FileInv'
  <2>1. CASE ~ruined'
    <3>1. file' = file /\ ruined' = ruined
      BY <1>3, <2>1
    <3>2. \A o, c : Filed(o, c)' <=> Filed(o, c)
      BY <3>1 DEF Filed
    <3>3. \A p \in answered' :
            \/ p \in trimmed'
            \/ \E c \in ChatRecord : Filed(p[1], c)' /\ c.msg = p[2]
      BY <1>1, <1>2, <1>11, <2>1, <3>1, <3>2 DEF FileInv
    <3> QED
      BY <1>1, <1>7, <2>1, <3>1, <3>3 DEF AnswerInv, FileInv
  <2>2. CASE ruined'
    BY <2>2 DEF AnswerInv, FileInv
  <2> QED
    BY <2>1, <2>2
<1> QED
  BY <1>12, <1>13, <1>14, <1>15, <1>16 DEF IInv

\* The server is started.
LEMMA StartInv ==
  ASSUME IInv, Start, user' = user
  PROVE  IInv'
<1>1. /\ TypeOK /\ ThreadInv /\ OwnerInv /\ ChatInv /\ PostInv /\ PostedInv
      /\ TrimInv /\ AnswerInv /\ FileInv /\ TakenInv
  BY DEF IInv
<1>2. /\ srv = "down"
      /\ UNCHANGED <<file, lock, thread, mode, clock, posted, commands, crashes,
                     seen, answered, trimmed, wasted, ruined>>
      /\ \/ srv' = "stuck" /\ rooms' = rooms
         \/ srv' = "up" /\ rooms' = ReadBack(file.rooms)
  BY DEF Start, bounds, history
<1>3. rooms = <<>> /\ DOMAIN rooms = {} /\ <<>> \in Seq(Room)
  BY <1>1, <1>2 DEF ThreadInv
<1>4. /\ file.rooms \in Seq(SavedRoom) /\ OneEach(file.rooms)
      /\ \A t \in Thread : thread[t].pc = "idle"
  BY <1>1, <1>2 DEF TypeOK, OwnerInv, ThreadInv
<1>5. /\ rooms' \in Seq(Room) /\ OneEach(rooms')
      /\ \A o, c : /\ ~Old(o, c)'
                   /\ Held(o, c) <=> Filed(o, c)
                   /\ Held(o, c)' <=> Filed(o, c)
                   /\ Kept(o, c)' => Filed(o, c)
                   /\ Filed(o, c)' <=> Filed(o, c)
  <2>1. CASE srv' = "stuck" /\ rooms' = rooms
    BY <1>2, <1>3, <2>1 DEF OneEach, Kept, Old, Held, Filed
  <2>2. CASE srv' = "up" /\ rooms' = ReadBack(file.rooms)
    <3>1. /\ rooms' \in Seq(Room) /\ DOMAIN rooms' = DOMAIN file.rooms
          /\ \A i \in DOMAIN file.rooms :
               /\ rooms'[i].owner = file.rooms[i].owner
               /\ ToSet(rooms'[i].chats) = {}
               /\ ChatsOf(rooms'[i]) = ToSet(file.rooms[i].chats)
      BY <1>4, <2>2, RoomsRead
    <3>2. OneEach(rooms')
      BY <1>4, <3>1 DEF OneEach
    <3>3. ASSUME NEW o, NEW c
          PROVE  (Kept(o, c)' <=> Filed(o, c)) /\ ~Old(o, c)'
      <4>1. Kept(o, c)' <=> \E i \in DOMAIN rooms' :
                              rooms'[i].owner = o /\ c \in ChatsOf(rooms'[i])
        BY DEF Kept, ChatsOf
      <4>2. Old(o, c)' <=> \E i \in DOMAIN rooms' :
                             rooms'[i].owner = o /\ c \in ToSet(rooms'[i].chats)
        BY DEF Old
      <4> QED
        BY <3>1, <4>1, <4>2 DEF Filed
    <3>4. \A o, c : /\ Filed(o, c)' <=> Filed(o, c)
                    /\ Held(o, c) <=> Filed(o, c)
                    /\ Held(o, c)' <=> Kept(o, c)'
      BY <1>2, <2>2 DEF Filed, Held
    <3> QED
      BY <3>1, <3>2, <3>3, <3>4
  <2> QED
    BY <1>2, <2>1, <2>2
<1>6. \A t \in Thread : /\ ~PostDone(t)' /\ ~PostCalled(t)'
                        /\ \A c : ~InAnswer(t, c)'
  BY <1>2, <1>4 DEF PostDone, PostCalled, InAnswer, Busy
<1>7. \A c \in ChatRecord : About(c)' => About(c)
  BY <1>5, <1>6 DEF About
<1>8. TypeOK'
  <2>1. lock = NoThread
    BY <1>1, <1>2 DEF TypeOK
  <2> QED
    BY <1>1, <1>2, <1>5, <2>1 DEF TypeOK
<1>9. ThreadInv' /\ OwnerInv'
  BY <1>1, <1>2, <1>3, <1>4, <1>5, <1>6 DEF ThreadInv, OwnerInv
<1>10. ChatInv' /\ PostedInv' /\ PostInv'
  BY <1>1, <1>2, <1>6, <1>7 DEF ChatInv, PostedInv, PostInv
<1>11. TrimInv' /\ TakenInv'
  BY <1>1, <1>2, <1>5 DEF TrimInv, TakenInv
<1>12. AnswerInv' /\ FileInv'
  BY <1>1, <1>2, <1>5 DEF AnswerInv, FileInv
<1> QED
  BY <1>8, <1>9, <1>10, <1>11, <1>12 DEF IInv

LEMMA NextInv == IInv /\ [Next]_vars => IInv'
<1> SUFFICES ASSUME IInv, [Next]_vars PROVE IInv'
  OBVIOUS
<1>1. CASE UNCHANGED vars
  <2>1. UNCHANGED <<user, srv, rooms, file, lock, thread, mode, clock, posted,
                    commands, crashes, seen, answered, trimmed, wasted, ruined>>
    BY <1>1 DEF vars, server, bounds, history
  <2>2. /\ \A o, c : /\ Filed(o, c)' <=> Filed(o, c)
                     /\ Kept(o, c)' <=> Kept(o, c)
                     /\ Old(o, c)' <=> Old(o, c)
                     /\ Held(o, c)' <=> Held(o, c)
                     /\ OnItsWay(o, c)' <=> OnItsWay(o, c)
        /\ \A t \in Thread : /\ PostDone(t)' <=> PostDone(t)
                             /\ PostCalled(t)' <=> PostCalled(t)
                             /\ \A c : InAnswer(t, c)' <=> InAnswer(t, c)
    BY <2>1 DEF Filed, Kept, Old, Held, OnItsWay, PostDone, PostCalled, InAnswer,
                Busy
  <2>3. \A c : About(c)' <=> About(c)
    BY <2>2 DEF About
  <2>4. TypeOK' /\ ThreadInv' /\ OwnerInv'
    BY <2>1, <2>2 DEF IInv, TypeOK, ThreadInv, OwnerInv
  <2>5. ChatInv' /\ PostInv' /\ PostedInv'
    BY <2>1, <2>2, <2>3 DEF IInv, ChatInv, PostInv, PostedInv
  <2>6. TrimInv' /\ AnswerInv' /\ FileInv' /\ TakenInv'
    BY <2>1, <2>2 DEF IInv, TrimInv, AnswerInv, FileInv, TakenInv
  <2> QED
    BY <2>4, <2>5, <2>6 DEF IInv
<1>2. CASE Next
  <2>1. Step /\ user' = user
    BY <1>2 DEF Next
  <2>2. ASSUME NEW t \in Thread, Serve(t)
        PROVE  IInv'
    BY <2>1, <2>2, RunCommandInv, RunPostInv, RunShowInv, RunWaitInv, SaveInv,
       AnswerStepInv DEF Serve
  <2>3. ASSUME NEW c \in Client,
               \/ Login(c) \/ List(c) \/ Chat(c) \/ Wait(c) \/ Kill(c)
               \/ \E u \in User : Follow(c, "join", u) \/ Follow(c, "leave", u)
               \/ \E m \in Message : Say(c, m)
        PROVE  IInv'
    BY <2>1, <2>3, ClientInv, KillInv, SayInv
  <2>4. CASE Crash
    BY <2>1, <2>4, CrashInv
  <2>5. CASE Start
    BY <2>1, <2>5, StartInv
  <2> QED
    BY <2>1, <2>2, <2>3, <2>4, <2>5 DEF Step
<1> QED
  BY <1>1, <1>2

\* The chat server of hw2 keeps the invariant.
THEOREM Invariant == Spec => []IInv
  BY InitInv, NextInv, PTL DEF Spec

-----------------------------------------------------------------------------
(***************************************************************************)
(* The properties                                                          *)
(***************************************************************************)

\* Rooms, file, threads and clients stay in their types, and the lock of the
\* chat manager is held by a thread that writes data.dat.
THEOREM TypeCorrect == Spec => []TypeOK
<1>1. IInv => TypeOK
  BY DEF IInv
<1> QED
  BY <1>1, Invariant, PTL

\* A chat whose PostChat has been answered is in the rooms of the server, or in
\* data.dat for its next start, until MakeSureChatSize deletes it.
THEOREM AnsweredStay == Spec => []AnsweredSurvive
<1>1. ASSUME IInv, ~ruined, NEW p \in answered
      PROVE  p \in Stored \cup trimmed
  <2>1. TypeOK /\ AnswerInv
    BY <1>1 DEF IInv
  <2>2. p \in User \X Message /\ p = <<p[1], p[2]>>
    BY <2>1 DEF TypeOK
  <2>3. CASE p \notin trimmed
    <3>1. PICK c \in ChatRecord : Held(p[1], c) /\ c.msg = p[2]
      BY <1>1, <2>1, <2>3 DEF AnswerInv
    <3>2. CASE srv = "up"
      <4>1. rooms \in Seq(Room) /\ Kept(p[1], c)
        BY <2>1, <3>1, <3>2 DEF TypeOK, Held
      <4>2. /\ Written(rooms) \in Seq(SavedRoom)
            /\ DOMAIN Written(rooms) = DOMAIN rooms
            /\ \A i \in DOMAIN rooms :
                 /\ Written(rooms)[i].owner = rooms[i].owner
                 /\ ToSet(Written(rooms)[i].chats) = ChatsOf(rooms[i])
        BY <4>1, WrittenRooms
      <4>3. \E i \in DOMAIN Written(rooms) :
              \E d \in ToSet(Written(rooms)[i].chats) :
                Written(rooms)[i].owner = p[1] /\ d.msg = p[2]
        BY <3>1, <4>1, <4>2 DEF Kept
      <4>4. p \in Copies(Written(rooms))
        BY <2>2, <4>2, <4>3, FileCopies
      <4> QED
        BY <3>2, <4>4 DEF Stored
    <3>3. CASE srv # "up"
      <4>1. file.rooms \in Seq(SavedRoom) /\ Filed(p[1], c)
        BY <2>1, <3>1, <3>3 DEF TypeOK, Held
      <4>2. \E i \in DOMAIN file.rooms : \E d \in ToSet(file.rooms[i].chats) :
              file.rooms[i].owner = p[1] /\ d.msg = p[2]
        BY <3>1, <4>1 DEF Filed
      <4>3. p \in Copies(file.rooms)
        BY <2>2, <4>1, <4>2, FileCopies
      <4> QED
        BY <3>3, <4>3 DEF Stored
    <3> QED
      BY <3>2, <3>3
  <2> QED
    BY <2>3
<1>2. IInv => AnsweredSurvive
  BY <1>1 DEF AnsweredSurvive
<1> QED
  BY <1>2, Invariant, PTL

\* A chat that GetWaitingPost or ShowChats has put among the old ones has been
\* shown to the user of the room, is in an answer that is not sent yet, or went
\* to a client that had been killed.
THEOREM TakenShown == Spec => []TakenIsShown
<1>1. ASSUME IInv, srv = "up", NEW i \in DOMAIN rooms,
             NEW k \in DOMAIN rooms[i].chats
      PROVE  Copy(rooms[i].owner, rooms[i].chats[k])
               \in seen \cup UnderWay(rooms[i].owner) \cup wasted
  <2> DEFINE o == rooms[i].owner
             c == rooms[i].chats[k]
  <2>1. TypeOK /\ TakenInv
    BY <1>1 DEF IInv
  <2>2. rooms[i] \in Room
    BY <2>1 DEF TypeOK
  <2>3. o \in User /\ rooms[i].chats \in Seq(ChatRecord)
    BY <2>2 DEF Room
  <2>4. c \in ChatRecord /\ c \in ToSet(rooms[i].chats)
    BY <2>3 DEF ToSet
  <2>5. Old(o, c)
    BY <2>4 DEF Old
  <2> HIDE DEF o, c
  <2>6. CASE OnItsWay(o, c)
    <3>1. PICK t \in Thread : /\ InAnswer(t, c)
                              /\ user[t[1]] = o
                              /\ thread[t].op \in {"show", "wait"}
      BY <2>6 DEF OnItsWay
    <3>2. /\ thread[t].pc \in {"saving", "answering"}
          /\ c \in ToSet(thread[t].got)
      BY <3>1 DEF InAnswer, Busy
    <3>3. Copy(o, c) \in UnderWay(o)
      BY <3>1, <3>2 DEF UnderWay, Copy
    <3> QED
      BY <3>3 DEF o, c
  <2>7. CASE Copy(o, c) \in seen \cup wasted
    BY <2>7 DEF o, c
  <2> QED
    BY <1>1, <2>1, <2>3, <2>4, <2>5, <2>6, <2>7 DEF TakenInv, o
<1>2. IInv => TakenIsShown
  BY <1>1 DEF TakenIsShown
<1> QED
  BY <1>2, Invariant, PTL
=============================================================================
