-------------------------- MODULE ClockBootProofs --------------------------
(***************************************************************************)
(* What is proved about ClockBoot, for up to three machines with any       *)
(* number of processes each, any order of starts and any number of stamps. *)
(* Types hold whatever is killed.  The places in the lists, and with them  *)
(* the stamps, are right until the second death: a slave keeps the list    *)
(* that it read when it was started, which a second takeover brings back.  *)
(*                                                                         *)
(* IInv has three parts.  Shape holds whatever dies: a machine has one     *)
(* ruler at most, and a handler that will answer runs in one; and HoldInv, *)
(* about who has the lock of a process.  Calm(x) holds when only x has     *)
(* died: then a machine has one change of master at most, the lists name   *)
(* first masters or the one who has taken over from x, and nobody has both.*)
(***************************************************************************)
EXTENDS ClockBoot, FiniteSetTheorems, TLAPS

-----------------------------------------------------------------------------
(***************************************************************************)
(* The invariant                                                           *)
(***************************************************************************)

\* p is its own master, before its takeover, too.
Rules(p) == p \in up /\ master[p] = p

\* p has been a master.
Ruler(p) == p = FirstMaster(MachineOf(p)) \/ step[p] # "slave"

\* The handler will answer, or has.
Served == {"forward", "forwarding", "answered"}

\* Nobody of m has taken over yet.
Untouched(m) == \A p \in Proc : MachineOf(p) = m => dead[p] = NoPid

RanInv ==
  \A p \in Proc : MachineOf(p) \notin ran =>
    /\ p \notin up /\ dead[p] = NoPid
    /\ master[p] = FirstMaster(MachineOf(p))

MachineInv ==
  \A p \in Proc :
    /\ MachineOf(master[p]) = MachineOf(p)
    /\ \A m \in Machine : MachineOf(peer[p][m]) = m
    /\ todo[p] \subseteq Others(p)

TakingInv ==
  \A p \in Proc : step[p] # "slave" =>
    Rules(p) /\ dead[p] \in Proc /\ MachineOf(dead[p]) = MachineOf(p)

OneTakes ==
  \A p, q \in Proc :
    /\ step[p] # "slave" /\ step[q] # "slave"
    /\ MachineOf(p) = MachineOf(q)
    => p = q

\* A master that has not begun its takeover is the first of its machine.
WaitingInv ==
  \A p \in Proc : Rules(p) /\ step[p] = "slave" =>
    /\ p = FirstMaster(MachineOf(p))
    /\ Untouched(MachineOf(p))
    /\ \A q \in Proc : MachineOf(q) = MachineOf(p) =>
         step[q] = "slave" /\ master[q] = p

CallInv ==
  \A p \in Proc, m \in Machine : LET c == rpc[p][m] IN c # NoCall =>
    /\ m # MachineOf(p) /\ MachineOf(c.at) = m
    /\ MachineOf(c.old) = MachineOf(p)
    /\ c.stage \in Served => Rules(c.at)
    /\ c.left \subseteq Locals(c.at)
    /\ c.waited => step[p] = "tellNet"

OneWait ==
  \A p \in Proc, m, n \in Machine : Waits(p, m) /\ Waits(p, n) => m = n

\* The loop over the other machines has the lock of its process, and so has a
\* handler that tells the local processes.
HoldInv ==
  /\ \A p \in Proc : step[p] = "tellNet" => holds[p] = p
  /\ \A p \in Proc, m \in Machine : LET c == rpc[p][m] IN
       c.stage = "forwarding" => holds[c.at] = p

Shape ==
  /\ TypeOK
  /\ RanInv /\ MachineInv /\ TakingInv /\ OneTakes /\ WaitingInv
  /\ CallInv /\ OneWait

\* The free slots come last.
Packed(l) == \A i, j \in Slot : i < j /\ l[i] = NoPid => l[j] = NoPid

\* No two ids of one machine.
OneEach(l) ==
  \A i, j \in Slot :
    i # j /\ l[i] # NoPid /\ l[j] # NoPid => MachineOf(l[i]) # MachineOf(l[j])

\* A list of machine m with another machine in it has m in the first slot or in
\* the second.
InFront(l, m) ==
  (\E i \in Slot : l[i] # NoPid /\ MachineOf(l[i]) # m)
  => \E i \in 1 .. 2 : l[i] # NoPid /\ MachineOf(l[i]) = m

RulersOnly(l) == \A i \in Slot : l[i] # NoPid => Ruler(l[i])

GoodList(l, m) == Packed(l) /\ OneEach(l) /\ InFront(l, m) /\ RulersOnly(l)

OnlyOwn(l, m) == \A i \in Slot : l[i] # NoPid => MachineOf(l[i]) = m

\* Only x has died, if anybody has.
DeathInv(x) ==
  /\ x \in Proc \cup {NoPid}
  /\ crashes = 0 => x = NoPid
  /\ \A p \in Proc : MachineOf(p) \in ran /\ p # x => p \in up

\* Who takes over is the first master or takes the place of x.
ChangeInv(x) ==
  \A p \in Proc : LET f == FirstMaster(MachineOf(p)) IN
    step[p] # "slave" => dead[p] = f /\ (p # f => x = f)

NamesInv ==
  \A p \in Proc :
    /\ Ruler(master[p])
    /\ \A m \in Machine : Ruler(peer[p][m])

CallerInv ==
  \A p \in Proc, m \in Machine : LET c == rpc[p][m] IN c # NoCall =>
    Ruler(p) /\ c.old = FirstMaster(MachineOf(p))

ListInv == \A p \in Proc : GoodList(list[p], MachineOf(p))

FileInv == \A m \in Machine : file[m] # NoFile => GoodList(file[m].list, m)

\* Whoever has taken over is the only one of its machine in its list.
OwnInv ==
  \A p \in Proc : step[p] # "slave" =>
    \A i \in Slot :
      list[p][i] # NoPid /\ MachineOf(list[p][i]) = MachineOf(p)
      => list[p][i] = p

\* Who knows of a new master has nothing of the dead one in its list.
KnownInv ==
  \A p \in Proc : step[p] # "slave" =>
    \A m \in Others(p) : peer[p][m] # FirstMaster(m) =>
      \A i \in Slot : list[p][i] # FirstMaster(m)

\* Who is called is still the one that is known for its machine.
AskedInv ==
  \A p \in Proc, m \in Machine : Waits(p, m) => peer[p][m] = rpc[p][m].at

FreshInv ==
  \A p \in Proc : Untouched(MachineOf(p)) => OnlyOwn(list[p], MachineOf(p))

FreshFileInv ==
  \A m \in Machine : Untouched(m) =>
    /\ file[m] # NoFile => OnlyOwn(file[m].list, m)
    /\ last[m] = 0

\* z has a slot in which no stamp n is lost.
Stamped(t, l, z, n) == n = 0 \/ \E i \in 1 .. 2 : l[i] = z /\ t[i][i] >= n

StampInv ==
  \A p \in Proc : step[p] # "slave" /\ MachineOf(p) \notin broken =>
    Stamped(times[p], list[p], p, last[MachineOf(p)])

\* What the first master has saved, for the one who takes over from it.
SavedInv ==
  \A m \in Machine :
    /\ m \notin broken
    /\ \A p \in Proc : MachineOf(p) = m /\ step[p] # "slave" => p = FirstMaster(m)
    => \/ author[m] = NoPid /\ last[m] = 0
       \/ author[m] \notin {NoPid, FirstMaster(m)}
       \/ /\ file[m] # NoFile
          /\ Stamped(file[m].times, file[m].list, FirstMaster(m), last[m])

Calm(x) ==
  /\ DeathInv(x) /\ ChangeInv(x) /\ NamesInv /\ CallerInv
  /\ ListInv /\ OwnInv /\ KnownInv /\ AskedInv /\ FreshInv /\ StampInv
  /\ FileInv /\ FreshFileInv /\ SavedInv

IInv == Shape /\ HoldInv /\ (OneDeath => \E x \in Proc \cup {NoPid} : Calm(x))

-----------------------------------------------------------------------------
(***************************************************************************)
(* Processes, lists and vectors                                            *)
(***************************************************************************)

LEMMA ProcFacts ==
  ASSUME NEW p \in Proc
  PROVE  /\ MachineOf(p) \in Machine
         /\ Others(p) \subseteq Machine /\ MachineOf(p) \notin Others(p)
         /\ Locals(p) \subseteq Proc
         /\ p # NoPid
BY NoPidAssumption DEF Proc, MachineOf, Others, Locals

LEMMA FirstFacts ==
  ASSUME NEW m \in Machine
  PROVE  FirstMaster(m) \in Proc /\ MachineOf(FirstMaster(m)) = m
<1>1. Size[m] \in 1 .. Size[m]
  BY SizeAssumption
<1>2. <<m, Size[m]>> \in {m} \X (1 .. Size[m])
  BY <1>1
<1> QED BY <1>2 DEF FirstMaster, Proc, MachineOf

LEMMA LocalFacts ==
  ASSUME NEW p \in Proc, NEW q \in Proc
  PROVE  q \in Locals(p) <=> MachineOf(q) = MachineOf(p) /\ q # p
BY DEF Locals

\* What a place in a list says.
LEMMA SlotInFacts ==
  ASSUME NEW l \in PidList, NEW z \in Proc, NEW s, s = SlotIn(l, z)
  PROVE  /\ s \in 0 .. 3
         /\ s # 0 => /\ s \in Slot
                     /\ l[s] \in {z, NoPid}
                     /\ \A j \in Slot : j < s => l[j] \notin {z, NoPid}
         /\ s = 0 => \A i \in Slot : l[i] \notin {z, NoPid}
<1> DEFINE P(i) == l[i] \in {z, NoPid}
           F(i) == P(i) /\ \A j \in 1 .. i - 1 : ~P(j)
<1>1. CASE \E i \in Slot : P(i)
  <2>1. PICK i \in Slot : F(i)
    <3>1. CASE P(1)
      BY <3>1 DEF Slot
    <3>2. CASE ~P(1) /\ P(2)
      <4> HIDE DEF P
      <4>1. \A j \in 1 .. 2 - 1 : j = 1
        OBVIOUS
      <4> QED BY <3>2, <4>1 DEF Slot
    <3>3. CASE ~P(1) /\ ~P(2)
      <4> HIDE DEF P
      <4>1. P(3)
        BY <1>1, <3>3 DEF Slot
      <4>2. \A j \in 1 .. 3 - 1 : j = 1 \/ j = 2
        OBVIOUS
      <4> QED BY <3>3, <4>1, <4>2 DEF Slot
    <3> QED BY <3>1, <3>2, <3>3
  <2>2. s = CHOOSE k \in Slot : F(k)
    BY <1>1 DEF SlotIn
  <2> HIDE DEF F
  <2>3. s \in Slot /\ F(s)
    BY <2>1, <2>2
  <2>4. \A j \in Slot : j < s => j \in 1 .. s - 1
    BY <2>3 DEF Slot
  <2> QED BY <2>3, <2>4 DEF F, Slot
<1>2. CASE ~\E i \in Slot : P(i)
  BY <1>2 DEF SlotIn
<1> QED BY <1>1, <1>2

LEMMA ListedFacts ==
  ASSUME NEW l \in PidList, NEW z \in Proc
  PROVE  /\ Listed(l, z) \in PidList
         /\ \A i \in Slot : Listed(l, z)[i] = IF i = SlotIn(l, z) THEN z ELSE l[i]
<1> DEFINE s == SlotIn(l, z)
<1>1. s # 0 => s \in Slot
  BY SlotInFacts
<1>2. 0 \notin Slot
  BY DEF Slot
<1> HIDE DEF s
<1> QED BY <1>1, <1>2 DEF Listed, PidList, s

LEMMA ExchangeFacts ==
  ASSUME NEW l \in PidList, NEW old \in Proc, NEW new \in Proc
  PROVE  /\ Exchange(l, old, new) \in PidList
         /\ \A i \in Slot : Exchange(l, old, new)[i] =
              IF l[i] = old /\ \A j \in 1 .. i - 1 : l[j] # old THEN new ELSE l[i]
BY DEF Exchange, PidList

LEMMA VectorFacts ==
  ASSUME NEW c \in Clock, NEW d \in Clock, NEW s \in Slot
  PROVE  /\ RequestTime(c, s) \in Clock
         /\ RequestTime(c, s)[s] = c[s] + 1
         /\ Compared(d, c, s) \in Clock
         /\ Compared(d, c, s)[s] = c[s] + 1
         /\ [c EXCEPT ![s] = d[s]] \in Clock
         /\ Zero \in Clock
BY DEF RequestTime, Compared, Clock, Zero

LEMMA SavedFacts ==
  ASSUME NEW t \in Clocks, NEW l \in PidList
  PROVE  /\ Saved(t, l) \in ClockFile
         /\ Saved(t, l).list = l
         /\ Saved(t, l).times[1] = t[1]
         /\ Saved(t, l).times[2] = t[2]
BY DEF Saved, ClockFile, Clocks, Slot

LEMMA FileFacts ==
  ASSUME TypeOK, NEW m \in Machine
  PROVE  /\ ReadTimes(m) \in Clocks
         /\ ReadList(m) \in PidList
         /\ file[m] # NoFile => /\ file[m] \in ClockFile
                                /\ ReadTimes(m) = file[m].times
                                /\ ReadList(m) = file[m].list
         /\ file[m] = NoFile => ReadTimes(m) = NoClocks /\ ReadList(m) = NoList
<1>1. NoClocks \in Clocks /\ NoList \in PidList
  BY DEF NoClocks, NoList, Clocks, PidList, Clock, Zero
<1>2. file[m] \in ClockFile \cup {NoFile}
  BY DEF TypeOK
<1> QED BY <1>1, <1>2 DEF ReadTimes, ReadList, ClockFile
-----------------------------------------------------------------------------
(***************************************************************************)
(* What the operations on clocks and calls change                          *)
(***************************************************************************)

LEMMA KeepFacts ==
  ASSUME TypeOK, NEW p \in Proc, NEW t \in Clocks, NEW l \in PidList,
         Keep(p, t, l)
  PROVE  /\ times' \in [Proc -> Clocks] /\ list' \in [Proc -> PidList]
         /\ file' \in [Machine -> ClockFile \cup {NoFile}]
         /\ author' \in [Machine -> Proc \cup {NoPid}]
         /\ \A q \in Proc : /\ times'[q] = IF q = p THEN t ELSE times[q]
                            /\ list'[q] = IF q = p THEN l ELSE list[q]
         /\ \A m \in Machine :
              /\ file'[m] = IF m = MachineOf(p) THEN Saved(t, l) ELSE file[m]
              /\ author'[m] = IF m = MachineOf(p) THEN p ELSE author[m]
<1>1. MachineOf(p) \in Machine /\ Saved(t, l) \in ClockFile
  BY ProcFacts, SavedFacts
<1> QED BY <1>1 DEF Keep, TypeOK

LEMMA NotedFacts ==
  ASSUME TypeOK, NEW q \in Proc, NEW p \in Proc, NEW old \in Proc,
         Noted(q, p, old)
  PROVE  /\ times' = times /\ list' \in [Proc -> PidList]
         /\ file' \in [Machine -> ClockFile \cup {NoFile}]
         /\ author' \in [Machine -> Proc \cup {NoPid}]
         /\ peer' \in [Proc -> [Machine -> Proc]]
         /\ \A r \in Proc : list'[r] = IF r = q THEN Exchange(list[q], old, p)
                                       ELSE list[r]
         /\ \A m \in Machine :
              /\ file'[m] = IF m = MachineOf(q)
                            THEN Saved(times[q], Exchange(list[q], old, p))
                            ELSE file[m]
              /\ author'[m] = IF m = MachineOf(q) THEN q ELSE author[m]
         /\ \A r \in Proc, m \in Machine :
              peer'[r][m] = IF r = q /\ m = MachineOf(p) THEN p ELSE peer[r][m]
<1> DEFINE l == Exchange(list[q], old, p)
<1>1. times[q] \in Clocks /\ list[q] \in PidList
  BY DEF TypeOK
<1>2. l \in PidList
  BY <1>1, ExchangeFacts
<1>3. Keep(q, times[q], l)
  BY DEF Noted
<1> HIDE DEF l
<1>4. times' = times
  BY <1>3 DEF Keep, TypeOK
<1>5. MachineOf(p) \in Machine
  BY ProcFacts
<1>6. peer' = [peer EXCEPT ![q][MachineOf(p)] = p]
  BY DEF Noted
<1>7. /\ peer' \in [Proc -> [Machine -> Proc]]
      /\ \A r \in Proc, m \in Machine :
           peer'[r][m] = IF r = q /\ m = MachineOf(p) THEN p ELSE peer[r][m]
  BY <1>5, <1>6 DEF TypeOK
<1> QED BY <1>1, <1>2, <1>3, <1>4, <1>7, KeepFacts DEF l

LEMMA CallFacts ==
  ASSUME TypeOK, NEW p \in Proc, NEW m \in Machine
  PROVE  /\ rpc[p][m] \in Call \cup {NoCall}
         /\ rpc[p][m] # NoCall => rpc[p][m] \in Call
         /\ rpc[p][m].stage # "none" => rpc[p][m] # NoCall
         /\ rpc[p][m] \in Call => /\ rpc[p][m].stage # "none"
                                  /\ rpc[p][m].at \in Proc
                                  /\ rpc[p][m].old \in Proc
                                  /\ rpc[p][m].waited \in BOOLEAN
                                  /\ rpc[p][m].clock \in Clock
                                  /\ rpc[p][m].left \subseteq Proc
<1>1. rpc[p][m] \in Call \cup {NoCall}
  BY DEF TypeOK
<1>2. NoCall.stage = "none"
  BY DEF NoCall
<1> QED BY <1>1, <1>2 DEF Call

\* The call of p at m is c now; the others are what they were.
CallIs(p, m, c) ==
  /\ rpc' \in [Proc -> [Machine -> Call \cup {NoCall}]]
  /\ c \in Call \cup {NoCall}
  /\ \A q \in Proc, n \in Machine :
       rpc'[q][n] = IF q = p /\ n = m THEN c ELSE rpc[q][n]

LEMMA CallSet ==
  ASSUME TypeOK, NEW p \in Proc, NEW m \in Machine, NEW c \in Call \cup {NoCall},
         rpc' = [rpc EXCEPT ![p][m] = c]
  PROVE  CallIs(p, m, c)
BY DEF TypeOK, CallIs

LEMMA CallGone ==
  ASSUME TypeOK, NEW p \in Proc, NEW m \in Machine,
         Answered(p, m) \/ Failed(p, m) \/ Dropped(p, m)
  PROVE  CallIs(p, m, NoCall)
<1>1. rpc' = [rpc EXCEPT ![p][m] = NoCall]
  BY DEF Answered, Failed, Dropped
<1> QED BY <1>1, CallSet

LEMMA CallLate ==
  ASSUME TypeOK, NEW p \in Proc, NEW m \in Machine, Late(p, m)
  PROVE  /\ rpc[p][m] \in Call
         /\ CallIs(p, m, [rpc[p][m] EXCEPT !.waited = FALSE])
<1>1. rpc[p][m] \in Call
  BY CallFacts DEF Late, Waits
<1>2. [rpc[p][m] EXCEPT !.waited = FALSE] \in Call
  BY <1>1 DEF Call
<1>3. rpc' = [rpc EXCEPT ![p][m] = [rpc[p][m] EXCEPT !.waited = FALSE]]
  BY DEF Late, TypeOK
<1> QED BY <1>1, <1>2, <1>3, CallSet

LEMMA CallForwarding ==
  ASSUME TypeOK, NEW p \in Proc, NEW m \in Machine, StartForward(p, m)
  PROVE  /\ rpc[p][m] \in Call
         /\ CallIs(p, m, [rpc[p][m] EXCEPT !.stage = "forwarding",
                                           !.left = Locals(rpc[p][m].at)])
<1> DEFINE c == [rpc[p][m] EXCEPT !.stage = "forwarding",
                                  !.left = Locals(rpc[p][m].at)]
<1>1. rpc[p][m] \in Call
  BY CallFacts DEF StartForward
<1>2. Locals(rpc[p][m].at) \subseteq Proc
  BY DEF Locals
<1>3. c \in Call
  BY <1>1, <1>2 DEF Call
<1>4. rpc' = [rpc EXCEPT ![p][m] = c]
  BY DEF StartForward, TypeOK
<1> QED BY <1>1, <1>3, <1>4, CallSet

LEMMA CallForwards ==
  ASSUME TypeOK, NEW p \in Proc, NEW m \in Machine, NEW r \in Proc,
         Forward(p, m, r)
  PROVE  /\ rpc[p][m] \in Call
         /\ CallIs(p, m, [rpc[p][m] EXCEPT !.left = rpc[p][m].left \ {r}])
<1> DEFINE c == [rpc[p][m] EXCEPT !.left = rpc[p][m].left \ {r}]
<1>1. rpc[p][m] \in Call
  BY CallFacts DEF Forward
<1>2. c \in Call
  BY <1>1 DEF Call
<1>3. rpc' = [rpc EXCEPT ![p][m] = c]
  BY DEF Forward, TypeOK
<1> QED BY <1>1, <1>2, <1>3, CallSet

LEMMA CallAnswers ==
  ASSUME TypeOK, NEW p \in Proc, NEW m \in Machine, Answer(p, m)
  PROVE  /\ rpc[p][m] \in Call
         /\ \E v \in Clock :
              CallIs(p, m, [rpc[p][m] EXCEPT !.stage = "answered", !.clock = v])
<1> DEFINE z == rpc[p][m].at
           v == times[z][SlotIn(list[z], z)]
           c == [rpc[p][m] EXCEPT !.stage = "answered", !.clock = v]
<1>1. rpc[p][m] \in Call
  BY CallFacts DEF Answer
<1>2. z \in Proc
  BY <1>1 DEF Call
<1>3. list[z] \in PidList /\ times[z] \in Clocks
  BY <1>2 DEF TypeOK
<1>4. SlotIn(list[z], z) \in Slot
  BY <1>2, <1>3, SlotInFacts DEF Answer
<1>5. v \in Clock
  BY <1>3, <1>4 DEF Clocks
<1>6. rpc' = [rpc EXCEPT ![p][m] = c]
  BY DEF Answer, TypeOK
<1> HIDE DEF v
<1>7. c \in Call
  BY <1>1, <1>5 DEF Call
<1> QED BY <1>1, <1>5, <1>6, <1>7, CallSet

LEMMA CallTells ==
  ASSUME TypeOK, NEW p \in Proc, NEW m \in Machine, dead[p] \in Proc, Tell(p, m)
  PROVE  \E c \in Call :
           /\ CallIs(p, m, c)
           /\ c.at = peer[p][m] /\ c.waited /\ c.old = dead[p] /\ c.left = {}
           /\ c.stage \notin Served
<1> DEFINE q == peer[p][m]
           g == IF q \in up THEN "called" ELSE "failed"
           c == [stage |-> g, at |-> q, waited |-> TRUE, old |-> dead[p],
                 left |-> {}, clock |-> Zero]
<1>1. q \in Proc
  BY DEF TypeOK
<1>2. Zero \in Clock
  BY DEF Zero, Clock
<1>3. c \in Call
  BY <1>1, <1>2 DEF Call
<1>4. rpc' = [rpc EXCEPT ![p][m] = c]
  BY DEF Tell
<1>5. CallIs(p, m, c)
  BY <1>3, <1>4, CallSet
<1> QED BY <1>3, <1>5 DEF Served

LEMMA CallBegins ==
  ASSUME TypeOK, NEW p \in Proc, NEW m \in Machine, Begin(p, m)
  PROVE  \E c \in Call :
           /\ rpc[p][m] \in Call /\ CallIs(p, m, c)
           /\ c.at = rpc[p][m].at /\ c.old = rpc[p][m].old
           /\ c.waited = rpc[p][m].waited /\ c.left = rpc[p][m].left
           /\ c.stage \in Served => Rules(c.at)
           /\ c.stage # "forwarding"
<1> DEFINE z == rpc[p][m].at
           g == IF master[z] = z THEN "forward" ELSE "empty"
           c == [rpc[p][m] EXCEPT !.stage = g]
<1>1. rpc[p][m] \in Call
  BY CallFacts DEF Begin
<1>2. c \in Call
  BY <1>1 DEF Call
<1>3. rpc' = [rpc EXCEPT ![p][m] = c]
  BY DEF Begin, TypeOK
<1>4. CallIs(p, m, c)
  BY <1>2, <1>3, CallSet
<1>5. /\ c.at = z /\ c.old = rpc[p][m].old /\ c.waited = rpc[p][m].waited
      /\ c.left = rpc[p][m].left /\ c.stage = g
  BY <1>1 DEF Call
<1>6. g \in Served => Rules(z)
  BY DEF Begin, Served, Rules
<1>7. g # "forwarding"
  OBVIOUS
<1> HIDE DEF c, g, z
<1> QED BY <1>1, <1>2, <1>4, <1>5, <1>6, <1>7 DEF z

\* What the answer of a master does to the clocks.
LEMMA SetClockFacts ==
  ASSUME TypeOK, NEW p \in Proc, NEW z \in Proc, NEW clock \in Clock,
         SlotIn(list[p], z) # 0, SlotIn(Listed(list[p], z), p) # 0,
         SetClock(p, z, clock)
  PROVE  \E t \in Clocks :
           LET i == SlotIn(list[p], z)
               l == Listed(list[p], z)
               s == SlotIn(l, p)
           IN /\ Keep(p, t, Listed(l, p))
              /\ Listed(l, p) \in PidList
              /\ s # i => t[s][s] = times[p][s][s]
<1> DEFINE i == SlotIn(list[p], z)
           l == Listed(list[p], z)
           s == SlotIn(l, p)
           u == [times[p] EXCEPT ![i] = clock]
           t == [u EXCEPT ![s][i] = clock[i]]
<1>1. list[p] \in PidList /\ times[p] \in Clocks
  BY DEF TypeOK
<1>2. l \in PidList /\ Listed(l, p) \in PidList
  BY <1>1, ListedFacts
<1>3. i \in Slot /\ s \in Slot
  BY <1>1, <1>2, SlotInFacts
<1>4. Keep(p, t, Listed(l, p))
  BY DEF SetClock
<1> HIDE DEF i, l, s
<1>5. u \in Clocks
  BY <1>1, <1>3 DEF Clocks
<1>6. t \in Clocks /\ (s # i => t[s][s] = times[p][s][s])
  <2>1. u[s] \in Clock /\ clock[i] \in Nat
    BY <1>3, <1>5 DEF Clocks, Clock
  <2>2. [u[s] EXCEPT ![i] = clock[i]] \in Clock
    BY <2>1 DEF Clock
  <2>3. t = [u EXCEPT ![s] = [u[s] EXCEPT ![i] = clock[i]]]
    BY <1>3, <1>5 DEF Clocks
  <2>4. t \in Clocks
    BY <1>3, <1>5, <2>2, <2>3 DEF Clocks
  <2>5. s # i => t[s][s] = u[s][s] /\ u[s] = times[p][s]
    BY <1>1, <1>3, <1>5, <2>1, <2>3 DEF Clocks, Clock
  <2> QED BY <2>4, <2>5
<1> HIDE DEF t
<1> QED BY <1>2, <1>4, <1>6 DEF i, l, s

\* What a stamp and a comparison do to them.
LEMMA StampFacts ==
  ASSUME TypeOK, NEW p \in Proc, SlotIn(list[p], p) # 0, NEW c \in Clock,
         NEW s, s = SlotIn(list[p], p),
         NEW d, d \in {RequestTime(times[p][s], s), Compared(c, times[p][s], s)},
         Keep(p, [times[p] EXCEPT ![s] = d], Listed(list[p], p))
  PROVE  /\ s \in Slot /\ list[p] \in PidList /\ times[p] \in Clocks
         /\ Listed(list[p], p) \in PidList
         /\ [times[p] EXCEPT ![s] = d] \in Clocks
         /\ times[p][s][s] \in Nat
         /\ [times[p] EXCEPT ![s] = d][s][s] = times[p][s][s] + 1
<1>1. list[p] \in PidList /\ times[p] \in Clocks
  BY DEF TypeOK
<1>2. s \in Slot /\ Listed(list[p], p) \in PidList
  BY <1>1, SlotInFacts, ListedFacts
<1>3. times[p][s] \in Clock /\ times[p][s][s] \in Nat
  BY <1>1, <1>2 DEF Clocks, Clock
<1> DEFINE e == times[p][s]
<1>4. d \in Clock /\ d[s] = e[s] + 1
  <2>1. e \in Clock
    BY <1>3
  <2> HIDE DEF e
  <2>2. /\ RequestTime(e, s) \in Clock /\ RequestTime(e, s)[s] = e[s] + 1
        /\ Compared(c, e, s) \in Clock /\ Compared(c, e, s)[s] = e[s] + 1
    BY <1>2, <2>1, VectorFacts
  <2>3. d \in {RequestTime(e, s), Compared(c, e, s)}
    BY DEF e
  <2> QED BY <2>2, <2>3
<1> QED BY <1>1, <1>2, <1>3, <1>4 DEF Clocks
-----------------------------------------------------------------------------
(***************************************************************************)
(* Shape: what several steps leave alone                                   *)
(***************************************************************************)

\* Two masters of a machine are one.
LEMMA RulesOnce ==
  ASSUME Shape, NEW p \in Proc, NEW q \in Proc, Rules(p), Rules(q),
         MachineOf(p) = MachineOf(q)
  PROVE  p = q
<1>1. CASE step[p] = "slave"
  BY <1>1 DEF Shape, WaitingInv, Rules
<1>2. CASE step[q] = "slave"
  BY <1>2 DEF Shape, WaitingInv, Rules
<1>3. CASE step[p] # "slave" /\ step[q] # "slave"
  BY <1>3 DEF Shape, OneTakes
<1> QED BY <1>1, <1>2, <1>3

\* The rulers are who they were.
RulersKept ==
  /\ UNCHANGED <<ran, up, master, dead>>
  /\ \A p \in Proc : step'[p] = "slave" <=> step[p] = "slave"

LEMMA RulersKeptShape ==
  ASSUME Shape, RulersKept
  PROVE  /\ RanInv' /\ TakingInv' /\ OneTakes' /\ WaitingInv'
         /\ \A p \in Proc : Rules(p)' <=> Rules(p)
<1> USE DEF Shape, RulersKept, Rules
<1>1. RanInv'
  BY DEF RanInv
<1>2. TakingInv'
  BY DEF TakingInv
<1>3. OneTakes'
  BY DEF OneTakes
<1>4. WaitingInv'
  BY DEF WaitingInv, Untouched
<1> QED BY <1>1, <1>2, <1>3, <1>4

\* No call changes.
LEMMA CallsKeptShape ==
  ASSUME Shape, rpc' = rpc,
         \A p \in Proc : Rules(p) => Rules(p)',
         \A p \in Proc, m \in Machine : Waits(p, m) => step'[p] = "tellNet"
  PROVE  CallInv' /\ OneWait'
<1>1. CallInv'
  <2> SUFFICES ASSUME NEW p \in Proc, NEW m \in Machine, rpc[p][m] # NoCall
               PROVE  LET c == rpc[p][m] IN
                      /\ m # MachineOf(p) /\ MachineOf(c.at) = m
                      /\ MachineOf(c.old) = MachineOf(p)
                      /\ c.stage \in Served => Rules(c.at)'
                      /\ c.left \subseteq Locals(c.at)
                      /\ c.waited => step'[p] = "tellNet"
    BY DEF CallInv
  <2>1. rpc[p][m].at \in Proc
    BY CallFacts DEF Shape
  <2> QED BY <2>1 DEF Shape, CallInv, Waits
<1>2. OneWait'
  BY DEF Shape, OneWait, Waits
<1> QED BY <1>1, <1>2

\* One call changes.
LEMMA CallChangeShape ==
  ASSUME Shape, NEW p \in Proc, NEW m \in Machine, NEW c, CallIs(p, m, c),
         \A q \in Proc : Rules(q) => Rules(q)',
         \A q \in Proc, n \in Machine :
           ~(q = p /\ n = m) /\ Waits(q, n) => step'[q] = "tellNet",
         c # NoCall =>
           /\ m # MachineOf(p) /\ MachineOf(c.at) = m
           /\ MachineOf(c.old) = MachineOf(p)
           /\ c.stage \in Served => Rules(c.at)
           /\ c.left \subseteq Locals(c.at)
           /\ c.waited => step'[p] = "tellNet" /\ \A n \in Machine : ~Waits(p, n) \/ n = m
  PROVE  CallInv' /\ OneWait'
<1>1. CallInv'
  <2> SUFFICES ASSUME NEW q \in Proc, NEW n \in Machine, rpc'[q][n] # NoCall
               PROVE  LET k == rpc'[q][n] IN
                      /\ n # MachineOf(q) /\ MachineOf(k.at) = n
                      /\ MachineOf(k.old) = MachineOf(q)
                      /\ k.stage \in Served => k.at \in up' /\ master'[k.at] = k.at
                      /\ k.left \subseteq Locals(k.at)
                      /\ k.waited => step'[q] = "tellNet"
    BY DEF CallInv, Rules
  <2>1. CASE q = p /\ n = m
    <3>1. rpc'[q][n] = c /\ c # NoCall /\ c \in Call
      BY <2>1 DEF CallIs
    <3>2. c.at \in Proc
      BY <3>1 DEF Call
    <3> QED BY <2>1, <3>1, <3>2 DEF Rules
  <2>2. CASE ~(q = p /\ n = m)
    <3>1. rpc'[q][n] = rpc[q][n]
      BY <2>2 DEF CallIs
    <3>2. rpc[q][n].at \in Proc
      BY <3>1, CallFacts DEF Shape
    <3> QED BY <2>2, <3>1, <3>2 DEF Shape, CallInv, Waits, Rules
  <2> QED BY <2>1, <2>2
<1>2. OneWait'
  <2> SUFFICES ASSUME NEW q \in Proc, NEW n \in Machine, NEW k \in Machine,
                      Waits(q, n)', Waits(q, k)'
               PROVE  n = k
    BY DEF OneWait
  <2>1. CASE q # p
    BY <2>1 DEF Shape, OneWait, Waits, CallIs
  <2>2. CASE q = p
    BY <2>2 DEF Shape, OneWait, Waits, CallIs
  <2> QED BY <2>1, <2>2
<1> QED BY <1>1, <1>2

LEMMA MachineKept ==
  ASSUME Shape, UNCHANGED <<master, peer, todo>>
  PROVE  MachineInv'
BY DEF Shape, MachineInv

-----------------------------------------------------------------------------
(***************************************************************************)
(* Shape: every step                                                       *)
(***************************************************************************)

LEMMA RunShape ==
  ASSUME Shape, NEW m \in Machine, Run(m), UNCHANGED start
  PROVE  Shape'
<1> USE DEF vars, clocks, takeOver, bounds
<1>1. TypeOK'
  BY DEF Shape, TypeOK, Run
<1>2. \A p \in Proc : Rules(p) => Rules(p)'
  BY DEF Run, Rules
<1>3. RanInv'
  BY DEF Shape, RanInv, Run
<1>4. MachineInv'
  BY MachineKept DEF Run
<1>5. TakingInv' /\ OneTakes'
  BY DEF Shape, TakingInv, OneTakes, Rules, Run
<1>6. WaitingInv'
  <2> SUFFICES ASSUME NEW p \in Proc, Rules(p)', step[p] = "slave"
               PROVE  /\ p = FirstMaster(MachineOf(p))
                      /\ Untouched(MachineOf(p))
                      /\ \A q \in Proc : MachineOf(q) = MachineOf(p) =>
                           step[q] = "slave" /\ master[q] = p
    BY DEF WaitingInv, Run, Untouched
  <2>1. CASE p \in up
    BY <2>1 DEF Shape, WaitingInv, Run, Rules
  <2>2. CASE MachineOf(p) = m
    <3>1. \A q \in Proc : MachineOf(q) = m =>
            /\ dead[q] = NoPid /\ master[q] = FirstMaster(m) /\ step[q] = "slave"
      BY DEF Shape, RanInv, TakingInv, Rules, Run
    <3> QED BY <2>2, <3>1 DEF Rules, Run, Untouched
  <2> QED BY <2>1, <2>2 DEF Rules, Run
<1>7. CallInv' /\ OneWait'
  <2>1. rpc' = rpc /\ step' = step
    BY DEF Run
  <2>2. \A p \in Proc, n \in Machine : Waits(p, n) => step[p] = "tellNet"
    BY DEF Shape, CallInv, Waits
  <2> QED BY <1>2, <2>1, <2>2, CallsKeptShape
<1> QED BY <1>1, <1>3, <1>4, <1>5, <1>6, <1>7 DEF Shape
\* A step that calls nobody and leaves the rulers, who is called and what
\* waits as they are.
LEMMA QuietShape ==
  ASSUME Shape, TypeOK', UNCHANGED <<ran, up, master, peer, step, dead, todo, rpc>>
  PROVE  Shape'
<1>1. RulersKept
  BY DEF RulersKept
<1>2. MachineInv'
  BY MachineKept
<1>3. \A p \in Proc, n \in Machine : Waits(p, n) => step[p] = "tellNet"
  BY DEF Shape, CallInv, Waits
<1>4. CallInv' /\ OneWait'
  BY <1>1, <1>3, RulersKeptShape, CallsKeptShape
<1> QED BY <1>1, <1>2, <1>4, RulersKeptShape DEF Shape

LEMMA RequestShape ==
  ASSUME Shape, NEW p \in Proc, Request(p), UNCHANGED <<start, ran>>
  PROVE  Shape'
<1> USE DEF takeOver
<1> DEFINE s == SlotIn(list[p], p)
           d == RequestTime(times[p][s], s)
           t == [times[p] EXCEPT ![s] = d]
<1>1. s # 0 /\ Keep(p, t, Listed(list[p], p)) /\ last' = [last EXCEPT ![MachineOf(p)] = t[s][s]]
  BY DEF Request, RequestTimeOf
<1>2. TypeOK /\ Zero \in Clock
  BY DEF Shape, Zero, Clock
<1>3. /\ t \in Clocks /\ Listed(list[p], p) \in PidList
      /\ t[s][s] = times[p][s][s] + 1 /\ times[p][s][s] \in Nat
  <2> HIDE DEF s
  <2> QED BY <1>1, <1>2, StampFacts DEF s
<1> HIDE DEF t, s
<1>4. last' \in [Machine -> Nat]
  <2>1. t[s][s] \in Nat
    BY <1>3
  <2> QED BY <1>1, <1>2, <2>1 DEF TypeOK
<1>5. ticks' \in 0 .. MaxTicks
  BY <1>2, BoundsAssumption DEF Request, Tick, TypeOK
<1>6. TypeOK'
  BY <1>1, <1>2, <1>3, <1>4, <1>5, KeepFacts DEF Request, TypeOK
<1> QED BY <1>6, QuietShape DEF Request

LEMMA CompareShape ==
  ASSUME Shape, NEW p \in Proc, NEW q \in Proc, Compare(p, q),
         UNCHANGED <<start, ran>>
  PROVE  Shape'
<1> USE DEF takeOver
<1> DEFINE s == SlotIn(list[p], p)
           c == times[q][SlotIn(list[q], q)]
           d == Compared(c, times[p][s], s)
           t == [times[p] EXCEPT ![s] = d]
<1>1. s # 0 /\ Keep(p, t, Listed(list[p], p)) /\ last' = last
  BY DEF Compare, ComparisonOf
<1>2. TypeOK
  BY DEF Shape
<1>3. c \in Clock
  <2>1. list[q] \in PidList /\ times[q] \in Clocks
    BY <1>2 DEF TypeOK
  <2>2. SlotIn(list[q], q) \in Slot
    BY <2>1, SlotInFacts DEF Compare
  <2> QED BY <2>1, <2>2 DEF Clocks
<1>4. t \in Clocks /\ Listed(list[p], p) \in PidList
  <2> HIDE DEF s, c
  <2> QED BY <1>1, <1>2, <1>3, StampFacts DEF s
<1> HIDE DEF t, s, c
<1>5. ticks' \in 0 .. MaxTicks
  BY <1>2, BoundsAssumption DEF Compare, Tick, TypeOK
<1>6. TypeOK'
  BY <1>1, <1>2, <1>4, <1>5, KeepFacts DEF Compare, TypeOK
<1> QED BY <1>6, QuietShape DEF Compare

LEMMA TellLocalsShape ==
  ASSUME Shape, NEW p \in Proc, TellLocals(p), UNCHANGED <<start, ran>>
  PROVE  Shape'
<1> USE DEF clocks, bounds
<1>1. TypeOK'
  BY DEF Shape, TypeOK, TellLocals
<1>2. step[p] # "slave" /\ Rules(p) /\ p \in up
  BY DEF Shape, TakingInv, TellLocals
<1>3. \A q \in Proc : /\ master'[q] = IF q \in Locals(p) /\ q \in up THEN p ELSE master[q]
                      /\ step'[q] = IF q = p THEN "net" ELSE step[q]
  BY DEF Shape, TypeOK, TellLocals
<1>4. \A q \in Proc : Rules(q) => q \notin Locals(p)
  BY <1>2, RulesOnce, LocalFacts
<1>5. \A q \in Proc : Rules(q) <=> Rules(q)'
  BY <1>3, <1>4, LocalFacts DEF Rules, TellLocals
<1>6. RanInv'
  BY <1>2, <1>3 DEF Shape, RanInv, TellLocals
<1>7. MachineInv'
  BY <1>3, LocalFacts DEF Shape, MachineInv, TellLocals
<1>8. TakingInv' /\ OneTakes'
  BY <1>2, <1>3, <1>5 DEF Shape, TakingInv, OneTakes, TellLocals
<1>9. WaitingInv'
  <2> SUFFICES ASSUME NEW q \in Proc, Rules(q)', step'[q] = "slave"
               PROVE  /\ q = FirstMaster(MachineOf(q))
                      /\ Untouched(MachineOf(q))'
                      /\ \A r \in Proc : MachineOf(r) = MachineOf(q) =>
                           step'[r] = "slave" /\ master'[r] = q
    BY DEF WaitingInv
  <2>1. Rules(q) /\ step[q] = "slave"
    BY <1>3, <1>5
  <2>2. MachineOf(q) # MachineOf(p)
    BY <1>2, <2>1 DEF Shape, WaitingInv
  <2> QED BY <1>3, <2>1, <2>2, LocalFacts DEF Shape, WaitingInv, Untouched, TellLocals
<1>10. CallInv' /\ OneWait'
  <2>1. \A q \in Proc, n \in Machine : Waits(q, n) => step[q] = "tellNet"
    BY DEF Shape, CallInv, Waits
  <2>2. \A q \in Proc, n \in Machine : Waits(q, n) => step'[q] = "tellNet"
    BY <1>3, <2>1 DEF TellLocals
  <2> QED BY <1>5, <2>2, CallsKeptShape DEF TellLocals
<1> QED BY <1>1, <1>6, <1>7, <1>8, <1>9, <1>10 DEF Shape

LEMMA StartNetShape ==
  ASSUME Shape, NEW p \in Proc, StartNet(p), UNCHANGED <<start, ran>>
  PROVE  Shape'
<1> USE DEF clocks, bounds
<1>1. TypeOK'
  BY ProcFacts DEF Shape, TypeOK, StartNet
<1>2. \A q \in Proc : /\ step'[q] = IF q = p THEN "tellNet" ELSE step[q]
                      /\ todo'[q] = IF q = p THEN Others(p) ELSE todo[q]
  BY DEF Shape, TypeOK, StartNet
<1>3. RulersKept
  BY <1>2 DEF RulersKept, StartNet
<1>4. MachineInv'
  BY <1>2 DEF Shape, MachineInv, StartNet
<1>5. CallInv' /\ OneWait'
  <2>1. \A q \in Proc, n \in Machine : Waits(q, n) => step[q] = "tellNet"
    BY DEF Shape, CallInv, Waits
  <2> QED BY <1>2, <1>3, <2>1, RulersKeptShape, CallsKeptShape DEF StartNet
<1> QED BY <1>1, <1>3, <1>4, <1>5, RulersKeptShape DEF Shape

LEMMA TellShape ==
  ASSUME Shape, NEW p \in Proc, NEW m \in Machine, Tell(p, m),
         UNCHANGED <<start, ran>>
  PROVE  Shape'
<1> USE DEF clocks, bounds
<1> DEFINE q == peer[p][m]
<1>1. TypeOK /\ q \in Proc
  BY DEF Shape, TypeOK
<1>2. dead[p] \in Proc /\ MachineOf(dead[p]) = MachineOf(p)
  BY DEF Shape, TakingInv, Tell
<1>3. PICK c \in Call :
           /\ CallIs(p, m, c)
           /\ c.at = peer[p][m] /\ c.waited /\ c.old = dead[p] /\ c.left = {}
           /\ c.stage \notin Served
  BY <1>1, <1>2, CallTells
<1>4. TypeOK'
  BY <1>1, <1>3 DEF TypeOK, CallIs, Tell
<1>5. RulersKept
  BY DEF RulersKept, Tell
<1>6. MachineInv'
  BY MachineKept DEF Tell
<1>7. CallInv' /\ OneWait'
  <2>1. m \in Others(p) /\ m # MachineOf(p) /\ MachineOf(q) = m
    BY ProcFacts DEF Shape, MachineInv, Tell
  <2>3. \A r \in Proc, n \in Machine : Waits(r, n) => step'[r] = "tellNet"
    BY DEF Shape, CallInv, Waits, Tell
  <2>4. \A n \in Machine : ~Waits(p, n)
    BY DEF Tell
  <2>5. step'[p] = "tellNet"
    BY DEF Tell
  <2> QED BY <1>2, <1>3, <1>5, <2>1, <2>3, <2>4, <2>5, RulersKeptShape,
             CallChangeShape
<1> QED BY <1>4, <1>5, <1>6, <1>7, RulersKeptShape DEF Shape

\* The step of the loop when a call has its end.
LEMMA GoesOnFacts ==
  ASSUME Shape, NEW p \in Proc, NEW m \in Machine, GoesOn(p, m), Waits(p, m)
  PROVE  /\ step[p] = "tellNet" /\ step'[p] \in {"tellNet", "done"}
         /\ step' \in [Proc -> {"slave", "locals", "net", "tellNet", "done"}]
         /\ todo' \in [Proc -> SUBSET Machine]
         /\ holds' \in [Proc -> Proc \cup {NoPid}]
         /\ \A q \in Proc : /\ q # p => step'[q] = step[q]
                            /\ todo'[q] \subseteq todo[q]
         /\ \A q \in Proc, n \in Machine :
              ~(q = p /\ n = m) /\ Waits(q, n) => step'[q] = "tellNet"
<1>1. \A q \in Proc, n \in Machine : Waits(q, n) => step[q] = "tellNet"
  BY DEF Shape, CallInv, Waits
<1>2. \A n \in Machine : Waits(p, n) => n = m
  BY DEF Shape, OneWait
<1>3. /\ step' = step \/ step' = [step EXCEPT ![p] = "done"]
      /\ holds' = holds \/ holds' = [holds EXCEPT ![p] = NoPid]
      /\ todo' = [todo EXCEPT ![p] = todo[p] \ {m}]
  BY DEF GoesOn
<1>4. TypeOK
  BY DEF Shape
<1>5. /\ todo' \in [Proc -> SUBSET Machine]
      /\ \A q \in Proc : todo'[q] \subseteq todo[q]
  BY <1>3, <1>4 DEF TypeOK
<1>6. step[p] = "tellNet"
  BY <1>1
<1>7. /\ step' \in [Proc -> {"slave", "locals", "net", "tellNet", "done"}]
      /\ step'[p] \in {"tellNet", "done"}
      /\ \A q \in Proc : q # p => step'[q] = step[q]
  BY <1>3, <1>4, <1>6 DEF TypeOK
<1>8. holds' \in [Proc -> Proc \cup {NoPid}]
  BY <1>3, <1>4 DEF TypeOK
<1>9. \A q \in Proc, n \in Machine :
        ~(q = p /\ n = m) /\ Waits(q, n) => step'[q] = "tellNet"
  BY <1>1, <1>2, <1>7
<1> QED BY <1>5, <1>6, <1>7, <1>8, <1>9

LEMMA GoesOnShape ==
  ASSUME Shape, NEW p \in Proc, NEW m \in Machine, GoesOn(p, m), Waits(p, m),
         NEW c, CallIs(p, m, c),
         c # NoCall =>
           rpc[p][m] \in Call /\ c = [rpc[p][m] EXCEPT !.waited = FALSE],
         times' \in [Proc -> Clocks], list' \in [Proc -> PidList],
         file' \in [Machine -> ClockFile \cup {NoFile}],
         author' \in [Machine -> Proc \cup {NoPid}],
         UNCHANGED <<start, ran>>
  PROVE  Shape'
<1>1. TypeOK'
  BY GoesOnFacts DEF Shape, TypeOK, GoesOn, CallIs
<1>2. RulersKept
  BY GoesOnFacts DEF RulersKept, GoesOn
<1>3. MachineInv'
  BY GoesOnFacts DEF Shape, MachineInv, GoesOn
<1>4. CallInv' /\ OneWait'
  <2>1. c # NoCall => /\ m # MachineOf(p) /\ MachineOf(c.at) = m
                      /\ MachineOf(c.old) = MachineOf(p)
                      /\ c.stage \in Served => Rules(c.at)
                      /\ c.left \subseteq Locals(c.at)
                      /\ ~c.waited
    <3>1. rpc[p][m] # NoCall
      BY DEF Waits
    <3>2. SUFFICES ASSUME c # NoCall, rpc[p][m] \in Call,
                          c = [rpc[p][m] EXCEPT !.waited = FALSE]
                   PROVE  /\ m # MachineOf(p) /\ MachineOf(c.at) = m
                          /\ MachineOf(c.old) = MachineOf(p)
                          /\ c.stage \in Served => Rules(c.at)
                          /\ c.left \subseteq Locals(c.at)
                          /\ ~c.waited
      OBVIOUS
    <3>3. /\ c.at = rpc[p][m].at /\ c.old = rpc[p][m].old
          /\ c.stage = rpc[p][m].stage /\ c.left = rpc[p][m].left
          /\ c.waited = FALSE
      BY <3>2 DEF Call
    <3> QED BY <3>1, <3>3 DEF Shape, CallInv
  <2>2. \A q \in Proc, n \in Machine :
          ~(q = p /\ n = m) /\ Waits(q, n) => step'[q] = "tellNet"
    BY GoesOnFacts
  <2>3. \A q \in Proc : Rules(q) => Rules(q)'
    BY <1>2, RulersKeptShape
  <2> QED BY <2>1, <2>2, <2>3, CallChangeShape
<1> QED BY <1>1, <1>2, <1>3, <1>4, RulersKeptShape DEF Shape
LEMMA AnsweredShape ==
  ASSUME Shape, NEW p \in Proc, NEW m \in Machine, Answered(p, m),
         UNCHANGED <<start, ran>>
  PROVE  Shape'
<1>1. Waits(p, m) /\ GoesOn(p, m) /\ TypeOK
  BY DEF Answered, Shape
<1>2. CallIs(p, m, NoCall)
  BY <1>1, CallGone
<1>3. /\ times' \in [Proc -> Clocks] /\ list' \in [Proc -> PidList]
      /\ file' \in [Machine -> ClockFile \cup {NoFile}]
      /\ author' \in [Machine -> Proc \cup {NoPid}]
  <2> DEFINE z == rpc[p][m].at
             k == rpc[p][m].clock
  <2>1. CASE rpc[p][m].stage = "answered"
    <3>1. z \in Proc /\ k \in Clock
      BY <1>1, CallFacts DEF Waits
    <3>2. /\ SlotIn(list[p], z) # 0 /\ SlotIn(Listed(list[p], z), p) # 0
          /\ SetClock(p, z, k)
      BY <2>1 DEF Answered
    <3> HIDE DEF z, k
    <3>3. PICK t \in Clocks :
            /\ Keep(p, t, Listed(Listed(list[p], z), p))
            /\ Listed(Listed(list[p], z), p) \in PidList
      BY <1>1, <3>1, <3>2, SetClockFacts
    <3> QED BY <1>1, <3>3, KeepFacts
  <2>2. CASE rpc[p][m].stage # "answered"
    BY <1>1, <2>2 DEF Answered, clocks, TypeOK
  <2> QED BY <2>1, <2>2
<1> QED BY <1>1, <1>2, <1>3, GoesOnShape

LEMMA FailedShape ==
  ASSUME Shape, NEW p \in Proc, NEW m \in Machine, Failed(p, m),
         UNCHANGED <<start, ran>>
  PROVE  Shape'
<1>1. Waits(p, m) /\ GoesOn(p, m) /\ TypeOK
  BY DEF Failed, Shape
<1>2. CallIs(p, m, NoCall)
  BY <1>1, CallGone
<1> QED BY <1>1, <1>2, GoesOnShape DEF Failed, clocks, TypeOK

LEMMA LateShape ==
  ASSUME Shape, NEW p \in Proc, NEW m \in Machine, Late(p, m),
         UNCHANGED <<start, ran>>
  PROVE  Shape'
<1>1. Waits(p, m) /\ GoesOn(p, m) /\ TypeOK
  BY DEF Late, Shape
<1> DEFINE c == [rpc[p][m] EXCEPT !.waited = FALSE]
<1>2. rpc[p][m] \in Call /\ CallIs(p, m, c)
  BY <1>1, CallLate
<1>3. times' = times /\ list' = list /\ file' = file /\ author' = author
  BY DEF Late, clocks
<1> HIDE DEF c
<1> QED BY <1>1, <1>2, <1>3, GoesOnShape DEF c, TypeOK

\* A handler goes on.
LEMMA HandlerShape ==
  ASSUME Shape, TypeOK', NEW p \in Proc, NEW m \in Machine, rpc[p][m] \in Call,
         NEW c \in Call, CallIs(p, m, c),
         c.at = rpc[p][m].at, c.old = rpc[p][m].old, c.waited = rpc[p][m].waited,
         c.left \subseteq Locals(c.at),
         c.stage \in Served => rpc[p][m].stage \in Served \/ Rules(c.at),
         UNCHANGED <<ran, up, master, step, dead, todo>>, MachineInv'
  PROVE  Shape'
<1>1. RulersKept
  BY DEF RulersKept
<1>2. \A q \in Proc, n \in Machine : Waits(q, n) => step'[q] = "tellNet"
  BY DEF Shape, CallInv, Waits
<1>3. rpc[p][m] # NoCall
  BY CallFacts DEF Shape
<1>4. /\ m # MachineOf(p) /\ MachineOf(c.at) = m
      /\ MachineOf(c.old) = MachineOf(p)
      /\ c.stage \in Served => Rules(c.at)
  BY <1>3 DEF Shape, CallInv
<1>5. c.waited => /\ step'[p] = "tellNet"
                  /\ \A n \in Machine : ~Waits(p, n) \/ n = m
  BY <1>2, <1>3 DEF Shape, OneWait, Waits
<1>6. CallInv' /\ OneWait'
  <2>1. \A q \in Proc : Rules(q) => Rules(q)'
    BY <1>1, RulersKeptShape
  <2>2. \A q \in Proc, n \in Machine :
          ~(q = p /\ n = m) /\ Waits(q, n) => step'[q] = "tellNet"
    BY <1>2
  <2> QED BY <1>4, <1>5, <2>1, <2>2, CallChangeShape
<1> QED BY <1>1, <1>6, RulersKeptShape DEF Shape

LEMMA BeginShape ==
  ASSUME Shape, NEW p \in Proc, NEW m \in Machine, Begin(p, m),
         UNCHANGED <<start, ran>>
  PROVE  Shape'
<1> USE DEF clocks, bounds
<1> DEFINE q == rpc[p][m].at
           old == rpc[p][m].old
<1>1. TypeOK
  BY DEF Shape
<1>2. PICK c \in Call :
           /\ rpc[p][m] \in Call /\ CallIs(p, m, c)
           /\ c.at = rpc[p][m].at /\ c.old = rpc[p][m].old
           /\ c.waited = rpc[p][m].waited /\ c.left = rpc[p][m].left
           /\ c.stage \in Served => Rules(c.at)
  BY <1>1, CallBegins
<1>3. q \in Proc /\ old \in Proc /\ Noted(q, p, old)
  BY <1>2 DEF Call, Begin
<1>4. c.left \subseteq Locals(c.at)
  BY <1>1, <1>2, CallFacts DEF Shape, CallInv
<1> HIDE DEF q, old
<1>5. TypeOK'
  BY <1>1, <1>2, <1>3, NotedFacts DEF TypeOK, CallIs, Begin
<1>6. MachineInv'
  <2>1. \A r \in Proc, n \in Machine :
          peer'[r][n] = IF r = q /\ n = MachineOf(p) THEN p ELSE peer[r][n]
    BY <1>1, <1>3, NotedFacts
  <2>2. master' = master /\ todo' = todo
    BY DEF Begin
  <2> QED BY <2>1, <2>2 DEF Shape, MachineInv
<1> QED BY <1>2, <1>4, <1>5, <1>6, HandlerShape DEF Begin

LEMMA StartForwardShape ==
  ASSUME Shape, NEW p \in Proc, NEW m \in Machine, StartForward(p, m),
         UNCHANGED <<start, ran>>
  PROVE  Shape'
<1> USE DEF clocks, bounds
<1> DEFINE c == [rpc[p][m] EXCEPT !.stage = "forwarding",
                                  !.left = Locals(rpc[p][m].at)]
<1>1. TypeOK
  BY DEF Shape
<1>2. rpc[p][m] \in Call /\ CallIs(p, m, c)
  BY <1>1, CallForwarding
<1>3. /\ c \in Call /\ c.at = rpc[p][m].at /\ c.old = rpc[p][m].old
      /\ c.waited = rpc[p][m].waited /\ c.left = Locals(c.at)
      /\ c.stage = "forwarding"
  <2>1. Locals(rpc[p][m].at) \subseteq Proc
    BY DEF Locals
  <2> QED BY <1>2, <2>1 DEF Call
<1> HIDE DEF c
<1>4. TypeOK'
  BY <1>1, <1>2, CallFacts DEF TypeOK, CallIs, StartForward
<1>5. MachineInv'
  BY MachineKept DEF StartForward
<1>6. rpc[p][m].stage \in Served
  BY DEF StartForward, Served
<1> QED BY <1>2, <1>3, <1>4, <1>5, <1>6, HandlerShape DEF StartForward

LEMMA ForwardShape ==
  ASSUME Shape, NEW p \in Proc, NEW m \in Machine, NEW r \in Proc,
         Forward(p, m, r), UNCHANGED <<start, ran>>
  PROVE  Shape'
<1> USE DEF clocks, bounds
<1> DEFINE c == [rpc[p][m] EXCEPT !.left = rpc[p][m].left \ {r}]
           old == rpc[p][m].old
<1>1. TypeOK
  BY DEF Shape
<1>2. rpc[p][m] \in Call /\ CallIs(p, m, c)
  BY <1>1, CallForwards
<1>3. rpc[p][m].left \subseteq Locals(rpc[p][m].at)
  BY <1>1, <1>2, CallFacts DEF Shape, CallInv
<1>4. /\ c \in Call /\ c.at = rpc[p][m].at /\ c.old = rpc[p][m].old
      /\ c.waited = rpc[p][m].waited /\ c.left \subseteq Locals(c.at)
      /\ c.stage = rpc[p][m].stage
  BY <1>2, <1>3 DEF Call
<1>5. old \in Proc
  BY <1>2 DEF Call
<1> HIDE DEF c
<1>6. TypeOK'
  <2>1. CASE r \in up
    <3>1. Noted(r, p, old)
      BY <2>1 DEF Forward
    <3> HIDE DEF old
    <3> QED BY <1>1, <1>2, <1>5, <3>1, NotedFacts DEF TypeOK, CallIs, Forward
  <2>2. CASE r \notin up
    BY <1>1, <1>2, <2>2 DEF TypeOK, CallIs, Forward
  <2> QED BY <2>1, <2>2
<1>7. MachineInv'
  <2>1. CASE r \in up
    <3>1. Noted(r, p, old)
      BY <2>1 DEF Forward
    <3> HIDE DEF old
    <3>2. \A q \in Proc, n \in Machine :
            peer'[q][n] = IF q = r /\ n = MachineOf(p) THEN p ELSE peer[q][n]
      BY <1>1, <1>5, <3>1, NotedFacts
    <3>3. master' = master /\ todo' = todo
      BY DEF Forward
    <3> QED BY <3>2, <3>3 DEF Shape, MachineInv
  <2>2. CASE r \notin up
    BY <2>2 DEF Shape, MachineInv, Forward
  <2> QED BY <2>1, <2>2
<1> QED BY <1>2, <1>4, <1>6, <1>7, HandlerShape DEF Forward

LEMMA AnswerShape ==
  ASSUME Shape, NEW p \in Proc, NEW m \in Machine, Answer(p, m),
         UNCHANGED <<start, ran>>
  PROVE  Shape'
<1> USE DEF bounds
<1>1. TypeOK
  BY DEF Shape
<1>2. rpc[p][m] \in Call
  BY <1>1, CallAnswers
<1>3. PICK v \in Clock :
        CallIs(p, m, [rpc[p][m] EXCEPT !.stage = "answered", !.clock = v])
  BY <1>1, CallAnswers
<1> DEFINE c == [rpc[p][m] EXCEPT !.stage = "answered", !.clock = v]
<1>4. /\ c \in Call /\ c.at = rpc[p][m].at /\ c.old = rpc[p][m].old
      /\ c.waited = rpc[p][m].waited /\ c.left = rpc[p][m].left
      /\ c.stage = "answered"
  BY <1>2 DEF Call
<1>5. CallIs(p, m, c)
  BY <1>3
<1> HIDE DEF c
<1>6. list' \in [Proc -> PidList]
  <2> DEFINE z == rpc[p][m].at
  <2>1. z \in Proc /\ list[z] \in PidList
    BY <1>1, <1>2 DEF Call, TypeOK
  <2>2. Listed(list[z], z) \in PidList
    BY <2>1, ListedFacts
  <2>3. list' = [list EXCEPT ![z] = Listed(list[z], z)]
    BY DEF Answer
  <2> QED BY <1>1, <2>2, <2>3 DEF TypeOK
<1>7. TypeOK'
  <2>1. holds' \in [Proc -> Proc \cup {NoPid}]
    BY <1>1 DEF TypeOK, Answer
  <2> QED BY <1>1, <1>5, <1>6, <2>1 DEF TypeOK, CallIs, Answer
<1>8. MachineInv'
  BY MachineKept DEF Answer
<1>9. rpc[p][m].stage \in Served /\ c.left \subseteq Locals(c.at)
  BY <1>1, <1>2, <1>4, CallFacts DEF Answer, Served, Shape, CallInv
<1> QED BY <1>2, <1>4, <1>5, <1>7, <1>8, <1>9, HandlerShape DEF Answer

LEMMA DroppedShape ==
  ASSUME Shape, NEW p \in Proc, NEW m \in Machine, Dropped(p, m),
         UNCHANGED <<start, ran>>
  PROVE  Shape'
<1> USE DEF clocks, bounds
<1>1. CallIs(p, m, NoCall)
  BY CallGone DEF Shape
<1>2. TypeOK'
  BY <1>1 DEF Shape, TypeOK, CallIs, Dropped
<1>3. RulersKept
  BY DEF RulersKept, Dropped
<1>4. MachineInv'
  BY MachineKept DEF Dropped
<1>5. CallInv' /\ OneWait'
  <2>1. \A q \in Proc, n \in Machine : Waits(q, n) => step'[q] = "tellNet"
    BY DEF Shape, CallInv, Waits, Dropped
  <2> QED BY <1>1, <1>3, <2>1, RulersKeptShape, CallChangeShape
<1> QED BY <1>2, <1>3, <1>4, <1>5, RulersKeptShape DEF Shape

LEMMA StartTakeOverShape ==
  ASSUME Shape, NEW p \in Proc, StartTakeOver(p), UNCHANGED <<start, ran>>
  PROVE  Shape'
<1> USE DEF bounds
<1> DEFINE m == MachineOf(p)
           l == Exchange(ReadList(m), master[p], p)
<1>1. /\ TypeOK /\ m \in Machine /\ master[p] \in Proc
      /\ MachineOf(master[p]) = m
  BY ProcFacts DEF Shape, TypeOK, MachineInv
<1>2. p \in up /\ step[p] = "slave" /\ (master[p] = p \/ master[p] \notin up)
      /\ \A q \in Locals(p) \cap up : step[q] = "slave"
  BY DEF StartTakeOver, Elected
<1>3. ReadTimes(m) \in Clocks /\ l \in PidList /\ Keep(p, ReadTimes(m), l)
  BY <1>1, FileFacts, ExchangeFacts DEF StartTakeOver
<1>4. /\ broken' \subseteq Machine
      /\ step' = [step EXCEPT ![p] = "locals"] /\ dead' = [dead EXCEPT ![p] = master[p]]
      /\ master' = [master EXCEPT ![p] = p]
      /\ UNCHANGED <<up, peer, todo, holds, rpc, bounds, last>>
  BY <1>1 DEF StartTakeOver, TypeOK
<1> HIDE DEF l, m
<1>5. TypeOK'
  BY <1>1, <1>3, <1>4, KeepFacts DEF TypeOK
<1>6. \A q \in Proc : /\ step'[q] = IF q = p THEN "locals" ELSE step[q]
                      /\ dead'[q] = IF q = p THEN master[p] ELSE dead[q]
                      /\ master'[q] = IF q = p THEN p ELSE master[q]
  BY <1>1, <1>4 DEF TypeOK
<1>7. \A q \in Proc : Rules(q) => Rules(q)'
  BY <1>4, <1>6 DEF Rules
<1>8. RanInv'
  BY <1>2, <1>4, <1>6 DEF Shape, RanInv
<1>9. MachineInv'
  BY <1>4, <1>6 DEF Shape, MachineInv
<1>10. \A q \in Proc : q # p /\ MachineOf(q) = MachineOf(p) => step[q] = "slave"
  BY <1>2, LocalFacts DEF Shape, TakingInv, Rules
<1>11. TakingInv' /\ OneTakes'
  BY <1>1, <1>2, <1>4, <1>6, <1>10 DEF Shape, TakingInv, OneTakes, Rules, m
<1>12. WaitingInv'
  <2> SUFFICES ASSUME NEW q \in Proc, Rules(q)', step'[q] = "slave"
               PROVE  /\ q = FirstMaster(MachineOf(q))
                      /\ Untouched(MachineOf(q))'
                      /\ \A r \in Proc : MachineOf(r) = MachineOf(q) =>
                           step'[r] = "slave" /\ master'[r] = q
    BY DEF WaitingInv
  <2>1. q # p /\ Rules(q) /\ step[q] = "slave"
    BY <1>4, <1>6 DEF Rules
  <2>2. MachineOf(q) # MachineOf(p)
    BY <1>2, <2>1 DEF Shape, WaitingInv, Rules
  <2> QED BY <1>6, <2>1, <2>2 DEF Shape, WaitingInv, Untouched
<1>13. CallInv' /\ OneWait'
  <2>1. \A q \in Proc, n \in Machine : Waits(q, n) => step[q] = "tellNet"
    BY DEF Shape, CallInv, Waits
  <2> QED BY <1>2, <1>4, <1>6, <1>7, <2>1, CallsKeptShape
<1> QED BY <1>5, <1>8, <1>9, <1>11, <1>12, <1>13 DEF Shape

LEMMA RestartShape ==
  ASSUME Shape, NEW p \in Proc, NEW q \in Proc, Restart(p, q),
         UNCHANGED <<start, ran>>
  PROVE  Shape'
<1> USE DEF takeOver, bounds
<1>1. /\ TypeOK /\ q \notin up /\ q # p /\ MachineOf(q) = MachineOf(p)
      /\ p \in up /\ step[p] # "slave" /\ MachineOf(q) \in Machine
  BY LocalFacts, ProcFacts DEF Shape, Restart, Masters
<1>2. \A m \in Machine : FirstMaster(m) \in Proc /\ MachineOf(FirstMaster(m)) = m
  BY FirstFacts
<1>3. ReadTimes(MachineOf(q)) \in Clocks /\ ReadList(MachineOf(q)) \in PidList
  BY <1>1, FileFacts
<1>4. TypeOK'
  BY <1>1, <1>2, <1>3 DEF TypeOK, Restart
<1>5. \A r \in Proc :
        /\ r \in up' <=> r \in up \/ r = q
        /\ master'[r] = IF r = q THEN p ELSE master[r]
        /\ \A m \in Machine :
             peer'[r][m] = IF r = q THEN FirstMaster(m) ELSE peer[r][m]
  BY <1>1 DEF TypeOK, Restart
<1>6. step' = step /\ dead' = dead /\ todo' = todo /\ rpc' = rpc
  BY DEF Restart
<1>7. RanInv'
  BY <1>1, <1>5, <1>6 DEF Shape, RanInv
<1>8. MachineInv'
  BY <1>1, <1>2, <1>5, <1>6 DEF Shape, MachineInv
<1>9. \A r \in Proc : Rules(r)' <=> Rules(r)
  BY <1>1, <1>5 DEF Rules
<1>10. TakingInv' /\ OneTakes'
  BY <1>6, <1>9 DEF Shape, TakingInv, OneTakes
<1>11. WaitingInv'
  <2> SUFFICES ASSUME NEW r \in Proc, Rules(r), step[r] = "slave"
               PROVE  /\ r = FirstMaster(MachineOf(r))
                      /\ Untouched(MachineOf(r))'
                      /\ \A s \in Proc : MachineOf(s) = MachineOf(r) =>
                           step[s] = "slave" /\ master'[s] = r
    BY <1>6, <1>9 DEF WaitingInv
  <2>1. MachineOf(r) # MachineOf(p)
    BY <1>1 DEF Shape, WaitingInv
  <2> QED BY <1>1, <1>5, <1>6, <2>1 DEF Shape, WaitingInv, Untouched
<1>12. CallInv' /\ OneWait'
  <2>1. \A r \in Proc, n \in Machine : Waits(r, n) => step[r] = "tellNet"
    BY DEF Shape, CallInv, Waits
  <2> QED BY <1>6, <1>9, <2>1, CallsKeptShape
<1> QED BY <1>4, <1>7, <1>8, <1>10, <1>11, <1>12 DEF Shape

\* What is left of a call when p has died.
LEMMA EndsFacts ==
  ASSUME TypeOK, NEW p \in Proc, Ends(p), NEW q \in Proc, NEW m \in Machine,
         rpc'[q][m] # NoCall
  PROVE  LET c == rpc[q][m]
             d == rpc'[q][m]
         IN /\ c # NoCall /\ c \in Call /\ d \in Call
            /\ d.at = c.at /\ d.old = c.old /\ d.left = c.left
            /\ d.waited => c.waited
            /\ d.waited /\ q = p => c.at = p
            /\ d.stage = c.stage \/ d.stage = "failed"
            /\ c.at = p => d.stage = "failed"
<1> DEFINE c == rpc[q][m]
<1>1. rpc'[q][m] =
        IF c = NoCall THEN NoCall
        ELSE IF c.at = p
        THEN IF c.waited THEN [c EXCEPT !.stage = "failed"] ELSE NoCall
        ELSE IF q = p THEN [c EXCEPT !.waited = FALSE]
        ELSE c
  BY DEF Ends
<1>2. c # NoCall
  BY <1>1
<1>3. c \in Call
  BY <1>2, CallFacts
<1> HIDE DEF c
<1>4. CASE c.at = p
  <2>1. rpc'[q][m] = [c EXCEPT !.stage = "failed"]
    BY <1>1, <1>2, <1>4
  <2> QED BY <1>2, <1>3, <1>4, <2>1 DEF Call, c
<1>5. CASE c.at # p /\ q = p
  <2>1. rpc'[q][m] = [c EXCEPT !.waited = FALSE]
    BY <1>1, <1>2, <1>5
  <2> QED BY <1>2, <1>3, <1>5, <2>1 DEF Call, c
<1>6. CASE c.at # p /\ q # p
  <2>1. rpc'[q][m] = c
    BY <1>1, <1>2, <1>6
  <2> QED BY <1>2, <1>3, <1>6, <2>1 DEF c
<1> QED BY <1>4, <1>5, <1>6

LEMMA CrashShape ==
  ASSUME Shape, NEW p \in Proc, Crash(p), UNCHANGED <<start, ran>>
  PROVE  Shape'
<1> USE DEF clocks
<1>1. TypeOK /\ Ends(p)
  BY DEF Shape, Crash
<1>2. TypeOK'
  <2>1. rpc' \in [Proc -> [Machine -> Call \cup {NoCall}]]
    <3>1. \A q \in Proc, m \in Machine : rpc'[q][m] \in Call \cup {NoCall}
      BY <1>1, EndsFacts
    <3>2. rpc' = [q \in Proc |-> [m \in Machine |-> rpc'[q][m]]]
      BY <1>1 DEF Ends
    <3> QED BY <3>1, <3>2
  <2>2. crashes' \in 0 .. MaxCrashes
    BY <1>1, BoundsAssumption DEF TypeOK, Crash
  <2>3. /\ up' \subseteq Proc
        /\ step' \in [Proc -> {"slave", "locals", "net", "tellNet", "done"}]
        /\ todo' \in [Proc -> SUBSET Machine]
        /\ holds' \in [Proc -> Proc \cup {NoPid}]
        /\ dead' = dead
    BY <1>1 DEF TypeOK, Ends
  <2> QED BY <1>1, <2>1, <2>2, <2>3 DEF TypeOK, Crash
<1>3. \A q \in Proc :
        /\ q \in up' <=> q \in up /\ q # p
        /\ step'[q] = IF q = p THEN "slave" ELSE step[q]
        /\ todo'[q] \subseteq todo[q]
  BY <1>1 DEF TypeOK, Ends
<1>4. master' = master /\ dead' = dead /\ peer' = peer
  BY DEF Crash, Ends
<1>5. \A q \in Proc : Rules(q)' <=> Rules(q) /\ q # p
  BY <1>3, <1>4 DEF Rules
<1>6. RanInv'
  BY <1>3, <1>4 DEF Shape, RanInv
<1>7. MachineInv'
  BY <1>3, <1>4 DEF Shape, MachineInv
<1>8. TakingInv' /\ OneTakes'
  BY <1>3, <1>4, <1>5 DEF Shape, TakingInv, OneTakes
<1>9. WaitingInv'
  <2> SUFFICES ASSUME NEW q \in Proc, Rules(q), q # p, step[q] = "slave"
               PROVE  /\ q = FirstMaster(MachineOf(q))
                      /\ Untouched(MachineOf(q))'
                      /\ \A r \in Proc : MachineOf(r) = MachineOf(q) =>
                           step'[r] = "slave" /\ master'[r] = q
    BY <1>3, <1>5 DEF WaitingInv
  <2> QED BY <1>3, <1>4 DEF Shape, WaitingInv, Untouched
<1>10. CallInv'
  <2> SUFFICES ASSUME NEW q \in Proc, NEW m \in Machine, rpc'[q][m] # NoCall
               PROVE  LET d == rpc'[q][m] IN
                      /\ m # MachineOf(q) /\ MachineOf(d.at) = m
                      /\ MachineOf(d.old) = MachineOf(q)
                      /\ d.stage \in Served => d.at \in up' /\ master'[d.at] = d.at
                      /\ d.left \subseteq Locals(d.at)
                      /\ d.waited => step'[q] = "tellNet"
    BY DEF CallInv, Rules
  <2> DEFINE c == rpc[q][m]
             d == rpc'[q][m]
  <2>1. /\ c # NoCall /\ c \in Call /\ d \in Call
        /\ d.at = c.at /\ d.old = c.old /\ d.left = c.left
        /\ d.waited => c.waited
        /\ d.waited /\ q = p => c.at = p
        /\ d.stage = c.stage \/ d.stage = "failed"
        /\ c.at = p => d.stage = "failed"
    BY <1>1, EndsFacts
  <2>2. /\ m # MachineOf(q) /\ MachineOf(c.at) = m
        /\ MachineOf(c.old) = MachineOf(q)
        /\ c.stage \in Served => Rules(c.at)
        /\ c.left \subseteq Locals(c.at)
        /\ c.waited => step[q] = "tellNet"
    BY <2>1 DEF Shape, CallInv
  <2>3. c.at \in Proc
    BY <2>1 DEF Call
  <2> HIDE DEF c, d
  <2>4. d.stage \in Served => d.at \in up' /\ master'[d.at] = d.at
    BY <1>5, <2>1, <2>2, <2>3 DEF Served, Rules
  <2>5. d.waited => step'[q] = "tellNet"
    BY <1>3, <2>1, <2>2
  <2> QED BY <2>1, <2>2, <2>4, <2>5 DEF d
<1>11. OneWait'
  <2>1. \A q \in Proc, m \in Machine : Waits(q, m)' => Waits(q, m)
    BY <1>1, EndsFacts DEF Waits
  <2> QED BY <2>1 DEF Shape, OneWait
<1> QED BY <1>2, <1>6, <1>7, <1>8, <1>9, <1>10, <1>11 DEF Shape
LEMMA StutterShape ==
  ASSUME Shape, UNCHANGED vars
  PROVE  Shape'
<1> USE DEF vars, clocks, takeOver, bounds
<1>1. TypeOK'
  BY DEF Shape, TypeOK
<1> QED BY <1>1, QuietShape

LEMMA InitShape == Init => Shape
<1> SUFFICES ASSUME Init PROVE Shape
  OBVIOUS
<1>1. \A p \in Proc : MachineOf(p) \in Machine
  BY ProcFacts
<1>2. \A m \in Machine : FirstMaster(m) \in Proc /\ MachineOf(FirstMaster(m)) = m
  BY FirstFacts
<1>3. NoClocks \in Clocks /\ NoList \in PidList
  BY DEF NoClocks, NoList, Clocks, PidList, Clock, Zero
<1>4. TypeOK
  BY <1>1, <1>2, <1>3, BoundsAssumption DEF Init, TypeOK
<1>5. \A p \in Proc : ~Rules(p) /\ step[p] = "slave"
  BY DEF Init, Rules
<1>6. RanInv /\ MachineInv /\ TakingInv /\ OneTakes /\ WaitingInv
  BY <1>1, <1>2, <1>5 DEF Init, RanInv, MachineInv, TakingInv, OneTakes, WaitingInv
<1>7. \A p \in Proc, m \in Machine : rpc[p][m] = NoCall
  BY DEF Init
<1>8. CallInv /\ OneWait
  BY <1>7 DEF CallInv, OneWait, Waits
<1> QED BY <1>4, <1>6, <1>8 DEF Shape

LEMMA NextShape == Shape /\ [Next]_vars => Shape'
<1> SUFFICES ASSUME Shape, [Next]_vars PROVE Shape'
  OBVIOUS
<1>1. CASE UNCHANGED vars
  BY <1>1, StutterShape
<1>2. CASE Next
  <2>1. ASSUME NEW m \in Machine, Run(m) PROVE Shape'
    BY <1>2, <2>1, RunShape DEF Next
  <2>2. CASE Step /\ UNCHANGED <<start, ran>>
    <3>1. ASSUME NEW p \in Proc, Loop(p) PROVE Shape'
      BY <2>2, <3>1, TellLocalsShape, StartNetShape, TellShape, AnsweredShape,
         FailedShape DEF Loop
    <3>2. ASSUME NEW p \in Proc, NEW m \in Machine, Handler(p, m) \/ Late(p, m)
          PROVE  Shape'
      BY <2>2, <3>2, BeginShape, StartForwardShape, AnswerShape, DroppedShape,
         ForwardShape, LateShape DEF Handler
    <3>3. ASSUME NEW p \in Proc, StartTakeOver(p) \/ Request(p) \/ Crash(p)
          PROVE  Shape'
      BY <2>2, <3>3, StartTakeOverShape, RequestShape, CrashShape
    <3>4. ASSUME NEW p \in Proc, NEW q \in Proc, Compare(p, q) \/ Restart(p, q)
          PROVE  Shape'
      BY <2>2, <3>4, CompareShape, RestartShape
    <3> QED BY <2>2, <3>1, <3>2, <3>3, <3>4 DEF Step, Work
  <2> QED BY <1>2, <2>1, <2>2 DEF Next
<1> QED BY <1>1, <1>2

\* Every variable keeps its type, whatever dies (vector_clock.cc, with
\* takeOverMaster and NotifyNewNetMaster): no list, vector or saved file is ever
\* written at a place that it does not have.
THEOREM TypeCorrect == Spec => []TypeOK
<1>1. Shape => TypeOK
  BY DEF Shape
<1> QED BY <1>1, InitShape, NextShape, PTL DEF Spec
-----------------------------------------------------------------------------
(***************************************************************************)
(* Who has the lock of a process                                           *)
(***************************************************************************)

\* The calls of which a handler tells the local processes.
Telling(q, n) == rpc[q][n].stage = "forwarding"

\* No handler has begun to tell the local processes.
NoneTells ==
  \A q \in Proc, n \in Machine :
    Telling(q, n)' => Telling(q, n) /\ rpc'[q][n].at = rpc[q][n].at

LEMMA HoldKept ==
  ASSUME HoldInv, NoneTells, UNCHANGED holds,
         \A q \in Proc : step'[q] = "tellNet" => step[q] = "tellNet"
  PROVE  HoldInv'
BY DEF HoldInv, NoneTells, Telling

LEMMA TellsKept ==
  ASSUME NEW p \in Proc, NEW m \in Machine, NEW c, CallIs(p, m, c),
         \/ c = NoCall
         \/ c.stage # "forwarding"
         \/ c.stage = rpc[p][m].stage /\ c.at = rpc[p][m].at
  PROVE  NoneTells
BY DEF CallIs, NoneTells, Telling, NoCall

\* Where a handler tells the local processes, no loop over the machines runs,
\* and no other handler tells anybody.
LEMMA TellsAlone ==
  ASSUME Shape, HoldInv, NEW p \in Proc, NEW m \in Machine, Telling(p, m)
  PROVE  /\ rpc[p][m] \in Call /\ rpc[p][m].at \in Proc
         /\ holds[rpc[p][m].at] = p /\ p # NoPid /\ p # rpc[p][m].at
         /\ step[rpc[p][m].at] # "tellNet"
         /\ \A q \in Proc, n \in Machine :
              Telling(q, n) /\ rpc[q][n].at = rpc[p][m].at => q = p /\ n = m
<1>1. TypeOK
  BY DEF Shape
<1>2. ASSUME NEW q \in Proc, NEW n \in Machine, Telling(q, n)
      PROVE  /\ rpc[q][n] \in Call /\ rpc[q][n].at \in Proc
             /\ MachineOf(rpc[q][n].at) = n /\ n # MachineOf(q)
             /\ holds[rpc[q][n].at] = q /\ q # NoPid
  BY <1>1, <1>2, CallFacts, ProcFacts DEF Telling, Shape, CallInv, HoldInv
<1>3. p # rpc[p][m].at
  BY <1>2
<1>4. step[rpc[p][m].at] # "tellNet"
  BY <1>2, <1>3 DEF HoldInv
<1> QED BY <1>2, <1>3, <1>4

LEMMA StartNetHold ==
  ASSUME Shape, HoldInv, NEW p \in Proc, StartNet(p) PROVE HoldInv'
<1>1. /\ holds[p] = NoPid /\ holds' = [holds EXCEPT ![p] = p]
      /\ step' = [step EXCEPT ![p] = "tellNet"] /\ rpc' = rpc
  BY DEF StartNet
<1>2. \A q \in Proc : holds'[q] = IF q = p THEN p ELSE holds[q]
  BY <1>1 DEF Shape, TypeOK
<1>3. \A q \in Proc : step'[q] = "tellNet" => holds'[q] = q
  BY <1>1, <1>2 DEF Shape, TypeOK, HoldInv
<1>4. ASSUME NEW q \in Proc, NEW n \in Machine, Telling(q, n)
      PROVE  holds'[rpc[q][n].at] = q
  <2>1. rpc[q][n].at \in Proc /\ holds[rpc[q][n].at] = q /\ q # NoPid
    BY <1>4, TellsAlone
  <2> QED BY <1>1, <1>2, <2>1
<1> QED BY <1>1, <1>3, <1>4 DEF HoldInv, Telling

LEMMA GoesOnHold ==
  ASSUME Shape, HoldInv, NEW p \in Proc, NEW m \in Machine, Waits(p, m),
         GoesOn(p, m), NoneTells
  PROVE  HoldInv'
<1>1. step[p] = "tellNet" /\ holds[p] = p
  BY DEF Shape, CallInv, Waits, HoldInv
<1>2. \/ UNCHANGED <<step, holds>>
      \/ step' = [step EXCEPT ![p] = "done"] /\ holds' = [holds EXCEPT ![p] = NoPid]
  BY DEF GoesOn
<1>3. CASE UNCHANGED <<step, holds>>
  BY <1>3, HoldKept
<1>4. CASE ~UNCHANGED <<step, holds>>
  <2>1. \A q \in Proc : /\ holds'[q] = IF q = p THEN NoPid ELSE holds[q]
                        /\ step'[q] = IF q = p THEN "done" ELSE step[q]
    BY <1>2, <1>4 DEF Shape, TypeOK
  <2>2. \A q \in Proc : step'[q] = "tellNet" => holds'[q] = q
    BY <2>1 DEF HoldInv
  <2>3. ASSUME NEW q \in Proc, NEW n \in Machine, Telling(q, n)'
        PROVE  holds'[rpc'[q][n].at] = q
    <3>1. Telling(q, n) /\ rpc'[q][n].at = rpc[q][n].at
      BY <2>3 DEF NoneTells
    <3>2. rpc[q][n].at \in Proc /\ holds[rpc[q][n].at] = q /\ rpc[q][n].at # p
      BY <1>1, <3>1, TellsAlone
    <3> QED BY <2>1, <3>1, <3>2
  <2> QED BY <2>2, <2>3 DEF HoldInv, Telling
<1> QED BY <1>3, <1>4

LEMMA StartForwardHold ==
  ASSUME Shape, HoldInv, NEW p \in Proc, NEW m \in Machine, StartForward(p, m)
  PROVE  HoldInv'
<1> DEFINE z == rpc[p][m].at
           c == [rpc[p][m] EXCEPT !.stage = "forwarding", !.left = Locals(z)]
<1>1. rpc[p][m] \in Call /\ CallIs(p, m, c)
  BY CallForwarding DEF Shape
<1>2. c.at = z /\ z \in Proc
  BY <1>1 DEF Call
<1>3. /\ holds[z] = NoPid /\ holds' = [holds EXCEPT ![z] = p] /\ step' = step
  BY DEF StartForward
<1> HIDE DEF c, z
<1>4. \A q \in Proc : holds'[q] = IF q = z THEN p ELSE holds[q]
  BY <1>2, <1>3 DEF Shape, TypeOK
<1>5. \A q \in Proc : step'[q] = "tellNet" => holds'[q] = q
  BY <1>3, <1>4, ProcFacts DEF HoldInv
<1>6. ASSUME NEW q \in Proc, NEW n \in Machine, Telling(q, n)'
      PROVE  holds'[rpc'[q][n].at] = q
  <2>1. CASE q = p /\ n = m
    BY <1>1, <1>2, <1>4, <2>1 DEF CallIs
  <2>2. CASE ~(q = p /\ n = m)
    <3>1. Telling(q, n) /\ rpc'[q][n] = rpc[q][n]
      BY <1>1, <1>6, <2>2 DEF CallIs, Telling
    <3>2. rpc[q][n].at \in Proc /\ holds[rpc[q][n].at] = q /\ q # NoPid
      BY <3>1, TellsAlone
    <3> QED BY <1>3, <1>4, <3>1, <3>2
  <2> QED BY <2>1, <2>2
<1> QED BY <1>5, <1>6 DEF HoldInv, Telling

LEMMA AnswerHold ==
  ASSUME Shape, HoldInv, NEW p \in Proc, NEW m \in Machine, Answer(p, m)
  PROVE  HoldInv'
<1> DEFINE z == rpc[p][m].at
<1>1. Telling(p, m) /\ holds' = [holds EXCEPT ![z] = NoPid] /\ step' = step
  BY DEF Answer, Telling
<1>2. /\ rpc[p][m] \in Call /\ z \in Proc /\ step[z] # "tellNet"
      /\ \A q \in Proc, n \in Machine :
           Telling(q, n) /\ rpc[q][n].at = z => q = p /\ n = m
  BY <1>1, TellsAlone
<1>3. PICK v \in Clock :
        CallIs(p, m, [rpc[p][m] EXCEPT !.stage = "answered", !.clock = v])
  BY CallAnswers DEF Shape
<1> DEFINE c == [rpc[p][m] EXCEPT !.stage = "answered", !.clock = v]
<1>4. c.stage = "answered" /\ CallIs(p, m, c)
  BY <1>2, <1>3 DEF Call
<1> HIDE DEF c, z
<1>5. \A q \in Proc : holds'[q] = IF q = z THEN NoPid ELSE holds[q]
  BY <1>1, <1>2 DEF Shape, TypeOK
<1>6. \A q \in Proc : step'[q] = "tellNet" => holds'[q] = q
  BY <1>1, <1>2, <1>5 DEF HoldInv
<1>7. ASSUME NEW q \in Proc, NEW n \in Machine, Telling(q, n)'
      PROVE  holds'[rpc'[q][n].at] = q
  <2>1. ~(q = p /\ n = m)
    BY <1>4, <1>7 DEF CallIs, Telling
  <2>2. Telling(q, n) /\ rpc'[q][n] = rpc[q][n]
    BY <1>4, <1>7, <2>1 DEF CallIs, Telling
  <2>3. rpc[q][n].at \in Proc /\ holds[rpc[q][n].at] = q
    BY <2>2, TellsAlone
  <2> QED BY <1>2, <1>5, <2>1, <2>2, <2>3
<1> QED BY <1>6, <1>7 DEF HoldInv, Telling

LEMMA CrashHold ==
  ASSUME Shape, HoldInv, NEW p \in Proc, Crash(p) PROVE HoldInv'
<1>1. TypeOK /\ Ends(p)
  BY DEF Shape, Crash
<1>2. \A q \in Proc : /\ holds'[q] = IF q = p THEN NoPid ELSE holds[q]
                      /\ step'[q] = IF q = p THEN "slave" ELSE step[q]
  BY <1>1 DEF TypeOK, Ends
<1>3. \A q \in Proc : step'[q] = "tellNet" => holds'[q] = q
  BY <1>2 DEF HoldInv
<1>4. ASSUME NEW q \in Proc, NEW n \in Machine, Telling(q, n)'
      PROVE  holds'[rpc'[q][n].at] = q
  <2>1. rpc'[q][n] # NoCall
    BY <1>4 DEF Telling, NoCall
  <2>2. /\ Telling(q, n) /\ rpc'[q][n].at = rpc[q][n].at
        /\ rpc[q][n].at # p
    BY <1>1, <1>4, <2>1, EndsFacts DEF Telling
  <2>3. rpc[q][n].at \in Proc /\ holds[rpc[q][n].at] = q
    BY <2>2, TellsAlone
  <2> QED BY <1>2, <2>2, <2>3
<1> QED BY <1>3, <1>4 DEF HoldInv, Telling

\* The steps that take and give back no lock.
LEMMA LoopHold ==
  ASSUME Shape, HoldInv, NEW p \in Proc, Loop(p) PROVE HoldInv'
<1>1. ASSUME TellLocals(p) PROVE HoldInv'
  <2>1. /\ UNCHANGED <<holds, rpc>>
        /\ \A q \in Proc : step'[q] = "tellNet" => step[q] = "tellNet"
    BY <1>1 DEF TellLocals, Shape, TypeOK
  <2>2. NoneTells
    BY <2>1 DEF NoneTells, Telling
  <2> QED BY <2>1, <2>2, HoldKept
<1>2. ASSUME NEW m \in Machine, Tell(p, m) PROVE HoldInv'
  <2>1. dead[p] \in Proc /\ TypeOK
    BY <1>2 DEF Shape, TakingInv, Tell
  <2>2. PICK c \in Call : CallIs(p, m, c) /\ c.stage \notin Served
    BY <1>2, <2>1, CallTells
  <2>3. NoneTells
    BY <2>2, TellsKept DEF Served
  <2>4. UNCHANGED <<holds, step>>
    BY <1>2 DEF Tell
  <2> QED BY <2>3, <2>4, HoldKept
<1>3. ASSUME NEW m \in Machine, Answered(p, m) \/ Failed(p, m) PROVE HoldInv'
  <2>1. NoneTells
    BY <1>3, CallGone, TellsKept DEF Shape
  <2> QED BY <1>3, <2>1, GoesOnHold DEF Answered, Failed
<1> QED BY <1>1, <1>2, <1>3, StartNetHold DEF Loop

LEMMA HandlerHold ==
  ASSUME Shape, HoldInv, NEW p \in Proc, NEW m \in Machine,
         Handler(p, m) \/ Late(p, m)
  PROVE  HoldInv'
<1>1. TypeOK
  BY DEF Shape
<1>2. ASSUME Begin(p, m) PROVE HoldInv'
  <2>1. PICK c \in Call : CallIs(p, m, c) /\ c.stage # "forwarding"
    BY <1>1, <1>2, CallBegins
  <2>2. NoneTells
    BY <2>1, TellsKept
  <2>3. UNCHANGED <<holds, step>>
    BY <1>2 DEF Begin
  <2> QED BY <2>2, <2>3, HoldKept
<1>3. ASSUME NEW r \in Proc, Forward(p, m, r) PROVE HoldInv'
  <2> DEFINE c == [rpc[p][m] EXCEPT !.left = rpc[p][m].left \ {r}]
  <2>1. /\ CallIs(p, m, c) /\ c.stage = rpc[p][m].stage
        /\ c.at = rpc[p][m].at
    BY <1>1, <1>3, CallForwards DEF Call
  <2> HIDE DEF c
  <2>2. NoneTells
    BY <2>1, TellsKept
  <2>3. UNCHANGED <<holds, step>>
    BY <1>3 DEF Forward
  <2> QED BY <2>2, <2>3, HoldKept
<1>4. ASSUME Dropped(p, m) PROVE HoldInv'
  <2>1. NoneTells
    BY <1>1, <1>4, CallGone, TellsKept
  <2>2. UNCHANGED <<holds, step>>
    BY <1>4 DEF Dropped
  <2> QED BY <2>1, <2>2, HoldKept
<1>5. ASSUME Late(p, m) PROVE HoldInv'
  <2> DEFINE c == [rpc[p][m] EXCEPT !.waited = FALSE]
  <2>1. /\ CallIs(p, m, c) /\ c.stage = rpc[p][m].stage
        /\ c.at = rpc[p][m].at
    BY <1>1, <1>5, CallLate DEF Call
  <2> HIDE DEF c
  <2>2. NoneTells
    BY <2>1, TellsKept
  <2> QED BY <1>5, <2>2, GoesOnHold DEF Late
<1> QED BY <1>2, <1>3, <1>4, <1>5, StartForwardHold, AnswerHold DEF Handler

LEMMA NextHold == Shape /\ HoldInv /\ [Next]_vars => HoldInv'
<1> SUFFICES ASSUME Shape, HoldInv, [Next]_vars PROVE HoldInv'
  OBVIOUS
<1>1. ASSUME UNCHANGED <<holds, rpc>>,
             \A q \in Proc : step'[q] = "tellNet" => step[q] = "tellNet"
      PROVE  HoldInv'
  <2>1. NoneTells
    BY <1>1 DEF NoneTells, Telling
  <2> QED BY <1>1, <2>1, HoldKept
<1>2. CASE UNCHANGED vars
  BY <1>1, <1>2 DEF vars, takeOver
<1>3. ASSUME NEW m \in Machine, Run(m) PROVE HoldInv'
  BY <1>1, <1>3 DEF Run, takeOver
<1>4. ASSUME NEW p \in Proc, StartTakeOver(p) PROVE HoldInv'
  BY <1>1, <1>4 DEF StartTakeOver, Shape, TypeOK
<1>5. ASSUME NEW p \in Proc, Request(p) PROVE HoldInv'
  BY <1>1, <1>5 DEF Request, takeOver
<1>6. ASSUME NEW p \in Proc, NEW q \in Proc, Compare(p, q) \/ Restart(p, q)
      PROVE  HoldInv'
  BY <1>1, <1>6 DEF Compare, Restart, takeOver
<1> QED BY <1>2, <1>3, <1>4, <1>5, <1>6, CrashHold, LoopHold, HandlerHold
        DEF Next, Step, Work

-----------------------------------------------------------------------------
(***************************************************************************)
(* The places in a list                                                    *)
(***************************************************************************)

LEMMA Slots == \A i \in Slot : i = 1 \/ i = 2 \/ i = 3
BY DEF Slot

LEMMA ListType ==
  ASSUME NEW l \in PidList, NEW i \in Slot
  PROVE  l[i] \in Proc \cup {NoPid}
BY DEF PidList

\* All ids of the machine of z that are in l are z.
NoOther(l, z) ==
  \A i \in Slot : l[i] # NoPid /\ MachineOf(l[i]) = MachineOf(z) => l[i] = z

LEMMA ListedPlaces ==
  ASSUME NEW l \in PidList, NEW z \in Proc, Packed(l), OneEach(l), NoOther(l, z)
  PROVE  /\ Packed(Listed(l, z)) /\ OneEach(Listed(l, z))
         /\ NoOther(Listed(l, z), z)
         /\ \A i \in Slot : Listed(l, z)[i] \in {l[i], z}
<1> DEFINE s == SlotIn(l, z)
           n == Listed(l, z)
<1>1. /\ s \in 0 .. 3
      /\ s # 0 => /\ s \in Slot
                  /\ l[s] \in {z, NoPid}
                  /\ \A j \in Slot : j < s => l[j] \notin {z, NoPid}
      /\ s = 0 => \A i \in Slot : l[i] \notin {z, NoPid}
  BY SlotInFacts
<1>2. \A i \in Slot : n[i] = IF i = s THEN z ELSE l[i]
  BY ListedFacts
<1>3. z # NoPid
  BY ProcFacts
<1> HIDE DEF s, n
<1>4. Packed(n)
  BY <1>1, <1>2, <1>3 DEF Packed, Slot
<1>5. NoOther(n, z)
  BY <1>2 DEF NoOther
<1>6. OneEach(n)
  <2> SUFFICES ASSUME NEW i \in Slot, NEW j \in Slot, i # j,
                      n[i] # NoPid, n[j] # NoPid, MachineOf(n[i]) = MachineOf(n[j])
               PROVE  FALSE
    BY DEF OneEach
  <2>1. i = s \/ j = s
    BY <1>2 DEF OneEach
  <2>2. PICK k \in Slot : k # s /\ l[k] # NoPid /\ MachineOf(l[k]) = MachineOf(z)
    BY <1>2, <2>1
  <2>3. l[k] = z /\ s \in Slot
    BY <1>1, <2>1, <2>2 DEF NoOther, Slot
  <2>4. l[s] = NoPid
    BY <1>1, <1>3, <2>2, <2>3 DEF OneEach, Slot
  <2>5. s < k
    BY <1>1, <2>2, <2>3 DEF Slot
  <2> QED BY <2>2, <2>3, <2>4, <2>5 DEF Packed
<1> QED BY <1>2, <1>4, <1>5, <1>6 DEF n

\* A process always finds a place for itself, and one of the first two.
LEMMA ListedSelf ==
  ASSUME NEW l \in PidList, NEW z \in Proc, NEW m, MachineOf(z) = m,
         Packed(l), OneEach(l), InFront(l, m), NoOther(l, z)
  PROVE  /\ SlotIn(l, z) \in 1 .. 2
         /\ Listed(l, z)[SlotIn(l, z)] = z
         /\ InFront(Listed(l, z), m)
         /\ \A i \in Slot : l[i] = z => i = SlotIn(l, z)
<1> DEFINE s == SlotIn(l, z)
<1>1. /\ s \in 0 .. 3
      /\ s # 0 => /\ s \in Slot
                  /\ l[s] \in {z, NoPid}
                  /\ \A j \in Slot : j < s => l[j] \notin {z, NoPid}
      /\ s = 0 => \A i \in Slot : l[i] \notin {z, NoPid}
  BY SlotInFacts
<1>2. \A i \in Slot : Listed(l, z)[i] = IF i = s THEN z ELSE l[i]
  BY ListedFacts
<1>3. z # NoPid
  BY ProcFacts
<1> HIDE DEF s
<1>4. CASE \E i \in 1 .. 2 : l[i] # NoPid /\ MachineOf(l[i]) = m
  <2>1. PICK i \in 1 .. 2 : l[i] # NoPid /\ MachineOf(l[i]) = m
    BY <1>4
  <2>2. i \in Slot /\ l[i] = z
    BY <2>1 DEF Slot, NoOther
  <2>3. s = i
    <3>1. s # 0 /\ ~(i < s)
      BY <1>1, <2>2 DEF Slot
    <3>2. ~(s < i)
      BY <1>1, <1>3, <2>1, <2>2, <3>1 DEF Packed, OneEach
    <3> QED BY <1>1, <2>1, <3>1, <3>2
  <2>4. \A j \in Slot : l[j] = z => j = i
    BY <1>3, <2>2 DEF OneEach
  <2> QED BY <1>2, <1>3, <2>1, <2>2, <2>3, <2>4 DEF InFront, s
<1>5. CASE ~\E i \in 1 .. 2 : l[i] # NoPid /\ MachineOf(l[i]) = m
  <2>1. \A i \in Slot : l[i] # NoPid => MachineOf(l[i]) = m
    BY <1>5 DEF InFront
  <2>2. 1 \in Slot /\ 2 \in Slot /\ 1 \in 1 .. 2 /\ l[1] = NoPid
    BY <1>5, <2>1 DEF Slot
  <2>3. \A i \in Slot : l[i] = NoPid
    BY <2>2 DEF Packed, Slot
  <2>4. s = 1
    BY <1>1, <2>2, <2>3 DEF Slot
  <2> QED BY <1>2, <1>3, <2>2, <2>3, <2>4 DEF InFront, s
<1> QED BY <1>4, <1>5

\* A peer that has answered and the process itself have places.
LEMMA ListedBoth ==
  ASSUME NEW l \in PidList, NEW z \in Proc, NEW p \in Proc, NEW m,
         MachineOf(p) = m, MachineOf(z) # m,
         Packed(l), OneEach(l), InFront(l, m), NoOther(l, p), NoOther(l, z)
  PROVE  LET n == Listed(l, z) IN
         /\ n \in PidList /\ Listed(n, p) \in PidList
         /\ Packed(Listed(n, p)) /\ OneEach(Listed(n, p))
         /\ InFront(Listed(n, p), m) /\ NoOther(Listed(n, p), p)
         /\ SlotIn(n, p) \in 1 .. 2 /\ SlotIn(n, p) # SlotIn(l, z)
         /\ Listed(n, p)[SlotIn(n, p)] = p
         /\ \A i \in Slot : Listed(n, p)[i] \in {l[i], z, p}
         /\ \A i \in Slot : l[i] = p => i = SlotIn(n, p)
<1> DEFINE n == Listed(l, z)
           s == SlotIn(l, z)
           u == SlotIn(n, p)
<1>1. /\ n \in PidList
      /\ \A i \in Slot : n[i] = IF i = s THEN z ELSE l[i]
  BY ListedFacts
<1>2. Packed(n) /\ OneEach(n)
  BY ListedPlaces
<1>3. NoOther(n, p)
  BY <1>1 DEF NoOther
<1>4. p # NoPid /\ z # NoPid
  BY ProcFacts
<1>5. /\ s # 0 => l[s] \in {z, NoPid} /\ s \in Slot
      /\ s # 0 => \A j \in Slot : j < s => l[j] \notin {z, NoPid}
      /\ s \in 0 .. 3
      /\ s = 0 => \A i \in Slot : l[i] \notin {z, NoPid}
  BY SlotInFacts
<1> HIDE DEF n, s
<1>6. CASE \E i \in 1 .. 2 : l[i] # NoPid /\ MachineOf(l[i]) = m
  <2>1. PICK i \in 1 .. 2 : l[i] # NoPid /\ MachineOf(l[i]) = m
    BY <1>6
  <2>2. i \in Slot /\ l[i] = p
    BY <2>1 DEF NoOther, Slot
  <2>3. i # s
    BY <1>4, <1>5, <2>1, <2>2 DEF Slot
  <2>4. n[i] = p
    BY <1>1, <2>2, <2>3
  <2>5. InFront(n, m)
    BY <1>4, <2>1, <2>4 DEF InFront
  <2>6. /\ u \in 1 .. 2 /\ Listed(n, p)[u] = p
        /\ InFront(Listed(n, p), m)
        /\ \A j \in Slot : n[j] = p => j = u
    BY <1>1, <1>2, <1>3, <2>5, ListedSelf
  <2>7. u = i
    BY <2>2, <2>4, <2>6
  <2>8. \A j \in Slot : l[j] = p => j = i
    BY <1>4, <2>2 DEF OneEach
  <2>9. \A j \in Slot : Listed(n, p)[j] \in {l[j], z, p}
    BY <1>1, ListedFacts
  <2>10. Listed(n, p) \in PidList /\ Packed(Listed(n, p)) /\ OneEach(Listed(n, p))
         /\ NoOther(Listed(n, p), p)
    BY <1>1, <1>2, <1>3, ListedFacts, ListedPlaces
  <2> QED BY <1>1, <2>3, <2>6, <2>7, <2>8, <2>9, <2>10 DEF n, s
<1>7. CASE ~\E i \in 1 .. 2 : l[i] # NoPid /\ MachineOf(l[i]) = m
  <2>1. \A i \in Slot : l[i] # NoPid => MachineOf(l[i]) = m
    BY <1>7 DEF InFront
  <2>2. 1 \in Slot /\ 2 \in Slot /\ 3 \in Slot /\ l[1] = NoPid
    BY <1>7, <2>1 DEF Slot
  <2>3. \A i \in Slot : l[i] = NoPid
    BY <2>2 DEF Packed, Slot
  <2>4. s = 1
    BY <1>5, <2>2, <2>3 DEF Slot
  <2>5. n[1] = z /\ n[2] = NoPid /\ n[3] = NoPid
    BY <1>1, <2>2, <2>3, <2>4
  <2>6. u = 2
    <3>1. /\ u \in 0 .. 3
          /\ u # 0 => /\ n[u] \in {p, NoPid}
                      /\ \A j \in Slot : j < u => n[j] \notin {p, NoPid}
          /\ u = 0 => \A i \in Slot : n[i] \notin {p, NoPid}
      BY <1>1, SlotInFacts
    <3>2. u # 0 /\ u # 1 /\ u # 3
      BY <1>4, <2>2, <2>5, <3>1
    <3> QED BY <3>1, <3>2
  <2>7. /\ Listed(n, p) \in PidList
        /\ \A i \in Slot : Listed(n, p)[i] = IF i = 2 THEN p ELSE n[i]
    BY <1>1, <2>6, ListedFacts
  <2>8. Packed(Listed(n, p)) /\ OneEach(Listed(n, p)) /\ NoOther(Listed(n, p), p)
    BY <1>1, <1>2, <1>3, ListedPlaces
  <2>9. InFront(Listed(n, p), m)
    BY <1>4, <2>2, <2>7 DEF InFront
  <2> QED BY <1>1, <1>4, <2>2, <2>3, <2>4, <2>6, <2>7, <2>8, <2>9 DEF n, s
<1> QED BY <1>6, <1>7

\* A new master takes the place of the dead one, and nothing else changes.
LEMMA ExchangePlaces ==
  ASSUME NEW l \in PidList, NEW old \in Proc, NEW new \in Proc, NEW m,
         MachineOf(old) = MachineOf(new),
         Packed(l), OneEach(l), InFront(l, m)
  PROVE  LET n == Exchange(l, old, new) IN
         /\ n \in PidList
         /\ \A i \in Slot : n[i] = IF l[i] = old THEN new ELSE l[i]
         /\ Packed(n) /\ OneEach(n) /\ InFront(n, m)
<1> DEFINE n == Exchange(l, old, new)
<1>1. old # NoPid /\ new # NoPid
  BY ProcFacts
<1>2. \A i \in Slot : n[i] = IF l[i] = old THEN new ELSE l[i]
  <2> SUFFICES ASSUME NEW i \in Slot, l[i] = old
               PROVE  \A j \in 1 .. i - 1 : l[j] # old
    BY ExchangeFacts
  <2>1. \A j \in 1 .. i - 1 : j \in Slot /\ j # i
    BY DEF Slot
  <2> QED BY <1>1, <2>1 DEF OneEach
<1>3. n \in PidList
  BY ExchangeFacts
<1> HIDE DEF n
<1>4. Packed(n)
  BY <1>1, <1>2 DEF Packed
<1>5. OneEach(n)
  BY <1>1, <1>2 DEF OneEach
<1>6. InFront(n, m)
  <2>1. 1 .. 2 \subseteq Slot
    BY DEF Slot
  <2>2. \A i \in Slot : /\ n[i] # NoPid <=> l[i] # NoPid
                        /\ MachineOf(n[i]) = MachineOf(l[i])
    BY <1>1, <1>2
  <2> QED BY <2>1, <2>2 DEF InFront
<1> QED BY <1>2, <1>3, <1>4, <1>5, <1>6 DEF n

LEMMA NoListPlaces ==
  ASSUME NEW m
  PROVE  /\ NoList \in PidList /\ \A i \in Slot : NoList[i] = NoPid
         /\ Packed(NoList) /\ OneEach(NoList) /\ InFront(NoList, m)
BY DEF NoList, PidList, Packed, OneEach, InFront
-----------------------------------------------------------------------------
(***************************************************************************)
(* Calm: what several steps leave alone                                    *)
(***************************************************************************)

\* Who rules and who has died is as it was.
SameRulers ==
  /\ UNCHANGED <<ran, up, dead, crashes>>
  /\ \A p \in Proc : step'[p] = "slave" <=> step[p] = "slave"

LEMMA ControlKept ==
  ASSUME NEW x, Calm(x), SameRulers
  PROVE  /\ DeathInv(x)' /\ ChangeInv(x)'
         /\ \A p \in Proc : Ruler(p)' <=> Ruler(p)
         /\ \A m \in Machine : Untouched(m)' <=> Untouched(m)
BY DEF Calm, SameRulers, DeathInv, ChangeInv, Ruler, Untouched

LEMMA NamesKept ==
  ASSUME NEW x, TypeOK, Calm(x), SameRulers, UNCHANGED <<master, peer>>
  PROVE  NamesInv'
<1>1. \A p \in Proc : master[p] \in Proc /\ \A m \in Machine : peer[p][m] \in Proc
  BY DEF TypeOK
<1>2. \A p \in Proc : Ruler(p) => Ruler(p)'
  BY ControlKept
<1> QED BY <1>1, <1>2 DEF Calm, NamesInv, Ruler

\* Files are as they were.
LEMMA FilesKept ==
  ASSUME NEW x, TypeOK, Calm(x), UNCHANGED <<file, author, last, broken, dead>>,
         \A p \in Proc : step'[p] = "slave" <=> step[p] = "slave"
  PROVE  FileInv' /\ FreshFileInv' /\ SavedInv'
<1> USE DEF Calm
<1>1. \A p \in Proc : Ruler(p)' <=> Ruler(p)
  BY DEF Ruler
<1>2. \A m \in Machine : Untouched(m)' <=> Untouched(m)
  BY DEF Untouched
<1>3. \A l \in PidList : RulersOnly(l) => RulersOnly(l)'
  BY <1>1, ListType DEF RulersOnly
<1>4. FileInv'
  <2> SUFFICES ASSUME NEW m \in Machine, file[m] # NoFile
               PROVE  GoodList(file[m].list, m)'
    BY DEF FileInv
  <2>1. file[m].list \in PidList
    BY FileFacts DEF ClockFile
  <2>2. GoodList(file[m].list, m)
    BY DEF FileInv
  <2> QED BY <1>3, <2>1, <2>2 DEF GoodList
<1>5. SavedInv'
  BY DEF SavedInv
<1>6. FreshFileInv'
  BY <1>2 DEF FreshFileInv
<1> QED BY <1>4, <1>5, <1>6

\* Clocks, files and what masters know are as they were.
LEMMA ClocksKept ==
  ASSUME NEW x, TypeOK, Calm(x), UNCHANGED <<clocks, peer, last, broken, dead>>,
         \A p \in Proc : step'[p] = "slave" <=> step[p] = "slave"
  PROVE  /\ ListInv' /\ OwnInv' /\ KnownInv' /\ FreshInv' /\ StampInv'
         /\ FileInv' /\ FreshFileInv' /\ SavedInv'
<1> USE DEF Calm, clocks
<1>1. \A p \in Proc : Ruler(p)' <=> Ruler(p)
  BY DEF Ruler
<1>2. \A m \in Machine : Untouched(m)' <=> Untouched(m)
  BY DEF Untouched
<1>3. \A l \in PidList : RulersOnly(l) => RulersOnly(l)'
  BY <1>1, ListType DEF RulersOnly
<1>4. ListInv'
  BY <1>3 DEF ListInv, GoodList, TypeOK
<1>5. FileInv' /\ FreshFileInv' /\ SavedInv'
  BY FilesKept
<1>6. OwnInv' /\ KnownInv' /\ StampInv'
  BY DEF OwnInv, KnownInv, StampInv
<1>7. FreshInv'
  BY <1>2, ProcFacts DEF FreshInv
<1> QED BY <1>4, <1>5, <1>6, <1>7

LEMMA CallerKept ==
  ASSUME NEW x, TypeOK, Calm(x), SameRulers, rpc' = rpc, peer' = peer
  PROVE  CallerInv' /\ AskedInv'
BY ControlKept DEF Calm, CallerInv, AskedInv, Waits

LEMMA CallerChange ==
  ASSUME NEW x, TypeOK, Calm(x), SameRulers,
         NEW p \in Proc, NEW m \in Machine, NEW c, CallIs(p, m, c),
         c # NoCall => Ruler(p) /\ c.old = FirstMaster(MachineOf(p))
  PROVE  CallerInv'
BY ControlKept DEF Calm, CallerInv, CallIs

LEMMA AskedChange ==
  ASSUME NEW x, TypeOK, Calm(x), peer' = peer,
         NEW p \in Proc, NEW m \in Machine, NEW c, CallIs(p, m, c),
         c # NoCall /\ c.waited => Waits(p, m) /\ c.at = rpc[p][m].at
  PROVE  AskedInv'
BY DEF Calm, AskedInv, CallIs, Waits

\* Process p has another list and other vectors.
LEMMA ListChange ==
  ASSUME NEW x, Shape, Calm(x), SameRulers, broken' = broken,
         NEW p \in Proc, NEW t \in Clocks, NEW l \in PidList,
         \A q \in Proc : /\ list'[q] = IF q = p THEN l ELSE list[q]
                         /\ times'[q] = IF q = p THEN t ELSE times[q]
                         /\ q # p => peer'[q] = peer[q],
         GoodList(l, MachineOf(p)),
         Untouched(MachineOf(p)) => OnlyOwn(l, MachineOf(p)),
         step[p] # "slave" =>
           /\ NoOther(l, p)
           /\ \A m \in Others(p) : peer'[p][m] # FirstMaster(m) =>
                \A i \in Slot : l[i] # FirstMaster(m)
           /\ MachineOf(p) \notin broken => Stamped(t, l, p, last'[MachineOf(p)]),
         step[p] = "slave" => last'[MachineOf(p)] = last[MachineOf(p)],
         \A m \in Machine : m # MachineOf(p) => last'[m] = last[m]
  PROVE  ListInv' /\ OwnInv' /\ KnownInv' /\ FreshInv' /\ StampInv'
<1>1. /\ \A q \in Proc : Ruler(q)' <=> Ruler(q)
      /\ \A m \in Machine : Untouched(m)' <=> Untouched(m)
      /\ \A q \in Proc : step'[q] = "slave" <=> step[q] = "slave"
  BY ControlKept DEF SameRulers
<1>2. \A n \in PidList : RulersOnly(n) => RulersOnly(n)'
  BY <1>1, ListType DEF RulersOnly
<1>3. ListInv'
  <2> SUFFICES ASSUME NEW q \in Proc
               PROVE  GoodList(list[q], MachineOf(q))'
    BY DEF ListInv
  <2>1. list'[q] \in PidList /\ GoodList(list'[q], MachineOf(q))
    BY DEF Calm, ListInv, Shape, TypeOK
  <2> QED BY <1>2, <2>1 DEF GoodList, RulersOnly
<1>4. OwnInv'
  BY <1>1 DEF Calm, OwnInv, NoOther
<1>5. KnownInv'
  BY <1>1 DEF Calm, KnownInv
<1>6. FreshInv'
  BY <1>1, ProcFacts DEF Calm, FreshInv
<1>7. StampInv'
  <2> SUFFICES ASSUME NEW q \in Proc, step[q] # "slave", MachineOf(q) \notin broken
               PROVE  Stamped(times'[q], list'[q], q, last'[MachineOf(q)])
    BY <1>1 DEF StampInv
  <2>1. CASE q = p
    BY <2>1
  <2>2. CASE q # p
    <3>1. last'[MachineOf(q)] = last[MachineOf(q)]
      <4>1. CASE MachineOf(q) = MachineOf(p)
        BY <2>2, <4>1 DEF Shape, OneTakes
      <4>2. CASE MachineOf(q) # MachineOf(p)
        BY <4>2, ProcFacts
      <4> QED BY <4>1, <4>2
    <3> QED BY <2>2, <3>1 DEF Calm, StampInv
  <2> QED BY <2>1, <2>2
<1> QED BY <1>3, <1>4, <1>5, <1>6, <1>7

\* Process p has saved its list and its vectors.
LEMMA FileChange ==
  ASSUME NEW x, Shape, Calm(x), SameRulers, broken' = broken,
         NEW p \in Proc, p \in up, NEW t \in Clocks, NEW l \in PidList,
         Keep(p, t, l), GoodList(l, MachineOf(p)),
         Untouched(MachineOf(p)) => OnlyOwn(l, MachineOf(p)),
         step[p] # "slave" /\ MachineOf(p) \notin broken =>
           Stamped(t, l, p, last'[MachineOf(p)]),
         step[p] = "slave" => last'[MachineOf(p)] = last[MachineOf(p)],
         \A m \in Machine : m # MachineOf(p) => last'[m] = last[m]
  PROVE  FileInv' /\ FreshFileInv' /\ SavedInv'
<1> DEFINE n == MachineOf(p)
           w == Saved(t, l)
<1>1. /\ \A q \in Proc : Ruler(q)' <=> Ruler(q)
      /\ \A m \in Machine : Untouched(m)' <=> Untouched(m)
      /\ \A q \in Proc : step'[q] = "slave" <=> step[q] = "slave"
  BY ControlKept DEF SameRulers
<1>2. \A k \in PidList : RulersOnly(k) => RulersOnly(k)'
  BY <1>1, ListType DEF RulersOnly
<1>3. \A m \in Machine : /\ file'[m] = IF m = n THEN w ELSE file[m]
                         /\ author'[m] = IF m = n THEN p ELSE author[m]
  BY KeepFacts DEF Shape
<1>4. w \in ClockFile /\ w.list = l /\ w.times[1] = t[1] /\ w.times[2] = t[2]
  BY SavedFacts
<1>5. n \in Machine /\ p # NoPid
  BY ProcFacts
<1> HIDE DEF w, n
<1>6. FileInv'
  <2> SUFFICES ASSUME NEW m \in Machine, file'[m] # NoFile
               PROVE  GoodList(file[m].list, m)'
    BY DEF FileInv
  <2>1. file'[m].list \in PidList /\ GoodList(file'[m].list, m)
    <3>1. CASE m = n
      BY <1>3, <1>4, <3>1 DEF n
    <3>2. CASE m # n
      BY <1>3, <3>2, FileFacts DEF Calm, FileInv, Shape, ClockFile
    <3> QED BY <3>1, <3>2
  <2> QED BY <1>2, <2>1 DEF GoodList, RulersOnly
<1>7. ~Untouched(n) \/ last'[n] = 0
  <2>1. CASE step[p] = "slave"
    BY <1>5, <2>1 DEF Calm, FreshFileInv, n
  <2>2. CASE step[p] # "slave"
    BY <1>5, <2>2, NoPidAssumption DEF Shape, TakingInv, Untouched, n
  <2> QED BY <2>1, <2>2
<1>8. FreshFileInv'
  BY <1>1, <1>3, <1>4, <1>5, <1>7 DEF Calm, FreshFileInv, n
<1>9. SavedInv'
  <2> SUFFICES ASSUME NEW m \in Machine, m \notin broken,
                      \A q \in Proc : MachineOf(q) = m /\ step[q] # "slave"
                                      => q = FirstMaster(m)
               PROVE  \/ author'[m] = NoPid /\ last'[m] = 0
                      \/ author'[m] \notin {NoPid, FirstMaster(m)}
                      \/ /\ file'[m] # NoFile
                         /\ Stamped(file'[m].times, file'[m].list, FirstMaster(m),
                                    last'[m])
    BY <1>1 DEF SavedInv
  <2>1. CASE m # n
    BY <1>3, <2>1 DEF Calm, SavedInv, n
  <2>2. CASE m = n /\ p # FirstMaster(m)
    BY <1>3, <1>5, <2>2
  <2>3. CASE m = n /\ p = FirstMaster(m)
    <3>1. w # NoFile
      BY <1>4, NoFileAssumption
    <3>2. Stamped(t, l, p, last'[m])
      <4>1. CASE step[p] # "slave"
        BY <2>3, <4>1 DEF n
      <4>2. CASE step[p] = "slave"
        <5>1. Ruler(master[p]) /\ MachineOf(master[p]) = m /\ master[p] \in Proc
          BY <2>3 DEF Calm, NamesInv, Shape, MachineInv, TypeOK, n
        <5>2. master[p] = p
          BY <2>3, <5>1 DEF Ruler
        <5>3. Untouched(n)
          BY <4>2, <5>2 DEF Shape, WaitingInv, Rules, n
        <5> QED BY <1>7, <2>3, <5>3 DEF Stamped
      <4> QED BY <4>1, <4>2
    <3>3. Stamped(w.times, w.list, p, last'[m])
      <4>1. \A i \in 1 .. 2 : w.times[i] = t[i]
        BY <1>4
      <4> QED BY <1>4, <3>2, <4>1 DEF Stamped
    <3> QED BY <1>3, <2>3, <3>1, <3>3
  <2> QED BY <2>1, <2>2, <2>3
<1> QED BY <1>6, <1>8, <1>9
-----------------------------------------------------------------------------
(***************************************************************************)
(* Calm: every step                                                        *)
(***************************************************************************)

\* A step that changes no clock, no master and no peer.
LEMMA QuietCalm ==
  ASSUME NEW x, TypeOK, Calm(x), SameRulers,
         UNCHANGED <<clocks, peer, master, last, broken>>, CallerInv', AskedInv'
  PROVE  Calm(x)'
<1>1. DeathInv(x)' /\ ChangeInv(x)'
  BY ControlKept
<1>2. NamesInv'
  BY NamesKept
<1>3. /\ ListInv' /\ OwnInv' /\ KnownInv' /\ FreshInv' /\ StampInv'
      /\ FileInv' /\ FreshFileInv' /\ SavedInv'
  BY ClocksKept DEF SameRulers
<1> QED BY <1>1, <1>2, <1>3 DEF Calm

LEMMA StartNetCalm ==
  ASSUME NEW x, Shape, Calm(x), NEW p \in Proc, StartNet(p), UNCHANGED <<start, ran>>
  PROVE  Calm(x)'
<1>1. SameRulers
  BY DEF Shape, TypeOK, StartNet, SameRulers, bounds
<1>2. CallerInv' /\ AskedInv'
  BY <1>1, CallerKept DEF StartNet, Shape
<1> QED BY <1>1, <1>2, QuietCalm DEF StartNet, Shape

\* A call ends, or goes on without its caller.
LEMMA CallEndsCalm ==
  ASSUME NEW x, Shape, Calm(x), NEW p \in Proc, NEW m \in Machine,
         \/ Failed(p, m)
         \/ Late(p, m)
         \/ Dropped(p, m)
         \/ Answered(p, m) /\ rpc[p][m].stage # "answered",
         UNCHANGED <<start, ran>>
  PROVE  Calm(x)'
<1> USE DEF bounds
<1>1. TypeOK
  BY DEF Shape
<1>2. SameRulers
  <2>1. CASE Dropped(p, m)
    BY <2>1 DEF Dropped, SameRulers
  <2>2. CASE ~Dropped(p, m)
    <3>1. GoesOn(p, m) /\ Waits(p, m)
      BY <2>2 DEF Failed, Late, Answered
    <3> QED BY <3>1, GoesOnFacts DEF GoesOn, SameRulers
  <2> QED BY <2>1, <2>2
<1>3. UNCHANGED <<clocks, peer, master, last, broken>>
  BY DEF Failed, Late, Dropped, Answered, GoesOn
<1>4. PICK c : /\ CallIs(p, m, c)
               /\ c # NoCall => /\ rpc[p][m] # NoCall /\ c.old = rpc[p][m].old
                                /\ ~c.waited
  <2>1. CASE Late(p, m)
    <3> DEFINE c == [rpc[p][m] EXCEPT !.waited = FALSE]
    <3>1. rpc[p][m] \in Call /\ CallIs(p, m, c)
      BY <1>1, <2>1, CallLate
    <3>2. c.old = rpc[p][m].old /\ ~c.waited /\ rpc[p][m] # NoCall
      BY <1>1, <2>1, <3>1 DEF Late, Waits, Call
    <3> HIDE DEF c
    <3> QED BY <3>1, <3>2
  <2>2. CASE ~Late(p, m)
    BY <1>1, <2>2, CallGone
  <2> QED BY <2>1, <2>2
<1>5. CallerInv'
  <2>1. c # NoCall => Ruler(p) /\ c.old = FirstMaster(MachineOf(p))
    BY <1>4 DEF Calm, CallerInv
  <2> QED BY <1>1, <1>2, <1>4, <2>1, CallerChange
<1>6. AskedInv'
  BY <1>1, <1>3, <1>4, AskedChange
<1> QED BY <1>1, <1>2, <1>3, <1>5, <1>6, QuietCalm

LEMMA StartForwardCalm ==
  ASSUME NEW x, Shape, Calm(x), NEW p \in Proc, NEW m \in Machine,
         StartForward(p, m), UNCHANGED <<start, ran>>
  PROVE  Calm(x)'
<1> DEFINE c == [rpc[p][m] EXCEPT !.stage = "forwarding",
                                  !.left = Locals(rpc[p][m].at)]
<1>1. TypeOK
  BY DEF Shape
<1>2. SameRulers
  BY DEF StartForward, SameRulers, bounds
<1>3. rpc[p][m] \in Call /\ CallIs(p, m, c)
  BY <1>1, CallForwarding
<1>4. /\ c.at = rpc[p][m].at /\ c.old = rpc[p][m].old
      /\ c.waited = rpc[p][m].waited /\ c.stage = "forwarding"
  BY <1>3 DEF Call
<1>5. rpc[p][m] # NoCall /\ rpc[p][m].stage \in Served
  BY <1>1, CallFacts DEF StartForward, Served
<1> HIDE DEF c
<1>6. CallerInv'
  <2>1. c # NoCall => Ruler(p) /\ c.old = FirstMaster(MachineOf(p))
    BY <1>4, <1>5 DEF Calm, CallerInv
  <2> QED BY <1>1, <1>2, <1>3, <2>1, CallerChange
<1>7. AskedInv'
  BY <1>1, <1>3, <1>4, <1>5, AskedChange DEF StartForward, Waits
<1> QED BY <1>1, <1>2, <1>6, <1>7, QuietCalm DEF StartForward

LEMMA TellLocalsCalm ==
  ASSUME NEW x, Shape, Calm(x), NEW p \in Proc, TellLocals(p),
         UNCHANGED <<start, ran>>
  PROVE  Calm(x)'
<1>1. TypeOK
  BY DEF Shape
<1>2. SameRulers
  BY DEF Shape, TypeOK, TellLocals, SameRulers, bounds
<1>3. DeathInv(x)' /\ ChangeInv(x)' /\ \A q \in Proc : Ruler(q)' <=> Ruler(q)
  BY <1>2, ControlKept
<1>4. NamesInv'
  <2>1. \A q \in Proc : /\ master'[q] \in {p, master[q]} /\ master[q] \in Proc
                        /\ \A m \in Machine : peer[q][m] \in Proc
    BY <1>1 DEF TellLocals, TypeOK
  <2>2. peer' = peer
    BY DEF TellLocals
  <2>3. Ruler(p)
    BY DEF TellLocals, Ruler
  <2> QED BY <1>3, <2>1, <2>2, <2>3 DEF Calm, NamesInv, Ruler
<1>5. CallerInv' /\ AskedInv'
  BY <1>1, <1>2, CallerKept DEF TellLocals
<1>6. /\ ListInv' /\ OwnInv' /\ KnownInv' /\ FreshInv' /\ StampInv'
      /\ FileInv' /\ FreshFileInv' /\ SavedInv'
  BY <1>1, <1>2, ClocksKept DEF SameRulers, TellLocals
<1> QED BY <1>3, <1>4, <1>5, <1>6 DEF Calm

LEMMA RunCalm ==
  ASSUME NEW x, Shape, Calm(x), NEW m \in Machine, Run(m), UNCHANGED start
  PROVE  Calm(x)'
<1> USE DEF takeOver, bounds
<1>1. TypeOK
  BY DEF Shape
<1>2. DeathInv(x)'
  BY DEF Calm, DeathInv, Run
<1>3. ChangeInv(x)' /\ NamesInv' /\ CallerInv' /\ AskedInv'
  BY DEF Calm, ChangeInv, NamesInv, CallerInv, AskedInv, Ruler, Waits, Run
<1>4. /\ ListInv' /\ OwnInv' /\ KnownInv' /\ FreshInv' /\ StampInv'
      /\ FileInv' /\ FreshFileInv' /\ SavedInv'
  BY <1>1, ClocksKept DEF Run
<1> QED BY <1>2, <1>3, <1>4 DEF Calm

\* A list of a master: it finds a place for itself.
LEMMA OwnPlace ==
  ASSUME NEW x, Shape, Calm(x), NEW p \in Proc, Rules(p)
  PROVE  /\ list[p] \in PidList /\ GoodList(list[p], MachineOf(p))
         /\ NoOther(list[p], p)
<1>1. list[p] \in PidList /\ GoodList(list[p], MachineOf(p))
  BY DEF Shape, TypeOK, Calm, ListInv
<1>2. NoOther(list[p], p)
  <2>1. CASE step[p] # "slave"
    BY <2>1 DEF Calm, OwnInv, NoOther
  <2>2. CASE step[p] = "slave"
    <3> SUFFICES ASSUME NEW i \in Slot, list[p][i] # NoPid,
                        MachineOf(list[p][i]) = MachineOf(p)
                 PROVE  list[p][i] = p
      BY DEF NoOther
    <3>1. list[p][i] \in Proc /\ Ruler(list[p][i])
      BY <1>1, ListType DEF GoodList, RulersOnly
    <3> QED BY <2>2, <3>1 DEF Ruler, Shape, WaitingInv
  <2> QED BY <2>1, <2>2
<1> QED BY <1>1, <1>2

\* A master stamps a request or compares a stamp.
LEMMA StampCalm ==
  ASSUME NEW x, Shape, Calm(x), NEW p \in Proc, p \in Masters,
         NEW s \in Slot, s = SlotIn(list[p], p),
         NEW t \in Clocks, times[p][s][s] \in Nat, t[s][s] = times[p][s][s] + 1,
         Keep(p, t, Listed(list[p], p)),
         \/ last' = last
         \/ last' = [last EXCEPT ![MachineOf(p)] = t[s][s]],
         UNCHANGED <<ran, up, master, peer, takeOver, crashes, broken>>
  PROVE  Calm(x)'
<1> DEFINE m == MachineOf(p)
           l == Listed(list[p], p)
<1>1. TypeOK /\ Rules(p) /\ step[p] # "slave" /\ p \in up /\ m \in Machine
  BY ProcFacts DEF Shape, Masters, TakingInv
<1>2. l \in PidList
  BY <1>1, ListedFacts DEF TypeOK
<1>3. /\ list[p] \in PidList /\ GoodList(list[p], m) /\ NoOther(list[p], p)
  BY <1>1, OwnPlace
<1>4. /\ Packed(l) /\ OneEach(l) /\ NoOther(l, p) /\ InFront(l, m)
      /\ s \in 1 .. 2 /\ l[s] = p
      /\ \A i \in Slot : l[i] \in {list[p][i], p}
      /\ \A i \in Slot : list[p][i] = p => i = s
  BY <1>3, ListedPlaces, ListedSelf DEF GoodList
<1>5. SameRulers
  BY DEF SameRulers, takeOver
<1>6. Ruler(p)
  BY <1>1 DEF Ruler
<1>7. ~Untouched(m)
  BY <1>1, NoPidAssumption DEF Shape, TakingInv, Untouched
<1> HIDE DEF l, m
<1>8. GoodList(l, m)
  BY <1>3, <1>4, <1>6 DEF GoodList, RulersOnly
<1>9. m \notin broken => Stamped(t, l, p, last'[m])
  <2> SUFFICES ASSUME m \notin broken
               PROVE  t[s][s] >= last'[m]
    BY <1>4 DEF Stamped
  <2>1. CASE last' = [last EXCEPT ![MachineOf(p)] = t[s][s]]
    BY <1>1, <1>2, <2>1 DEF TypeOK, m
  <2>2. CASE last' = last
    <3>1. Stamped(times[p], list[p], p, last[m])
      BY <1>1 DEF Calm, StampInv, m
    <3>2. last[m] \in Nat
      BY <1>1 DEF TypeOK
    <3>3. last[m] = 0 \/ times[p][s][s] >= last[m]
      <4>1. 1 .. 2 \subseteq Slot
        BY DEF Slot
      <4> QED BY <1>4, <3>1, <4>1 DEF Stamped
    <3> QED BY <1>2, <2>2, <3>2, <3>3
  <2> QED BY <2>1, <2>2
<1>10. \A n \in Machine : n # m => last'[n] = last[n]
  BY <1>1 DEF TypeOK, m
<1>11. /\ \A q \in Proc : /\ list'[q] = IF q = p THEN l ELSE list[q]
                          /\ times'[q] = IF q = p THEN t ELSE times[q]
       /\ Keep(p, t, l)
  BY <1>1, <1>2, KeepFacts DEF l
<1>12. \A n \in Others(p) : peer[p][n] # FirstMaster(n) =>
         \A i \in Slot : l[i] # FirstMaster(n)
  <2> SUFFICES ASSUME NEW n \in Others(p), peer[p][n] # FirstMaster(n),
                      NEW i \in Slot, l[i] = FirstMaster(n)
               PROVE  FALSE
    OBVIOUS
  <2>1. n \in Machine /\ MachineOf(FirstMaster(n)) = n /\ n # m
    BY FirstFacts DEF Others, m
  <2>2. l[i] = list[p][i]
    BY <1>4, <2>1 DEF m
  <2> QED BY <1>1, <2>2 DEF Calm, KnownInv
<1>13. ListInv' /\ OwnInv' /\ KnownInv' /\ FreshInv' /\ StampInv'
  BY <1>1, <1>2, <1>4, <1>5, <1>7, <1>8, <1>9, <1>10, <1>11, <1>12, ListChange DEF m
<1>14. FileInv' /\ FreshFileInv' /\ SavedInv'
  BY <1>1, <1>2, <1>5, <1>7, <1>8, <1>9, <1>10, <1>11, FileChange DEF m
<1>15. NamesInv' /\ CallerInv' /\ AskedInv'
  BY <1>1, <1>5, NamesKept, CallerKept DEF takeOver
<1> QED BY <1>5, <1>13, <1>14, <1>15, ControlKept DEF Calm

LEMMA RequestCalm ==
  ASSUME NEW x, Shape, Calm(x), NEW p \in Proc, Request(p), UNCHANGED <<start, ran>>
  PROVE  Calm(x)'
<1> DEFINE s == SlotIn(list[p], p)
           d == RequestTime(times[p][s], s)
           t == [times[p] EXCEPT ![s] = d]
<1>1. /\ p \in Masters /\ s # 0 /\ Keep(p, t, Listed(list[p], p))
      /\ last' = [last EXCEPT ![MachineOf(p)] = t[s][s]]
      /\ UNCHANGED <<ran, up, master, peer, takeOver, crashes, broken>>
  BY DEF Request, RequestTimeOf
<1>2. Zero \in Clock /\ TypeOK
  BY DEF Zero, Clock, Shape
<1>3. /\ s \in Slot /\ t \in Clocks
      /\ times[p][s][s] \in Nat /\ t[s][s] = times[p][s][s] + 1
  <2> HIDE DEF s
  <2> QED BY <1>1, <1>2, StampFacts DEF s
<1> HIDE DEF s, t
<1> QED BY <1>1, <1>3, StampCalm DEF s

LEMMA CompareCalm ==
  ASSUME NEW x, Shape, Calm(x), NEW p \in Proc, NEW q \in Proc, Compare(p, q),
         UNCHANGED <<start, ran>>
  PROVE  Calm(x)'
<1> DEFINE s == SlotIn(list[p], p)
           c == times[q][SlotIn(list[q], q)]
           d == Compared(c, times[p][s], s)
           t == [times[p] EXCEPT ![s] = d]
<1>1. /\ p \in Masters /\ s # 0 /\ Keep(p, t, Listed(list[p], p)) /\ last' = last
      /\ UNCHANGED <<ran, up, master, peer, takeOver, crashes, broken>>
  BY DEF Compare, ComparisonOf
<1>2. c \in Clock
  <2>1. list[q] \in PidList /\ times[q] \in Clocks
    BY DEF Shape, TypeOK
  <2>2. SlotIn(list[q], q) \in Slot
    BY <2>1, SlotInFacts DEF Compare
  <2> QED BY <2>1, <2>2 DEF Clocks
<1>3. /\ s \in Slot /\ t \in Clocks
      /\ times[p][s][s] \in Nat /\ t[s][s] = times[p][s][s] + 1
  <2>1. TypeOK
    BY DEF Shape
  <2> HIDE DEF s, c
  <2> QED BY <1>1, <1>2, <2>1, StampFacts DEF s
<1> HIDE DEF s, t, c
<1> QED BY <1>1, <1>3, StampCalm DEF s
\* A process has been told of a new master.
LEMMA NotedCalm ==
  ASSUME NEW x, Shape, Calm(x), SameRulers, NEW q \in Proc, q \in up,
         NEW p \in Proc, Ruler(p), MachineOf(p) # MachineOf(q),
         Noted(q, p, FirstMaster(MachineOf(p))),
         UNCHANGED <<master, last, broken>>
  PROVE  /\ NamesInv' /\ ListInv' /\ OwnInv' /\ KnownInv' /\ FreshInv' /\ StampInv'
         /\ FileInv' /\ FreshFileInv' /\ SavedInv'
<1> DEFINE f == FirstMaster(MachineOf(p))
           m == MachineOf(q)
           l == Exchange(list[q], f, p)
<1>1. /\ TypeOK /\ m \in Machine /\ f \in Proc /\ MachineOf(f) = MachineOf(p)
      /\ list[q] \in PidList /\ times[q] \in Clocks
  BY ProcFacts, FirstFacts DEF Shape, TypeOK
<1>2. Keep(q, times[q], l)
  BY DEF Noted
<1>3. GoodList(list[q], m)
  BY DEF Calm, ListInv
<1>4. /\ l \in PidList
      /\ \A i \in Slot : l[i] = IF list[q][i] = f THEN p ELSE list[q][i]
      /\ Packed(l) /\ OneEach(l) /\ InFront(l, m)
  BY <1>1, <1>3, ExchangePlaces DEF GoodList
<1> HIDE DEF l, f
<1>5. p # NoPid
  BY ProcFacts
<1>6. GoodList(l, m)
  BY <1>3, <1>4 DEF GoodList, RulersOnly
<1>7. Untouched(m) => OnlyOwn(l, m)
  <2> SUFFICES ASSUME Untouched(m) PROVE OnlyOwn(l, m)
    OBVIOUS
  <2>1. OnlyOwn(list[q], m)
    BY DEF Calm, FreshInv
  <2>2. f # NoPid
    BY <1>1, ProcFacts
  <2> QED BY <1>1, <1>4, <2>1, <2>2 DEF OnlyOwn
<1>8. step[q] # "slave" => NoOther(l, q)
  BY <1>1, <1>4 DEF Calm, OwnInv, NoOther
<1>9. step[q] # "slave" /\ m \notin broken => Stamped(times[q], l, q, last'[m])
  <2> SUFFICES ASSUME step[q] # "slave", m \notin broken
               PROVE  Stamped(times[q], l, q, last[m])
    OBVIOUS
  <2>1. Stamped(times[q], list[q], q, last[m])
    BY DEF Calm, StampInv
  <2>2. \A i \in 1 .. 2 : i \in Slot /\ (list[q][i] = q => l[i] = q)
    BY <1>1, <1>4 DEF Slot
  <2> QED BY <2>1, <2>2 DEF Stamped
<1>10. /\ \A r \in Proc, n \in Machine :
             peer'[r][n] = IF r = q /\ n = MachineOf(p) THEN p ELSE peer[r][n]
       /\ peer' \in [Proc -> [Machine -> Proc]] /\ times' = times
       /\ \A r \in Proc : list'[r] = IF r = q THEN l ELSE list[r]
  BY <1>1, NotedFacts DEF l, f
<1>11. \A n \in Others(q) : peer'[q][n] # FirstMaster(n) =>
         \A i \in Slot : l[i] # FirstMaster(n)
       \/ step[q] = "slave"
  <2> SUFFICES ASSUME step[q] # "slave", NEW n \in Others(q),
                      peer'[q][n] # FirstMaster(n), NEW i \in Slot,
                      l[i] = FirstMaster(n)
               PROVE  FALSE
    OBVIOUS
  <2>1. n \in Machine /\ MachineOf(FirstMaster(n)) = n
    BY FirstFacts DEF Others
  <2>2. CASE n = MachineOf(p)
    BY <1>4, <1>10, <2>1, <2>2 DEF f
  <2>3. CASE n # MachineOf(p)
    <3>1. peer[q][n] # FirstMaster(n) /\ list[q][i] = FirstMaster(n)
      BY <1>4, <1>10, <2>1, <2>3
    <3> QED BY <3>1 DEF Calm, KnownInv
  <2> QED BY <2>2, <2>3
<1>12. \A r \in Proc : r # q => peer'[r] = peer[r]
  BY <1>1, <1>10 DEF Noted, TypeOK
<1>13. ListInv' /\ OwnInv' /\ KnownInv' /\ FreshInv' /\ StampInv'
  <2>1. \A r \in Proc : times'[r] = IF r = q THEN times[q] ELSE times[r]
    BY <1>10
  <2>2. \A n \in Machine : last'[n] = last[n]
    OBVIOUS
  <2>3. step[q] # "slave" =>
          \A n \in Others(q) : peer'[q][n] # FirstMaster(n) =>
            \A i \in Slot : l[i] # FirstMaster(n)
    <3> SUFFICES ASSUME step[q] # "slave", NEW n \in Others(q),
                        peer'[q][n] # FirstMaster(n), NEW i \in Slot
                 PROVE  l[i] # FirstMaster(n)
      OBVIOUS
    <3> QED BY <1>11
  <2> QED BY <1>1, <1>4, <1>6, <1>7, <1>8, <1>9, <1>10, <1>12, <2>1, <2>2, <2>3,
             ListChange DEF m
<1>14. FileInv' /\ FreshFileInv' /\ SavedInv'
  <2>1. \A n \in Machine : last'[n] = last[n]
    OBVIOUS
  <2> QED BY <1>1, <1>2, <1>4, <1>6, <1>7, <1>9, <2>1, FileChange DEF m
<1>15. NamesInv'
  <2>1. \A r \in Proc : Ruler(r)' <=> Ruler(r)
    BY ControlKept
  <2>2. \A r \in Proc : master[r] \in Proc /\ \A n \in Machine : peer[r][n] \in Proc
    BY <1>1 DEF TypeOK
  <2>3. \A r \in Proc : /\ Ruler(master[r])
                        /\ \A n \in Machine : Ruler(peer[r][n])
    BY DEF Calm, NamesInv
  <2>4. \A r \in Proc : Ruler(master[r])'
    BY <2>1, <2>2, <2>3 DEF Ruler
  <2>5. \A r \in Proc, n \in Machine : peer'[r][n] \in Proc /\ Ruler(peer'[r][n])
    BY <1>10, <2>2, <2>3
  <2>6. \A r \in Proc, n \in Machine : Ruler(peer[r][n])'
    BY <2>1, <2>5 DEF Ruler
  <2> QED BY <2>4, <2>6 DEF NamesInv
<1> QED BY <1>13, <1>14, <1>15

LEMMA TellCalm ==
  ASSUME NEW x, Shape, Calm(x), NEW p \in Proc, NEW m \in Machine, Tell(p, m),
         UNCHANGED <<start, ran>>
  PROVE  Calm(x)'
<1> USE DEF bounds
<1> DEFINE q == peer[p][m]
           f == FirstMaster(MachineOf(p))
<1>1. TypeOK /\ q \in Proc /\ step[p] = "tellNet"
  BY DEF Shape, TypeOK, Tell
<1>2. dead[p] = f /\ f \in Proc /\ Rules(p) /\ Ruler(p)
  BY <1>1, ProcFacts, FirstFacts DEF Calm, ChangeInv, Shape, TakingInv, Ruler
<1>3. PICK c \in Call : /\ CallIs(p, m, c) /\ c.at = q /\ c.old = f
  BY <1>1, <1>2, CallTells
<1>4. SameRulers
  BY DEF SameRulers, Tell
<1>5. CallerInv'
  BY <1>1, <1>2, <1>3, <1>4, CallerChange DEF f
<1>6. peer' = peer
  BY DEF Tell
<1>7. AskedInv'
  <2> SUFFICES ASSUME NEW r \in Proc, NEW n \in Machine, Waits(r, n)'
               PROVE  peer[r][n] = rpc'[r][n].at
    BY <1>6 DEF AskedInv
  <2>1. CASE r = p /\ n = m
    BY <1>3, <2>1 DEF CallIs
  <2>2. CASE ~(r = p /\ n = m)
    BY <1>3, <2>2 DEF CallIs, Waits, Calm, AskedInv
  <2> QED BY <2>1, <2>2
<1> QED BY <1>1, <1>4, <1>5, <1>7, QuietCalm DEF Tell

\* The handler of a process that is called keeps the new master: nobody whose
\* loop waits is called now, since its lock is taken.
LEMMA BeginCalm ==
  ASSUME NEW x, Shape, HoldInv, Calm(x), NEW p \in Proc, NEW m \in Machine,
         Begin(p, m), UNCHANGED <<start, ran>>
  PROVE  Calm(x)'
<1> USE DEF bounds
<1> DEFINE q == rpc[p][m].at
           f == FirstMaster(MachineOf(p))
<1>1. TypeOK
  BY DEF Shape
<1>2. PICK c \in Call :
           /\ rpc[p][m] \in Call /\ CallIs(p, m, c)
           /\ c.at = q /\ c.old = rpc[p][m].old
           /\ c.waited = rpc[p][m].waited
  BY <1>1, CallBegins
<1>3. rpc[p][m] # NoCall
  BY <1>1, CallFacts DEF Begin
<1>4. Ruler(p) /\ rpc[p][m].old = f
  BY <1>3 DEF Calm, CallerInv
<1>5. q \in Proc /\ q \in up /\ MachineOf(q) = m /\ m # MachineOf(p)
  BY <1>2, <1>3 DEF Call, Shape, CallInv, Begin
<1>6. Noted(q, p, f) /\ holds[q] = NoPid
  BY <1>4 DEF Begin
<1>7. f \in Proc
  BY ProcFacts, FirstFacts
<1>8. SameRulers
  BY DEF SameRulers, Begin
<1> HIDE DEF q
<1>9. /\ NamesInv' /\ ListInv' /\ OwnInv' /\ KnownInv' /\ FreshInv' /\ StampInv'
      /\ FileInv' /\ FreshFileInv' /\ SavedInv'
  <2>1. UNCHANGED <<master, last, broken>>
    BY DEF Begin
  <2> QED BY <1>4, <1>5, <1>6, <1>8, <2>1, NotedCalm DEF f
<1>10. CallerInv'
  BY <1>1, <1>2, <1>4, <1>8, CallerChange
<1>11. AskedInv'
  <2> SUFFICES ASSUME NEW r \in Proc, NEW n \in Machine, Waits(r, n)'
               PROVE  peer'[r][n] = rpc'[r][n].at
    BY DEF AskedInv
  <2>1. Waits(r, n) /\ rpc'[r][n].at = rpc[r][n].at
    BY <1>2, <1>3 DEF CallIs, Waits, q
  <2>2. step[r] = "tellNet"
    BY <2>1 DEF Shape, CallInv, Waits
  <2>3. holds[r] = r /\ r # NoPid
    BY <2>2, ProcFacts DEF HoldInv
  <2>4. r # q
    BY <1>6, <2>3
  <2> HIDE DEF f
  <2>5. peer'[r][n] = peer[r][n]
    BY <1>1, <1>5, <1>6, <1>7, <2>4, NotedFacts
  <2> QED BY <2>1, <2>5 DEF Calm, AskedInv
<1> QED BY <1>8, <1>9, <1>10, <1>11, ControlKept DEF Calm

LEMMA ForwardCalm ==
  ASSUME NEW x, Shape, Calm(x), NEW p \in Proc, NEW m \in Machine, NEW r \in Proc,
         Forward(p, m, r), UNCHANGED <<start, ran>>
  PROVE  Calm(x)'
<1> USE DEF bounds
<1> DEFINE f == FirstMaster(MachineOf(p))
           c == [rpc[p][m] EXCEPT !.left = rpc[p][m].left \ {r}]
           z == rpc[p][m].at
<1>1. TypeOK
  BY DEF Shape
<1>2. rpc[p][m] \in Call /\ CallIs(p, m, c)
  BY <1>1, CallForwards
<1>3. /\ c.at = z /\ c.old = rpc[p][m].old /\ c.waited = rpc[p][m].waited
      /\ c.stage = rpc[p][m].stage
  BY <1>2 DEF Call
<1> HIDE DEF c
<1>4. SameRulers
  BY DEF SameRulers, Forward
<1>5. rpc[p][m] # NoCall /\ rpc[p][m].stage \in Served
  BY <1>1, CallFacts DEF Forward, Served
<1>6. Ruler(p) /\ rpc[p][m].old = f
  BY <1>5 DEF Calm, CallerInv
<1>7. /\ z \in Proc /\ Rules(z) /\ r \in Locals(z) /\ MachineOf(z) = m
      /\ m # MachineOf(p)
  BY <1>2, <1>5, CallFacts DEF Shape, CallInv, Call, Forward
<1>8. r # z /\ MachineOf(r) = m
  BY <1>7, LocalFacts
<1>9. /\ NamesInv' /\ ListInv' /\ OwnInv' /\ KnownInv' /\ FreshInv' /\ StampInv'
      /\ FileInv' /\ FreshFileInv' /\ SavedInv'
  <2>1. UNCHANGED <<master, last, broken>>
    BY DEF Forward
  <2>2. CASE r \in up
    <3>1. Noted(r, p, f)
      BY <1>6, <2>2 DEF Forward
    <3> QED BY <1>4, <1>6, <1>7, <1>8, <2>1, <2>2, <3>1, NotedCalm DEF f
  <2>3. CASE r \notin up
    <3>1. UNCHANGED <<peer, clocks>>
      BY <2>3 DEF Forward
    <3>2. \A q \in Proc : step'[q] = "slave" <=> step[q] = "slave"
      BY <1>4 DEF SameRulers
    <3>3. UNCHANGED <<clocks, peer, last, broken, dead>>
      BY <1>4, <2>1, <3>1 DEF SameRulers
    <3>4. NamesInv'
      BY <1>1, <1>4, <2>1, <3>1, NamesKept
    <3> QED BY <1>1, <3>2, <3>3, <3>4, ClocksKept
  <2> QED BY <2>2, <2>3
<1>10. CallerInv'
  BY <1>1, <1>2, <1>3, <1>4, <1>6, CallerChange
<1>11. AskedInv'
  <2> SUFFICES ASSUME NEW q \in Proc, NEW n \in Machine, Waits(q, n)'
               PROVE  peer'[q][n] = rpc'[q][n].at
    BY DEF AskedInv
  <2>1. Waits(q, n) /\ rpc'[q][n].at = rpc[q][n].at
    BY <1>2, <1>3, <1>5 DEF CallIs, Waits
  <2>2. step[q] = "tellNet"
    BY <2>1 DEF Shape, CallInv, Waits
  <2>3. Rules(q)
    BY <2>2 DEF Shape, TakingInv
  <2>4. q # r
    BY <1>7, <1>8, <2>3, RulesOnce
  <2>5. peer'[q][n] = peer[q][n]
    <3>1. CASE r \in up
      <4>1. Noted(r, p, f)
        BY <1>6, <3>1 DEF Forward
      <4>2. f \in Proc
        BY ProcFacts, FirstFacts
      <4> HIDE DEF f
      <4> QED BY <1>1, <2>4, <4>1, <4>2, NotedFacts
    <3>2. CASE r \notin up
      BY <3>2 DEF Forward
    <3> QED BY <3>1, <3>2
  <2> QED BY <2>1, <2>5 DEF Calm, AskedInv
<1> QED BY <1>4, <1>9, <1>10, <1>11, ControlKept DEF Calm
\* A process that has been answered has nobody else of the machine that answered
\* in its list.
LEMMA AskedPlace ==
  ASSUME NEW x, Shape, Calm(x), NEW p \in Proc, NEW m \in Machine,
         Waits(p, m), rpc[p][m].stage = "answered",
         NEW z, z = rpc[p][m].at
  PROVE  /\ z \in Proc /\ Rules(z) /\ MachineOf(z) = m /\ m # MachineOf(p)
         /\ Rules(p) /\ step[p] = "tellNet" /\ peer[p][m] = z /\ Ruler(z)
         /\ NoOther(list[p], z)
<1> DEFINE l == list[p]
<1>1. /\ TypeOK /\ rpc[p][m].stage \in Served /\ rpc[p][m] # NoCall
  BY DEF Shape, Waits, Served
<1>2. z \in Proc
  BY <1>1, CallFacts
<1>3. Rules(z) /\ MachineOf(z) = m /\ m # MachineOf(p) /\ step[p] = "tellNet"
  BY <1>1 DEF Shape, CallInv, Waits
<1>4. Rules(p)
  BY <1>3 DEF Shape, TakingInv
<1>5. peer[p][m] = z
  BY DEF Calm, AskedInv
<1>6. Ruler(z)
  BY <1>5 DEF Calm, NamesInv
<1>7. NoOther(l, z)
  <2> SUFFICES ASSUME NEW i \in Slot, l[i] # NoPid, MachineOf(l[i]) = m, l[i] # z
               PROVE  FALSE
    BY <1>3 DEF NoOther
  <2>1. l[i] \in Proc /\ Ruler(l[i])
    BY <1>1, ListType DEF TypeOK, Calm, ListInv, GoodList, RulersOnly
  <2>2. step[l[i]] = "slave"
    BY <1>2, <1>3, <2>1, RulesOnce DEF Shape, TakingInv
  <2>3. l[i] = FirstMaster(m)
    BY <2>1, <2>2 DEF Ruler
  <2>4. m \in Others(p)
    BY <1>3 DEF Others
  <2> QED BY <1>3, <1>5, <2>3, <2>4 DEF Calm, KnownInv
<1> QED BY <1>2, <1>3, <1>4, <1>5, <1>6, <1>7

\* The answer of a master: its vector is kept, and its place is not that of the
\* process that asked.
LEMMA AnsweredCalm ==
  ASSUME NEW x, Shape, Calm(x), NEW p \in Proc, NEW m \in Machine, Answered(p, m),
         rpc[p][m].stage = "answered", UNCHANGED <<start, ran>>
  PROVE  Calm(x)'
<1> USE DEF bounds
<1> DEFINE z == rpc[p][m].at
           k == rpc[p][m].clock
           h == MachineOf(p)
           l == list[p]
           n == Listed(l, z)
           g == Listed(n, p)
           s == SlotIn(n, p)
<1>1. /\ TypeOK /\ GoesOn(p, m) /\ Waits(p, m) /\ rpc[p][m].stage \in Served
      /\ rpc[p][m] # NoCall
  BY DEF Answered, Shape, Waits, Served
<1>2. z \in Proc /\ k \in Clock
  BY <1>1, CallFacts
<1>3. /\ Rules(z) /\ MachineOf(z) = m /\ m # h /\ step[p] = "tellNet"
      /\ peer[p][m] = z /\ Ruler(z) /\ Rules(p) /\ NoOther(l, z)
  BY <1>1, AskedPlace
<1>4. /\ Ruler(p) /\ p \in up /\ h \in Machine /\ ~Untouched(h)
  BY <1>3, ProcFacts, NoPidAssumption DEF Shape, TakingInv, Ruler, Rules, Untouched
<1>5. SlotIn(l, z) # 0 /\ s # 0 /\ SetClock(p, z, k)
  BY DEF Answered
<1>6. /\ l \in PidList /\ GoodList(l, h) /\ NoOther(l, p)
  BY <1>3, OwnPlace
<1> HIDE DEF z, k, h
<1>7. PICK t \in Clocks :
         /\ Keep(p, t, g) /\ g \in PidList
         /\ s # SlotIn(l, z) => t[s][s] = times[p][s][s]
  BY <1>1, <1>2, <1>5, SetClockFacts
<1>8. /\ Packed(g) /\ OneEach(g) /\ InFront(g, h) /\ NoOther(g, p)
      /\ s \in 1 .. 2 /\ s # SlotIn(l, z) /\ g[s] = p
      /\ \A i \in Slot : g[i] \in {l[i], z, p}
      /\ \A i \in Slot : l[i] = p => i = s
  BY <1>2, <1>3, <1>6, ListedBoth DEF GoodList, h
<1> HIDE DEF s, g, n
<1>9. SameRulers
  BY <1>1, GoesOnFacts DEF GoesOn, SameRulers
<1>10. UNCHANGED <<master, peer, last, broken>>
  BY <1>1 DEF GoesOn
<1>11. GoodList(g, h)
  BY <1>4, <1>3, <1>6, <1>8 DEF GoodList, RulersOnly
<1>12. h \notin broken => Stamped(t, g, p, last'[h])
  <2> SUFFICES ASSUME h \notin broken PROVE Stamped(t, g, p, last[h])
    BY <1>10
  <2>1. Stamped(times[p], l, p, last[h])
    BY <1>3 DEF Calm, StampInv, h
  <2>2. 1 .. 2 \subseteq Slot
    BY DEF Slot
  <2> QED BY <1>7, <1>8, <2>1, <2>2 DEF Stamped
<1>13. \A o \in Others(p) : peer'[p][o] # FirstMaster(o) =>
         \A i \in Slot : g[i] # FirstMaster(o)
  <2> SUFFICES ASSUME NEW o \in Others(p), peer[p][o] # FirstMaster(o),
                      NEW i \in Slot, g[i] = FirstMaster(o)
               PROVE  FALSE
    BY <1>10
  <2>1. o \in Machine /\ MachineOf(FirstMaster(o)) = o /\ o # MachineOf(p)
    BY FirstFacts DEF Others
  <2>2. l[i] # FirstMaster(o)
    BY <1>3 DEF Calm, KnownInv
  <2>3. g[i] = z
    BY <1>8, <2>1, <2>2
  <2> QED BY <1>3, <2>1, <2>3
<1>14. /\ \A q \in Proc : /\ list'[q] = IF q = p THEN g ELSE list[q]
                          /\ times'[q] = IF q = p THEN t ELSE times[q]
                          /\ q # p => peer'[q] = peer[q]
       /\ \A o \in Machine : o # h => last'[o] = last[o]
  BY <1>1, <1>7, <1>10, KeepFacts
<1>15. ListInv' /\ OwnInv' /\ KnownInv' /\ FreshInv' /\ StampInv'
  BY <1>3, <1>4, <1>7, <1>8, <1>9, <1>10, <1>11, <1>12, <1>13, <1>14, ListChange
     DEF h
<1>16. FileInv' /\ FreshFileInv' /\ SavedInv'
  BY <1>3, <1>4, <1>7, <1>9, <1>10, <1>11, <1>12, <1>14, FileChange DEF h
<1>17. NamesInv'
  BY <1>1, <1>9, <1>10, NamesKept
<1>18. CallIs(p, m, NoCall)
  BY <1>1, CallGone
<1>19. CallerInv' /\ AskedInv'
  BY <1>1, <1>9, <1>10, <1>18, CallerChange, AskedChange
<1> QED BY <1>9, <1>15, <1>16, <1>17, <1>19, ControlKept DEF Calm

\* A master gives its own vector.
LEMMA AnswerCalm ==
  ASSUME NEW x, Shape, Calm(x), NEW p \in Proc, NEW m \in Machine, Answer(p, m),
         UNCHANGED <<start, ran>>
  PROVE  Calm(x)'
<1> USE DEF bounds
<1> DEFINE z == rpc[p][m].at
           g == Listed(list[z], z)
<1>1. TypeOK /\ rpc[p][m] \in Call /\ rpc[p][m] # NoCall
      /\ rpc[p][m].stage \in Served
  BY CallAnswers, CallFacts DEF Shape, Answer, Served
<1>2. z \in Proc
  BY <1>1 DEF Call
<1>3. Rules(z) /\ MachineOf(z) = m
  BY <1>1 DEF Shape, CallInv
<1>4. PICK v \in Clock :
        CallIs(p, m, [rpc[p][m] EXCEPT !.stage = "answered", !.clock = v])
  BY <1>1, CallAnswers
<1> DEFINE c == [rpc[p][m] EXCEPT !.stage = "answered", !.clock = v]
<1>5. /\ c.at = z /\ c.old = rpc[p][m].old /\ c.waited = rpc[p][m].waited
      /\ CallIs(p, m, c)
  BY <1>1, <1>4 DEF Call
<1>6. /\ list' = [list EXCEPT ![z] = g]
      /\ UNCHANGED <<up, master, peer, times, file, author, step, dead, last,
                     broken, bounds>>
  BY DEF Answer
<1> HIDE DEF c, z
<1>7. SameRulers
  BY <1>6 DEF SameRulers
<1>8. list[z] \in PidList /\ GoodList(list[z], m) /\ NoOther(list[z], z)
  BY <1>2, <1>3, OwnPlace
<1>9. /\ g \in PidList /\ Packed(g) /\ OneEach(g) /\ NoOther(g, z) /\ InFront(g, m)
      /\ \A i \in Slot : g[i] \in {list[z][i], z}
      /\ \A i \in 1 .. 2 : list[z][i] = z => g[i] = z
  <2>1. 1 .. 2 \subseteq Slot
    BY DEF Slot
  <2> QED BY <1>2, <1>3, <1>8, <2>1, ListedFacts, ListedPlaces, ListedSelf DEF GoodList
<1> HIDE DEF g
<1>10. Ruler(z)
  BY <1>2, <1>3 DEF Ruler, Shape, WaitingInv
<1>11. GoodList(g, m)
  BY <1>8, <1>9, <1>10 DEF GoodList, RulersOnly
<1>12. Untouched(m) => OnlyOwn(g, m)
  BY <1>2, <1>3, <1>9 DEF Calm, FreshInv, OnlyOwn
<1>13. step[z] # "slave" /\ m \notin broken => Stamped(times[z], g, z, last[m])
  BY <1>2, <1>3, <1>9 DEF Calm, StampInv, Stamped
<1>14. step[z] # "slave" =>
         \A o \in Others(z) : peer'[z][o] # FirstMaster(o) =>
           \A i \in Slot : g[i] # FirstMaster(o)
  <2> SUFFICES ASSUME step[z] # "slave", NEW o \in Others(z),
                      peer[z][o] # FirstMaster(o),
                      NEW i \in Slot, g[i] = FirstMaster(o)
               PROVE  FALSE
    BY <1>6
  <2>1. o \in Machine /\ MachineOf(FirstMaster(o)) = o /\ o # MachineOf(z)
    BY FirstFacts DEF Others
  <2> QED BY <1>2, <1>9, <2>1 DEF Calm, KnownInv
<1>15. \A q \in Proc : /\ list'[q] = IF q = z THEN g ELSE list[q]
                       /\ times'[q] = IF q = z THEN times[z] ELSE times[q]
                       /\ q # z => peer'[q] = peer[q]
  BY <1>1, <1>2, <1>6 DEF TypeOK
<1>16. ListInv' /\ OwnInv' /\ KnownInv' /\ FreshInv' /\ StampInv'
  <2>1. times[z] \in Clocks
    BY <1>1, <1>2 DEF TypeOK
  <2> QED BY <1>2, <1>3, <1>6, <1>7, <1>9, <1>11, <1>12, <1>13, <1>14, <1>15, <2>1,
             ListChange
<1>17. FileInv' /\ FreshFileInv' /\ SavedInv'
  BY <1>1, <1>6, <1>7, FilesKept DEF SameRulers
<1>18. NamesInv'
  BY <1>1, <1>6, <1>7, NamesKept
<1>19. CallerInv'
  <2>1. c # NoCall => Ruler(p) /\ c.old = FirstMaster(MachineOf(p))
    BY <1>1, <1>5 DEF Calm, CallerInv
  <2> QED BY <1>1, <1>5, <1>7, <2>1, CallerChange
<1>20. AskedInv'
  <2>1. c.waited => Waits(p, m)
    BY <1>1, <1>5 DEF Waits
  <2> QED BY <1>1, <1>5, <1>6, <2>1, AskedChange DEF z
<1> QED BY <1>7, <1>16, <1>17, <1>18, <1>19, <1>20, ControlKept DEF Calm
\* The first master, or the one who takes the place of the dead one, begins.
LEMMA StartTakeOverCalm ==
  ASSUME NEW x, Shape, Calm(x), NEW p \in Proc, StartTakeOver(p),
         UNCHANGED <<start, ran>>
  PROVE  Calm(x)'
<1> USE DEF bounds
<1> DEFINE m == MachineOf(p)
           f == FirstMaster(m)
           r == ReadList(m)
           t == ReadTimes(m)
<1>1. /\ TypeOK /\ m \in Machine /\ f \in Proc /\ MachineOf(f) = m
      /\ master[p] \in Proc /\ MachineOf(master[p]) = m
  BY ProcFacts, FirstFacts DEF Shape, TypeOK, MachineInv
<1>2. /\ p \in up /\ step[p] = "slave" /\ (master[p] = p \/ master[p] \notin up)
      /\ \A q \in Locals(p) \cap up : step[q] = "slave"
  BY DEF StartTakeOver, Elected
<1>3. \A q \in Proc : MachineOf(q) = m => step[q] = "slave"
  BY <1>2, LocalFacts DEF Shape, TakingInv, Rules
<1>4. master[p] = f
  <2>1. Ruler(master[p])
    BY DEF Calm, NamesInv
  <2> QED BY <1>1, <1>3, <2>1 DEF Ruler
<1>5. p # f => x = f
  <2>1. m \in ran
    BY <1>2 DEF Shape, RanInv
  <2> QED BY <1>1, <1>2, <1>4, <2>1 DEF Calm, DeathInv
<1>6. p = f => Untouched(m)
  BY <1>2, <1>4 DEF Shape, WaitingInv, Rules
<1>7. /\ t \in Clocks /\ r \in PidList /\ GoodList(r, m)
      /\ file[m] # NoFile => t = file[m].times /\ r = file[m].list
      /\ file[m] = NoFile => \A i \in Slot : r[i] = NoPid
  <2>1. /\ t \in Clocks /\ r \in PidList
        /\ file[m] # NoFile => t = file[m].times /\ r = file[m].list
        /\ file[m] = NoFile => r = NoList
    BY <1>1, FileFacts
  <2>2. file[m] # NoFile => GoodList(r, m)
    BY <1>1, <2>1 DEF Calm, FileInv
  <2>3. file[m] = NoFile => GoodList(r, m) /\ \A i \in Slot : r[i] = NoPid
    BY <1>1, <2>1, NoListPlaces DEF GoodList, RulersOnly
  <2> QED BY <2>1, <2>2, <2>3
<1>8. Untouched(m) => OnlyOwn(r, m) /\ last[m] = 0
  BY <1>1, <1>7 DEF Calm, FreshFileInv, OnlyOwn
<1>9. PICK l \in PidList :
        /\ l = Exchange(r, f, p)
        /\ \A i \in Slot : l[i] = IF r[i] = f THEN p ELSE r[i]
        /\ Packed(l) /\ OneEach(l) /\ InFront(l, m)
  BY <1>1, <1>7, ExchangePlaces DEF GoodList
<1>10. /\ Keep(p, t, l)
       /\ step' = [step EXCEPT ![p] = "locals"]
       /\ dead' = [dead EXCEPT ![p] = f]
       /\ master' = [master EXCEPT ![p] = p]
       /\ UNCHANGED <<up, peer, rpc, crashes, last>>
       /\ broken' = IF author[m] \in {NoPid, f} \/ p = f
                    THEN broken ELSE broken \cup {m}
  BY <1>4, <1>9 DEF StartTakeOver
<1> HIDE DEF r, t, f
<1>11. /\ \A q \in Proc : /\ step'[q] = IF q = p THEN "locals" ELSE step[q]
                          /\ dead'[q] = IF q = p THEN f ELSE dead[q]
                          /\ master'[q] = IF q = p THEN p ELSE master[q]
                          /\ list'[q] = IF q = p THEN l ELSE list[q]
                          /\ times'[q] = IF q = p THEN t ELSE times[q]
       /\ \A n \in Machine :
            /\ file'[n] = IF n = m THEN Saved(t, l) ELSE file[n]
            /\ author'[n] = IF n = m THEN p ELSE author[n]
  <2>1. \A q \in Proc : /\ step'[q] = IF q = p THEN "locals" ELSE step[q]
                        /\ dead'[q] = IF q = p THEN f ELSE dead[q]
                        /\ master'[q] = IF q = p THEN p ELSE master[q]
    BY <1>1, <1>10 DEF TypeOK
  <2> QED BY <1>1, <1>7, <1>9, <1>10, <2>1, KeepFacts
<1>12. /\ \A q \in Proc : Ruler(q)' <=> Ruler(q) \/ q = p
       /\ \A n \in Machine : Untouched(n)' <=> Untouched(n) /\ n # m
  <2>1. \A q \in Proc : Ruler(q)' <=> Ruler(q) \/ q = p
    BY <1>11 DEF Ruler
  <2>2. f # NoPid
    BY <1>1, ProcFacts
  <2> QED BY <1>11, <2>1, <2>2 DEF Untouched
<1>13. \A k \in PidList : RulersOnly(k) => RulersOnly(k)'
  BY <1>12, ListType DEF RulersOnly
<1>14. DeathInv(x)' /\ ChangeInv(x)'
  <2>1. DeathInv(x)'
    BY <1>10 DEF Calm, DeathInv
  <2>2. ChangeInv(x)'
    BY <1>5, <1>11 DEF Calm, ChangeInv, f
  <2> QED BY <2>1, <2>2
<1>15. NamesInv'
  <2>1. \A q \in Proc : master[q] \in Proc /\ \A n \in Machine : peer[q][n] \in Proc
    BY <1>1 DEF TypeOK
  <2>2. \A q \in Proc : /\ Ruler(master[q])
                        /\ \A n \in Machine : Ruler(peer[q][n])
    BY DEF Calm, NamesInv
  <2>3. \A q \in Proc : master'[q] \in Proc /\ Ruler(master[q])'
    BY <1>11, <1>12, <2>1, <2>2 DEF Ruler
  <2>4. \A q \in Proc, n \in Machine : Ruler(peer[q][n])'
    BY <1>10, <1>12, <2>1, <2>2
  <2> QED BY <2>3, <2>4 DEF NamesInv
<1>16. CallerInv' /\ AskedInv'
  BY <1>10, <1>12 DEF Calm, CallerInv, AskedInv, Waits
<1>17. GoodList(l, m)'
  <2>1. RulersOnly(l)'
    <3> SUFFICES ASSUME NEW i \in Slot, l[i] # NoPid
                 PROVE  Ruler(l[i])'
      BY DEF RulersOnly
    <3>1. l[i] \in Proc
      BY <1>9, ListType
    <3>2. l[i] = p \/ Ruler(l[i])
      BY <1>7, <1>9 DEF GoodList, RulersOnly
    <3> QED BY <1>12, <3>1, <3>2
  <2> QED BY <1>9, <2>1 DEF GoodList
<1>18. ListInv'
  <2> SUFFICES ASSUME NEW q \in Proc PROVE GoodList(list[q], MachineOf(q))'
    BY DEF ListInv
  <2>1. CASE q = p
    BY <1>11, <1>17, <2>1 DEF GoodList, RulersOnly
  <2>2. CASE q # p
    <3>1. list[q] \in PidList /\ GoodList(list[q], MachineOf(q))
      BY <1>1 DEF TypeOK, Calm, ListInv
    <3>2. list'[q] = list[q]
      BY <1>11, <2>2
    <3> QED BY <1>13, <3>1, <3>2 DEF GoodList, RulersOnly
  <2> QED BY <2>1, <2>2
<1>19. OwnInv'
  <2> SUFFICES ASSUME NEW q \in Proc, step'[q] # "slave", NEW i \in Slot,
                      list'[q][i] # NoPid, MachineOf(list'[q][i]) = MachineOf(q)
               PROVE  list'[q][i] = q
    BY DEF OwnInv
  <2>1. CASE q = p
    <3>1. l[i] # p => l[i] = r[i] /\ r[i] # f
      BY <1>9
    <3>2. l[i] # p => step[r[i]] # "slave" /\ r[i] \in Proc
      BY <1>7, <1>11, <2>1, <3>1, ListType DEF GoodList, RulersOnly, Ruler, f
    <3> QED BY <1>3, <1>11, <2>1, <3>1, <3>2
  <2>2. CASE q # p
    BY <1>11, <2>2 DEF Calm, OwnInv
  <2> QED BY <2>1, <2>2
<1>20. KnownInv'
  <2> SUFFICES ASSUME NEW q \in Proc, step'[q] # "slave", NEW n \in Others(q),
                      peer[q][n] # FirstMaster(n), NEW i \in Slot,
                      list'[q][i] = FirstMaster(n)
               PROVE  FALSE
    BY <1>10 DEF KnownInv
  <2>1. CASE q = p
    <3>1. n \in Machine /\ n # m /\ MachineOf(FirstMaster(n)) = n
          /\ FirstMaster(n) # NoPid
      BY <2>1, FirstFacts, ProcFacts DEF Others
    <3>2. r[i] = FirstMaster(n)
      BY <1>9, <1>11, <2>1, <3>1
    <3>3. ~Untouched(m)
      BY <1>8, <3>1, <3>2 DEF OnlyOwn
    <3>4. x = f
      BY <1>5, <1>6, <3>3
    <3>5. Ruler(peer[q][n]) /\ peer[q][n] \in Proc /\ MachineOf(peer[q][n]) = n
      BY <1>1, <3>1 DEF Calm, NamesInv, TypeOK, Shape, MachineInv
    <3>6. x = FirstMaster(n)
      BY <3>5 DEF Calm, ChangeInv, Ruler
    <3> QED BY <1>1, <3>1, <3>4, <3>6
  <2>2. CASE q # p
    BY <1>11, <2>2 DEF Calm, KnownInv
  <2> QED BY <2>1, <2>2
<1>21. FreshInv'
  <2> SUFFICES ASSUME NEW q \in Proc, Untouched(MachineOf(q))'
               PROVE  OnlyOwn(list'[q], MachineOf(q))
    BY DEF FreshInv, OnlyOwn
  <2>1. Untouched(MachineOf(q)) /\ q # p
    BY <1>12, ProcFacts
  <2> QED BY <1>11, <2>1 DEF Calm, FreshInv
<1>22. broken \subseteq broken'
  BY <1>10
<1>23. StampInv'
  <2> SUFFICES ASSUME NEW q \in Proc, step'[q] # "slave", MachineOf(q) \notin broken'
               PROVE  Stamped(times'[q], list'[q], q, last[MachineOf(q)])
    BY <1>10 DEF StampInv, Stamped
  <2>1. CASE q # p
    BY <1>11, <1>22, <2>1 DEF Calm, StampInv
  <2>2. CASE q = p /\ p = f
    BY <1>6, <1>8, <2>2 DEF Stamped
  <2>3. CASE q = p /\ p # f
    <3>1. author[m] \in {NoPid, f} /\ m \notin broken
      BY <1>10, <2>3
    <3>2. \/ last[m] = 0
          \/ file[m] # NoFile /\ Stamped(t, r, f, last[m])
      BY <1>1, <1>3, <1>7, <3>1 DEF Calm, SavedInv, f
    <3>3. Stamped(t, l, p, last[m])
      <4>1. 1 .. 2 \subseteq Slot
        BY DEF Slot
      <4> QED BY <1>9, <3>2, <4>1 DEF Stamped
    <3> QED BY <1>11, <2>3, <3>3
  <2> QED BY <2>1, <2>2, <2>3
<1>24. Saved(t, l) \in ClockFile /\ Saved(t, l).list = l
  BY <1>7, <1>9, SavedFacts
<1>25. FileInv'
  <2> SUFFICES ASSUME NEW n \in Machine, file'[n] # NoFile
               PROVE  GoodList(file[n].list, n)'
    BY DEF FileInv
  <2>1. CASE n = m
    BY <1>11, <1>17, <1>24, <2>1 DEF GoodList, RulersOnly
  <2>2. CASE n # m
    <3>1. file'[n] = file[n] /\ file[n].list \in PidList /\ GoodList(file[n].list, n)
      BY <1>1, <1>11, <2>2, FileFacts DEF Calm, FileInv, ClockFile
    <3> QED BY <1>13, <3>1 DEF GoodList, RulersOnly
  <2> QED BY <2>1, <2>2
<1>26. FreshFileInv'
  BY <1>10, <1>11, <1>12 DEF Calm, FreshFileInv
<1>27. SavedInv'
  <2> SUFFICES ASSUME NEW n \in Machine, n \notin broken',
                      \A q \in Proc : MachineOf(q) = n /\ step'[q] # "slave"
                                      => q = FirstMaster(n)
               PROVE  \/ author'[n] = NoPid /\ last[n] = 0
                      \/ author'[n] \notin {NoPid, FirstMaster(n)}
                      \/ /\ file'[n] # NoFile
                         /\ Stamped(file'[n].times, file'[n].list, FirstMaster(n),
                                    last[n])
    BY <1>10 DEF SavedInv
  <2>1. CASE n = m
    <3>1. p = f
      BY <1>11, <2>1 DEF f
    <3>2. last[n] = 0 /\ file'[n] # NoFile
      BY <1>6, <1>8, <1>11, <1>24, <2>1, <3>1, NoFileAssumption
    <3> QED BY <3>2 DEF Stamped
  <2>2. CASE n # m
    <3>1. \A q \in Proc : MachineOf(q) = n /\ step[q] # "slave" => q = FirstMaster(n)
      BY <1>11, <2>2
    <3> QED BY <1>11, <1>22, <2>2, <3>1 DEF Calm, SavedInv
  <2> QED BY <2>1, <2>2
<1> QED BY <1>14, <1>15, <1>16, <1>18, <1>19, <1>20, <1>21, <1>23, <1>25, <1>26, <1>27
        DEF Calm
\* A slave starts again, with the list of clock.txt and the first masters.
LEMMA RestartCalm ==
  ASSUME NEW x, Shape, Calm(x), NEW p \in Proc, NEW q \in Proc, Restart(p, q),
         UNCHANGED <<start, ran>>
  PROVE  Calm(x)'
<1> USE DEF bounds, takeOver
<1> DEFINE m == MachineOf(q)
<1>1. /\ TypeOK /\ q \notin up /\ m \in Machine /\ MachineOf(p) = m /\ step[p] # "slave"
  BY ProcFacts, LocalFacts DEF Shape, Restart, Masters
<1>2. Ruler(p) /\ step[q] = "slave" /\ ~Untouched(m)
  BY <1>1, NoPidAssumption DEF Ruler, Shape, TakingInv, Rules, Untouched
<1>3. PICK r \in PidList : r = ReadList(m) /\ GoodList(r, m)
  <2>1. CASE file[m] = NoFile
    BY <1>1, <2>1, FileFacts, NoListPlaces DEF GoodList, RulersOnly
  <2>2. CASE file[m] # NoFile
    BY <1>1, <2>2, FileFacts DEF Calm, FileInv
  <2> QED BY <2>1, <2>2
<1>4. /\ UNCHANGED <<ran, file, author, step, dead, rpc, crashes, last, broken>>
      /\ up' = up \cup {q}
      /\ list' = [list EXCEPT ![q] = r]
      /\ \A n \in Proc : /\ master'[n] = IF n = q THEN p ELSE master[n]
                         /\ \A o \in Machine :
                              peer'[n][o] = IF n = q THEN FirstMaster(o) ELSE peer[n][o]
                         /\ n # q => times'[n] = times[n]
  BY <1>1, <1>3 DEF Restart, TypeOK
<1>5. \A n \in Proc : list'[n] = IF n = q THEN r ELSE list[n]
  BY <1>1, <1>4 DEF TypeOK
<1>6. /\ \A n \in Proc : Ruler(n)' <=> Ruler(n)
      /\ \A n \in Machine : Untouched(n)' <=> Untouched(n)
  BY <1>4 DEF Ruler, Untouched
<1>7. \A k \in PidList : RulersOnly(k) => RulersOnly(k)'
  BY <1>6, ListType DEF RulersOnly
<1>8. DeathInv(x)' /\ ChangeInv(x)' /\ CallerInv'
  BY <1>4, <1>6 DEF Calm, DeathInv, ChangeInv, CallerInv
<1>9. NamesInv'
  <2>1. \A n \in Proc : /\ master[n] \in Proc /\ Ruler(master[n])
                        /\ \A o \in Machine : peer[n][o] \in Proc /\ Ruler(peer[n][o])
    BY <1>1 DEF TypeOK, Calm, NamesInv
  <2>2. \A o \in Machine : FirstMaster(o) \in Proc /\ Ruler(FirstMaster(o))
    BY FirstFacts DEF Ruler
  <2>3. \A n \in Proc : /\ master'[n] \in Proc /\ Ruler(master'[n])
                        /\ \A o \in Machine : peer'[n][o] \in Proc /\ Ruler(peer'[n][o])
    BY <1>2, <1>4, <2>1, <2>2
  <2> QED BY <1>4, <2>3 DEF NamesInv, Ruler
<1>10. AskedInv'
  <2> SUFFICES ASSUME NEW n \in Proc, NEW o \in Machine, Waits(n, o)
               PROVE  peer'[n][o] = rpc[n][o].at
    BY <1>4 DEF AskedInv, Waits
  <2>1. n # q
    BY <1>2 DEF Shape, CallInv, Waits
  <2> QED BY <1>4, <2>1 DEF Calm, AskedInv
<1>11. ListInv'
  <2> SUFFICES ASSUME NEW n \in Proc PROVE GoodList(list[n], MachineOf(n))'
    BY DEF ListInv
  <2>1. list'[n] \in PidList /\ GoodList(list'[n], MachineOf(n))
    BY <1>1, <1>3, <1>5 DEF TypeOK, Calm, ListInv
  <2> QED BY <1>7, <2>1 DEF GoodList, RulersOnly
<1>12. OwnInv' /\ KnownInv' /\ StampInv'
  BY <1>2, <1>4, <1>5 DEF Calm, OwnInv, KnownInv, StampInv, Others
<1>13. FreshInv'
  BY <1>2, <1>5, <1>6, ProcFacts DEF Calm, FreshInv
<1>14. FileInv' /\ FreshFileInv' /\ SavedInv'
  BY <1>1, <1>4, FilesKept
<1> QED BY <1>8, <1>9, <1>10, <1>11, <1>12, <1>13, <1>14 DEF Calm

\* The first death: only first masters have taken over until now.
LEMMA CrashCalm ==
  ASSUME NEW x \in Proc \cup {NoPid}, Shape, Calm(x), NEW p \in Proc, Crash(p),
         OneDeath', UNCHANGED <<start, ran>>
  PROVE  Calm(p)'
<1> USE DEF clocks
<1>1. /\ TypeOK /\ Ends(p) /\ crashes' = crashes + 1 /\ crashes \in Nat
      /\ UNCHANGED <<master, peer, clocks, dead, last, broken, ran>>
  BY BoundsAssumption DEF Shape, TypeOK, Crash, Ends
<1>2. crashes = 0 /\ crashes' # 0 /\ x = NoPid
  BY <1>1 DEF OneDeath, Calm, DeathInv
<1>3. \A q \in Proc : /\ q \in up' <=> q \in up /\ q # p
                      /\ step'[q] # "slave" => step[q] # "slave"
  BY <1>1 DEF TypeOK, Ends
<1>4. \A q \in Proc : step[q] # "slave" =>
        /\ q = FirstMaster(MachineOf(q))
        /\ dead[q] = FirstMaster(MachineOf(q))
  <2> SUFFICES ASSUME NEW q \in Proc, step[q] # "slave"
               PROVE  /\ q = FirstMaster(MachineOf(q))
                      /\ dead[q] = FirstMaster(MachineOf(q))
    OBVIOUS
  <2>1. FirstMaster(MachineOf(q)) # NoPid
    BY ProcFacts, FirstFacts
  <2> QED BY <1>2, <2>1 DEF Calm, ChangeInv
<1>5. /\ \A q \in Proc : Ruler(q) <=> q = FirstMaster(MachineOf(q))
      /\ \A q \in Proc : Ruler(q)' <=> Ruler(q)
      /\ \A n \in Machine : Untouched(n)' <=> Untouched(n)
  BY <1>1, <1>3, <1>4 DEF Ruler, Untouched
<1>6. \A k \in PidList : RulersOnly(k) => RulersOnly(k)'
  BY <1>5, ListType DEF RulersOnly
<1>7. DeathInv(p)' /\ ChangeInv(p)'
  <2>1. \A q \in Proc : MachineOf(q) \in ran /\ q # p => q \in up'
    BY <1>2, <1>3, ProcFacts DEF Calm, DeathInv
  <2>2. DeathInv(p)'
    BY <1>1, <1>2, <2>1 DEF DeathInv
  <2>3. ChangeInv(p)'
    BY <1>1, <1>3, <1>4 DEF ChangeInv
  <2> QED BY <2>2, <2>3
<1>8. NamesInv'
  <2>1. \A n \in Proc : /\ master[n] \in Proc /\ Ruler(master[n])
                        /\ \A o \in Machine : peer[n][o] \in Proc /\ Ruler(peer[n][o])
    BY <1>1 DEF TypeOK, Calm, NamesInv
  <2> QED BY <1>1, <1>5, <2>1 DEF NamesInv, Ruler
<1>9. CallerInv' /\ AskedInv'
  <2>1. \A q \in Proc, m \in Machine : rpc'[q][m] # NoCall =>
          /\ rpc[q][m] # NoCall
          /\ rpc'[q][m].old = rpc[q][m].old /\ rpc'[q][m].at = rpc[q][m].at
          /\ rpc'[q][m].waited => rpc[q][m].waited
          /\ rpc'[q][m].stage \in Served => rpc[q][m].stage \in Served
    BY <1>1, EndsFacts DEF Served
  <2>2. CallerInv'
    BY <1>5, <2>1 DEF Calm, CallerInv
  <2>3. AskedInv'
    BY <1>1, <2>1 DEF Calm, AskedInv, Waits
  <2> QED BY <2>2, <2>3
<1>10. ListInv'
  BY <1>1, <1>6 DEF Calm, ListInv, GoodList, TypeOK
<1>11. FileInv'
  <2> SUFFICES ASSUME NEW m \in Machine, file[m] # NoFile
               PROVE  GoodList(file[m].list, m)'
    BY <1>1 DEF FileInv
  <2>1. file[m].list \in PidList /\ GoodList(file[m].list, m)
    BY <1>1, FileFacts DEF ClockFile, Calm, FileInv
  <2> QED BY <1>1, <1>6, <2>1 DEF GoodList
<1>12. OwnInv' /\ KnownInv' /\ StampInv'
  BY <1>1, <1>3 DEF Calm, OwnInv, KnownInv, StampInv
<1>13. FreshInv' /\ FreshFileInv'
  BY <1>1, <1>5, ProcFacts DEF Calm, FreshInv, FreshFileInv
<1>14. SavedInv'
  BY <1>1, <1>4 DEF Calm, SavedInv
<1> QED BY <1>7, <1>8, <1>9, <1>10, <1>11, <1>12, <1>13, <1>14 DEF Calm

-----------------------------------------------------------------------------
(***************************************************************************)
(* The invariant                                                           *)
(***************************************************************************)

LEMMA InitCalm ==
  ASSUME Init
  PROVE  Calm(NoPid)
<1>1. \A p \in Proc : MachineOf(p) \in Machine /\ p # NoPid
  BY ProcFacts
<1>2. \A m \in Machine : FirstMaster(m) \in Proc /\ MachineOf(FirstMaster(m)) = m
  BY FirstFacts
<1>3. /\ \A m \in Machine : file[m] = NoFile /\ author[m] = NoPid /\ last[m] = 0
      /\ \A p \in Proc : /\ list[p] = NoList /\ step[p] = "slave"
                         /\ master[p] = FirstMaster(MachineOf(p))
                         /\ \A m \in Machine : /\ peer[p][m] = FirstMaster(m)
                                               /\ rpc[p][m] = NoCall
      /\ ran = {} /\ crashes = 0
  BY DEF Init
<1>4. DeathInv(NoPid) /\ ChangeInv(NoPid)
  BY <1>1, <1>3 DEF DeathInv, ChangeInv
<1>5. NamesInv
  BY <1>1, <1>2, <1>3 DEF NamesInv, Ruler
<1>6. CallerInv /\ AskedInv
  BY <1>3 DEF CallerInv, AskedInv, Waits
<1>7. ListInv
  BY <1>3, NoListPlaces DEF ListInv, GoodList, RulersOnly
<1>8. OwnInv /\ KnownInv /\ StampInv
  BY <1>3 DEF OwnInv, KnownInv, StampInv
<1>9. FreshInv
  BY <1>3, NoListPlaces DEF FreshInv, OnlyOwn
<1>10. FileInv /\ FreshFileInv /\ SavedInv
  BY <1>3 DEF FileInv, FreshFileInv, SavedInv
<1> QED BY <1>4, <1>5, <1>6, <1>7, <1>8, <1>9, <1>10 DEF Calm

LEMMA NextCalm ==
  ASSUME NEW x \in Proc \cup {NoPid}, Shape, HoldInv, Calm(x), [Next]_vars,
         OneDeath'
  PROVE  \E y \in Proc \cup {NoPid} : Calm(y)'
<1>1. CASE UNCHANGED vars
  <2>1. SameRulers /\ UNCHANGED <<clocks, peer, master, last, broken>> /\ rpc' = rpc
    BY <1>1 DEF vars, takeOver, bounds, SameRulers
  <2>2. TypeOK
    BY DEF Shape
  <2>3. CallerInv' /\ AskedInv'
    BY <2>1, <2>2, CallerKept
  <2> QED BY <2>1, <2>2, <2>3, QuietCalm
<1>2. CASE Next
  <2>1. ASSUME NEW m \in Machine, Run(m), UNCHANGED start PROVE Calm(x)'
    BY <2>1, RunCalm
  <2>2. CASE Step /\ UNCHANGED <<start, ran>>
    <3>1. ASSUME NEW p \in Proc, Loop(p) PROVE Calm(x)'
      <4>1. ASSUME NEW m \in Machine, Answered(p, m) PROVE Calm(x)'
        BY <2>2, <4>1, AnsweredCalm, CallEndsCalm
      <4> QED BY <2>2, <3>1, <4>1, TellLocalsCalm, StartNetCalm, TellCalm,
                 CallEndsCalm DEF Loop
    <3>2. ASSUME NEW p \in Proc, NEW m \in Machine, Handler(p, m) \/ Late(p, m)
          PROVE  Calm(x)'
      BY <2>2, <3>2, BeginCalm, StartForwardCalm, AnswerCalm, CallEndsCalm,
         ForwardCalm DEF Handler
    <3>3. ASSUME NEW p \in Proc, StartTakeOver(p) \/ Request(p)
          PROVE  Calm(x)'
      BY <2>2, <3>3, StartTakeOverCalm, RequestCalm
    <3>4. ASSUME NEW p \in Proc, Crash(p)
          PROVE  Calm(p)'
      BY <2>2, <3>4, CrashCalm
    <3>5. ASSUME NEW p \in Proc, NEW q \in Proc, Compare(p, q) \/ Restart(p, q)
          PROVE  Calm(x)'
      BY <2>2, <3>5, CompareCalm, RestartCalm
    <3> QED BY <2>2, <3>1, <3>2, <3>3, <3>4, <3>5 DEF Step, Work
  <2> QED BY <1>2, <2>1, <2>2 DEF Next
<1> QED BY <1>1, <1>2

LEMMA DeathsGrow == TypeOK /\ [Next]_vars /\ OneDeath' => OneDeath
<1> SUFFICES ASSUME TypeOK, [Next]_vars, OneDeath' PROVE OneDeath
  OBVIOUS
<1>1. crashes \in Int /\ crashes' \in {crashes, crashes + 1}
  <2>1. crashes \in Int
    BY DEF TypeOK
  <2>2. ASSUME NEW p \in Proc, NEW m \in Machine PROVE
          Handler(p, m) \/ Late(p, m) \/ Answered(p, m) \/ Failed(p, m) \/ Tell(p, m)
          => crashes' = crashes
    BY DEF Handler, Begin, StartForward, Answer, Dropped, Forward, Late, Answered, Failed,
           Tell, GoesOn, bounds
  <2>3. ASSUME NEW p \in Proc PROVE
          Loop(p) \/ StartTakeOver(p) \/ Request(p) \/ Crash(p)
          => crashes' \in {crashes, crashes + 1}
    BY <2>2 DEF Loop, TellLocals, StartNet, StartTakeOver, Request, Crash, bounds
  <2>4. ASSUME NEW p \in Proc, NEW q \in Proc PROVE
          Compare(p, q) \/ Restart(p, q) => crashes' = crashes
    BY DEF Compare, Restart, bounds
  <2>5. ASSUME NEW m \in Machine PROVE Run(m) => crashes' = crashes
    BY DEF Run, bounds
  <2>6. UNCHANGED vars => crashes' = crashes
    BY DEF vars, bounds
  <2> QED BY <2>1, <2>2, <2>3, <2>4, <2>5, <2>6 DEF Next, Step, Work
<1> QED BY <1>1 DEF OneDeath

\* The invariant that the safety of the vectors rests on: one ruler for each
\* machine, one place for each machine in every list, and the last stamp of a
\* machine in the place of its ruler (vector_clock.cc with takeOverMaster,
\* NotifyNewNetMaster and the restart of slaves).
THEOREM Invariant == Spec => []IInv
<1>1. Init => IInv
  <2>1. Init => HoldInv
    BY DEF Init, HoldInv, NoCall
  <2> QED BY <2>1, InitShape, InitCalm DEF IInv
<1>2. IInv /\ [Next]_vars => IInv'
  <2> SUFFICES ASSUME IInv, [Next]_vars PROVE IInv'
    OBVIOUS
  <2>1. Shape' /\ HoldInv'
    BY NextShape, NextHold DEF IInv
  <2>2. ASSUME OneDeath' PROVE \E y \in Proc \cup {NoPid} : Calm(y)'
    <3>1. OneDeath
      BY <2>2, DeathsGrow DEF IInv, Shape
    <3>2. PICK x \in Proc \cup {NoPid} : Calm(x)
      BY <3>1 DEF IInv
    <3> QED BY <2>2, <3>2, NextCalm DEF IInv
  <2> QED BY <2>1, <2>2 DEF IInv
<1> QED BY <1>1, <1>2, PTL DEF Spec
\* A list in which the machine of z is not yet has a free place: four machines
\* are too many.
LEMMA FreePlace ==
  ASSUME NEW l \in PidList, NEW z \in Proc, OneEach(l), NoOther(l, z)
  PROVE  SlotIn(l, z) # 0
<1> SUFFICES ASSUME SlotIn(l, z) = 0 PROVE FALSE
  OBVIOUS
<1>1. \A i \in Slot : l[i] \in Proc /\ l[i] # NoPid /\ l[i] # z
  BY SlotInFacts, ListType
<1>2. /\ 1 \in Slot /\ 2 \in Slot /\ 3 \in Slot
  BY DEF Slot
<1> DEFINE a == MachineOf(l[1])
           b == MachineOf(l[2])
           c == MachineOf(l[3])
           d == MachineOf(z)
<1>3. a \in Machine /\ b \in Machine /\ c \in Machine /\ d \in Machine
  BY <1>1, <1>2, ProcFacts
<1>4. a # b /\ a # c /\ b # c /\ a # d /\ b # d /\ c # d
  <2>1. a # b /\ a # c /\ b # c
    BY <1>1, <1>2 DEF OneEach
  <2>2. a # d /\ b # d /\ c # d
    BY <1>1, <1>2 DEF NoOther
  <2> QED BY <2>1, <2>2
<1> HIDE DEF a, b, c, d
<1> DEFINE A == {a}
           B == A \cup {b}
           C == B \cup {c}
           D == C \cup {d}
<1>5. IsFiniteSet(A) /\ Cardinality(A) = 1
  BY FS_Singleton
<1>6. IsFiniteSet(B) /\ Cardinality(B) = 2
  <2>1. b \notin A
    BY <1>4
  <2> HIDE DEF A
  <2> QED BY <1>5, <2>1, FS_AddElement
<1>7. IsFiniteSet(C) /\ Cardinality(C) = 3
  <2>1. c \notin B
    BY <1>4
  <2> HIDE DEF B
  <2> QED BY <1>6, <2>1, FS_AddElement
<1>8. IsFiniteSet(D) /\ Cardinality(D) = 4
  <2>1. d \notin C
    BY <1>4
  <2> HIDE DEF C
  <2> QED BY <1>7, <2>1, FS_AddElement
<1>9. D \in SUBSET Machine
  BY <1>3
<1>10. Cardinality(D) <= Cardinality(Machine)
  <2> HIDE DEF D
  <2> QED BY <1>9, MachineAssumption, FS_Subset
<1>11. Cardinality(Machine) \in Nat
  BY MachineAssumption, FS_CardinalityType
<1> HIDE DEF D
<1> QED BY <1>8, <1>10, <1>11, MachineAssumption

-----------------------------------------------------------------------------
(***************************************************************************)
(* The properties                                                          *)
(***************************************************************************)

\* Who has taken over finds itself in the first two slots of its list, in one
\* of them only: what P2PLock starts from (getPsTimeId, and exchangeTimeId of
\* takeOverMaster).
THEOREM OwnSlots == Spec => []OwnSlot
<1>1. IInv => OwnSlot
  <2> SUFFICES ASSUME IInv, OneDeath, NEW p \in Masters, NEW i \in Slot, list[p][i] = p
               PROVE  i # 3 /\ SlotIn(list[p], p) = i
    BY DEF OwnSlot
  <2>1. PICK x \in Proc \cup {NoPid} : Calm(x)
    BY DEF IInv
  <2>2. p \in Proc /\ Rules(p)
    BY DEF IInv, Shape, TypeOK, TakingInv, Masters
  <2>3. list[p] \in PidList /\ GoodList(list[p], MachineOf(p)) /\ NoOther(list[p], p)
    BY <2>1, <2>2, OwnPlace DEF IInv
  <2>4. SlotIn(list[p], p) \in 1 .. 2 /\ SlotIn(list[p], p) = i
    BY <2>2, <2>3, ListedSelf DEF GoodList
  <2> QED BY <2>4
<1> QED BY <1>1, Invariant, PTL

\* A list of a master never has a dead master beside the new one of its machine
\* (exchangeTimeId at every NotifyNewNetMaster, before any answer is listed).
THEOREM OneIdPerMachine == Spec => []OnePerMachine
<1>1. IInv => OnePerMachine
  <2> SUFFICES ASSUME IInv, OneDeath, NEW p \in Masters, NEW i \in Slot, NEW j \in Slot,
                      i # j, list[p][i] # NoPid, list[p][j] # NoPid
               PROVE  MachineOf(list[p][i]) # MachineOf(list[p][j])
    BY DEF OnePerMachine
  <2>1. PICK x \in Proc \cup {NoPid} : Calm(x)
    BY DEF IInv
  <2>2. p \in Proc
    BY DEF IInv, Shape, TypeOK, Masters
  <2> QED BY <2>1, <2>2 DEF Calm, ListInv, GoodList, OneEach
<1> QED BY <1>1, Invariant, PTL

\* "return NULL; // never happends" of getPsTimeId: a master that stamps, a
\* handler that answers and a takeover that is answered always find a place.
THEOREM NullNever == Spec => []NeverNull
<1>1. IInv => NeverNull
  <2> SUFFICES ASSUME IInv, OneDeath, NEW p \in Proc, NoSlot(p)
               PROVE  FALSE
    BY DEF NeverNull
  <2>1. PICK x \in Proc \cup {NoPid} : Calm(x)
    BY DEF IInv
  <2>2. Shape /\ TypeOK /\ list[p] \in PidList /\ MachineOf(p) \in Machine
    BY ProcFacts DEF IInv, Shape, TypeOK
  <2>3. ASSUME Rules(p)
        PROVE  /\ GoodList(list[p], MachineOf(p)) /\ NoOther(list[p], p)
               /\ SlotIn(list[p], p) # 0
    <3>1. GoodList(list[p], MachineOf(p)) /\ NoOther(list[p], p)
      BY <2>1, <2>2, <2>3, OwnPlace
    <3>2. SlotIn(list[p], p) \in 1 .. 2
      BY <2>2, <3>1, ListedSelf DEF GoodList
    <3> QED BY <3>1, <3>2
  <2>4. ASSUME p \in Masters PROVE SlotIn(list[p], p) # 0
    <3>1. Rules(p)
      BY <2>2, <2>4 DEF Masters, Shape, TakingInv
    <3> QED BY <2>3, <3>1
  <2>5. ASSUME NEW q \in Proc, rpc[q][MachineOf(p)].stage = "forwarding",
               rpc[q][MachineOf(p)].at = p
        PROVE  SlotIn(list[p], p) # 0
    <3>1. rpc[q][MachineOf(p)] # NoCall /\ rpc[q][MachineOf(p)].stage \in Served
      BY <2>2, <2>5, CallFacts DEF Served
    <3>2. Rules(p)
      BY <2>2, <2>5, <3>1 DEF Shape, CallInv
    <3> QED BY <2>3, <3>2
  <2>6. ASSUME NEW m \in Machine, Waits(p, m), rpc[p][m].stage = "answered"
        PROVE  LET l == Listed(list[p], rpc[p][m].at)
               IN SlotIn(l, rpc[p][m].at) # 0 /\ SlotIn(l, p) # 0
    <3> DEFINE z == rpc[p][m].at
               l == Listed(list[p], z)
    <3>1. /\ z \in Proc /\ MachineOf(z) = m /\ m # MachineOf(p)
          /\ Rules(p) /\ NoOther(list[p], z)
      BY <2>1, <2>2, <2>6, AskedPlace
    <3> HIDE DEF z
    <3>2. GoodList(list[p], MachineOf(p)) /\ NoOther(list[p], p)
      BY <2>3, <3>1
    <3>3. l \in PidList /\ SlotIn(l, p) \in 1 .. 2
      BY <2>2, <3>1, <3>2, ListedBoth DEF GoodList
    <3>4. SlotIn(list[p], z) \in Slot
      BY <2>2, <3>1, <3>2, FreePlace, SlotInFacts DEF GoodList
    <3>5. l[SlotIn(list[p], z)] = z
      BY <2>2, <3>1, <3>4, ListedFacts
    <3> HIDE DEF l
    <3>6. SlotIn(l, z) # 0
      BY <3>1, <3>3, <3>4, <3>5, SlotInFacts
    <3> QED BY <3>3, <3>6 DEF l, z
  <2> QED BY <2>4, <2>5, <2>6 DEF NoSlot
<1> QED BY <1>1, Invariant, PTL

\* The stamps of a machine grow across the death of its master, since the new
\* one goes on from what the dead one has saved in clock.txt (requestTime,
\* saveToFile and init of vector_clock.cc).
THEOREM StampsOnlyGrow == Spec => StampsGrow
<1> DEFINE Grows == \A p \in Proc : LET m == MachineOf(p) IN
             Request(p) /\ m \notin broken /\ OneDeath => last'[m] > last[m]
<1>1. IInv => Grows
  <2> SUFFICES ASSUME IInv, OneDeath, NEW p \in Proc, Request(p),
                      MachineOf(p) \notin broken
               PROVE  last'[MachineOf(p)] > last[MachineOf(p)]
    OBVIOUS
  <2> DEFINE s == SlotIn(list[p], p)
             d == RequestTime(times[p][s], s)
             t == [times[p] EXCEPT ![s] = d]
             m == MachineOf(p)
  <2>1. PICK x \in Proc \cup {NoPid} : Calm(x)
    BY DEF IInv
  <2>2. /\ TypeOK /\ Shape /\ m \in Machine /\ last[m] \in Nat
        /\ Rules(p) /\ step[p] # "slave"
    BY ProcFacts DEF IInv, Shape, TypeOK, TakingInv, Request, Masters
  <2>3. /\ s # 0 /\ Keep(p, t, Listed(list[p], p))
        /\ last' = [last EXCEPT ![m] = t[s][s]]
    BY DEF Request, RequestTimeOf
  <2>4. Zero \in Clock
    BY DEF Zero, Clock
  <2>5. s \in Slot /\ times[p][s][s] \in Nat /\ t[s][s] = times[p][s][s] + 1
    <3> HIDE DEF s
    <3> QED BY <2>2, <2>3, <2>4, StampFacts DEF s
  <2>6. /\ list[p] \in PidList /\ GoodList(list[p], m) /\ NoOther(list[p], p)
    BY <2>1, <2>2, OwnPlace
  <2>7. \A i \in Slot : list[p][i] = p => i = s
    BY <2>6, ListedSelf DEF GoodList
  <2>8. last[m] = 0 \/ times[p][s][s] >= last[m]
    <3>1. Stamped(times[p], list[p], p, last[m])
      BY <2>1, <2>2 DEF Calm, StampInv
    <3>2. 1 .. 2 \subseteq Slot
      BY DEF Slot
    <3> QED BY <2>7, <3>1, <3>2 DEF Stamped
  <2>9. last'[m] = t[s][s]
    BY <2>2, <2>3 DEF TypeOK
  <2> HIDE DEF s, t, m
  <2> QED BY <2>2, <2>5, <2>8, <2>9 DEF m
<1>2. Spec => [][Grows]_vars
  <2> HIDE DEF Grows
  <2> QED BY <1>1, Invariant, PTL
<1> QED BY <1>2 DEF StampsGrow
=============================================================================
