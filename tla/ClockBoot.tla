----------------------------- MODULE ClockBoot -----------------------------
(***************************************************************************)
(* How the vector clocks of hw3 start and survive: the vectors, pid_List   *)
(* and clock.txt of hw3/src/ft/vector_clock.cc, with the takeover          *)
(* (failure_detector.cc) and NotifyNewNetMaster (p2p_server.cc), which     *)
(* exchange them between machines.                                         *)
(*                                                                         *)
(* Every process has vectors of its own; all processes of a machine write  *)
(* the same clock.txt.  A process that takes over reads it, puts itself in *)
(* the place of the dead master, and tells the master of every other       *)
(* machine, which tells its slaves and answers with its own vector.  Both  *)
(* the caller and the process that is called hold _comm._lock meanwhile.   *)
(*                                                                         *)
(* When the lock (P2PLock) stamps a request or compares a stamp is left    *)
(* open here: a master may do it at any time.  Who takes over is decided   *)
(* by Election: here any live process of the machine.                      *)
(***************************************************************************)
EXTENDS Integers, FiniteSets, VectorClock

CONSTANTS
  Machine,      \* the machines
  Size,         \* the number of processes of each machine
  NoPid,        \* -1 in pid_List, and nobody where a process is expected
  NoFile,       \* there is no clock.txt
  Starts,       \* in which order machines are started, 0 for never
  Busy,         \* bound: the machines whose masters stamp requests
  Mortal,       \* bound: the processes that may be killed
  MaxTicks,     \* bound: stamps and comparisons, all together
  MaxCrashes    \* bound: processes that are killed

\* Three vectors and three places in pid_List: the cluster has three machines.
ASSUME MachineAssumption == IsFiniteSet(Machine) /\ Cardinality(Machine) <= 3
ASSUME SizeAssumption == Size \in [Machine -> Nat \ {0}]
ASSUME StartsAssumption == Starts \subseteq [Machine -> Nat]
ASSUME BoundsAssumption == MaxTicks \in Nat /\ MaxCrashes \in Nat

\* A process is named by its machine and its place in the order of ids.
Proc == UNION {{m} \X (1 .. Size[m]) : m \in Machine}
ASSUME NoPidAssumption == NoPid \notin Proc

\* The three vectors, pid_List, and what saveToFile writes.
Clocks == [Slot -> Clock]
PidList == [Slot -> Proc \cup {NoPid}]
ClockFile == [times : Clocks, list : PidList]
ASSUME NoFileAssumption == NoFile \notin ClockFile

MachineOf(p) == p[1]
Locals(p) == {q \in Proc : MachineOf(q) = MachineOf(p) /\ q # p}
Others(p) == Machine \ {MachineOf(p)}

VARIABLES
  start,    \* the order in which the machines are started
  ran,      \* the machines whose processes run.py has started
  up,       \* the processes that run
  master,   \* _master of a process
  peer,     \* its clients of the other machines: the net master of each
  times,    \* Time_P1, Time_P2, Time_P3 of a process
  list,     \* its pid_List
  file,     \* clock.txt of a machine
  step,     \* where takeOverMaster of a process is
  dead,     \* its dead_id
  todo,     \* what its loop has still to tell
  holds,    \* _comm._lock of a process: free, its takeover, or a handler
  rpc,      \* NotifyNewNetMaster of a process at another machine
  ticks, crashes, \* bounds
  last,     \* history: the last stamp of a machine, its own component
  author,   \* history: the process that wrote clock.txt of a machine
  broken    \* history: machines where a process took over with a slave's clock

clocks   == <<times, list, file, author>>
takeOver == <<step, dead, todo, holds, rpc>>
bounds   == <<ticks, crashes>>
vars == <<start, ran, up, master, peer, clocks, takeOver, bounds, last, broken>>

-----------------------------------------------------------------------------
(***************************************************************************)
(* vector_clock.cc                                                         *)
(***************************************************************************)

\* Mutant: the last free slot.
SlotInLast(l, pid) ==
  IF \E i \in Slot : l[i] \in {pid, NoPid}
  THEN CHOOSE i \in Slot : /\ l[i] \in {pid, NoPid}
                           /\ \A j \in i + 1 .. 3 : l[j] \notin {pid, NoPid}
  ELSE 0

\* getPsTimeId, the index: the slot of pid, or the first free one, whichever
\* comes first; a full list without pid has none, and NULL is returned.
SlotIn(l, pid) ==
  IF \E i \in Slot : l[i] \in {pid, NoPid}
  THEN CHOOSE i \in Slot : /\ l[i] \in {pid, NoPid}
                           /\ \A j \in 1 .. i - 1 : l[j] \notin {pid, NoPid}
  ELSE 0

\* getPsTimeId, its side effect.
Listed(l, pid) ==
  IF SlotIn(l, pid) = 0 THEN l ELSE [l EXCEPT ![SlotIn(l, pid)] = pid]

\* Mutant: the dead id stays.
ExchangeNothing(l, old, new) == l

\* exchangeTimeId: the first place of the old id.
Exchange(l, old, new) ==
  [i \in Slot |-> IF l[i] = old /\ \A j \in 1 .. i - 1 : l[j] # old
                  THEN new ELSE l[i]]

NoClocks == [i \in Slot |-> Zero]
NoList   == [i \in Slot |-> NoPid]

\* Mutant: the first vector is written in every line.
SavedTwice(t, l) == [times |-> [i \in Slot |-> t[1]], list |-> l]

\* Mutant: only two vectors are written.
SavedShort(t, l) == [times |-> [i \in 1 .. 2 |-> t[i]], list |-> l]

\* saveToFile: Time_P2 is written in the place of Time_P3, too.
Saved(t, l) == [times |-> [t EXCEPT ![3] = t[2]], list |-> l]

\* init: what clock.txt says, or zeros.
ReadTimes(m) == IF file[m] = NoFile THEN NoClocks ELSE file[m].times
ReadList(m)  == IF file[m] = NoFile THEN NoList ELSE file[m].list

\* Process p has new vectors and a new list, and saves them.
Keep(p, t, l) ==
  /\ times' = [times EXCEPT ![p] = t]
  /\ list' = [list EXCEPT ![p] = l]
  /\ file' = [file EXCEPT ![MachineOf(p)] = Saved(t, l)]
  /\ author' = [author EXCEPT ![MachineOf(p)] = p]

\* requestTime, by the lock of a master.
RequestTimeOf(p) ==
  LET l == Listed(list[p], p)
      s == SlotIn(list[p], p)
      t == [times[p] EXCEPT ![s] = RequestTime(@, s)]
  IN /\ Keep(p, t, l)
     /\ last' = [last EXCEPT ![MachineOf(p)] = t[s][s]]

\* comparison, by the handler of the lock, with the stamp of another machine.
ComparisonOf(p, rec) ==
  LET l == Listed(list[p], p)
      s == SlotIn(list[p], p)
  IN /\ Keep(p, [times[p] EXCEPT ![s] = Compared(rec, @, s)], l)
     /\ UNCHANGED last

\* setClock: the vector of the peer is kept, and its component for the peer,
\* by the slots of this process, goes into the own vector.
SetClock(p, pid, clock) ==
  LET l1 == Listed(list[p], pid)
      i  == SlotIn(list[p], pid)
      l2 == Listed(l1, p)
      t  == [times[p] EXCEPT ![i] = clock]
  IN Keep(p, [t EXCEPT ![SlotIn(l1, p)][i] = clock[i]], l2)

\* P2PComm::init: the largest id of each machine is its master.
FirstMaster(m) == <<m, Size[m]>>

-----------------------------------------------------------------------------
\* The first master of a machine has done what takeOverMaster does.
Started(m) == dead[FirstMaster(m)] # NoPid
              /\ step[FirstMaster(m)] \in {"slave", "done"}

\* run.py: all processes of a machine are started, when those of the machines
\* before it are.
Run(m) ==
  /\ start[m] > 0 /\ m \notin ran
  /\ \A x \in Machine : start[x] \in 1 .. start[m] - 1 => Started(x)
  /\ ran' = ran \cup {m}
  /\ up' = up \cup {p \in Proc : MachineOf(p) = m}
  /\ UNCHANGED <<master, peer, clocks, takeOver, bounds, last, broken>>

Masters == {p \in up : step[p] # "slave"}
NoCall == [stage |-> "none"]

\* A process ends.  The calls to it fail; those it was making have nobody who
\* waits for them.
Ends(p) ==
  /\ up' = up \ {p}
  /\ step' = [step EXCEPT ![p] = "slave"]
  /\ todo' = [todo EXCEPT ![p] = {}]
  /\ holds' = [holds EXCEPT ![p] = NoPid]
  /\ rpc' = [q \in Proc |-> [m \in Machine |-> LET c == rpc[q][m] IN
       IF c = NoCall THEN NoCall
       ELSE IF c.at = p
       THEN IF c.waited THEN [c EXCEPT !.stage = "failed"] ELSE NoCall
       ELSE IF q = p THEN [c EXCEPT !.waited = FALSE]
       ELSE c]]
  /\ UNCHANGED dead

Tick == ticks < MaxTicks /\ ticks' = ticks + 1

\* A master stamps a request for the lock.
Request(p) ==
  /\ p \in Masters /\ MachineOf(p) \in Busy
  /\ Tick
  /\ SlotIn(list[p], p) # 0
  /\ RequestTimeOf(p)
  /\ UNCHANGED <<up, master, peer, takeOver, crashes, broken>>

\* A master compares the stamp of another with its own vector.
Compare(p, q) ==
  /\ p \in Masters /\ q \in Masters /\ MachineOf(p) # MachineOf(q)
  /\ last[MachineOf(q)] > 0
  /\ Tick
  /\ SlotIn(list[p], p) # 0 /\ SlotIn(list[q], q) # 0
  /\ ComparisonOf(p, times[q][SlotIn(list[q], q)])
  /\ UNCHANGED <<up, master, peer, takeOver, crashes, broken>>

-----------------------------------------------------------------------------
(***************************************************************************)
(* takeOverMaster                                                          *)
(***************************************************************************)

\* Who takes over: the first master of a machine, or, when its master is
\* dead, a slave while no other does.
Elected(p) ==
  /\ p \in up /\ step[p] = "slave"
  /\ \A q \in Locals(p) \cap up : step[q] = "slave"
  /\ master[p] = p \/ master[p] \notin up

\* clock.txt is read, the dead id is exchanged, and the result saved.
StartTakeOver(p) ==
  /\ Elected(p)
  /\ LET m == MachineOf(p)
         l == Exchange(ReadList(m), master[p], p)
     IN /\ Keep(p, ReadTimes(m), l)
        /\ broken' = IF author[m] \in {NoPid, master[p]} \/ master[p] = p
                     THEN broken
                     ELSE broken \cup {m}
  /\ step' = [step EXCEPT ![p] = "locals"]
  /\ dead' = [dead EXCEPT ![p] = master[p]]
  /\ master' = [master EXCEPT ![p] = p]
  /\ UNCHANGED <<up, peer, todo, holds, rpc, bounds, last>>

\* NotifyNewLocalMaster to every local process, under the lock.  The handlers
\* take no lock and touch no clock, so that the loop is one step.
TellLocals(p) ==
  /\ p \in up /\ step[p] = "locals" /\ holds[p] = NoPid
  /\ master' = [q \in Proc |-> IF q \in Locals(p) \cap up THEN p ELSE master[q]]
  /\ step' = [step EXCEPT ![p] = "net"]
  /\ UNCHANGED <<up, peer, clocks, dead, todo, holds, rpc, bounds, last, broken>>

\* The lock is taken again for the loop over the other machines.
StartNet(p) ==
  /\ p \in up /\ step[p] = "net" /\ holds[p] = NoPid
  /\ holds' = [holds EXCEPT ![p] = p]
  /\ step' = [step EXCEPT ![p] = "tellNet"]
  /\ todo' = [todo EXCEPT ![p] = Others(p)]
  /\ UNCHANGED <<up, master, peer, clocks, dead, rpc, bounds, last, broken>>

\* The loop waits for an answer.
Waits(p, m) == rpc[p][m] # NoCall /\ rpc[p][m].waited

\* Process q has a new client for the machine of p, and p in the place of the
\* dead id.
Noted(q, p, old) ==
  /\ peer' = [peer EXCEPT ![q][MachineOf(p)] = p]
  /\ Keep(q, times[q], Exchange(list[q], old, p))

\* NotifyNewNetMaster is called at the process that p takes for the master of m.
Tell(p, m) ==
  LET q == peer[p][m] IN
  /\ p \in up /\ step[p] = "tellNet" /\ m \in todo[p]
  /\ \A x \in Machine : ~Waits(p, x)
  /\ rpc[p][m] = NoCall
  /\ rpc' = [rpc EXCEPT ![p][m] =
       [stage |-> IF q \in up THEN "called" ELSE "failed",
        at |-> q, waited |-> TRUE, old |-> dead[p], left |-> {},
        clock |-> Zero]]
  /\ UNCHANGED <<up, master, peer, clocks, step, dead, todo, holds, bounds,
                 last, broken>>

\* The loop goes on after the call to m, whose handler may not have ended.  At
\* its end the lock is given back.
GoesOn(p, m) ==
  /\ todo' = [todo EXCEPT ![p] = @ \ {m}]
  /\ IF todo[p] = {m}
     THEN /\ step' = [step EXCEPT ![p] = "done"]
          /\ holds' = [holds EXCEPT ![p] = NoPid]
     ELSE UNCHANGED <<step, holds>>
  /\ UNCHANGED <<up, master, peer, dead, ticks, crashes, last, broken>>

\* The answer of a master: its clock is set.  A slave has sent none.
Answered(p, m) ==
  LET c == rpc[p][m] IN
  /\ Waits(p, m) /\ c.stage \in {"answered", "empty"}
  /\ IF c.stage = "answered"
     THEN /\ SlotIn(list[p], c.at) # 0
          /\ SlotIn(Listed(list[p], c.at), p) # 0
          /\ SetClock(p, c.at, c.clock)
     ELSE UNCHANGED clocks
  /\ rpc' = [rpc EXCEPT ![p][m] = NoCall]
  /\ GoesOn(p, m)

\* The process that was called is dead.
Failed(p, m) ==
  /\ Waits(p, m) /\ rpc[p][m].stage = "failed"
  /\ rpc' = [rpc EXCEPT ![p][m] = NoCall]
  /\ GoesOn(p, m)
  /\ UNCHANGED clocks

\* Mutant: the calls have no deadline.
LateNever(p, m) == FALSE /\ Failed(p, m)

\* The deadline of a second has passed while the handler waits for the lock of
\* its process; it will run on.
Late(p, m) ==
  /\ Waits(p, m)
  /\ rpc[p][m].stage \in {"called", "forward"} /\ holds[rpc[p][m].at] # NoPid
  /\ rpc' = [rpc EXCEPT ![p][m].waited = FALSE]
  /\ GoesOn(p, m)
  /\ UNCHANGED clocks

-----------------------------------------------------------------------------
(***************************************************************************)
(* NotifyNewNetMaster at the process it is called at                       *)
(***************************************************************************)

\* Where it is called, resetP2PNetMaster waits for the lock and gives it back;
\* in a slave what follows is all.
Begin(p, m) ==
  LET c == rpc[p][m] IN
  /\ c.stage = "called" /\ c.at \in up /\ holds[c.at] = NoPid
  /\ Noted(c.at, p, c.old)
  /\ rpc' = [rpc EXCEPT ![p][m].stage =
                 IF master[c.at] = c.at THEN "forward" ELSE "empty"]
  /\ UNCHANGED <<up, master, step, dead, todo, holds, bounds, last, broken>>

\* A master takes its lock again to tell its local processes.
StartForward(p, m) ==
  LET c == rpc[p][m] IN
  /\ c.stage = "forward" /\ holds[c.at] = NoPid
  /\ holds' = [holds EXCEPT ![c.at] = p]
  /\ rpc' = [rpc EXCEPT ![p][m].stage = "forwarding", ![p][m].left = Locals(c.at)]
  /\ UNCHANGED <<up, master, peer, clocks, step, dead, todo, bounds, last,
                 broken>>

\* A local process is told, and writes clock.txt with what it knows.
Forward(p, m, s) ==
  LET c == rpc[p][m] IN
  /\ c.stage = "forwarding" /\ s \in c.left
  /\ s \in up => holds[s] = NoPid
  /\ IF s \in up THEN Noted(s, p, c.old) ELSE UNCHANGED <<peer, clocks>>
  /\ rpc' = [rpc EXCEPT ![p][m].left = @ \ {s}]
  /\ UNCHANGED <<up, master, step, dead, todo, holds, bounds, last, broken>>

\* The lock is given back, and getClock answers with the own vector; a place in
\* the list that this takes is not saved.
Answer(p, m) ==
  LET c == rpc[p][m]
      s == SlotIn(list[c.at], c.at)
  IN
  /\ c.stage = "forwarding" /\ c.left = {}
  /\ s # 0
  /\ holds' = [holds EXCEPT ![c.at] = NoPid]
  /\ list' = [list EXCEPT ![c.at] = Listed(@, c.at)]
  /\ rpc' = [rpc EXCEPT ![p][m].stage = "answered",
                        ![p][m].clock = times[c.at][s]]
  /\ UNCHANGED <<up, master, peer, times, file, author, step, dead, todo,
                 bounds, last, broken>>

\* The answer of a handler whose caller does not wait any more.
Dropped(p, m) ==
  /\ rpc[p][m].stage \in {"answered", "empty"} /\ ~rpc[p][m].waited
  /\ rpc' = [rpc EXCEPT ![p][m] = NoCall]
  /\ UNCHANGED <<up, master, peer, clocks, step, dead, todo, holds, bounds,
                 last, broken>>

-----------------------------------------------------------------------------
Crash(p) ==
  /\ p \in up \cap Mortal /\ crashes < MaxCrashes
  /\ crashes' = crashes + 1
  /\ Ends(p)
  /\ UNCHANGED <<master, peer, clocks, ticks, last, broken>>

\* The watchdog of a master starts a dead process again.
Restart(p, q) ==
  /\ p \in Masters /\ q \in Locals(p) \ up
  /\ up' = up \cup {q}
  /\ master' = [master EXCEPT ![q] = p]
  /\ peer' = [peer EXCEPT ![q] = [m \in Machine |-> FirstMaster(m)]]
  /\ times' = [times EXCEPT ![q] = ReadTimes(MachineOf(q))]
  /\ list' = [list EXCEPT ![q] = ReadList(MachineOf(q))]
  /\ UNCHANGED <<file, author, takeOver, bounds, last, broken>>

Init ==
  /\ start \in Starts
  /\ ran = {} /\ up = {}
  /\ master = [p \in Proc |-> FirstMaster(MachineOf(p))]
  /\ peer = [p \in Proc |-> [m \in Machine |-> FirstMaster(m)]]
  /\ times = [p \in Proc |-> NoClocks]
  /\ list = [p \in Proc |-> NoList]
  /\ file = [m \in Machine |-> NoFile]
  /\ author = [m \in Machine |-> NoPid]
  /\ step = [p \in Proc |-> "slave"]
  /\ dead = [p \in Proc |-> NoPid]
  /\ todo = [p \in Proc |-> {}]
  /\ holds = [p \in Proc |-> NoPid]
  /\ rpc = [p \in Proc |-> [m \in Machine |-> NoCall]]
  /\ ticks = 0 /\ crashes = 0
  /\ last = [m \in Machine |-> 0]
  /\ broken = {}

Loop(p) ==
  \/ TellLocals(p) \/ StartNet(p)
  \/ \E m \in Machine : Tell(p, m) \/ Answered(p, m) \/ Failed(p, m)

Handler(p, m) ==
  \/ Begin(p, m) \/ StartForward(p, m) \/ Answer(p, m)
  \/ Dropped(p, m)
  \/ \E s \in Proc : Forward(p, m, s)

\* What takeovers do, with the handlers they have called.
Work ==
  \E p \in Proc : Loop(p)
                  \/ \E m \in Machine : Handler(p, m) \/ Late(p, m)

Step ==
  \/ Work
  \/ \E p \in Proc : \/ StartTakeOver(p) \/ Request(p) \/ Crash(p)
                     \/ \E q \in Proc : Compare(p, q) \/ Restart(p, q)

Next ==
  /\ \/ \E m \in Machine : Run(m)
     \/ Step /\ UNCHANGED ran
  /\ UNCHANGED start

Spec == Init /\ [][Next]_vars

\* Threads are scheduled, and a call that is not answered misses its deadline.
\* Takeovers and their handlers have an end, so that it is enough that one of
\* them goes on as long as any can.
FairSpec == Spec /\ WF_vars(Work /\ UNCHANGED <<start, ran>>)

-----------------------------------------------------------------------------
(***************************************************************************)
(* Properties                                                              *)
(***************************************************************************)

Call == [stage : {"failed", "called", "forward", "forwarding", "answered",
                  "empty"},
         at : Proc, waited : BOOLEAN, old : Proc, left : SUBSET Proc, clock : Clock]


TypeOK ==
  /\ start \in Starts
  /\ ran \subseteq Machine /\ up \subseteq Proc
  /\ master \in [Proc -> Proc]
  /\ peer \in [Proc -> [Machine -> Proc]]
  /\ times \in [Proc -> Clocks] /\ list \in [Proc -> PidList]
  /\ file \in [Machine -> ClockFile \cup {NoFile}]
  /\ author \in [Machine -> Proc \cup {NoPid}]
  /\ step \in [Proc -> {"slave", "locals", "net", "tellNet", "done"}]
  /\ dead \in [Proc -> Proc \cup {NoPid}]
  /\ todo \in [Proc -> SUBSET Machine]
  /\ holds \in [Proc -> Proc \cup {NoPid}]
  /\ rpc \in [Proc -> [Machine -> Call \cup {NoCall}]]
  /\ ticks \in 0 .. MaxTicks /\ crashes \in 0 .. MaxCrashes
  /\ last \in [Machine -> Nat]
  /\ broken \subseteq Machine

OneDeath == crashes <= 1

\* What P2PLock starts from: until the second death, a process that rules its
\* machine is in the first or second slot of its list, or in none yet, and in
\* one slot only.
OwnSlot ==
  OneDeath =>
    \A p \in Masters : \A i \in Slot :
      list[p][i] = p => i # 3 /\ SlotIn(list[p], p) = i

\* Until the second death no master's list holds two ids of one machine, since a
\* new master takes the place of the dead one.
OnePerMachine ==
  OneDeath =>
    \A p \in Masters : \A i, j \in Slot :
      /\ i # j /\ list[p][i] # NoPid /\ list[p][j] # NoPid
      => MachineOf(list[p][i]) # MachineOf(list[p][j])

\* getPsTimeId is called for a process that has no place in a full list.
NoSlot(p) ==
  \/ p \in Masters /\ SlotIn(list[p], p) = 0
  \/ \E q \in Proc : LET c == rpc[q][MachineOf(p)] IN
        /\ c.stage = "forwarding" /\ c.left = {} /\ c.at = p
        /\ SlotIn(list[p], p) = 0
  \/ \E m \in Machine : /\ Waits(p, m) /\ rpc[p][m].stage = "answered"
                          /\ LET l == Listed(list[p], rpc[p][m].at) IN
                             SlotIn(l, rpc[p][m].at) = 0 \/ SlotIn(l, p) = 0

\* "return NULL; // never happends": until the second death getPsTimeId always
\* finds a place.
NeverNull == OneDeath => \A p \in Proc : ~NoSlot(p)

\* Until the second death the stamps of a machine grow, whichever process rules
\* it, if no process has taken over with what a slave had saved.
StampsGrow ==
  [][\A p \in Proc : LET m == MachineOf(p) IN
       Request(p) /\ m \notin broken /\ OneDeath => last'[m] > last[m]]_vars

TakingOver == {p \in Proc : step[p] \notin {"slave", "done"}}

\* Two takeovers that wait for each other's lock end all the same.
TakeOversEnd == TakingOver # {} ~> TakingOver = {}
=============================================================================
