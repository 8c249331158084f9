------------------------------ MODULE Election ------------------------------
(***************************************************************************)
(* How the processes of one machine elect their local master:              *)
(* hw3/src/ft/election.cc, failure_detector.cc and the three RPCs of       *)
(* p2p_server.cc that serve them.  A detector that misses the master's     *)
(* heartbeats sends its own id around the ring of local ids; every process *)
(* passes on the larger of that id and its own; the process that gets its  *)
(* own id back takes over, starts to send heartbeats, restarts the dead    *)
(* and tells the others.                                                   *)
(*                                                                         *)
(* None of this is locked.  A vote travels as a chain: the thread that     *)
(* runs forward() in one process, the gRPC thread that runs vote() in the  *)
(* next, the new thread that one starts, and so on.  Several chains run    *)
(* through a process at once and share its _vote.                          *)
(***************************************************************************)
EXTENDS Integers

CONSTANTS
  First, Last,  \* the smallest and the largest id of the machine's processes
  MaxCrashes    \* bound: processes killed

\* server-cfg.txt numbers the processes of a machine without a gap.
Proc == First .. Last

ASSUME ProcAssumption == First \in Nat /\ Last \in Nat /\ First < Last
ASSUME CrashAssumption == MaxCrashes \in Nat

None == -1

VARIABLES
  up,            \* the processes that run
  master,        \* _master
  vote,          \* Election::_vote
  participated,  \* Election::_participated
  detector,      \* the thread FailureDetector::run of a process
  finished,      \* Thread::_finish of the detector
  heart,         \* the process has started masterHeartbeat and slaveWatchdog
  taking,        \* takeover threads that have not set _master
  telling,       \* takeover threads that have, and not told the others
  todo,          \* the clients the takeover that tells has still to call
  stuck,         \* a thread has locked _comm._lock twice
  chain,         \* the vote that the detector of a process has started
  crashes,       \* processes killed so far, for the bound MaxCrashes
  untold,        \* history: who had voted in an earlier election, and not been
                 \* told its end, when the last one began
  crossed        \* history: a detector has started an election while another
                 \* one was under way

electVars  == <<vote, participated, chain>>
detectVars == <<detector, finished>>
takeVars   == <<heart, taking, telling, todo>>
counted    == <<crashes, untold, crossed>>
vars == <<up, master, electVars, detectVars, takeVars, stuck, counted>>

\* What a chain is doing.  "read", "call": forward() in process `at' is about
\* to read _vote, to call process `to'.  "set", "own", "fold", "mark":
\* vote(v) in process `to' is about to set _vote, to compare it with its own
\* id, to compare v with its own id, to set _participated and return _vote.
Serving == {"set", "own", "fold", "mark"}
Chain == [pc : {"none", "read", "call"} \cup Serving,
          at : Proc, to : Proc, v : Proc \cup {None}, byDetector : BOOLEAN]

NoChain(n) ==
  [pc |-> "none", at |-> n, to |-> n, v |-> None, byDetector |-> FALSE]

TypeOK ==
  /\ up \in [Proc -> BOOLEAN]
  /\ master \in [Proc -> Proc]
  /\ vote \in [Proc -> Proc \cup {None}]
  /\ participated \in [Proc -> BOOLEAN]
  /\ detector \in [Proc -> {"off", "watching", "forwarding", "forwarded"}]
  /\ finished \in [Proc -> BOOLEAN]
  /\ heart \in [Proc -> BOOLEAN]
  /\ taking \in [Proc -> Nat]
  /\ telling \in [Proc -> Nat]
  /\ todo \in [Proc -> SUBSET Proc]
  /\ stuck \in [Proc -> BOOLEAN]
  /\ chain \in [Proc -> Chain]
  /\ crashes \in 0 .. MaxCrashes
  /\ untold \subseteq Proc
  /\ crossed \in BOOLEAN

-----------------------------------------------------------------------------
\* The clients of process n, and getMaxClientId and getMinClientId over them.
Clients(n) == Proc \ {n}
MaxClient(n) == IF n = Last THEN Last - 1 ELSE Last
MinClient(n) == IF n = First THEN First + 1 ELSE First

\* getNextClient(id) in process n: the id it tries first.  There is a client
\* of that id unless it is n itself.
NextId(n, id) == IF id + 1 > MaxClient(n) THEN MinClient(n) ELSE id + 1

\* masterHeartbeat of process m, which takes _comm._lock.  The calls come every
\* second, so that the detector's five never pass without one.
Beats(m) == up[m] /\ heart[m] /\ ~stuck[m]

\* Somebody else calls MasterHeartbeats of n.
HearsMaster(n) == \E m \in Clients(n) : Beats(m)

\* SlaveWatchdog, a call that needs no lock: not -1.
Answers(q) == up[q]

\* run.py starts every process with the largest id as master.
Init ==
  /\ up = [n \in Proc |-> TRUE]
  /\ master = [n \in Proc |-> Last]
  /\ heart = [n \in Proc |-> n = Last]
  /\ detector = [n \in Proc |-> IF n = Last THEN "off" ELSE "watching"]
  /\ finished = [n \in Proc |-> n = Last]
  /\ vote = [n \in Proc |-> None]
  /\ participated = [n \in Proc |-> FALSE]
  /\ taking = [n \in Proc |-> 0]
  /\ telling = [n \in Proc |-> 0]
  /\ todo = [n \in Proc |-> {}]
  /\ stuck = [n \in Proc |-> FALSE]
  /\ chain = [n \in Proc |-> NoChain(n)]
  /\ crashes = 0
  /\ untold = {}
  /\ crossed = FALSE

-----------------------------------------------------------------------------
(***************************************************************************)
(* FailureDetector::run                                                    *)
(***************************************************************************)

\* A vote goes round, or somebody is about to take over.
UnderWay == \E k \in Proc : chain[k].pc # "none" \/ taking[k] > 0

\* Five seconds without a heartbeat, and no vote has come by: forward().
Suspect(n) ==
  /\ detector[n] = "watching"
  /\ ~HearsMaster(n)
  /\ ~participated[n]
  /\ chain[n].pc = "none"
  /\ detector' = [detector EXCEPT ![n] = "forwarding"]
  /\ chain' = [chain EXCEPT ![n] = [@ EXCEPT !.pc = "read", !.at = n,
                                             !.byDetector = TRUE]]
  /\ untold' = {p \in Proc : participated[p]}
  /\ crossed' = (crossed \/ UnderWay)
  /\ UNCHANGED <<up, master, vote, participated, finished, takeVars, stuck,
                 crashes>>

\* forward() has returned: finish(), and the loop ends.
Finish(n) ==
  /\ detector[n] = "forwarded"
  /\ detector' = [detector EXCEPT ![n] = "off"]
  /\ finished' = [finished EXCEPT ![n] = TRUE]
  /\ UNCHANGED <<up, master, electVars, takeVars, stuck, counted>>

\* The loop finds that it has been finished from elsewhere.
Quit(n) ==
  /\ detector[n] = "watching"
  /\ finished[n]
  /\ HearsMaster(n) \/ participated[n]
  /\ detector' = [detector EXCEPT ![n] = "off"]
  /\ UNCHANGED <<up, master, electVars, finished, takeVars, stuck, counted>>

-----------------------------------------------------------------------------
(***************************************************************************)
(* Election::forward, for the chain that the detector of k has started     *)
(***************************************************************************)

\* The own id if _vote is -1, and the first client.
Read(k) ==
  LET n == chain[k].at IN
  /\ chain[k].pc = "read"
  /\ ~stuck[n]
  /\ chain' = [chain EXCEPT ![k].pc = "call",
                            ![k].to = NextId(n, n),
                            ![k].v = IF vote[n] = None THEN n ELSE vote[n]]
  /\ UNCHANGED <<up, master, vote, participated, detectVars, takeVars, stuck,
                 counted>>

\* The RPC reaches its target.
Call(k) ==
  /\ chain[k].pc = "call"
  /\ up[chain[k].to]
  /\ chain' = [chain EXCEPT ![k].pc = "set"]
  /\ UNCHANGED <<up, master, vote, participated, detectVars, takeVars, stuck,
                 counted>>

\* Mutant: forward() gives up when a client does not answer.
GiveUp(k) ==
  /\ chain[k].pc = "call"
  /\ ~up[chain[k].to]
  /\ chain' = [chain EXCEPT ![k] = NoChain(k)]
  /\ UNCHANGED <<up, master, vote, participated, detectVars, takeVars, stuck,
                 counted>>

\* The RPC fails: the next client is tried, except that getNextClient has
\* none for the own id, and its loop locks the mutex that it holds.
Skip(k) ==
  LET n    == chain[k].at
      next == NextId(n, chain[k].to)
  IN /\ chain[k].pc = "call"
     /\ ~up[chain[k].to]
     /\ ~stuck[n]
     /\ IF next = n
        THEN /\ stuck' = [stuck EXCEPT ![n] = TRUE]
             /\ chain' = [chain EXCEPT ![k] = NoChain(k)]
        ELSE /\ chain' = [chain EXCEPT ![k].to = next]
             /\ UNCHANGED stuck
     /\ UNCHANGED <<up, master, vote, participated, detectVars, takeVars,
                    counted>>

-----------------------------------------------------------------------------
(***************************************************************************)
(* P2PServerImpl::Election and Election::vote in process p = chain[k].to   *)
(***************************************************************************)

\* _vote = id.
SetVote(k) ==
  LET p == chain[k].to IN
  /\ chain[k].pc = "set"
  /\ vote' = [vote EXCEPT ![p] = chain[k].v]
  /\ chain' = [chain EXCEPT ![k].pc = "own"]
  /\ UNCHANGED <<up, master, participated, detectVars, takeVars, stuck,
                 counted>>

\* The handler returns; if the caller was a detector, its forward() does too.
Returned(k) ==
  detector' = IF chain[k].byDetector
              THEN [detector EXCEPT ![k] = "forwarded"] ELSE detector

\* "I am new master!": a takeover starts, unless p is its own master already.
Won(k) ==
  LET p == chain[k].to IN
  /\ taking' = [taking EXCEPT ![p] = IF master[p] # p THEN @ + 1 ELSE @]
  /\ chain' = [chain EXCEPT ![k] = NoChain(k)]

\* _vote == myId: the election stops here.
OwnVote(k) ==
  LET p == chain[k].to IN
  /\ chain[k].pc = "own"
  /\ vote[p] = p
  /\ vote' = [vote EXCEPT ![p] = None]
  /\ Won(k)
  /\ Returned(k)
  /\ UNCHANGED <<up, master, participated, finished, heart, telling, todo,
                 stuck, counted>>

OtherVote(k) ==
  /\ chain[k].pc = "own"
  /\ vote[chain[k].to] # chain[k].to
  /\ chain' = [chain EXCEPT ![k].pc = "fold"]
  /\ UNCHANGED <<up, master, vote, participated, detectVars, takeVars, stuck,
                 counted>>

\* Mutant: the received id is passed on, whatever the own one.
FoldNothing(k) ==
  /\ chain[k].pc = "fold"
  /\ chain' = [chain EXCEPT ![k].pc = "mark"]
  /\ UNCHANGED <<up, master, vote, participated, detectVars, takeVars, stuck,
                 counted>>

\* Who has not participated votes for the larger of the two ids.
Fold(k) ==
  LET p == chain[k].to IN
  /\ chain[k].pc = "fold"
  /\ vote' = [vote EXCEPT ![p] =
                IF participated[p] THEN @
                ELSE IF chain[k].v < p THEN p ELSE chain[k].v]
  /\ chain' = [chain EXCEPT ![k].pc = "mark"]
  /\ UNCHANGED <<up, master, participated, detectVars, takeVars, stuck,
                 counted>>

\* _participated = true; what is in _vote by now is returned.  A thread of p
\* goes on with it, unless another chain has put -1 there.
Mark(k) ==
  LET p == chain[k].to IN
  /\ chain[k].pc = "mark"
  /\ participated' = [participated EXCEPT ![p] = TRUE]
  /\ IF vote[p] = None
     THEN Won(k)
     ELSE /\ chain' = [chain EXCEPT ![k] = [NoChain(k) EXCEPT !.pc = "read",
                                                              !.at = p]]
          /\ UNCHANGED taking
  /\ Returned(k)
  /\ UNCHANGED <<up, master, vote, finished, heart, telling, todo, stuck,
                 counted>>

-----------------------------------------------------------------------------
(***************************************************************************)
(* FailureDetector::takeOverMaster and masterHeartbeat; NotifyNewLocalMaster *)
(***************************************************************************)

\* Mutant: a takeover that nobody has started.
TakeOverUnasked(n) ==
  /\ taking' = [taking EXCEPT ![n] = @ - 1]
  /\ telling' = [telling EXCEPT ![n] = 1]
  /\ finished' = [finished EXCEPT ![n] = TRUE]
  /\ heart' = [heart EXCEPT ![n] = TRUE]
  /\ master' = [master EXCEPT ![n] = n]
  /\ UNCHANGED <<up, electVars, detector, todo, stuck, counted>>

\* The detector is finished, the master's threads start, _master is set.
TakeOver(n) ==
  /\ taking[n] > 0
  /\ taking' = [taking EXCEPT ![n] = @ - 1]
  /\ telling' = [telling EXCEPT ![n] = @ + 1]
  /\ finished' = [finished EXCEPT ![n] = TRUE]
  /\ heart' = [heart EXCEPT ![n] = TRUE]
  /\ master' = [master EXCEPT ![n] = n]
  /\ UNCHANGED <<up, electVars, detector, todo, stuck, counted>>

\* The loop over the local clients, which needs _comm._lock.
StartTelling(n) ==
  /\ telling[n] > 0
  /\ todo[n] = {}
  /\ ~stuck[n]
  /\ telling' = [telling EXCEPT ![n] = @ - 1]
  /\ todo' = [todo EXCEPT ![n] = Clients(n)]
  /\ UNCHANGED <<up, master, electVars, detectVars, heart, taking, stuck,
                 counted>>

\* The handler of NotifyNewLocalMaster at q: a new master, a clean election,
\* and a detector if the last one has finished.
NewLocalMaster(n, q) ==
  /\ master' = [master EXCEPT ![q] = master[n]]
  /\ vote' = [vote EXCEPT ![q] = None]
  /\ participated' = [participated EXCEPT ![q] = FALSE]
  /\ finished' = [finished EXCEPT ![q] = FALSE]
  /\ detector' = [detector EXCEPT ![q] =
                    IF finished[q] THEN "watching" ELSE @]

\* One call of the loop, which does not look at what comes of it.
Tell(n, q) ==
  /\ q \in todo[n]
  /\ todo' = [todo EXCEPT ![n] = @ \ {q}]
  /\ \/ up[q] /\ NewLocalMaster(n, q)
     \/ ~up[q] /\ UNCHANGED <<master, vote, participated, detectVars>>
  /\ UNCHANGED <<up, heart, taking, telling, stuck, chain, counted>>

\* Mutant: the dead process is started with its own id as master.
RestartAsMaster(n, q) ==
  /\ up[n] /\ heart[n]
  /\ ~stuck[n]
  /\ todo[n] = {}
  /\ q \in Clients(n)
  /\ ~up[q]
  /\ up' = [up EXCEPT ![q] = TRUE]
  /\ master' = [master EXCEPT ![q] = q]
  /\ taking' = [taking EXCEPT ![q] = 1]
  /\ UNCHANGED <<electVars, detectVars, heart, telling, todo, stuck, counted>>

\* slaveWatchdog: a client that does not answer is started again, with the
\* watching process's _master for its own; main() makes it a slave, or lets it
\* take over if that is itself.
Restart(n, q) ==
  /\ up[n] /\ heart[n]
  /\ ~stuck[n]
  /\ todo[n] = {}
  /\ q \in Clients(n)
  /\ ~Answers(q)
  /\ up' = [up EXCEPT ![q] = TRUE]
  /\ master' = [master EXCEPT ![q] = master[n]]
  /\ IF master[n] = q
     THEN taking' = [taking EXCEPT ![q] = 1] /\ UNCHANGED detector
     ELSE detector' = [detector EXCEPT ![q] = "watching"] /\ UNCHANGED taking
  /\ UNCHANGED <<electVars, finished, heart, telling, todo, stuck, counted>>

-----------------------------------------------------------------------------
\* Process n is killed.  The chains whose thread it runs are gone; a chain it
\* serves falls back to its caller, whose RPC fails, or is gone with it.
AfterCrash(n, k) ==
  LET c == chain[k] IN
  IF c.pc \in {"read", "call"} /\ c.at = n THEN NoChain(k)
  ELSE IF c.pc \in Serving /\ c.to = n
  THEN IF up[c.at] /\ c.at # n THEN [c EXCEPT !.pc = "call"] ELSE NoChain(k)
  ELSE IF k = n THEN [c EXCEPT !.byDetector = FALSE] ELSE c

Crash(n) ==
  /\ up[n]
  /\ crashes < MaxCrashes
  /\ crashes' = crashes + 1
  /\ up' = [up EXCEPT ![n] = FALSE]
  /\ vote' = [vote EXCEPT ![n] = None]
  /\ participated' = [participated EXCEPT ![n] = FALSE]
  /\ detector' = [detector EXCEPT ![n] = "off"]
  /\ finished' = [finished EXCEPT ![n] = FALSE]
  /\ heart' = [heart EXCEPT ![n] = FALSE]
  /\ taking' = [taking EXCEPT ![n] = 0]
  /\ telling' = [telling EXCEPT ![n] = 0]
  /\ todo' = [todo EXCEPT ![n] = {}]
  /\ stuck' = [stuck EXCEPT ![n] = FALSE]
  /\ chain' = [k \in Proc |-> AfterCrash(n, k)]
  /\ UNCHANGED <<master, untold, crossed>>

-----------------------------------------------------------------------------
Detect(n) == Suspect(n) \/ Finish(n) \/ Quit(n)

Forward(k) == Read(k) \/ Call(k) \/ Skip(k)

Vote(k) ==
  SetVote(k) \/ OwnVote(k) \/ OtherVote(k) \/ Fold(k) \/ Mark(k)

Rule(n) ==
  \/ TakeOver(n)
  \/ StartTelling(n)
  \/ \E q \in Proc : Tell(n, q)

Work(n) == Detect(n) \/ Forward(n) \/ Vote(n) \/ Rule(n)

Next ==
  \/ \E n \in Proc : Work(n)
  \/ \E n, q \in Proc : Restart(n, q)
  \/ \E n \in Proc : Crash(n)

Spec == Init /\ [][Next]_vars

\* Every thread of a live process is scheduled, and an RPC returns or fails.
FairSpec ==
  /\ Spec
  /\ \A n \in Proc : /\ WF_vars(Detect(n))
                     /\ WF_vars(Forward(n))
                     /\ WF_vars(Vote(n))
                     /\ WF_vars(Rule(n))

-----------------------------------------------------------------------------
(***************************************************************************)
(* Properties                                                              *)
(***************************************************************************)

Rules(n) == up[n] /\ heart[n]

\* Until a detector starts an election while another one is under way, at most
\* one process of the machine acts as its master, however often the master dies
\* and whichever detectors start the elections.
OneMaster == ~crossed => \A m, n \in Proc : Rules(m) /\ Rules(n) => m = n

\* Until then a takeover starts only in the process with the largest id alive.
\* A process that a master died without telling does not count: it takes itself
\* to have voted, and passes on any id.
LargestTakesOver ==
  [][~crossed' =>
       \A n \in Proc :
         taking'[n] > taking[n] =>
           \A p \in Proc : up[p] /\ p \notin untold => p <= n]_vars

\* A machine that has lost its master gets one.
Recovers == (\A n \in Proc : ~Rules(n)) ~> (\E n \in Proc : Rules(n))
=============================================================================
