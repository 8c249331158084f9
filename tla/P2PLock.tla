------------------------------ MODULE P2PLock ------------------------------
(***************************************************************************)
(* The lock of hw3/src/ft/p2p_lock.cc that guards the replication of a     *)
(* chat command among the net masters, one process per machine.  It is     *)
(* shaped like the Ricart-Agrawala algorithm: a requester asks every peer  *)
(* with a synchronous RPC, a peer answers at once or queues the requester  *)
(* and calls it back from releaseLock, and the requester spins until the   *)
(* number of answers it still waits for is not positive.                   *)
(*                                                                         *)
(* The class has no mutex.  Three kinds of thread touch one object: the    *)
(* chat threads that call requestLock/releaseLock, the gRPC threads that   *)
(* run onRequestedLock, and those that run onReleasedLock.  Every action   *)
(* below is one access of one of them, so that a handler may read STATE,   *)
(* be overtaken by releaseLock, and enqueue afterwards.                    *)
(***************************************************************************)
EXTENDS Integers, Sequences, FiniteSets, VectorClock

CONSTANTS
  Node,         \* the net masters, one process per machine
  Thread,       \* the chat threads that call requestLock and releaseLock
  Home,         \* the process a thread belongs to
  NoNode,       \* no RPC in progress
  MaxRequests,  \* bound: requests of one thread
  MaxFailures   \* bound: RPCs that miss their deadline or their peer

ASSUME NodeAssumption   == IsFiniteSet(Node) /\ NoNode \notin Node
ASSUME HomeAssumption   == Home \in [Thread -> Node]
ASSUME BoundsAssumption == MaxRequests \in Nat /\ MaxFailures \in Nat

VARIABLES
  state,    \* P2PLock::STATE of a process
  queue,    \* P2PLock::QUEUE, the requesters it has to call back
  allowed,  \* P2PLock::allowed, the answers its requester waits for
  time,     \* the process's own vector in its VectorClock
  slot,     \* the slot the process gave itself at boot
  pc,       \* where a chat thread is in requestLock or releaseLock
  stamp,    \* the local `time' of requestLock
  todo,     \* peers whose answer the loop of requestLock has not counted
  call,     \* the peer whose OnRequestedLock RPC the thread waits for
  nxt,      \* releaseLock's iterator over QUEUE ...
  last,     \* ... and the end iterator, read when the loop starts
  stage,    \* onRequestedLock in a process, for one requesting thread
  req,      \* the stamp that handler was called with
  asked,    \* requests made so far, for the bound MaxRequests
  failures, \* RPC failures so far, for the bound MaxFailures
  late,     \* onReleasedLock handlers of a process that have still to run,
            \* by the process that has given up waiting for them
  missing,  \* history: peers that have not permitted the current request
  ahead,    \* history: threads that were inside when the request was made
  crowded,  \* history: a thread has asked while another of its process had
  lost      \* history: threads one of whose refusals has not been counted

lockVars   == <<state, queue, allowed>>
clockVars  == <<time, slot>>
callerVars == <<pc, stamp, todo, call>>
loopVars   == <<nxt, last>>
serverVars == <<stage, req>>
boundVars  == <<asked, failures, late>>
history    == <<missing, ahead, crowded, lost>>
vars == <<lockVars, clockVars, callerVars, loopVars, serverVars, boundVars,
          history>>

\* getVotingSet: the network clients, one per other machine.  Their order
\* changes whenever resetP2PNetMaster replaces one, so any order is allowed.
VotingSet(t) == Node \ {Home[t]}

PC    == {"idle", "wanted", "asking", "held", "released", "notifying"}
Late  == [Node -> [Node -> Nat]]
Stage == {"none", "arrived", "notHeld", "defer", "yes", "no"}

TypeOK ==
  /\ state \in [Node -> {"RELEASED", "WANTED", "HELD"}]
  /\ queue \in [Node -> Seq(Node)]
  /\ allowed \in [Node -> Int]
  /\ time \in [Node -> Clock]
  /\ slot \in [Node -> Slot]
  /\ pc \in [Thread -> PC]
  /\ stamp \in [Thread -> Clock]
  /\ todo \in [Thread -> SUBSET Node]
  /\ call \in [Thread -> Node \cup {NoNode}]
  /\ nxt \in [Thread -> Nat \ {0}]
  /\ last \in [Thread -> Nat]
  /\ stage \in [Node -> [Thread -> Stage]]
  /\ req \in [Node -> [Thread -> Clock]]
  /\ asked \in [Thread -> 0 .. MaxRequests]
  /\ failures \in 0 .. MaxFailures
  /\ missing \in [Thread -> SUBSET Node]
  /\ ahead \in [Thread -> SUBSET Thread]
  /\ late \in Late
  /\ crowded \in BOOLEAN
  /\ lost \subseteq Thread

\* The state after init() of every process and the boot exchange of clocks:
\* all vectors zero, and each process in slot 1 or 2 of its own pid_List,
\* whatever slot the others gave themselves (ClockBoot).
Init ==
  /\ state = [n \in Node |-> "RELEASED"]
  /\ queue = [n \in Node |-> <<>>]
  /\ allowed = [n \in Node |-> 2]
  /\ time = [n \in Node |-> Zero]
  /\ slot \in [Node -> {1, 2}]
  /\ pc = [t \in Thread |-> "idle"]
  /\ stamp = [t \in Thread |-> Zero]
  /\ todo = [t \in Thread |-> {}]
  /\ call = [t \in Thread |-> NoNode]
  /\ nxt = [t \in Thread |-> 1]
  /\ last = [t \in Thread |-> 0]
  /\ stage = [n \in Node |-> [t \in Thread |-> "none"]]
  /\ req = [n \in Node |-> [t \in Thread |-> Zero]]
  /\ asked = [t \in Thread |-> 0]
  /\ failures = 0
  /\ missing = [t \in Thread |-> {}]
  /\ ahead = [t \in Thread |-> {}]
  /\ late = [n \in Node |-> [p \in Node |-> 0]]
  /\ crowded = FALSE
  /\ lost = {}

-----------------------------------------------------------------------------
(***************************************************************************)
(* requestLock                                                             *)
(***************************************************************************)

\* Another thread of the process is between requestLock and the end of
\* releaseLock.
OtherBusy(t) == \E u \in Thread \ {t} : Home[u] = Home[t] /\ pc[u] # "idle"

\* STATE = WANTED.  The request has no stamp yet.
Want(t) ==
  /\ pc[t] = "idle"
  /\ asked[t] < MaxRequests
  /\ state' = [state EXCEPT ![Home[t]] = "WANTED"]
  /\ pc' = [pc EXCEPT ![t] = "wanted"]
  /\ asked' = [asked EXCEPT ![t] = @ + 1]
  /\ missing' = [missing EXCEPT ![t] = VotingSet(t)]
  /\ ahead' = [ahead EXCEPT ![t] = {u \in Thread : pc[u] = "held"}]
  /\ crowded' = (crowded \/ OtherBusy(t))
  /\ UNCHANGED <<queue, allowed, clockVars, stamp, todo, call, loopVars,
                 serverVars, failures, late, lost>>

\* The stamp is taken and the counter of awaited answers is reset.
Stamp(t) ==
  /\ pc[t] = "wanted"
  /\ time' = [time EXCEPT ![Home[t]] = RequestTime(@, slot[Home[t]])]
  /\ stamp' = [stamp EXCEPT ![t] = time'[Home[t]]]
  /\ allowed' = [allowed EXCEPT ![Home[t]] = 0]
  /\ todo' = [todo EXCEPT ![t] = VotingSet(t)]
  /\ pc' = [pc EXCEPT ![t] = "asking"]
  /\ UNCHANGED <<state, queue, slot, call, loopVars, serverVars, boundVars,
                 history>>

\* The loop is free to make its next RPC, to peer p.  (That a handler which
\* has outlived its caller must have ended first is this module's, which keeps
\* one handler per process and thread.)
Reaches(t, p) ==
  /\ pc[t] = "asking"
  /\ call[t] = NoNode
  /\ p \in todo[t]
  /\ stage[p][t] = "none"

\* OnRequestedLock is sent: the handler starts and the caller blocks.
Ask(t, p) ==
  /\ Reaches(t, p)
  /\ call' = [call EXCEPT ![t] = p]
  /\ stage' = [stage EXCEPT ![p][t] = "arrived"]
  /\ req' = [req EXCEPT ![p][t] = stamp[t]]
  /\ UNCHANGED <<lockVars, clockVars, pc, stamp, todo, loopVars, boundVars,
                 history>>

\* The answer of a handler has been taken; its argument is gone with it.
HandlerEnds(p, t) ==
  /\ stage' = [stage EXCEPT ![p][t] = "none"]
  /\ req' = [req EXCEPT ![p][t] = Zero]

\* The RPC returns true.
ReplyYes(t, p) ==
  /\ call[t] = p
  /\ stage[p][t] = "yes"
  /\ HandlerEnds(p, t)
  /\ call' = [call EXCEPT ![t] = NoNode]
  /\ todo' = [todo EXCEPT ![t] = @ \ {p}]
  /\ missing' = [missing EXCEPT ![t] = @ \ {p}]
  /\ UNCHANGED <<lockVars, clockVars, pc, stamp, loopVars, boundVars, ahead,
                 crowded, lost>>

\* The RPC returns false, all but `allowed++'.
Deferred(t, p) ==
  /\ call[t] = p
  /\ stage[p][t] = "no"
  /\ HandlerEnds(p, t)
  /\ call' = [call EXCEPT ![t] = NoNode]
  /\ todo' = [todo EXCEPT ![t] = @ \ {p}]

\* Mutant: the refusal is not counted.
ReplyNoUncounted(t, p) ==
  /\ Deferred(t, p)
  /\ UNCHANGED <<lockVars, clockVars, pc, stamp, loopVars, boundVars, history>>

\* The refusal is counted.
ReplyNo(t, p) ==
  /\ Deferred(t, p)
  /\ allowed' = [allowed EXCEPT ![Home[t]] = @ + 1]
  /\ UNCHANGED <<state, queue, clockVars, pc, stamp, loopVars, boundVars,
                 history>>

\* Mutant: the spin ends one answer early.
OneMayBeAwaited(t) == allowed[Home[t]] <= 1

\* waitForReply: the spin ends as soon as the counter is not positive.
NoneAwaited(t) == allowed[Home[t]] <= 0

\* Mutant: STATE stays WANTED.
EnterStillWanted(t) ==
  /\ pc[t] = "asking"
  /\ todo[t] = {}
  /\ NoneAwaited(t)
  /\ pc' = [pc EXCEPT ![t] = "held"]
  /\ stamp' = [stamp EXCEPT ![t] = Zero]
  /\ UNCHANGED <<lockVars, clockVars, todo, call, loopVars, serverVars,
                 boundVars, history>>

\* waitForReply is over; STATE = HELD, and the local stamp is gone.
Enter(t) ==
  /\ pc[t] = "asking"
  /\ todo[t] = {}
  /\ NoneAwaited(t)
  /\ pc' = [pc EXCEPT ![t] = "held"]
  /\ state' = [state EXCEPT ![Home[t]] = "HELD"]
  /\ stamp' = [stamp EXCEPT ![t] = Zero]
  /\ UNCHANGED <<queue, allowed, clockVars, todo, call, loopVars, serverVars,
                 boundVars, history>>

-----------------------------------------------------------------------------
(***************************************************************************)
(* onRequestedLock in process p, for the request of thread t.  Line 78     *)
(* reads STATE, line 79 reads it again, and the push_back of enqueu comes  *)
(* after both.                                                             *)
(***************************************************************************)

\* Mutant: the handler does not look whether the lock is held.
ReadHeldSkipped(p, t) ==
  /\ stage[p][t] = "arrived"
  /\ stage' = [stage EXCEPT ![p][t] = "notHeld"]
  /\ UNCHANGED <<lockVars, clockVars, callerVars, loopVars, req, boundVars,
                 history>>

\* STATE == HELD.
ReadHeld(p, t) ==
  /\ stage[p][t] = "arrived"
  /\ stage' = [stage EXCEPT ![p][t] = IF state[p] = "HELD" THEN "defer"
                                      ELSE "notHeld"]
  /\ UNCHANGED <<lockVars, clockVars, callerVars, loopVars, req, boundVars,
                 history>>

\* STATE == WANTED && comparison(t, myId): the clock is read and merged.
CompareWanted(p, t) ==
  /\ stage[p][t] = "notHeld"
  /\ state[p] = "WANTED"
  /\ stage' = [stage EXCEPT ![p][t] =
                 IF MineIsEarlier(req[p][t], time[p]) THEN "defer" ELSE "yes"]
  /\ time' = [time EXCEPT ![p] = Compared(req[p][t], @, slot[p])]
  /\ UNCHANGED <<lockVars, slot, callerVars, loopVars, req, boundVars,
                 history>>

\* The second read of STATE does not find WANTED: && does not compare.
GrantNotWanted(p, t) ==
  /\ stage[p][t] = "notHeld"
  /\ state[p] # "WANTED"
  /\ stage' = [stage EXCEPT ![p][t] = "yes"]
  /\ UNCHANGED <<lockVars, clockVars, callerVars, loopVars, req, boundVars,
                 history>>

\* enqueu(pid), and false is on its way back.
Enqueue(p, t) ==
  /\ stage[p][t] = "defer"
  /\ queue' = [queue EXCEPT ![p] = Append(@, Home[t])]
  /\ stage' = [stage EXCEPT ![p][t] = "no"]
  /\ UNCHANGED <<state, allowed, clockVars, callerVars, loopVars, req,
                 boundVars, history>>

-----------------------------------------------------------------------------
(***************************************************************************)
(* releaseLock                                                             *)
(***************************************************************************)

\* STATE = RELEASED.
Release(t) ==
  /\ pc[t] = "held"
  /\ pc' = [pc EXCEPT ![t] = "released"]
  /\ state' = [state EXCEPT ![Home[t]] = "RELEASED"]
  /\ ahead' = [u \in Thread |-> ahead[u] \ {t}]
  /\ UNCHANGED <<queue, allowed, clockVars, stamp, todo, call, loopVars,
                 serverVars, boundVars, missing, crowded, lost>>

\* Mutant: the loop starts before the first entry.
StartLoopEarly(t) ==
  /\ pc[t] = "released"
  /\ pc' = [pc EXCEPT ![t] = "notifying"]
  /\ nxt' = [nxt EXCEPT ![t] = 0]
  /\ last' = [last EXCEPT ![t] = Len(queue[Home[t]])]
  /\ UNCHANGED <<lockVars, clockVars, stamp, todo, call, serverVars,
                 boundVars, history>>

\* The range-for takes QUEUE.begin() and QUEUE.end() once.
StartLoop(t) ==
  /\ pc[t] = "released"
  /\ pc' = [pc EXCEPT ![t] = "notifying"]
  /\ nxt' = [nxt EXCEPT ![t] = 1]
  /\ last' = [last EXCEPT ![t] = Len(queue[Home[t]])]
  /\ UNCHANGED <<lockVars, clockVars, stamp, todo, call, serverVars,
                 boundVars, history>>

\* One OnReleasedLock RPC, to process n, all but the `allowed--' that
\* onReleasedLock does there.  The entry read is QUEUE's, unless another
\* thread of the process has cleared it meanwhile: then it may be anything.
Notified(t, n) ==
  /\ pc[t] = "notifying"
  /\ nxt[t] <= last[t]
  /\ nxt[t] \in DOMAIN queue[Home[t]] => n = queue[Home[t]][nxt[t]]
  /\ nxt' = [nxt EXCEPT ![t] = @ + 1]

PermittedBy(p, n) ==
  [u \in Thread |-> IF Home[u] = n THEN missing[u] \ {p} ELSE missing[u]]

Notify(t, n) ==
  /\ Notified(t, n)
  /\ allowed' = [allowed EXCEPT ![n] = @ - 1]
  /\ missing' = PermittedBy(Home[t], n)
  /\ UNCHANGED <<state, queue, clockVars, callerVars, last, serverVars,
                 boundVars, ahead, crowded, lost>>

\* Mutant: the entries called back stay in QUEUE.
ClearNothing(t) ==
  /\ pc[t] = "notifying"
  /\ nxt[t] > last[t]
  /\ pc' = [pc EXCEPT ![t] = "idle"]
  /\ nxt' = [nxt EXCEPT ![t] = 1]
  /\ last' = [last EXCEPT ![t] = 0]
  /\ UNCHANGED <<lockVars, clockVars, stamp, todo, call, serverVars,
                 boundVars, history>>

\* clearQueue: every entry goes, the ones pushed during the loop included.
ClearQueue(t) ==
  /\ pc[t] = "notifying"
  /\ nxt[t] > last[t]
  /\ pc' = [pc EXCEPT ![t] = "idle"]
  /\ queue' = [queue EXCEPT ![Home[t]] = <<>>]
  /\ nxt' = [nxt EXCEPT ![t] = 1]
  /\ last' = [last EXCEPT ![t] = 0]
  /\ UNCHANGED <<state, allowed, clockVars, stamp, todo, call, serverVars,
                 boundVars, history>>

-----------------------------------------------------------------------------
(***************************************************************************)
(* Failures.  P2PClient::OnRequestedLock answers true when the RPC fails,  *)
(* because its peer is gone or because its deadline of one second passed;  *)
(* in the second case the handler at the peer runs on.  That OnReleasedLock *)
(* fails is only logged: its handler has not run, or has still to run.     *)
(***************************************************************************)

Fails ==
  /\ failures < MaxFailures
  /\ failures' = failures + 1

\* The caller goes on as if p had permitted the request.
PermissionAssumed(t, p) ==
  /\ Fails
  /\ call' = [call EXCEPT ![t] = NoNode]
  /\ todo' = [todo EXCEPT ![t] = @ \ {p}]
  /\ missing' = [missing EXCEPT ![t] = @ \ {p}]
  /\ UNCHANGED <<lockVars, clockVars, pc, stamp, loopVars, serverVars, asked,
                 late, ahead, crowded, lost>>

Unreachable(t, p) == Reaches(t, p) /\ PermissionAssumed(t, p)

Timeout(t, p) == call[t] = p /\ PermissionAssumed(t, p)

\* The answer of a handler whose caller has given up goes nowhere.
Discard(p, t) ==
  /\ stage[p][t] \in {"yes", "no"}
  /\ call[t] # p
  /\ HandlerEnds(p, t)
  /\ UNCHANGED <<lockVars, clockVars, callerVars, loopVars, boundVars,
                 history>>

\* The loop of releaseLock goes on to its next entry.
NotifyLost(t, n) ==
  /\ Notified(t, n)
  /\ Fails
  /\ UNCHANGED <<lockVars, clockVars, callerVars, last, serverVars, asked,
                 late, history>>

NotifyTimeout(t, n) ==
  /\ Notified(t, n)
  /\ Fails
  /\ late' = [late EXCEPT ![n][Home[t]] = @ + 1]
  /\ UNCHANGED <<lockVars, clockVars, callerVars, last, serverVars, asked,
                 history>>

\* onReleasedLock in process n, after its caller p has given up.
NotifyLate(n, p) ==
  /\ late[n][p] > 0
  /\ late' = [late EXCEPT ![n][p] = @ - 1]
  /\ allowed' = [allowed EXCEPT ![n] = @ - 1]
  /\ missing' = PermittedBy(p, n)
  /\ UNCHANGED <<state, queue, clockVars, callerVars, loopVars, serverVars,
                 asked, failures, ahead, crowded, lost>>

(***************************************************************************)
(* Races.  allowed++ and allowed-- are a load and a store of a plain int   *)
(* by different threads; when two of them overlap, one of the two stores   *)
(* is lost.                                                                *)
(***************************************************************************)

\* allowed++ of t overlaps allowed-- for a release of thread u's process.
ReplyOverlapsRelease(t, p, u) ==
  /\ Deferred(t, p)
  /\ Notified(u, Home[t])
  /\ missing' = PermittedBy(Home[u], Home[t])
  /\ UNCHANGED <<state, queue, clockVars, pc, stamp, last, boundVars, ahead,
                 crowded>>

\* The store of the release is the last, and the refusal goes uncounted; or the
\* other way round.
RaceOfReplyAndRelease(t, p, u) ==
  /\ ReplyOverlapsRelease(t, p, u)
  /\ \/ /\ allowed' = [allowed EXCEPT ![Home[t]] = @ - 1]
        /\ lost' = lost \cup {t}
     \/ /\ allowed' = [allowed EXCEPT ![Home[t]] = @ + 1]
        /\ UNCHANGED lost

\* allowed-- for a release of u overlaps allowed-- for a release of v.
RaceOfReleases(u, v, n) ==
  /\ Home[u] # Home[v]
  /\ \A w \in {u, v} : /\ pc[w] = "notifying"
                       /\ nxt[w] <= last[w]
                       /\ nxt[w] \in DOMAIN queue[Home[w]]
                       /\ queue[Home[w]][nxt[w]] = n
  /\ nxt' = [w \in Thread |-> IF w \in {u, v} THEN nxt[w] + 1 ELSE nxt[w]]
  /\ missing' = [w \in Thread |-> IF Home[w] = n
                                  THEN missing[w] \ {Home[u], Home[v]}
                                  ELSE missing[w]]
  /\ allowed' = [allowed EXCEPT ![n] = @ - 1]
  /\ UNCHANGED <<state, queue, clockVars, callerVars, last, serverVars,
                 boundVars, ahead, crowded, lost>>

-----------------------------------------------------------------------------
Requester(t) ==
  \/ Want(t)
  \/ Stamp(t)
  \/ \E p \in Node : Ask(t, p) \/ ReplyYes(t, p) \/ ReplyNo(t, p)
  \/ Enter(t)

Handler(p, t) ==
  \/ ReadHeld(p, t)
  \/ CompareWanted(p, t)
  \/ GrantNotWanted(p, t)
  \/ Enqueue(p, t)

Releaser(t) ==
  \/ Release(t)
  \/ StartLoop(t)
  \/ \E n \in Node : Notify(t, n)
  \/ ClearQueue(t)

\* Every RPC answered in time, every access of the counter atomic.
Next ==
  \/ \E t \in Thread : Requester(t) \/ Releaser(t)
  \/ \E t \in Thread, p \in Node : Handler(p, t)

Spec == Init /\ [][Next]_vars

Failure ==
  \E t \in Thread, p \in Node :
    \/ Unreachable(t, p) \/ Timeout(t, p) \/ Discard(p, t)
    \/ NotifyLost(t, p) \/ NotifyTimeout(t, p) \/ NotifyLate(p, Home[t])

Race ==
  \E t, u \in Thread, p \in Node :
    RaceOfReplyAndRelease(t, p, u) \/ RaceOfReleases(t, u, p)

\* And with RPCs that fail and stores that are lost.
SpecWithFaults == Init /\ [][Next \/ Failure \/ Race]_vars

-----------------------------------------------------------------------------
(***************************************************************************)
(* Properties                                                              *)
(***************************************************************************)

\* Until two threads of one process use the lock at once, a thread is between
\* requestLock and releaseLock only if every peer has permitted its request:
\* allowed, which is all that waitForReply looks at, never drops to zero while
\* an answer is outstanding, in whatever order refusals, call-backs of
\* releaseLock and the requester's own counting come.
EntersWithEveryPermission ==
  ~crowded => \A t \in Thread : pc[t] = "held" => missing[t] = {}

\* Until then a thread never enters before one that was inside when it asked
\* has left: its onRequestedLock reads STATE twice, and must not slip between
\* them.
NoOvertaking ==
  ~crowded => \A t \in Thread : pc[t] = "held" => ahead[t] = {}

\* Until then a peer that a thread of its own has kept inside since before the
\* request was made does not answer it with permission, whatever RPCs fail and
\* whichever store to a counter is lost.
NoPermitByHolder ==
  ~crowded =>
    \A t \in Thread, p \in Node :
      call[t] = p /\ stage[p][t] = "yes" => \A u \in ahead[t] : Home[u] # p

\* Until then and while no RPC fails, of the stores to allowed that a race can
\* lose, only that of a refusal lets a thread in early, and only the thread
\* whose refusal it was: a lost call-back of releaseLock, or two at once that
\* count as one, keep the requester waiting, and nobody else's counter is
\* touched.
EarlyOnlyIfRefusalLost ==
  ~crowded /\ failures = 0 =>
    \A t \in Thread : pc[t] = "held" /\ missing[t] # {} => t \in lost

\* No two chat threads are inside at the same time.
MutualExclusion ==
  \A t, u \in Thread : pc[t] = "held" /\ pc[u] = "held" => t = u

\* Entry i of the queue of p is still to be called back.
Owed(p, i) ==
  /\ i \in DOMAIN queue[p]
  /\ \A u \in Thread : Home[u] = p => i >= nxt[u]

Phase(t) ==
  IF pc[t] = "held" THEN "in"
  ELSE IF pc[t] \in {"wanted", "asking"} THEN "asking"
  ELSE IF pc[t] = "idle" THEN "out" ELSE "leaving"

Promise == INSTANCE PermissionLock
  WITH phase <- [t \in Thread |-> Phase(t)]

\* The lock implements the permission lock, which promises nothing once two
\* threads of one process use it at the same time.
ImplementsPermissionLock == Promise!Spec
-----------------------------------------------------------------------------
(***************************************************************************)
(* The inductive invariant of Spec behind EntersWithEveryPermission and    *)
(* NoOvertaking.  requestLock and releaseLock may be called by any number  *)
(* of threads; the accounts are right until two of a process meet.         *)
(***************************************************************************)

OneBusy ==
  \A t, u \in Thread :
    Home[t] = Home[u] /\ pc[t] # "idle" /\ pc[u] # "idle" => t = u

\* STATE is what the process's busy thread has made of it.
StateFollowsThread ==
  \A n \in Node :
    /\ state[n] = "HELD" <=> \E t \in Thread : Home[t] = n /\ pc[t] = "held"
    /\ state[n] = "WANTED" <=>
         \E t \in Thread : Home[t] = n /\ pc[t] \in {"wanted", "asking"}

\* RPCs and loops exist only in the part of the code that makes them.
CallsInAsking ==
  \A t \in Thread :
    /\ call[t] # NoNode => call[t] \in todo[t]
    /\ todo[t] # {} => pc[t] = "asking"
    /\ \A p \in Node : stage[p][t] # "none" => call[t] = p

LoopWithinQueue ==
  \A t \in Thread :
    /\ pc[t] # "notifying" => nxt[t] = 1 /\ last[t] = 0
    /\ last[t] <= Len(queue[Home[t]])
    /\ nxt[t] <= last[t] + 1

\* A peer whose answer is not counted has not permitted the request, unless
\* it has deferred and released before its refusal is counted.
MissingUntilAnswered ==
  \A t \in Thread :
    /\ missing[t] \subseteq VotingSet(t)
    /\ pc[t] = "wanted" => missing[t] = VotingSet(t)
    /\ missing[t] # {} => pc[t] \in {"wanted", "asking"}
    /\ \A p \in todo[t] \ missing[t] : stage[p][t] = "no"

\* The counter counts the refusals that are counted and not yet taken back;
\* one taken back before it is counted makes it fall short by one.
CounterBalance ==
  \A t \in Thread :
    pc[t] = "asking" =>
      allowed[Home[t]] = Cardinality(missing[t]) - Cardinality(todo[t])

\* A call-back that is owed answers the current request of the process, which
\* counts on it.
CountsOn(t, p) ==
  /\ pc[t] = "asking"
  /\ p \in missing[t]
  /\ p \in todo[t] => stage[p][t] = "no"

OwedIsMissing ==
  \A p \in Node : \A i \in DOMAIN queue[p] :
    Owed(p, i) => \E t \in Thread : Home[t] = queue[p][i] /\ CountsOn(t, p)

\* No process owes two call-backs to the same one.
OwedOnce ==
  \A p \in Node : \A i, j \in DOMAIN queue[p] :
    Owed(p, i) /\ Owed(p, j) /\ queue[p][i] = queue[p][j] => i = j

\* A thread that was inside first is inside still, and has not permitted.
AheadIsHolding ==
  \A t \in Thread : \A u \in ahead[t] :
    /\ Home[u] # Home[t]
    /\ pc[u] = "held"
    /\ Home[u] \in missing[t]
    /\ stage[Home[u]][t] \notin {"notHeld", "yes"}

Accounts ==
  /\ TypeOK
  /\ OneBusy
  /\ StateFollowsThread
  /\ CallsInAsking
  /\ LoopWithinQueue
  /\ MissingUntilAnswered
  /\ CounterBalance
  /\ OwedIsMissing
  /\ OwedOnce
  /\ AheadIsHolding

IInv == crowded \/ Accounts
=============================================================================
