--------------------------- MODULE P2PLockProofs ---------------------------
(***************************************************************************)
(* Proofs about P2PLock, for every set of processes and of threads.        *)
(***************************************************************************)
EXTENDS P2PLock, FiniteSetTheorems, TLAPS

\* The clock operators of VectorClock stay within vectors of naturals.
LEMMA ClockTypes ==
  ASSUME NEW mine \in Clock, NEW rec \in Clock, NEW s \in Slot
  PROVE  /\ Zero \in Clock
         /\ RequestTime(mine, s) \in Clock
         /\ Compared(rec, mine, s) \in Clock
BY DEF Zero, RequestTime, Compared, Clock, Slot

\* The initial state is well typed.
LEMMA InitType == Init => TypeOK
<1> SUFFICES ASSUME Init PROVE TypeOK
  OBVIOUS
<1>1. Zero \in Clock
  BY DEF Zero, Clock
<1>2. slot \in [Node -> Slot]
  BY DEF Init, Slot
<1>3. queue \in [Node -> Seq(Node)]
  BY DEF Init
<1>4. failures \in 0 .. MaxFailures /\ 0 \in 0 .. MaxRequests
  BY BoundsAssumption DEF Init
<1>5. late \in Late
  BY DEF Init, Late
<1>6. crowded \in BOOLEAN /\ lost \subseteq Thread
  BY DEF Init, history
<1>7. /\ state \in [Node -> {"RELEASED", "WANTED", "HELD"}]
      /\ allowed \in [Node -> Int]
      /\ time \in [Node -> Clock]
      /\ pc \in [Thread -> PC]
      /\ stage \in [Node -> [Thread -> Stage]]
  BY <1>1 DEF Init, PC, Stage
<1> QED
  BY <1>1, <1>2, <1>3, <1>4, <1>5, <1>6, <1>7 DEF Init, TypeOK

\* Every step, the failures and the races included, keeps every variable in
\* its type.
LEMMA NextType ==
  ASSUME TypeOK, [Next \/ Failure \/ Race]_vars PROVE TypeOK'
<1> USE NodeAssumption, HomeAssumption, BoundsAssumption
<1>0. CASE UNCHANGED vars
  BY <1>0 DEF TypeOK, vars, lockVars, clockVars, callerVars, loopVars,
              serverVars, boundVars, history
<1>1. ASSUME NEW t \in Thread, Want(t) PROVE TypeOK'
  <2>1. crowded' \in BOOLEAN
    BY <1>1 DEF TypeOK, Want, OtherBusy
  <2> QED
    BY <1>1, <2>1 DEF TypeOK, Want, PC, VotingSet, clockVars, loopVars,
                      serverVars
<1>2. ASSUME NEW t \in Thread, Stamp(t) PROVE TypeOK'
  <2>1. time' \in [Node -> Clock]
    BY <1>2, ClockTypes DEF TypeOK, Stamp
  <2> QED
    BY <1>2, <2>1 DEF TypeOK, Stamp, PC, VotingSet, loopVars, serverVars,
                      boundVars, history
<1>3. ASSUME NEW t \in Thread, NEW p \in Node, Ask(t, p) PROVE TypeOK'
  BY <1>3 DEF TypeOK, Ask, Reaches, Stage, lockVars, clockVars, loopVars,
              boundVars, history
<1>4. ASSUME NEW t \in Thread, NEW p \in Node, ReplyYes(t, p) PROVE TypeOK'
  <2>1. Zero \in Clock
    BY DEF Zero, Clock
  <2> QED
    BY <1>4, <2>1 DEF TypeOK, ReplyYes, HandlerEnds, Stage, lockVars,
                      clockVars, loopVars, boundVars
<1>5. ASSUME NEW t \in Thread, NEW p \in Node, ReplyNo(t, p) PROVE TypeOK'
  <2>1. Zero \in Clock
    BY DEF Zero, Clock
  <2> QED
    BY <1>5, <2>1 DEF TypeOK, ReplyNo, Deferred, HandlerEnds, Stage,
                      clockVars, loopVars, boundVars, history
<1>6. ASSUME NEW t \in Thread, Enter(t) PROVE TypeOK'
  <2>1. Zero \in Clock
    BY DEF Zero, Clock
  <2> QED
    BY <1>6, <2>1 DEF TypeOK, Enter, PC, clockVars, loopVars, serverVars,
                      boundVars, history
<1>7. ASSUME NEW p \in Node, NEW t \in Thread, Handler(p, t) PROVE TypeOK'
  <2>1. CASE ReadHeld(p, t)
    BY <2>1 DEF TypeOK, ReadHeld, Stage, lockVars, clockVars, callerVars,
                loopVars, boundVars, history
  <2>2. CASE CompareWanted(p, t)
    <3>1. time' \in [Node -> Clock]
      BY <2>2, ClockTypes DEF TypeOK, CompareWanted
    <3> QED
      BY <2>2, <3>1 DEF TypeOK, CompareWanted, Stage, lockVars, callerVars,
                        loopVars, boundVars, history
  <2>3. CASE GrantNotWanted(p, t)
    BY <2>3 DEF TypeOK, GrantNotWanted, Stage, lockVars, clockVars,
                callerVars, loopVars, boundVars, history
  <2>4. CASE Enqueue(p, t)
    BY <2>4 DEF TypeOK, Enqueue, Stage, clockVars, callerVars, loopVars,
                boundVars, history
  <2> QED
    BY <1>7, <2>1, <2>2, <2>3, <2>4 DEF Handler
<1>8. ASSUME NEW t \in Thread, Releaser(t) PROVE TypeOK'
  <2>1. CASE Release(t)
    BY <2>1 DEF TypeOK, Release, PC, clockVars, loopVars, serverVars,
                boundVars
  <2>2. CASE StartLoop(t)
    BY <2>2 DEF TypeOK, StartLoop, PC, lockVars, clockVars, serverVars,
                boundVars, history
  <2>3. ASSUME NEW n \in Node, Notify(t, n) PROVE TypeOK'
    BY <2>3 DEF TypeOK, Notify, Notified, PermittedBy, clockVars, callerVars,
                serverVars, boundVars
  <2>4. CASE ClearQueue(t)
    BY <2>4 DEF TypeOK, ClearQueue, PC, clockVars, serverVars, boundVars,
                history
  <2> QED
    BY <1>8, <2>1, <2>2, <2>3, <2>4 DEF Releaser
<1>f. Fails => failures' \in 0 .. MaxFailures
  BY DEF TypeOK, Fails
<1>9. ASSUME NEW t \in Thread, NEW p \in Node,
             Unreachable(t, p) \/ Timeout(t, p)
      PROVE  TypeOK'
  <2>1. PermissionAssumed(t, p)
    BY <1>9 DEF Unreachable, Timeout
  <2> QED
    BY <1>f, <2>1 DEF TypeOK, PermissionAssumed, lockVars, clockVars, loopVars,
                      serverVars
<1>10. ASSUME NEW t \in Thread, NEW p \in Node, Discard(p, t) PROVE TypeOK'
  <2>1. Zero \in Clock
    BY DEF Zero, Clock
  <2> QED
    BY <1>10, <2>1 DEF TypeOK, Discard, HandlerEnds, Stage, lockVars,
                clockVars, callerVars, loopVars, boundVars, history
<1>n. ASSUME NEW t \in Thread, NEW n \in Node, Notified(t, n)
      PROVE  nxt' \in [Thread -> Nat \ {0}]
  BY <1>n DEF TypeOK, Notified
<1>13. ASSUME NEW t \in Thread, NEW n \in Node, NotifyLost(t, n) PROVE TypeOK'
  BY <1>13, <1>f, <1>n DEF TypeOK, NotifyLost, lockVars, clockVars, callerVars,
                           serverVars, history
<1>14. ASSUME NEW t \in Thread, NEW n \in Node, NotifyTimeout(t, n)
       PROVE  TypeOK'
  <2>1. late' \in Late
    BY <1>14 DEF TypeOK, Late, NotifyTimeout
  <2> QED
    BY <1>14, <1>f, <1>n, <2>1 DEF TypeOK, NotifyTimeout, lockVars, clockVars,
       callerVars, serverVars, history
<1>15. ASSUME NEW n \in Node, NEW p \in Node, NotifyLate(n, p) PROVE TypeOK'
  <2>1. late' \in Late
    BY <1>15 DEF TypeOK, Late, NotifyLate
  <2>2. allowed' \in [Node -> Int] /\ missing' \in [Thread -> SUBSET Node]
    BY <1>15 DEF TypeOK, NotifyLate, PermittedBy
  <2> QED
    BY <1>15, <2>1, <2>2 DEF TypeOK, NotifyLate, clockVars, callerVars,
       loopVars, serverVars
<1>11. ASSUME NEW t \in Thread, NEW u \in Thread, NEW p \in Node,
              RaceOfReplyAndRelease(t, p, u)
       PROVE  TypeOK'
  <2>1. Zero \in Clock
    BY DEF Zero, Clock
  <2>2. ReplyOverlapsRelease(t, p, u)
    BY <1>11 DEF RaceOfReplyAndRelease
  <2>3. allowed' \in [Node -> Int] /\ lost' \subseteq Thread
    BY <1>11 DEF RaceOfReplyAndRelease, TypeOK
  <2>4. nxt' \in [Thread -> Nat \ {0}]
    BY <1>n, <2>2 DEF ReplyOverlapsRelease
  <2>5. missing' \in [Thread -> SUBSET Node]
    BY <2>2 DEF TypeOK, ReplyOverlapsRelease, PermittedBy
  <2> QED
    BY <2>1, <2>2, <2>3, <2>4, <2>5 DEF TypeOK, ReplyOverlapsRelease,
       Deferred, HandlerEnds, Stage, clockVars, boundVars
<1>12. ASSUME NEW u \in Thread, NEW v \in Thread, NEW n \in Node,
              RaceOfReleases(u, v, n)
       PROVE  TypeOK'
  <2>1. nxt' \in [Thread -> Nat \ {0}]
    <3>1. nxt' = [w \in Thread |-> IF w \in {u, v} THEN nxt[w] + 1 ELSE nxt[w]]
      BY <1>12 DEF RaceOfReleases
    <3>2. \A w \in Thread : nxt[w] \in Nat \ {0} /\ nxt[w] + 1 \in Nat \ {0}
      BY DEF TypeOK
    <3> QED
      BY <3>1, <3>2
  <2>2. missing' \in [Thread -> SUBSET Node]
    BY <1>12 DEF TypeOK, RaceOfReleases
  <2>3. allowed' \in [Node -> Int]
    <3>1. allowed' = [allowed EXCEPT ![n] = @ - 1]
      BY <1>12 DEF RaceOfReleases
    <3> QED
      BY <3>1 DEF TypeOK
  <2> QED
    BY <1>12, <2>1, <2>2, <2>3 DEF TypeOK, RaceOfReleases, clockVars,
       callerVars, serverVars, boundVars
<1> QED
  BY <1>0, <1>1, <1>2, <1>3, <1>4, <1>5, <1>6, <1>7, <1>8, <1>9, <1>10,
     <1>11, <1>12, <1>13, <1>14, <1>15 DEF Next, Requester, Failure, Race

\* Type correctness of the lock.
THEOREM TypeCorrect == Spec => []TypeOK
<1>1. TypeOK /\ [Next]_vars => TypeOK'
  BY NextType
<1> QED
  BY InitType, <1>1, PTL DEF Spec

\* Type correctness when RPCs miss their deadline or their peer, and stores to
\* the counter are lost.
THEOREM TypeCorrectWithFaults == SpecWithFaults => []TypeOK
<1>1. TypeOK /\ [Next \/ Failure \/ Race]_vars => TypeOK'
  BY NextType
<1> QED
  BY InitType, <1>1, PTL DEF SpecWithFaults

-----------------------------------------------------------------------------
(***************************************************************************)
(* Without failures, and until two threads of a process meet, the counter  *)
(* is right: the inductive invariant Accounts, one lemma per action.       *)
(***************************************************************************)
USE HomeAssumption, NodeAssumption
USE DEF lockVars, clockVars, callerVars, loopVars, serverVars, boundVars,
        history

\* Who is busy was busy, or has found no other thread of its process busy.
LEMMA BusyKept ==
  ASSUME OneBusy, \A t \in Thread : pc'[t] # "idle" => pc[t] # "idle"
  PROVE  OneBusy'
BY DEF OneBusy

\* The thread that STATE is about is the only busy one of its process.
LEMMA StateMoves ==
  ASSUME OneBusy', StateFollowsThread, NEW t \in Thread,
         pc \in [Thread -> PC], pc' = [pc EXCEPT ![t] = pc'[t]],
         state \in [Node -> {"RELEASED", "WANTED", "HELD"}],
         \/ /\ pc'[t] \in {"wanted", "asking"}
            /\ state' = [state EXCEPT ![Home[t]] = "WANTED"]
         \/ pc'[t] = "held" /\ state' = [state EXCEPT ![Home[t]] = "HELD"]
         \/ /\ pc'[t] = "released"
            /\ state' = [state EXCEPT ![Home[t]] = "RELEASED"]
  PROVE  StateFollowsThread'
<1>1. /\ \A u \in Thread \ {t} : pc'[u] = pc[u]
      /\ \A n \in Node \ {Home[t]} : state'[n] = state[n]
  OBVIOUS
<1>2. ASSUME NEW u \in Thread \ {t}, Home[u] = Home[t]
      PROVE  pc'[u] = "idle"
  BY <1>2 DEF OneBusy
<1>3. ASSUME NEW n \in Node
      PROVE  /\ state'[n] = "HELD" <=>
                  \E u \in Thread : Home[u] = n /\ pc'[u] = "held"
             /\ state'[n] = "WANTED" <=>
                  \E u \in Thread : Home[u] = n /\ pc'[u] \in {"wanted", "asking"}
  <2>1. CASE n = Home[t]
    <3>1. \A u \in Thread : Home[u] = n => u = t \/ pc'[u] = "idle"
      BY <1>2, <2>1
    <3> QED
      BY <2>1, <3>1
  <2>2. CASE n # Home[t]
    <3>1. state'[n] = state[n] /\ \A u \in Thread : Home[u] = n => pc'[u] = pc[u]
      BY <1>1, <2>2
    <3> QED
      BY <3>1 DEF StateFollowsThread
  <2> QED
    BY <2>1, <2>2
<1> QED
  BY <1>3 DEF StateFollowsThread

\* Steps between which STATE does not tell.
LEMMA StateRests ==
  ASSUME StateFollowsThread, state' = state,
         \A t \in Thread :
           /\ pc'[t] = "held" <=> pc[t] = "held"
           /\ pc'[t] \in {"wanted", "asking"} <=> pc[t] \in {"wanted", "asking"}
  PROVE  StateFollowsThread'
BY DEF StateFollowsThread

\* An action that touches neither a queue nor an iterator owes what was owed.
LEMMA OwedUnchanged ==
  ASSUME UNCHANGED <<queue, nxt>>
  PROVE  /\ \A p \in Node : \A i \in DOMAIN queue'[p] :
              /\ queue'[p][i] = queue[p][i]
              /\ Owed(p, i)' => i \in DOMAIN queue[p] /\ Owed(p, i)
         /\ OwedOnce => OwedOnce'
<1>1. \A p \in Node : \A i \in DOMAIN queue'[p] : Owed(p, i)' <=> Owed(p, i)
  BY DEF Owed
<1>2. \A p \in Node : \A i \in DOMAIN queue'[p] : queue'[p][i] = queue[p][i]
  OBVIOUS
<1>3. OwedOnce => OwedOnce'
  BY <1>1 DEF OwedOnce
<1> QED
  BY <1>1, <1>2, <1>3 DEF Owed

\* Such an action keeps OwedIsMissing if it leaves alone what a thread that
\* waits for an owed call-back knows of the peer that owes it.
LEMMA OwedStillMissing ==
  ASSUME UNCHANGED <<queue, nxt>>, OwedIsMissing,
         \A t \in Thread, p \in Node :
           /\ pc[t] = "asking"
           /\ p \in missing[t]
           /\ p \in todo[t] => stage[p][t] = "no"
           => /\ pc'[t] = "asking"
              /\ p \in missing'[t]
              /\ p \in todo'[t] => stage'[p][t] = "no"
  PROVE  OwedIsMissing'
<1> SUFFICES ASSUME NEW p \in Node, NEW i \in DOMAIN queue'[p], Owed(p, i)'
             PROVE  \E t \in Thread : /\ Home[t] = queue'[p][i]
                                      /\ CountsOn(t, p)'
  BY DEF OwedIsMissing
<1>1. i \in DOMAIN queue[p] /\ Owed(p, i) /\ queue'[p][i] = queue[p][i]
  BY OwedUnchanged
<1>2. PICK t \in Thread : Home[t] = queue[p][i] /\ CountsOn(t, p)
  BY <1>1 DEF OwedIsMissing
<1> QED
  BY <1>1, <1>2 DEF CountsOn

\* The history set missing and the set todo are finite, so they can be counted.
LEMMA FiniteMissing ==
  ASSUME TypeOK, NEW t \in Thread
  PROVE  /\ IsFiniteSet(missing[t]) /\ IsFiniteSet(todo[t])
         /\ Cardinality(missing[t]) \in Nat /\ Cardinality(todo[t]) \in Nat
         /\ \A p \in missing[t] : 
              Cardinality(missing[t] \ {p}) = Cardinality(missing[t]) - 1
         /\ \A p \in todo[t] : 
              Cardinality(todo[t] \ {p}) = Cardinality(todo[t]) - 1
<1>1. missing[t] \in SUBSET Node /\ todo[t] \in SUBSET Node
  BY DEF TypeOK
<1>2. IsFiniteSet(missing[t]) /\ IsFiniteSet(todo[t])
  BY <1>1, FS_Subset
<1> QED
  BY <1>2, FS_RemoveElement, FS_CardinalityType

\* requestLock, STATE = WANTED, keeps the invariant.
LEMMA WantKeeps ==
  ASSUME Accounts, ~crowded', NEW t \in Thread, Want(t), TypeOK'
  PROVE  Accounts'
<1> USE DEF Want
<1>b. OneBusy'
  BY DEF Accounts, TypeOK, OneBusy, OtherBusy
<1>1. StateFollowsThread'
  <2>1. pc' = [pc EXCEPT ![t] = pc'[t]] /\ pc'[t] = "wanted"
    BY DEF Accounts, TypeOK
  <2> QED
    BY <1>b, <2>1, StateMoves DEF Accounts, TypeOK
<1>2. CallsInAsking' /\ LoopWithinQueue'
  BY DEF Accounts, TypeOK, CallsInAsking, LoopWithinQueue
<1>3. MissingUntilAnswered'
  BY DEF Accounts, TypeOK, CallsInAsking, MissingUntilAnswered, VotingSet
<1>4. CounterBalance'
  BY DEF Accounts, TypeOK, CounterBalance
<1>5. OwedIsMissing' /\ OwedOnce'
  <2>1. \A u \in Thread : pc[u] = "asking" => pc'[u] = pc[u] /\ missing'[u] = missing[u]
    BY DEF Accounts, TypeOK
  <2> QED
    BY <2>1, OwedUnchanged, OwedStillMissing DEF Accounts
<1>6. AheadIsHolding'
  <2> SUFFICES ASSUME NEW u \in Thread, NEW v \in ahead'[u]
               PROVE  /\ Home[v] # Home[u]
                      /\ pc'[v] = "held"
                      /\ Home[v] \in missing'[u]
                      /\ stage'[Home[v]][u] \notin {"notHeld", "yes"}
    BY DEF AheadIsHolding
  <2>1. CASE u = t
    <3>1. v \in Thread /\ pc[v] = "held" /\ v # t
      BY <2>1 DEF Accounts, TypeOK
    <3>2. Home[v] # Home[t] /\ Home[v] \in VotingSet(t)
      BY <3>1 DEF OtherBusy, VotingSet
    <3>3. stage[Home[v]][t] = "none"
      <4>1. call[t] = NoNode
        BY DEF Accounts, TypeOK, CallsInAsking
      <4>2. Home[v] \in Node
        BY <3>1
      <4> QED
        BY <4>1, <4>2 DEF Accounts, CallsInAsking
    <3> QED
      BY <2>1, <3>1, <3>2, <3>3 DEF Accounts, TypeOK
  <2>2. CASE u # t
    BY <2>2 DEF Accounts, TypeOK, AheadIsHolding
  <2> QED
    BY <2>1, <2>2
<1> QED
  BY <1>b, <1>1, <1>2, <1>3, <1>4, <1>5, <1>6 DEF Accounts

\* requestLock taking its stamp and resetting allowed keeps the invariant.
LEMMA StampKeeps ==
  ASSUME Accounts, ~crowded', NEW t \in Thread, Stamp(t), TypeOK'
  PROVE  Accounts'
<1> USE DEF Stamp
<1>b. OneBusy'
  BY BusyKept DEF Accounts, TypeOK
<1>1. StateFollowsThread'
  BY StateRests DEF Accounts, TypeOK
<1>2. CallsInAsking' /\ LoopWithinQueue'
  BY DEF Accounts, TypeOK, CallsInAsking, LoopWithinQueue
<1>3. missing[t] = VotingSet(t) /\ missing' = missing
  BY DEF Accounts, MissingUntilAnswered
<1>4. todo'[t] = VotingSet(t) /\ \A u \in Thread \ {t} : todo'[u] = todo[u]
  BY DEF Accounts, TypeOK
<1>5. MissingUntilAnswered'
  BY <1>3, <1>4 DEF Accounts, TypeOK, MissingUntilAnswered
<1>6. CounterBalance'
  <2>1. allowed'[Home[t]] = 0
    BY DEF Accounts, TypeOK
  <2>2. Cardinality(missing'[t]) - Cardinality(todo'[t]) = 0
    BY <1>3, <1>4, FiniteMissing DEF Accounts
  <2>3. \A u \in Thread \ {t} : /\ pc'[u] = pc[u]
                                     /\ Home[u] # Home[t] =>
                                          allowed'[Home[u]] = allowed[Home[u]]
    BY DEF Accounts, TypeOK
  <2>4. \A u \in Thread \ {t} : pc[u] = "asking" => Home[u] # Home[t]
    BY DEF Accounts, OneBusy
  <2> QED
    BY <1>3, <1>4, <2>1, <2>2, <2>3, <2>4 DEF Accounts, CounterBalance
<1>7. OwedIsMissing' /\ OwedOnce'
  <2>1. \A u \in Thread : pc[u] = "asking" => pc'[u] = pc[u] /\ todo'[u] = todo[u]
    BY DEF Accounts, TypeOK
  <2> QED
    BY <2>1, OwedUnchanged, OwedStillMissing DEF Accounts
<1>8. AheadIsHolding'
  BY DEF Accounts, TypeOK, AheadIsHolding
<1> QED
  BY <1>b, <1>1, <1>2, <1>5, <1>6, <1>7, <1>8 DEF Accounts

\* The RPC OnRequestedLock leaving keeps the invariant.
LEMMA AskKeeps ==
  ASSUME Accounts, ~crowded', NEW t \in Thread, NEW p \in Node,
         Ask(t, p), TypeOK'
  PROVE  Accounts'
<1> USE DEF Ask, Reaches
<1>b. OneBusy' /\ StateFollowsThread'
  BY BusyKept, StateRests DEF Accounts
<1>1. LoopWithinQueue' /\ CounterBalance'
  BY DEF Accounts, TypeOK, LoopWithinQueue, CounterBalance
<1>2. CallsInAsking'
  BY DEF Accounts, TypeOK, CallsInAsking
<1>3. MissingUntilAnswered'
  BY DEF Accounts, TypeOK, MissingUntilAnswered, VotingSet
<1>4. OwedIsMissing' /\ OwedOnce'
  <2>1. \A u \in Thread, q \in Node :
           q \in todo[u] /\ stage[q][u] = "no" => stage'[q][u] = "no"
    BY DEF Accounts, TypeOK
  <2>2. \A u \in Thread, q \in Node :
           (q \in todo[u] => stage[q][u] = "no") =>
           (q \in todo'[u] => stage'[q][u] = "no")
    BY <2>1
  <2> QED
    BY <2>2, OwedUnchanged, OwedStillMissing DEF Accounts
<1>5. AheadIsHolding'
  BY DEF Accounts, TypeOK, AheadIsHolding
<1> QED
  BY <1>b, <1>1, <1>2, <1>3, <1>4, <1>5 DEF Accounts

\* A permission coming back keeps the invariant.
LEMMA ReplyYesKeeps ==
  ASSUME Accounts, ~crowded', NEW t \in Thread, NEW p \in Node,
         ReplyYes(t, p), TypeOK'
  PROVE  Accounts'
<1>0. /\ missing' = [missing EXCEPT ![t] = @ \ {p}]
      /\ todo' = [todo EXCEPT ![t] = @ \ {p}]
  BY DEF ReplyYes
<1>t. missing \in [Thread -> SUBSET Node] /\ todo \in [Thread -> SUBSET Node]
  BY DEF Accounts, TypeOK
<1>u. \A u \in Thread : u # t => missing'[u] = missing[u] /\ todo'[u] = todo[u]
  BY <1>0, <1>t
<1>c. Cardinality(missing[t]) \in Nat /\ Cardinality(todo[t]) \in Nat
  BY FiniteMissing DEF Accounts
<1> USE DEF ReplyYes, HandlerEnds
<1>1. p \in todo[t] /\ p \in missing[t] /\ pc[t] = "asking"
  BY DEF Accounts, TypeOK, CallsInAsking, MissingUntilAnswered
<1>b. OneBusy' /\ StateFollowsThread'
  BY BusyKept, StateRests DEF Accounts
<1>2. LoopWithinQueue'
  BY DEF Accounts, TypeOK, LoopWithinQueue
<1>3. CallsInAsking'
  BY <1>1 DEF Accounts, TypeOK, CallsInAsking
<1>4. MissingUntilAnswered'
  BY <1>1 DEF Accounts, TypeOK, MissingUntilAnswered, VotingSet
<1>5. CounterBalance'
  <2>0. allowed' = allowed /\ pc' = pc
    OBVIOUS
  <2> HIDE DEF ReplyYes, HandlerEnds
  <2>1. /\ Cardinality(missing'[t]) = Cardinality(missing[t]) - 1
        /\ Cardinality(todo'[t]) = Cardinality(todo[t]) - 1
    BY <1>0, <1>1, <1>t, FiniteMissing DEF Accounts
  <2> QED
    BY <1>c, <1>u, <2>0, <2>1 DEF Accounts, CounterBalance
<1>6. OwedIsMissing' /\ OwedOnce'
  <2>1. \A u \in Thread, q \in Node :
           q \in missing[u] /\ (q \in todo[u] => stage[q][u] = "no") =>
           q \in missing'[u] /\ (q \in todo'[u] => stage'[q][u] = "no")
    <3> SUFFICES ASSUME NEW u \in Thread, NEW q \in Node,
                        q \in missing[u], q \in todo[u] => stage[q][u] = "no"
                 PROVE  q \in missing'[u] /\ (q \in todo'[u] => stage'[q][u] = "no")
      OBVIOUS
    <3>1. ~(u = t /\ q = p)
      BY <1>1
    <3> QED
      BY <3>1 DEF Accounts, TypeOK
  <2> QED
    BY <2>1, OwedUnchanged, OwedStillMissing DEF Accounts
<1>7. AheadIsHolding'
  <2> SUFFICES ASSUME NEW u \in Thread, NEW v \in ahead[u]
               PROVE  /\ Home[v] # Home[u]
                      /\ pc[v] = "held"
                      /\ Home[v] \in missing'[u]
                      /\ stage'[Home[v]][u] \notin {"notHeld", "yes"}
    BY DEF AheadIsHolding
  <2>1. /\ Home[v] # Home[u] /\ pc[v] = "held" /\ Home[v] \in missing[u]
        /\ stage[Home[v]][u] \notin {"notHeld", "yes"}
    BY DEF Accounts, AheadIsHolding
  <2>2. ~(u = t /\ Home[v] = p)
    BY <2>1
  <2> QED
    BY <2>1, <2>2 DEF Accounts, TypeOK
<1> QED
  BY <1>b, <1>2, <1>3, <1>4, <1>5, <1>6, <1>7 DEF Accounts

\* A refusal coming back, and its allowed++, keeps the invariant.
LEMMA ReplyNoKeeps ==
  ASSUME Accounts, ~crowded', NEW t \in Thread, NEW p \in Node,
         ReplyNo(t, p), TypeOK'
  PROVE  Accounts'
<1> USE DEF ReplyNo, Deferred, HandlerEnds
<1>1. p \in todo[t] /\ pc[t] = "asking"
  BY DEF Accounts, TypeOK, CallsInAsking
<1>b. OneBusy' /\ StateFollowsThread'
  BY BusyKept, StateRests DEF Accounts
<1>2. LoopWithinQueue'
  BY DEF Accounts, TypeOK, LoopWithinQueue
<1>3. CallsInAsking'
  BY <1>1 DEF Accounts, TypeOK, CallsInAsking
<1>4. MissingUntilAnswered'
  BY <1>1 DEF Accounts, TypeOK, MissingUntilAnswered, VotingSet
<1>5. CounterBalance'
  <2>1. Cardinality(todo'[t]) = Cardinality(todo[t]) - 1
    BY <1>1, FiniteMissing DEF Accounts, TypeOK
  <2>2. Cardinality(missing[t]) \in Nat /\ Cardinality(todo[t]) \in Nat
    BY FiniteMissing DEF Accounts
  <2>3. allowed'[Home[t]] = allowed[Home[t]] + 1
    BY DEF Accounts, TypeOK
  <2>4. \A u \in Thread \ {t} :
          /\ todo'[u] = todo[u]
          /\ pc[u] = "asking" => allowed'[Home[u]] = allowed[Home[u]]
    <3>1. \A u \in Thread \ {t} : pc[u] = "asking" => Home[u] # Home[t]
      BY <1>1 DEF Accounts, OneBusy
    <3> QED
      BY <3>1 DEF Accounts, TypeOK
  <2>5. allowed[Home[t]] = Cardinality(missing[t]) - Cardinality(todo[t])
    BY <1>1 DEF Accounts, CounterBalance
  <2>6. allowed'[Home[t]] = Cardinality(missing'[t]) - Cardinality(todo'[t])
    BY <2>1, <2>2, <2>3, <2>5
  <2> QED
    BY <2>4, <2>6 DEF Accounts, CounterBalance
<1>6. OwedIsMissing' /\ OwedOnce'
  <2>1. \A u \in Thread, q \in Node :
           (q \in todo[u] => stage[q][u] = "no") =>
           (q \in todo'[u] => stage'[q][u] = "no")
    BY DEF Accounts, TypeOK
  <2> QED
    BY <2>1, OwedUnchanged, OwedStillMissing DEF Accounts
<1>7. AheadIsHolding'
  BY DEF Accounts, TypeOK, AheadIsHolding
<1> QED
  BY <1>b, <1>2, <1>3, <1>4, <1>5, <1>6, <1>7 DEF Accounts

\* The end of waitForReply, STATE = HELD, keeps the invariant.
LEMMA EnterKeeps ==
  ASSUME Accounts, ~crowded', NEW t \in Thread, Enter(t), TypeOK'
  PROVE  Accounts'
<1> USE DEF Enter
<1>1. missing[t] = {}
  <2>1. Cardinality(todo[t]) = 0
    BY FS_EmptySet
  <2>2. Cardinality(missing[t]) <= 0
    <3>1. allowed[Home[t]] = Cardinality(missing[t]) - Cardinality(todo[t])
      BY DEF Accounts, CounterBalance
    <3>2. Cardinality(missing[t]) \in Nat
      BY FiniteMissing DEF Accounts
    <3> QED
      BY <2>1, <3>1, <3>2 DEF NoneAwaited
  <2>3. IsFiniteSet(missing[t]) /\ Cardinality(missing[t]) \in Nat
    BY FiniteMissing DEF Accounts
  <2>4. Cardinality(missing[t]) = 0
    BY <2>2, <2>3
  <2> QED
    BY <2>3, <2>4, FS_EmptySet
<1>b. OneBusy'
  BY BusyKept DEF Accounts, TypeOK
<1>2. StateFollowsThread'
  BY <1>b, StateMoves DEF Accounts, TypeOK
<1>3. CallsInAsking' /\ LoopWithinQueue' /\ CounterBalance'
  BY DEF Accounts, TypeOK, CallsInAsking, LoopWithinQueue, CounterBalance
<1>4. MissingUntilAnswered'
  BY <1>1 DEF Accounts, TypeOK, MissingUntilAnswered
<1>5. OwedIsMissing' /\ OwedOnce'
  <2>1. \A u \in Thread, q \in Node : q \in missing[u] => pc'[u] = pc[u]
    BY <1>1 DEF Accounts, TypeOK
  <2> QED
    BY <2>1, OwedUnchanged, OwedStillMissing DEF Accounts
<1>6. AheadIsHolding'
  BY DEF Accounts, TypeOK, AheadIsHolding
<1> QED
  BY <1>b, <1>2, <1>3, <1>4, <1>5, <1>6 DEF Accounts

\* The handler's steps before the queue: a request of t at p is in progress.
LEMMA HandlerKeeps ==
  ASSUME Accounts, ~crowded', NEW t \in Thread, NEW p \in Node, TypeOK',
         ReadHeld(p, t) \/ CompareWanted(p, t) \/ GrantNotWanted(p, t)
  PROVE  Accounts'
<1> USE DEF ReadHeld, CompareWanted, GrantNotWanted
<1>1. UNCHANGED <<state, queue, allowed, pc, todo, call, nxt, last, missing,
                  ahead>>
  OBVIOUS
<1>2. /\ stage[p][t] \in {"arrived", "notHeld"}
      /\ stage'[p][t] \in {"notHeld", "defer", "yes"}
      /\ stage'[p][t] # "defer" => state[p] # "HELD" \/ stage[p][t] = "notHeld"
      /\ \A u \in Thread, q \in Node :
            ~(u = t /\ q = p) => stage'[q][u] = stage[q][u]
  <2>1. CASE ReadHeld(p, t)
    BY <2>1 DEF Accounts, TypeOK
  <2>2. CASE CompareWanted(p, t)
    BY <2>2 DEF Accounts, TypeOK
  <2>3. CASE GrantNotWanted(p, t)
    BY <2>3 DEF Accounts, TypeOK
  <2> QED
    BY <2>1, <2>2, <2>3
<1> HIDE DEF ReadHeld, CompareWanted, GrantNotWanted
<1>3. call[t] = p /\ p \in todo[t]
  BY <1>2 DEF Accounts, TypeOK, CallsInAsking
<1>b. OneBusy' /\ StateFollowsThread'
  BY <1>1, BusyKept, StateRests DEF Accounts
<1>4. LoopWithinQueue' /\ CounterBalance'
  BY <1>1 DEF Accounts, LoopWithinQueue, CounterBalance
<1>5. CallsInAsking'
  BY <1>1, <1>2, <1>3 DEF Accounts, CallsInAsking
<1>6. MissingUntilAnswered'
  <2>1. \A u \in Thread, q \in Node :
          stage[q][u] = "no" => stage'[q][u] = "no"
    BY <1>2
  <2>2. \A u \in Thread : todo[u] \subseteq Node
    BY DEF Accounts, TypeOK
  <2> QED
    BY <1>1, <2>1, <2>2 DEF Accounts, MissingUntilAnswered
<1>7. OwedIsMissing' /\ OwedOnce'
  <2>1. \A u \in Thread, q \in Node :
           (q \in todo[u] => stage[q][u] = "no") =>
           (q \in todo'[u] => stage'[q][u] = "no")
    BY <1>1, <1>2
  <2> QED
    BY <1>1, <2>1, OwedUnchanged, OwedStillMissing DEF Accounts
<1>8. AheadIsHolding'
  <2> SUFFICES ASSUME NEW u \in Thread, NEW v \in ahead[u]
               PROVE  /\ Home[v] # Home[u]
                      /\ pc[v] = "held"
                      /\ Home[v] \in missing[u]
                      /\ stage'[Home[v]][u] \notin {"notHeld", "yes"}
    BY <1>1 DEF AheadIsHolding
  <2>1. /\ Home[v] # Home[u] /\ pc[v] = "held" /\ Home[v] \in missing[u]
        /\ stage[Home[v]][u] \notin {"notHeld", "yes"}
    BY DEF Accounts, AheadIsHolding
  <2>2. v \in Thread /\ state[Home[v]] = "HELD"
    BY <2>1 DEF Accounts, TypeOK, StateFollowsThread
  <2> QED
    BY <1>2, <2>1, <2>2
<1> QED
  BY <1>b, <1>4, <1>5, <1>6, <1>7, <1>8 DEF Accounts

\* onRequestedLock queueing the requester keeps the invariant.
LEMMA EnqueueKeeps ==
  ASSUME Accounts, ~crowded', NEW t \in Thread, NEW p \in Node,
         Enqueue(p, t), TypeOK'
  PROVE  Accounts'
<1> USE DEF Enqueue
<1>1. /\ call[t] = p /\ p \in todo[t] /\ pc[t] = "asking" 
      /\ p \in missing[t]
  BY DEF Accounts, TypeOK, CallsInAsking, MissingUntilAnswered
<1>2. /\ queue[p] \in Seq(Node) /\ Home[t] \in Node
      /\ queue'[p] = Append(queue[p], Home[t])
      /\ \A q \in Node \ {p} : queue'[q] = queue[q]
  BY DEF Accounts, TypeOK
<1>3. /\ stage'[p][t] = "no"
      /\ \A u \in Thread, q \in Node :
            ~(u = t /\ q = p) => stage'[q][u] = stage[q][u]
  BY DEF Accounts, TypeOK
<1>b. OneBusy' /\ StateFollowsThread'
  BY BusyKept, StateRests DEF Accounts
<1>4. CounterBalance'
  BY DEF Accounts, CounterBalance
<1>5. CallsInAsking'
  BY <1>1, <1>3 DEF Accounts, CallsInAsking
<1>6. LoopWithinQueue'
  BY <1>2 DEF Accounts, TypeOK, LoopWithinQueue
<1>7. MissingUntilAnswered'
  BY <1>3 DEF Accounts, TypeOK, MissingUntilAnswered
\* What is owed afterwards was owed, or is the new entry.
<1>8. ASSUME NEW q \in Node, NEW i \in DOMAIN queue'[q], Owed(q, i)'
      PROVE  \/ /\ i \in DOMAIN queue[q] /\ Owed(q, i)
                /\ queue'[q][i] = queue[q][i]
             \/ /\ q = p /\ i = Len(queue[p]) + 1 /\ queue'[q][i] = Home[t]
  BY <1>2, <1>8 DEF Owed
<1>9. \A i \in DOMAIN queue[p] : ~(Owed(p, i) /\ queue[p][i] = Home[t])
  <2> SUFFICES ASSUME NEW i \in DOMAIN queue[p], Owed(p, i),
                      queue[p][i] = Home[t]
               PROVE  FALSE
    OBVIOUS
  <2>1. PICK u \in Thread : Home[u] = queue[p][i] /\ CountsOn(u, p)
    BY DEF Accounts, OwedIsMissing
  <2>2. u = t
    BY <1>1, <2>1 DEF Accounts, OneBusy, CountsOn
  <2> QED
    BY <1>1, <2>1, <2>2 DEF CountsOn
<1>10. OwedIsMissing'
  <2> SUFFICES ASSUME NEW q \in Node, NEW i \in DOMAIN queue'[q], Owed(q, i)'
               PROVE  \E u \in Thread : /\ Home[u] = queue'[q][i]
                                        /\ CountsOn(u, q)'
    BY DEF OwedIsMissing
  <2>1. CASE q = p /\ i = Len(queue[p]) + 1
    <3>1. queue'[q][i] = Home[t] /\ CountsOn(t, q)'
      BY <1>1, <1>2, <1>3, <2>1 DEF CountsOn
    <3> QED
      BY <3>1
  <2>2. CASE /\ i \in DOMAIN queue[q] /\ Owed(q, i)
             /\ queue'[q][i] = queue[q][i]
    <3>1. PICK u \in Thread : Home[u] = queue[q][i] /\ CountsOn(u, q)
      BY <2>2 DEF Accounts, OwedIsMissing
    <3>2. CountsOn(u, q)'
      BY <1>3, <3>1 DEF CountsOn
    <3> QED
      BY <2>2, <3>1, <3>2
  <2> QED
    BY <1>8, <2>1, <2>2
<1>11. OwedOnce'
  <2> SUFFICES ASSUME NEW q \in Node, NEW i \in DOMAIN queue'[q],
                      NEW j \in DOMAIN queue'[q], Owed(q, i)', Owed(q, j)',
                      queue'[q][i] = queue'[q][j]
               PROVE  i = j
    BY DEF OwedOnce
  <2> QED
    BY <1>8, <1>9 DEF Accounts, OwedOnce
<1>12. AheadIsHolding'
  BY <1>3 DEF Accounts, TypeOK, AheadIsHolding
<1> QED
  BY <1>b, <1>4, <1>5, <1>6, <1>7, <1>10, <1>11, <1>12 DEF Accounts

\* releaseLock, STATE = RELEASED, keeps the invariant.
LEMMA ReleaseKeeps ==
  ASSUME Accounts, ~crowded', NEW t \in Thread, Release(t), TypeOK'
  PROVE  Accounts'
<1> USE DEF Release
<1>b. OneBusy'
  BY BusyKept DEF Accounts, TypeOK
<1>1. StateFollowsThread'
  BY <1>b, StateMoves DEF Accounts, TypeOK
<1>2. CallsInAsking' /\ LoopWithinQueue' /\ CounterBalance'
  BY DEF Accounts, TypeOK, CallsInAsking, LoopWithinQueue, CounterBalance
<1>3. MissingUntilAnswered'
  BY DEF Accounts, TypeOK, MissingUntilAnswered
<1>4. OwedIsMissing' /\ OwedOnce'
  <2>1. \A u \in Thread : pc[u] = "asking" => pc'[u] = pc[u]
    BY DEF Accounts, TypeOK
  <2> QED
    BY <2>1, OwedUnchanged, OwedStillMissing DEF Accounts
<1>5. AheadIsHolding'
  BY DEF Accounts, TypeOK, AheadIsHolding
<1> QED
  BY <1>b, <1>1, <1>2, <1>3, <1>4, <1>5 DEF Accounts

\* releaseLock taking its two iterators keeps the invariant.
LEMMA StartLoopKeeps ==
  ASSUME Accounts, ~crowded', NEW t \in Thread, StartLoop(t), TypeOK'
  PROVE  Accounts'
<1> USE DEF StartLoop
<1>1. nxt' = nxt
  BY DEF Accounts, TypeOK, LoopWithinQueue
<1>b. OneBusy'
  BY BusyKept DEF Accounts, TypeOK
<1>c. StateFollowsThread'
  BY StateRests DEF Accounts, TypeOK
<1>2. CallsInAsking' /\ CounterBalance'
  BY DEF Accounts, TypeOK, CallsInAsking, CounterBalance
<1>3. LoopWithinQueue'
  BY DEF Accounts, TypeOK, LoopWithinQueue, OneBusy
<1>4. MissingUntilAnswered'
  BY DEF Accounts, TypeOK, MissingUntilAnswered
<1>5. OwedIsMissing' /\ OwedOnce'
  <2>1. \A u \in Thread : pc[u] = "asking" => pc'[u] = pc[u]
    BY DEF Accounts, TypeOK
  <2> QED
    BY <1>1, <2>1, OwedUnchanged, OwedStillMissing DEF Accounts
<1>6. AheadIsHolding'
  BY DEF Accounts, TypeOK, AheadIsHolding
<1> QED
  BY <1>b, <1>c, <1>2, <1>3, <1>4, <1>5, <1>6 DEF Accounts

\* The entry at releaseLock's iterator is owed, so the process that is called
\* back waits for it.
LEMMA CalledBackWasMissing ==
  ASSUME Accounts, NEW t \in Thread, NEW n \in Node, Notify(t, n)
  PROVE  /\ nxt[t] \in DOMAIN queue[Home[t]]
         /\ queue[Home[t]][nxt[t]] = n
         /\ Owed(Home[t], nxt[t])
         /\ \E u \in Thread : Home[u] = n /\ CountsOn(u, Home[t])
         /\ \A u \in Thread : Home[u] = n =>
              CountsOn(u, Home[t]) \/ (missing[u] = {} /\ todo[u] = {})
<1>1. /\ nxt[t] <= last[t]
      /\ nxt[t] \in DOMAIN queue[Home[t]] => n = queue[Home[t]][nxt[t]]
  BY DEF Notify, Notified
<1>2. last[t] <= Len(queue[Home[t]])
  BY DEF Accounts, LoopWithinQueue
<1>3. /\ queue[Home[t]] \in Seq(Node) /\ Home[t] \in Node
      /\ nxt[t] \in Nat \ {0} /\ last[t] \in Nat
  BY DEF Accounts, TypeOK
<1>4. nxt[t] \in DOMAIN queue[Home[t]]
  BY <1>1, <1>2, <1>3
<1>5. \A u \in Thread : Home[u] = Home[t] => nxt[t] >= nxt[u]
  <2>1. \A u \in Thread : Home[u] = Home[t] /\ u # t => nxt[u] = 1
    BY DEF Notify, Notified, Accounts, OneBusy, LoopWithinQueue
  <2> QED
    BY <1>3, <2>1
<1>6. Owed(Home[t], nxt[t])
  BY <1>3, <1>4, <1>5 DEF Owed
<1>7. PICK v \in Thread : Home[v] = n /\ CountsOn(v, Home[t])
  BY <1>1, <1>3, <1>4, <1>6 DEF Accounts, OwedIsMissing
<1>8. ASSUME NEW u \in Thread, Home[u] = n, u # v
      PROVE  missing[u] = {} /\ todo[u] = {}
  <2>1. pc[u] = "idle"
    BY <1>7, <1>8 DEF Accounts, OneBusy, CountsOn
  <2> QED
    BY <2>1 DEF Accounts, MissingUntilAnswered, CallsInAsking
<1>9. ASSUME NEW u \in Thread, Home[u] = n
      PROVE  CountsOn(u, Home[t]) \/ (missing[u] = {} /\ todo[u] = {})
  <2>1. CASE u = v
    BY <1>7, <2>1 DEF CountsOn
  <2>2. CASE u # v
    BY <1>8, <1>9, <2>2
  <2> QED
    BY <2>1, <2>2
<1>10. queue[Home[t]][nxt[t]] = n
  BY <1>1, <1>4
<1> QED
  BY <1>4, <1>6, <1>7, <1>9, <1>10

\* releaseLock calling one requester back, and its allowed--, keeps the invariant.
LEMMA NotifyKeeps ==
  ASSUME Accounts, ~crowded', NEW t \in Thread, NEW n \in Node,
         Notify(t, n), TypeOK'
  PROVE  Accounts'
<1> DEFINE p == Home[t]
           k == nxt[t]
<1>0. UNCHANGED <<state, queue, time, slot, pc, stamp, todo, call, last, stage,
                  req, asked, failures, ahead>>
  BY DEF Notify, Notified
<1>t. /\ nxt \in [Thread -> Nat \ {0}] /\ last \in [Thread -> Nat]
      /\ queue \in [Node -> Seq(Node)] /\ p \in Node
  BY DEF Accounts, TypeOK
<1>1. /\ pc[t] = "notifying" /\ k \in DOMAIN queue[p] /\ queue[p][k] = n
      /\ k <= last[t] /\ k \in Nat \ {0}
  BY <1>t, CalledBackWasMissing DEF Notify, Notified
<1>2. nxt' = [nxt EXCEPT ![t] = k + 1]
  BY DEF Notify, Notified
<1>3. missing' = [u \in Thread |-> IF Home[u] = n THEN missing[u] \ {p}
                                   ELSE missing[u]]
  BY DEF Notify, PermittedBy
<1>4. allowed' = [allowed EXCEPT ![n] = @ - 1]
  BY DEF Notify
\* The entry that is called back was owed, and no other of p is owed to n.
<1>5. Owed(p, k)
  BY CalledBackWasMissing
<1>6. /\ \E u \in Thread : Home[u] = n /\ CountsOn(u, p)
      /\ \A u \in Thread : Home[u] = n =>
           CountsOn(u, p) \/ (missing[u] = {} /\ todo[u] = {})
  BY CalledBackWasMissing
<1>7. ASSUME NEW q \in Node, NEW i \in DOMAIN queue[q], Owed(q, i)'
      PROVE  Owed(q, i) /\ ~(q = p /\ queue[q][i] = n)
  <2>1. \A u \in Thread : nxt[u] \in Nat /\ nxt'[u] \in Nat /\ nxt'[u] >= nxt[u]
    BY <1>2, <1>t
  <2>2. Owed(q, i)
    <3>1. i \in Nat
      BY <1>t
    <3>2. \A u \in Thread : Home[u] = q => i >= nxt'[u]
      BY <1>7 DEF Owed
    <3> QED
      BY <2>1, <3>1, <3>2 DEF Owed
  <2>3. q = p => i >= k + 1
    <3>1. nxt'[t] = k + 1
      BY <1>2, <1>t
    <3> QED
      BY <1>7, <1>t, <3>1 DEF Owed
  <2>4. q = p /\ queue[q][i] = n => i = k
    BY <1>1, <1>5, <2>2 DEF Accounts, OwedOnce
  <2> QED
    BY <1>1, <2>2, <2>3, <2>4
<1>b. OneBusy' /\ StateFollowsThread'
  BY <1>0, BusyKept, StateRests DEF Accounts
<1>8. CallsInAsking'
  BY <1>0 DEF Accounts, CallsInAsking
<1>9. LoopWithinQueue'
  <2>1. nxt'[t] = k + 1 /\ \A u \in Thread \ {t} : nxt'[u] = nxt[u]
    BY <1>2, <1>t
  <2> QED
    BY <1>0, <1>1, <1>t, <2>1 DEF Accounts, LoopWithinQueue
<1>10. MissingUntilAnswered'
  <2> SUFFICES ASSUME NEW u \in Thread
               PROVE  /\ missing'[u] \subseteq VotingSet(u)
                      /\ pc[u] = "wanted" => missing'[u] = VotingSet(u)
                      /\ missing'[u] # {} => pc[u] \in {"wanted", "asking"}
                      /\ \A q \in todo[u] \ missing'[u] : stage[q][u] = "no"
    BY <1>0 DEF MissingUntilAnswered, VotingSet
  <2>1. CASE Home[u] = n
    <3>1. missing'[u] = missing[u] \ {p}
      BY <1>3, <2>1
    <3>2. CASE CountsOn(u, p)
      BY <3>1, <3>2 DEF Accounts, MissingUntilAnswered, CountsOn
    <3>3. CASE missing[u] = {} /\ todo[u] = {}
      BY <3>1, <3>3 DEF Accounts, MissingUntilAnswered
    <3> QED
      BY <1>6, <2>1, <3>2, <3>3
  <2>2. CASE Home[u] # n
    <3>1. missing'[u] = missing[u]
      BY <1>3, <2>2
    <3> QED
      BY <3>1 DEF Accounts, MissingUntilAnswered
  <2> QED
    BY <2>1, <2>2
<1>11. CounterBalance'
  <2> SUFFICES ASSUME NEW u \in Thread, pc[u] = "asking"
               PROVE  allowed'[Home[u]] =
                        Cardinality(missing'[u]) - Cardinality(todo[u])
    BY <1>0 DEF CounterBalance
  <2>1. /\ allowed[Home[u]] = Cardinality(missing[u]) - Cardinality(todo[u])
        /\ Cardinality(missing[u]) \in Nat /\ Cardinality(todo[u]) \in Nat
    BY FiniteMissing DEF Accounts, CounterBalance
  <2>2. CASE Home[u] = n
    <3>1. allowed'[Home[u]] = allowed[Home[u]] - 1
      BY <1>4, <2>2 DEF Accounts, TypeOK
    <3>2. missing'[u] = missing[u] \ {p} /\ p \in missing[u]
      <4>1. PICK v \in Thread : Home[v] = n /\ CountsOn(v, p)
        BY <1>6
      <4>2. v = u
        BY <2>2, <4>1 DEF Accounts, OneBusy, CountsOn
      <4> QED
        BY <1>3, <2>2, <4>1, <4>2 DEF CountsOn
    <3>3. Cardinality(missing'[u]) = Cardinality(missing[u]) - 1
      BY <3>2, FiniteMissing DEF Accounts
    <3> QED
      BY <2>1, <3>1, <3>3
  <2>3. CASE Home[u] # n
    <3>1. allowed'[Home[u]] = allowed[Home[u]] /\ missing'[u] = missing[u]
      BY <1>3, <1>4, <2>3 DEF Accounts, TypeOK
    <3> QED
      BY <2>1, <3>1
  <2> QED
    BY <2>2, <2>3
<1>12. OwedIsMissing'
  <2> SUFFICES ASSUME NEW q \in Node, NEW i \in DOMAIN queue[q], Owed(q, i)'
               PROVE  \E u \in Thread : Home[u] = queue[q][i] /\ CountsOn(u, q)'
    BY <1>0 DEF OwedIsMissing
  <2>1. Owed(q, i) /\ ~(q = p /\ queue[q][i] = n)
    BY <1>7
  <2>2. PICK u \in Thread : Home[u] = queue[q][i] /\ CountsOn(u, q)
    BY <2>1 DEF Accounts, OwedIsMissing
  <2>3. q \in missing'[u]
    BY <1>3, <2>1, <2>2 DEF CountsOn
  <2> QED
    BY <1>0, <2>2, <2>3 DEF CountsOn
<1>13. OwedOnce'
  BY <1>0, <1>7 DEF Accounts, OwedOnce
<1>14. AheadIsHolding'
  <2> SUFFICES ASSUME NEW u \in Thread, NEW v \in ahead[u]
               PROVE  /\ Home[v] # Home[u] /\ pc[v] = "held"
                      /\ Home[v] \in missing'[u]
                      /\ stage[Home[v]][u] \notin {"notHeld", "yes"}
    BY <1>0 DEF AheadIsHolding
  <2>1. /\ v \in Thread /\ Home[v] # Home[u] /\ pc[v] = "held"
        /\ Home[v] \in missing[u]
        /\ stage[Home[v]][u] \notin {"notHeld", "yes"}
    BY DEF Accounts, TypeOK, AheadIsHolding
  <2>2. Home[v] # p
    BY <1>1, <2>1 DEF Accounts, OneBusy
  <2> QED
    BY <1>3, <2>1, <2>2
<1> QED
  BY <1>b, <1>8, <1>9, <1>10, <1>11, <1>12, <1>13, <1>14 DEF Accounts

\* clearQueue keeps the invariant: it drops nothing that is owed.
LEMMA ClearQueueKeeps ==
  ASSUME Accounts, ~crowded', NEW t \in Thread, ClearQueue(t), TypeOK'
  PROVE  Accounts'
<1> USE DEF ClearQueue
<1>b. OneBusy'
  BY BusyKept DEF Accounts, TypeOK
<1>c. StateFollowsThread'
  BY StateRests DEF Accounts, TypeOK
<1>1. CallsInAsking' /\ CounterBalance'
  BY DEF Accounts, TypeOK, CallsInAsking, CounterBalance
<1>2. LoopWithinQueue'
  <2>1. \A u \in Thread \ {t} : Home[u] = Home[t] => last[u] = 0
    BY DEF Accounts, OneBusy, LoopWithinQueue
  <2> QED
    BY <2>1 DEF Accounts, TypeOK, LoopWithinQueue
<1>3. MissingUntilAnswered'
  BY DEF Accounts, TypeOK, MissingUntilAnswered
\* Only entries of other processes are left, and owed as before.
<1>4. ASSUME NEW q \in Node, NEW i \in DOMAIN queue'[q], Owed(q, i)'
      PROVE  /\ i \in DOMAIN queue[q] /\ Owed(q, i)
             /\ queue'[q][i] = queue[q][i]
  <2>1. q # Home[t] /\ queue'[q] = queue[q]
    BY DEF Accounts, TypeOK
  <2>2. \A u \in Thread : Home[u] = q => nxt'[u] = nxt[u]
    BY <2>1 DEF Accounts, TypeOK
  <2> QED
    BY <1>4, <2>1, <2>2 DEF Owed
<1>5. OwedIsMissing'
  <2> SUFFICES ASSUME NEW q \in Node, NEW i \in DOMAIN queue'[q], Owed(q, i)'
               PROVE  \E u \in Thread : /\ Home[u] = queue'[q][i]
                                        /\ CountsOn(u, q)'
    BY DEF OwedIsMissing
  <2>1. PICK u \in Thread : Home[u] = queue[q][i] /\ CountsOn(u, q)
    BY <1>4 DEF Accounts, OwedIsMissing
  <2>2. CountsOn(u, q)'
    BY <2>1 DEF Accounts, TypeOK, CountsOn
  <2> QED
    BY <1>4, <2>1, <2>2
<1>6. OwedOnce'
  BY <1>4 DEF Accounts, OwedOnce
<1>7. AheadIsHolding'
  BY DEF Accounts, TypeOK, AheadIsHolding
<1> QED
  BY <1>b, <1>c, <1>1, <1>2, <1>3, <1>5, <1>6, <1>7 DEF Accounts

\* The accounts balance after init() of every process.
LEMMA InitAccounts == ASSUME Init PROVE Accounts
<1>1. TypeOK
  BY InitType
<1>2. /\ OneBusy /\ StateFollowsThread /\ CallsInAsking /\ LoopWithinQueue
      /\ MissingUntilAnswered /\ CounterBalance /\ AheadIsHolding
  BY DEF Init, OneBusy, StateFollowsThread, CallsInAsking, LoopWithinQueue,
         MissingUntilAnswered, CounterBalance, AheadIsHolding
<1>3. OwedIsMissing /\ OwedOnce
  BY DEF Init, OwedIsMissing, OwedOnce
<1> QED
  BY <1>1, <1>2, <1>3 DEF Accounts

\* Every step after which no two threads have met keeps them balanced.
LEMMA NextAccounts ==
  ASSUME Accounts, ~crowded', [Next]_vars PROVE Accounts'
<1>1. TypeOK'
  BY NextType DEF Accounts
<1>2. CASE UNCHANGED vars
  <2>1. UNCHANGED <<queue, nxt>>
    BY <1>2 DEF vars
  <2>2. UNCHANGED <<pc, missing, todo, stage, call, state, last, allowed, ahead>>
    BY <1>2 DEF vars
  <2>3. /\ StateFollowsThread' /\ CallsInAsking' /\ LoopWithinQueue'
        /\ MissingUntilAnswered' /\ CounterBalance' /\ AheadIsHolding'
        /\ OneBusy'
    BY <2>1, <2>2 DEF Accounts, StateFollowsThread, CallsInAsking, OneBusy,
       LoopWithinQueue, MissingUntilAnswered, CounterBalance, AheadIsHolding
  <2>4. OwedIsMissing' /\ OwedOnce'
    BY <2>1, <2>2, OwedUnchanged, OwedStillMissing DEF Accounts
  <2> QED
    BY <1>1, <2>3, <2>4 DEF Accounts
<1>3. CASE \E t \in Thread : Requester(t)
  BY <1>1, <1>3, WantKeeps, StampKeeps, AskKeeps, ReplyYesKeeps, ReplyNoKeeps,
     EnterKeeps DEF Requester
<1>4. CASE \E t \in Thread : Releaser(t)
  BY <1>1, <1>4, ReleaseKeeps, StartLoopKeeps, NotifyKeeps, ClearQueueKeeps
  DEF Releaser
<1>5. CASE \E t \in Thread, p \in Node : Handler(p, t)
  BY <1>1, <1>5, HandlerKeeps, EnqueueKeeps DEF Handler
<1> QED
  BY <1>2, <1>3, <1>4, <1>5 DEF Next

\* That two threads of a process have met is not forgotten.
LEMMA CrowdedStays ==
  ASSUME crowded, [Next \/ Failure \/ Race]_vars PROVE crowded'
<1>1. CASE UNCHANGED vars
  BY <1>1 DEF vars
<1>2. CASE \E t \in Thread : Requester(t)
  BY <1>2 DEF Requester, Want, Stamp, Ask, ReplyYes, ReplyNo, Enter
<1>3. CASE \E t \in Thread : Releaser(t)
  BY <1>3 DEF Releaser, Release, StartLoop, Notify, ClearQueue
<1>4. CASE \E t \in Thread, p \in Node : Handler(p, t)
  BY <1>4 DEF Handler, ReadHeld, CompareWanted, GrantNotWanted, Enqueue
<1>5. CASE Failure
  BY <1>5 DEF Failure, Unreachable, Timeout, PermissionAssumed, Discard,
     NotifyLost, NotifyTimeout, NotifyLate
<1>6. CASE Race
  BY <1>6 DEF Race, RaceOfReplyAndRelease, ReplyOverlapsRelease, RaceOfReleases
<1> QED
  BY <1>1, <1>2, <1>3, <1>4, <1>5, <1>6 DEF Next

LEMMA NextIInv == IInv /\ [Next]_vars => IInv'
BY NextAccounts, CrowdedStays DEF IInv

\* What the invariant is for.
LEMMA InsideHasEverything ==
  ASSUME IInv PROVE EntersWithEveryPermission /\ NoOvertaking
<1>1. EntersWithEveryPermission
  BY DEF IInv, Accounts, MissingUntilAnswered, EntersWithEveryPermission
<1>2. NoOvertaking
  BY DEF IInv, Accounts, TypeOK, MissingUntilAnswered, AheadIsHolding,
         NoOvertaking
<1> QED
  BY <1>1, <1>2

\* However many threads call requestLock, the accounts of the lock balance until
\* two of one process have met: the counter of awaited answers, the queues and
\* the handlers in progress tell the same story.
THEOREM AccountsBalance == Spec => []IInv
<1>1. Init => IInv
  BY InitAccounts DEF IInv
<1> QED
  BY <1>1, NextIInv, PTL DEF Spec

\* Until then the counter never lets a thread in early: whoever is inside has
\* the permission of every peer, for every number of processes and requests.
THEOREM EveryPermission == Spec => []EntersWithEveryPermission
<1>1. IInv => EntersWithEveryPermission
  BY InsideHasEverything
<1> QED
  BY <1>1, AccountsBalance, PTL

\* Until then nobody enters before a thread that was inside when it asked has
\* left.
THEOREM NobodyOvertakes == Spec => []NoOvertaking
<1>1. IInv => NoOvertaking
  BY InsideHasEverything
<1> QED
  BY <1>1, AccountsBalance, PTL

\* Two threads of a process meet only where one of them asks.
LEMMA OnlyWantCrowds ==
  ASSUME ~crowded, crowded', [Next]_vars PROVE \E t \in Thread : Want(t)
<1>1. CASE UNCHANGED vars
  BY <1>1 DEF vars
<1>2. CASE \E t \in Thread : Requester(t)
  BY <1>2 DEF Requester, Stamp, Ask, ReplyYes, ReplyNo, Enter
<1>3. CASE \E t \in Thread : Releaser(t)
  BY <1>3 DEF Releaser, Release, StartLoop, Notify, ClearQueue
<1>4. CASE \E t \in Thread, p \in Node : Handler(p, t)
  BY <1>4 DEF Handler, ReadHeld, CompareWanted, GrantNotWanted, Enqueue
<1> QED
  BY <1>1, <1>2, <1>3, <1>4 DEF Next

\* requestLock, STATE = WANTED, is the asking of the permission lock.
LEMMA WantAsks ==
  ASSUME TypeOK, NEW t \in Thread, Want(t) PROVE Promise!Ask(t)
<1> DEFINE phase == [u \in Thread |-> Phase(u)]
<1>1. pc \in [Thread -> PC] /\ pc[t] = "idle"
      /\ pc' = [pc EXCEPT ![t] = "wanted"]
  BY DEF TypeOK, Want
<1>2. phase[t] = "out" /\ phase' = [phase EXCEPT ![t] = "asking"]
  BY <1>1 DEF Phase
<1>3. {u \in Thread : phase[u] = "in"} = {u \in Thread : pc[u] = "held"}
  BY DEF Phase
<1>4. \A u \in Thread : phase[u] # "out" <=> pc[u] # "idle"
  BY DEF Phase
<1>5. Promise!OtherBusy(t) <=> OtherBusy(t)
  BY <1>4 DEF Promise!OtherBusy, OtherBusy
<1>6. crowded' = (crowded \/ Promise!OtherBusy(t))
  BY <1>5 DEF Want
<1> QED
  BY <1>2, <1>3, <1>6 DEF Want, Promise!Ask, VotingSet

\* The step of the permission lock, or the stutter, of every step.
LEMMA NextImplements ==
  ASSUME Accounts, ~crowded', [Next]_vars
  PROVE  [Promise!Next]_(Promise!vars)
<1> DEFINE phase == [t \in Thread |-> Phase(t)]
<1>t. /\ pc \in [Thread -> PC] /\ missing \in [Thread -> SUBSET Node]
      /\ ahead \in [Thread -> SUBSET Thread]
  BY DEF Accounts, TypeOK
\* Steps that leave pc's phase and the histories alone are stutters.
<1>s. ASSUME UNCHANGED <<missing, ahead, crowded>>, \A t \in Thread : Phase(t)' = Phase(t)
      PROVE  UNCHANGED Promise!vars
  BY <1>s DEF Promise!vars
<1>1. CASE UNCHANGED vars
  BY <1>1, <1>s DEF vars, Phase
<1>2. ASSUME NEW t \in Thread, Want(t) PROVE Promise!Ask(t)
  BY <1>2, WantAsks DEF Accounts
<1>3. ASSUME NEW t \in Thread, Stamp(t) PROVE UNCHANGED Promise!vars
  <2>1. UNCHANGED <<missing, ahead, crowded>> /\ pc[t] = "wanted"
        /\ pc' = [pc EXCEPT ![t] = "asking"]
    BY <1>3 DEF Stamp
  <2> QED
    BY <1>s, <1>t, <2>1 DEF Phase
<1>4. ASSUME NEW t \in Thread, NEW p \in Node, Ask(t, p) \/ ReplyNo(t, p)
      PROVE  UNCHANGED Promise!vars
  <2>1. UNCHANGED <<missing, ahead, crowded, pc>>
    BY <1>4 DEF Ask, ReplyNo
  <2> QED
    BY <1>s, <2>1 DEF Phase
<1>5. ASSUME NEW t \in Thread, NEW p \in Node, ReplyYes(t, p)
      PROVE  Promise!Permit(t, p)
  <2>1. p \in todo[t] /\ stage[p][t] = "yes"
    BY <1>5 DEF ReplyYes, Accounts, CallsInAsking
  <2>2. p \in missing[t] /\ pc[t] = "asking"
    BY <2>1 DEF Accounts, CallsInAsking, MissingUntilAnswered
  <2>3. \A u \in ahead[t] : Home[u] # p
    BY <2>1 DEF Accounts, AheadIsHolding
  <2>4. /\ missing' = [missing EXCEPT ![t] = @ \ {p}]
        /\ pc' = pc /\ ahead' = ahead /\ crowded' = crowded
    BY <1>5 DEF ReplyYes
  <2>5. phase[t] = "asking" /\ phase' = phase
    BY <2>2, <2>4 DEF Phase
  <2> QED
    BY <2>2, <2>3, <2>4, <2>5 DEF Promise!Permit
<1>6. ASSUME NEW t \in Thread, Enter(t) PROVE Promise!Enter(t)
  <2>1. Accounts'
    BY <1>6, NextAccounts DEF Next, Requester
  <2>2. /\ pc[t] = "asking" /\ pc' = [pc EXCEPT ![t] = "held"]
        /\ missing' = missing /\ ahead' = ahead /\ crowded' = crowded
    BY <1>6 DEF Enter
  <2>3. missing[t] = {}
    BY <1>t, <2>1, <2>2 DEF Accounts, MissingUntilAnswered
  <2>4. phase[t] = "asking" /\ phase' = [phase EXCEPT ![t] = "in"]
    BY <1>t, <2>2 DEF Phase
  <2> QED
    BY <2>2, <2>3, <2>4 DEF Promise!Enter
<1>7. ASSUME NEW t \in Thread, NEW p \in Node, Handler(p, t)
      PROVE  UNCHANGED Promise!vars
  <2>1. UNCHANGED <<missing, ahead, crowded, pc>>
    BY <1>7 DEF Handler, ReadHeld, CompareWanted, GrantNotWanted, Enqueue
  <2> QED
    BY <1>s, <2>1 DEF Phase
<1>8. ASSUME NEW t \in Thread, Release(t) PROVE Promise!Leave(t)
  <2>1. /\ pc[t] = "held" /\ pc' = [pc EXCEPT ![t] = "released"]
        /\ missing' = missing /\ ahead' = [u \in Thread |-> ahead[u] \ {t}]
        /\ crowded' = crowded
    BY <1>8 DEF Release
  <2>2. phase[t] = "in" /\ phase' = [phase EXCEPT ![t] = "leaving"]
    BY <1>t, <2>1 DEF Phase
  <2> QED
    BY <2>1, <2>2 DEF Promise!Leave
<1>9. ASSUME NEW t \in Thread, StartLoop(t) PROVE UNCHANGED Promise!vars
  <2>1. /\ UNCHANGED <<missing, ahead, crowded>>
        /\ pc[t] = "released" /\ pc' = [pc EXCEPT ![t] = "notifying"]
    BY <1>9 DEF StartLoop
  <2> QED
    BY <1>s, <1>t, <2>1 DEF Phase
<1>14. ASSUME NEW t \in Thread, ClearQueue(t) PROVE Promise!End(t)
  <2>1. /\ UNCHANGED <<missing, ahead, crowded>>
        /\ pc[t] = "notifying" /\ pc' = [pc EXCEPT ![t] = "idle"]
    BY <1>14 DEF ClearQueue
  <2>2. phase[t] = "leaving" /\ phase' = [phase EXCEPT ![t] = "out"]
    BY <1>t, <2>1 DEF Phase
  <2> QED
    BY <2>1, <2>2 DEF Promise!End
\* A call-back is owed to one thread.
<1>10. ASSUME NEW t \in Thread, NEW n \in Node, Notify(t, n)
       PROVE  \E u \in Thread : Promise!Permit(u, Home[t])
  <2> DEFINE p == Home[t]
  <2>1. /\ pc' = pc /\ ahead' = ahead /\ crowded' = crowded
        /\ pc[t] = "notifying"
        /\ missing' = [u \in Thread |-> IF Home[u] = n THEN missing[u] \ {p}
                                        ELSE missing[u]]
    BY <1>10 DEF Notify, Notified, PermittedBy
  <2>2. phase' = phase
    BY <2>1 DEF Phase
  <2>3. PICK u \in Thread : Home[u] = n /\ CountsOn(u, p)
    BY <1>10, CalledBackWasMissing
  <2>4. \A v \in Thread : Home[v] = n /\ v # u => missing[v] = {}
    <3>1. \A v \in Thread : Home[v] = n /\ v # u => pc[v] = "idle"
      BY <2>3 DEF Accounts, OneBusy, CountsOn
    <3> QED
      BY <3>1 DEF Accounts, MissingUntilAnswered
  <2>5. missing' = [missing EXCEPT ![u] = @ \ {p}]
    BY <1>t, <2>1, <2>3, <2>4
  <2>6. phase[u] = "asking" /\ p \in missing[u]
    BY <2>3 DEF CountsOn, Phase
  <2>7. \A v \in ahead[u] : Home[v] # p
    BY <1>t, <2>1 DEF Accounts, AheadIsHolding, OneBusy
  <2>8. Promise!Permit(u, p)
    BY <2>1, <2>2, <2>5, <2>6, <2>7 DEF Promise!Permit
  <2> QED
    BY <2>8
<1>11. CASE \E t \in Thread : Requester(t)
  BY <1>2, <1>3, <1>4, <1>5, <1>6, <1>11 DEF Requester, Promise!Next
<1>12. CASE \E t \in Thread : Releaser(t)
  BY <1>8, <1>9, <1>10, <1>12, <1>14 DEF Releaser, Promise!Next
<1>13. CASE \E t \in Thread, p \in Node : Handler(p, t)
  BY <1>7, <1>13
<1> QED
  BY <1>1, <1>11, <1>12, <1>13 DEF Next

\* The lock implements the permission lock, for every number of processes and of
\* threads.
THEOREM Implementation == Spec => ImplementsPermissionLock
<1>1. Init => IInv
  BY InitAccounts DEF IInv
<1>2. Init => Promise!Init
  BY DEF Init, Promise!Init, Phase
<1>3. IInv /\ [Next]_vars => [Promise!Next]_(Promise!vars)
  <2> SUFFICES ASSUME IInv, [Next]_vars
               PROVE  [Promise!Next]_(Promise!vars)
    OBVIOUS
  <2>1. CASE ~crowded'
    BY <2>1, NextImplements, CrowdedStays DEF IInv
  <2>2. CASE crowded /\ crowded'
    BY <2>2 DEF Promise!Next, Promise!Void
  <2>3. CASE ~crowded /\ crowded'
    <3>1. TypeOK
      BY <2>3 DEF IInv, Accounts
    <3>2. PICK t \in Thread : Want(t)
      BY <2>3, OnlyWantCrowds
    <3>3. Promise!Ask(t)
      BY <3>1, <3>2, WantAsks
    <3> QED
      BY <3>3 DEF Promise!Next
  <2> QED
    BY <2>1, <2>2, <2>3
<1> QED
  BY <1>1, NextIInv, <1>2, <1>3, PTL
  DEF Spec, ImplementsPermissionLock, Promise!Spec

-----------------------------------------------------------------------------
(***************************************************************************)
(* A process that is inside gives no permission, whatever fails.           *)
(***************************************************************************)

\* The part of the accounts that survives lost RPCs and lost counts.
HolderInv ==
  /\ TypeOK
  /\ OneBusy
  /\ StateFollowsThread
  /\ \A t \in Thread :
       call[t] # NoNode => pc[t] = "asking" /\ call[t] \in todo[t]
  /\ \A t \in Thread : \A u \in ahead[t] :
       /\ u # t
       /\ pc[u] = "held"
       /\ call[t] = Home[u] => stage[Home[u]][t] \notin {"notHeld", "yes"}

\* The smaller invariant behind NoPermitByHolder holds after init().
LEMMA HolderInvInit == ASSUME Init PROVE HolderInv
BY InitType DEF Init, HolderInv, OneBusy, StateFollowsThread

\* Steps of the thread that change its place in requestLock or releaseLock.
LEMMA HolderInvMoves ==
  ASSUME HolderInv, ~crowded', TypeOK', NEW t \in Thread,
         Want(t) \/ Stamp(t) \/ Enter(t) \/ Release(t) \/ StartLoop(t)
           \/ ClearQueue(t)
  PROVE  HolderInv'
<1>1. CASE Want(t)
  <2>0. pc' = [pc EXCEPT ![t] = pc'[t]] /\ pc'[t] = "wanted"
    BY <1>1 DEF Want, HolderInv, TypeOK
  <2>1. OneBusy'
    <3>1. ~OtherBusy(t)
      BY <1>1 DEF Want
    <3>2. \A u \in Thread \ {t} : pc'[u] = pc[u]
      BY <2>0 DEF HolderInv, TypeOK
    <3>3. \A u \in Thread \ {t} : Home[u] = Home[t] => pc'[u] = "idle"
      BY <3>1, <3>2 DEF OtherBusy
    <3>4. OneBusy
      BY DEF HolderInv
    <3> QED
      BY <3>2, <3>3, <3>4 DEF OneBusy
  <2>2. StateFollowsThread'
    <3>1. state' = [state EXCEPT ![Home[t]] = "WANTED"]
      BY <1>1 DEF Want
    <3>2. /\ pc \in [Thread -> PC] /\ StateFollowsThread
          /\ state \in [Node -> {"RELEASED", "WANTED", "HELD"}]
      BY DEF HolderInv, TypeOK
    <3> QED
      BY <2>0, <2>1, <3>1, <3>2, StateMoves
  <2>3. call[t] = NoNode
    BY <1>1 DEF Want, HolderInv
  <2> QED
    BY <1>1, <2>1, <2>2, <2>3 DEF Want, HolderInv, TypeOK
<1>2. CASE Stamp(t)
  <2>1. OneBusy' /\ StateFollowsThread'
    BY <1>2, BusyKept, StateRests DEF Stamp, HolderInv, TypeOK
  <2> QED
    BY <1>2, <2>1 DEF Stamp, HolderInv, TypeOK
<1>3. CASE Enter(t)
  <2>1. OneBusy'
    BY <1>3, BusyKept DEF Enter, HolderInv, TypeOK
  <2>2. StateFollowsThread'
    <3>1. /\ pc' = [pc EXCEPT ![t] = pc'[t]] /\ pc'[t] = "held"
          /\ state' = [state EXCEPT ![Home[t]] = "HELD"]
      BY <1>3 DEF Enter, HolderInv, TypeOK
    <3>2. /\ pc \in [Thread -> PC] /\ StateFollowsThread
          /\ state \in [Node -> {"RELEASED", "WANTED", "HELD"}]
      BY DEF HolderInv, TypeOK
    <3> QED
      BY <2>1, <3>1, <3>2, StateMoves
  <2>3. call[t] = NoNode
    BY <1>3 DEF Enter, HolderInv
  <2> QED
    BY <1>3, <2>1, <2>2, <2>3 DEF Enter, HolderInv, TypeOK
<1>4. CASE Release(t)
  <2>1. OneBusy'
    BY <1>4, BusyKept DEF Release, HolderInv, TypeOK
  <2>2. StateFollowsThread'
    <3>1. /\ pc' = [pc EXCEPT ![t] = pc'[t]] /\ pc'[t] = "released"
          /\ state' = [state EXCEPT ![Home[t]] = "RELEASED"]
      BY <1>4 DEF Release, HolderInv, TypeOK
    <3>2. /\ pc \in [Thread -> PC] /\ StateFollowsThread
          /\ state \in [Node -> {"RELEASED", "WANTED", "HELD"}]
      BY DEF HolderInv, TypeOK
    <3> QED
      BY <2>1, <3>1, <3>2, StateMoves
  <2> QED
    BY <1>4, <2>1, <2>2 DEF Release, HolderInv, TypeOK
<1>5. CASE StartLoop(t)
  <2>1. OneBusy' /\ StateFollowsThread'
    BY <1>5, BusyKept, StateRests DEF StartLoop, HolderInv, TypeOK
  <2> QED
    BY <1>5, <2>1 DEF StartLoop, HolderInv, TypeOK
<1>6. CASE ClearQueue(t)
  <2>1. OneBusy' /\ StateFollowsThread'
    BY <1>6, BusyKept, StateRests DEF ClearQueue, HolderInv, TypeOK
  <2> QED
    BY <1>6, <2>1 DEF ClearQueue, HolderInv, TypeOK
<1> QED
  BY <1>1, <1>2, <1>3, <1>4, <1>5, <1>6

\* Steps that end an RPC, or begin one whose handler has read nothing yet.
LEMMA HolderInvCalls ==
  ASSUME HolderInv, TypeOK', UNCHANGED <<state, pc, ahead>>,
         \A t \in Thread, p \in Node :
           call'[t] = p =>
             /\ pc[t] = "asking" /\ p \in todo'[t]
             /\ \/ call[t] = p /\ stage'[p][t] = stage[p][t]
                \/ stage'[p][t] \in {"none", "arrived"}
  PROVE  HolderInv'
<1>1. OneBusy' /\ StateFollowsThread'
  BY BusyKept, StateRests DEF HolderInv
<1>2. \A t \in Thread :
        call'[t] # NoNode => pc'[t] = "asking" /\ call'[t] \in todo'[t]
  BY DEF HolderInv, TypeOK
<1>3. ASSUME NEW t \in Thread, NEW u \in ahead'[t]
      PROVE  /\ u # t /\ pc'[u] = "held"
             /\ call'[t] = Home[u] =>
                  stage'[Home[u]][t] \notin {"notHeld", "yes"}
  BY DEF HolderInv, TypeOK
<1> QED
  BY <1>1, <1>2, <1>3 DEF HolderInv

\* A step that ends the RPC of t to p, for good or by giving up.
LEMMA HolderInvCallEnds ==
  ASSUME HolderInv, TypeOK', UNCHANGED <<state, pc, ahead>>,
         NEW t \in Thread, NEW p \in Node,
         call' = [call EXCEPT ![t] = NoNode],
         todo' = [todo EXCEPT ![t] = @ \ {p}],
         \A u \in Thread \ {t}, q \in Node : stage'[q][u] = stage[q][u]
  PROVE  HolderInv'
<1>1. ASSUME NEW u \in Thread, NEW q \in Node, call'[u] = q
      PROVE  /\ pc[u] = "asking" /\ q \in todo'[u]
             /\ call[u] = q /\ stage'[q][u] = stage[q][u]
  <2>1. call \in [Thread -> Node \cup {NoNode}] /\ todo \in [Thread -> SUBSET Node]
    BY DEF HolderInv, TypeOK
  <2>2. u # t /\ call[u] = q /\ todo'[u] = todo[u]
    BY <1>1, <2>1
  <2> QED
    BY <2>2 DEF HolderInv
<1> QED
  BY <1>1, HolderInvCalls

\* Steps of the handler: it answers yes only after not reading HELD, which
\* is what it reads in a process whose thread was and still is inside.
LEMMA HolderInvHandler ==
  ASSUME HolderInv, TypeOK', NEW t \in Thread, NEW p \in Node, Handler(p, t)
  PROVE  HolderInv'
<1>1. UNCHANGED <<state, pc, ahead, call, todo>>
  BY DEF Handler, ReadHeld, CompareWanted, GrantNotWanted, Enqueue
<1>2. /\ stage'[p][t] \in {"notHeld", "yes"} =>
           state[p] # "HELD" \/ stage[p][t] = "notHeld"
      /\ \A u \in Thread, q \in Node :
           ~(u = t /\ q = p) => stage'[q][u] = stage[q][u]
  <2>1. CASE ReadHeld(p, t)
    BY <2>1 DEF ReadHeld, HolderInv, TypeOK
  <2>2. CASE CompareWanted(p, t)
    BY <2>2 DEF CompareWanted, HolderInv, TypeOK
  <2>3. CASE GrantNotWanted(p, t)
    BY <2>3 DEF GrantNotWanted, HolderInv, TypeOK
  <2>4. CASE Enqueue(p, t)
    BY <2>4 DEF Enqueue, HolderInv, TypeOK
  <2> QED
    BY <2>1, <2>2, <2>3, <2>4 DEF Handler
<1>3. OneBusy' /\ StateFollowsThread'
  BY <1>1, BusyKept, StateRests DEF HolderInv
<1>5. \A u \in Thread :
        call'[u] # NoNode => pc'[u] = "asking" /\ call'[u] \in todo'[u]
  BY <1>1 DEF HolderInv
<1>4. ASSUME NEW v \in Thread, NEW u \in ahead'[v]
      PROVE  /\ u # v /\ pc'[u] = "held"
             /\ call'[v] = Home[u] =>
                  stage'[Home[u]][v] \notin {"notHeld", "yes"}
  <2>1. u \in Thread /\ u \in ahead[v]
    BY <1>1 DEF HolderInv, TypeOK
  <2>2. state[Home[u]] = "HELD" /\ pc[u] = "held" /\ u # v
    BY <2>1 DEF HolderInv, StateFollowsThread
  <2>3. call[v] = Home[u] => stage[Home[u]][v] \notin {"notHeld", "yes"}
    BY <2>1 DEF HolderInv
  <2> QED
    BY <1>1, <1>2, <2>1, <2>2, <2>3
<1> QED
  BY <1>3, <1>4, <1>5 DEF HolderInv

\* Every step, the failures and the races included, keeps the smaller invariant.
LEMMA HolderInvNext ==
  ASSUME HolderInv, ~crowded', [Next \/ Failure \/ Race]_vars
  PROVE  HolderInv'
<1>1. TypeOK'
  BY NextType DEF HolderInv
<1>a. \A t \in Thread, p \in Node :
        call[t] = p => pc[t] = "asking" /\ p \in todo[t]
  BY DEF HolderInv
<1>2. CASE UNCHANGED vars
  BY <1>1, <1>2, <1>a, HolderInvCalls DEF vars
<1>3. ASSUME NEW t \in Thread, NEW p \in Node,
             Ask(t, p) \/ ReplyYes(t, p) \/ ReplyNo(t, p)
      PROVE  HolderInv'
  <2>1. CASE Ask(t, p)
    <3>1. \A u \in Thread, q \in Node :
            ~(u = t /\ q = p) =>
              stage'[q][u] = stage[q][u] /\ (call'[u] = q => call[u] = q)
      BY <2>1 DEF Ask, HolderInv, TypeOK
    <3>2. stage'[p][t] = "arrived" /\ pc[t] = "asking" /\ p \in todo[t]
      BY <2>1 DEF Ask, Reaches, HolderInv, TypeOK
    <3> QED
      BY <1>1, <1>a, <2>1, <3>1, <3>2, HolderInvCalls DEF Ask
  <2>2. CASE ReplyYes(t, p)
    <3>1. \A u \in Thread \ {t}, q \in Node : stage'[q][u] = stage[q][u]
      BY <2>2 DEF ReplyYes, HandlerEnds, HolderInv, TypeOK
    <3> QED
      BY <1>1, <2>2, <3>1, HolderInvCallEnds DEF ReplyYes
  <2>3. CASE ReplyNo(t, p)
    <3>1. \A u \in Thread \ {t}, q \in Node : stage'[q][u] = stage[q][u]
      BY <2>3 DEF ReplyNo, Deferred, HandlerEnds, HolderInv, TypeOK
    <3> QED
      BY <1>1, <2>3, <3>1, HolderInvCallEnds DEF ReplyNo, Deferred
  <2> QED
    BY <1>3, <2>1, <2>2, <2>3
<1>4. ASSUME NEW t \in Thread, NEW n \in Node,
             Notify(t, n) \/ NotifyLost(t, n) \/ NotifyTimeout(t, n)
               \/ NotifyLate(n, Home[t])
      PROVE  HolderInv'
  <2>1. UNCHANGED <<state, pc, ahead, call, todo, stage>>
    BY <1>4 DEF Notify, NotifyLost, NotifyTimeout, NotifyLate
  <2> QED
    BY <1>1, <1>a, <2>1, HolderInvCalls
<1>5. ASSUME NEW t \in Thread, NEW p \in Node,
             Unreachable(t, p) \/ Timeout(t, p)
      PROVE  HolderInv'
  BY <1>1, <1>5, HolderInvCallEnds
  DEF Unreachable, Timeout, PermissionAssumed
<1>6. ASSUME NEW t \in Thread, NEW p \in Node, Discard(p, t) PROVE HolderInv'
  <2>1. \A u \in Thread, q \in Node : call[u] = q => stage'[q][u] = stage[q][u]
    BY <1>6 DEF Discard, HandlerEnds, HolderInv, TypeOK
  <2> QED
    BY <1>1, <1>6, <1>a, <2>1, HolderInvCalls DEF Discard
<1>7. ASSUME NEW t \in Thread, NEW u \in Thread, NEW p \in Node,
             RaceOfReplyAndRelease(t, p, u)
      PROVE  HolderInv'
  <2>1. \A v \in Thread \ {t}, q \in Node : stage'[q][v] = stage[q][v]
    BY <1>7 DEF RaceOfReplyAndRelease, ReplyOverlapsRelease,
           Deferred, HandlerEnds, HolderInv, TypeOK
  <2> QED
    BY <1>1, <1>7, <2>1, HolderInvCallEnds
    DEF RaceOfReplyAndRelease, ReplyOverlapsRelease, Deferred
<1>8. ASSUME NEW u \in Thread, NEW v \in Thread, NEW n \in Node,
             RaceOfReleases(u, v, n)
      PROVE  HolderInv'
  BY <1>1, <1>8, <1>a, HolderInvCalls DEF RaceOfReleases
<1>9. CASE Next
  BY <1>1, <1>3, <1>4, <1>9, HolderInvMoves, HolderInvHandler
  DEF Next, Requester, Releaser
<1> QED
  BY <1>2, <1>4, <1>5, <1>6, <1>7, <1>8, <1>9 DEF Failure, Race

\* Until two threads of a process have met, a handler does not slip between the
\* two reads of STATE, with RPCs that fail and with counts that are lost: a
\* process that was inside when the request was made, and still is, does not
\* permit it.
THEOREM HolderPermitsNobody == SpecWithFaults => []NoPermitByHolder
<1> DEFINE I == crowded \/ HolderInv
<1>1. Init => I
  BY HolderInvInit
<1>2. I /\ [Next \/ Failure \/ Race]_vars => I'
  BY HolderInvNext, CrowdedStays
<1>3. I => NoPermitByHolder
  BY DEF HolderInv, NoPermitByHolder
<1> HIDE DEF I
<1> QED BY <1>1, <1>2, <1>3, PTL DEF SpecWithFaults
=============================================================================
