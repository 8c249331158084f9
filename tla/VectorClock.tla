---------------------------- MODULE VectorClock ----------------------------
(***************************************************************************)
(* The pure part of hw3/src/ft/vector_clock.cc.  A process keeps three     *)
(* vectors, Time_P1..Time_P3, and pid_List, which says whose vector each   *)
(* one is; the place of a pid in pid_List (its slot) is also the component *)
(* of every vector that stands for that pid.  Nothing makes two machines   *)
(* agree on the slots: see ClockBoot for how they are handed out.          *)
(***************************************************************************)
EXTENDS Integers

Slot == 1 .. 3

Clock == [Slot -> Nat]

\* A vector that init() has just cleared.
Zero == [i \in Slot |-> 0]

\* requestTime: the requester's own component goes up by one, and the result
\* is both the new clock and the stamp the request carries.
RequestTime(mine, slot) == [mine EXCEPT ![slot] = @ + 1]

(***************************************************************************)
(* comparison, its result.  TRUE is logged as "My time is earlier than     *)
(* requester": no component of the received stamp is smaller (little = 0)  *)
(* and one is larger (large >= 1).  Equal and concurrent stamps give FALSE *)
(* on both sides.                                                          *)
(***************************************************************************)
MineIsEarlier(rec, mine) ==
  /\ \A i \in Slot : rec[i] >= mine[i]
  /\ \E i \in Slot : rec[i] > mine[i]

\* comparison, its side effect: the own component goes up by one, the others
\* become the larger of the two.
Compared(rec, mine, slot) ==
  [i \in Slot |-> IF i = slot THEN mine[i] + 1
                  ELSE IF rec[i] > mine[i] THEN rec[i] ELSE mine[i]]
=============================================================================
