--------------------------- MODULE PermissionLock ---------------------------
(***************************************************************************)
(* What the peer-to-peer lock keeps of the promise of a permission-based   *)
(* lock: a thread asks every other process and enters when each of them    *)
(* has permitted that very request, and a process permits no request made  *)
(* while a thread of its own was inside, before that thread has left.      *)
(* Nothing here keeps two threads that asked at the same time apart, and   *)
(* nothing is promised from the moment on when a thread asks while another *)
(* of its process has not ended.                                           *)
(***************************************************************************)
CONSTANTS Node, Thread, Home

VARIABLES
  phase,    \* where a thread is
  missing,  \* processes that have not permitted its request
  ahead,    \* threads that were inside when it asked, and still are
  crowded   \* a thread has asked while another of its process had

vars == <<phase, missing, ahead, crowded>>

Init ==
  /\ phase = [t \in Thread |-> "out"]
  /\ missing = [t \in Thread |-> {}]
  /\ ahead = [t \in Thread |-> {}]
  /\ crowded = FALSE

OtherBusy(t) == \E u \in Thread \ {t} : Home[u] = Home[t] /\ phase[u] # "out"

Ask(t) ==
  /\ phase[t] = "out"
  /\ phase' = [phase EXCEPT ![t] = "asking"]
  /\ missing' = [missing EXCEPT ![t] = Node \ {Home[t]}]
  /\ ahead' = [ahead EXCEPT ![t] = {u \in Thread : phase[u] = "in"}]
  /\ crowded' = (crowded \/ OtherBusy(t))

Permit(t, p) ==
  /\ phase[t] = "asking"
  /\ p \in missing[t]
  /\ \A u \in ahead[t] : Home[u] # p
  /\ missing' = [missing EXCEPT ![t] = @ \ {p}]
  /\ UNCHANGED <<phase, ahead, crowded>>

Enter(t) ==
  /\ phase[t] = "asking"
  /\ missing[t] = {}
  /\ phase' = [phase EXCEPT ![t] = "in"]
  /\ UNCHANGED <<missing, ahead, crowded>>

Leave(t) ==
  /\ phase[t] = "in"
  /\ phase' = [phase EXCEPT ![t] = "leaving"]
  /\ ahead' = [u \in Thread |-> ahead[u] \ {t}]
  /\ UNCHANGED <<missing, crowded>>

End(t) ==
  /\ phase[t] = "leaving"
  /\ phase' = [phase EXCEPT ![t] = "out"]
  /\ UNCHANGED <<missing, ahead, crowded>>

\* Two threads of a process have met: anything may happen.
Void == crowded /\ crowded'

Next ==
  \/ \E t \in Thread :
       \/ Ask(t)
       \/ \E p \in Node : Permit(t, p)
       \/ Enter(t)
       \/ Leave(t)
       \/ End(t)
  \/ Void

Spec == Init /\ [][Next]_vars
=============================================================================
