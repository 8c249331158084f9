-------------------------- MODULE ReplicationRuns --------------------------
(***************************************************************************)
(* More proofs about Replication: how often a command is run, and what the *)
(* machines have when everything has been sent.                            *)
(***************************************************************************)
EXTENDS ReplicationProofs, FiniteSetTheorems

-----------------------------------------------------------------------------
(***************************************************************************)
(* What a machine has run, and what it may still run                       *)
(***************************************************************************)

\* The places of c in cmd.txt, for the processes of machine n.
SavedRuns(c, n) ==
  {t \in (Machine \X Proc) \X Nat :
     /\ t[1][2][1] = n
     /\ t[2] \in Runs(failed[t[1][1]][t[1][2]], c)}

\* The updates that bring c to machine n and have not been run.
ToRun(c, n) ==
  {d \in calls : /\ d.op = "update" /\ d.pc = "run"
                 /\ d.cmd = c /\ d.to[1] = n}

\* The places of c in replies to machine n.
Replied(c, n) ==
  {t \in calls \X Nat : /\ t[1].from[1] = n
                        /\ t[2] \in Runs(t[1].cmds, c)}

\* p waits for an update of machine n that has not failed.
Calling(p, n) ==
  \E d \in calls : /\ d.op = "update" /\ d.heard
                   /\ d.from = p /\ d.to[1] = n
                   /\ d.pc # "failed"

\* The writers that have to send c to machine n, or to save it.
ToSend(c, n) ==
  {p \in Proc : /\ writer[p] # Idle
                /\ writer[p].cmd = c
                /\ n \in writer[p].todo
                /\ ~Calling(p, n)}

Coming(c, n) == Cardinality(SavedRuns(c, n)) + Cardinality(ToRun(c, n))
                  + Cardinality(Replied(c, n)) + Cardinality(ToSend(c, n))

\* All that machine n may ever write as its data.
Logs(n) == {data[n]} \cup backup[n] \cup {mem[<<n, i>>] : i \in Index}

\* Command c is somewhere.
Known(c) ==
  \/ \E n \in Machine : \E l \in Logs(n) : c \in ToSet(l)
  \/ \E m \in Machine, p \in Proc : c \in ToSet(failed[m][p])
  \/ \E d \in calls : (d.op = "update" /\ d.cmd = c) \/ c \in ToSet(d.cmds)

Fresh == \A c \in Command : Known(c) => origin[c] # NoMachine

FinitelyMany ==
  \A c \in Command, n \in Machine : /\ IsFiniteSet(SavedRuns(c, n))
                                    /\ IsFiniteSet(ToRun(c, n))
                                    /\ IsFiniteSet(Replied(c, n))
                                    /\ IsFiniteSet(ToSend(c, n))

\* With all that is on its way to it, a machine does not run a command too often.
ComingBounded ==
  \A c \in Command, n \in Machine : \A l \in Logs(n) :
    Cardinality(Runs(l, c)) + Coming(c, n) <= 1 + crashes + timeouts

RunsInv == Fresh /\ FinitelyMany /\ ComingBounded

-----------------------------------------------------------------------------
(***************************************************************************)
(* The places of a command in a log                                        *)
(***************************************************************************)

LEMMA RunsFinite ==
  ASSUME NEW S, NEW s \in Seq(S), NEW c
  PROVE  /\ Runs(s, c) \subseteq Nat
         /\ IsFiniteSet(Runs(s, c)) /\ Cardinality(Runs(s, c)) \in Nat
<1>1. DOMAIN s = 1 .. Len(s) /\ Len(s) \in Nat
  OBVIOUS
<1>2. IsFiniteSet(1 .. Len(s))
  BY <1>1, FS_Interval
<1>3. Runs(s, c) \in SUBSET (1 .. Len(s))
  BY <1>1 DEF Runs
<1>4. IsFiniteSet(Runs(s, c))
  BY <1>2, <1>3, FS_Subset
<1> QED
  BY <1>3, <1>4, FS_CardinalityType

LEMMA RunsNone ==
  ASSUME NEW s, NEW c, c \notin ToSet(s)
  PROVE  Runs(s, c) = {} /\ Cardinality(Runs(s, c)) = 0
<1>1. Runs(s, c) = {}
  BY DEF Runs, ToSet
<1> QED
  BY <1>1, FS_EmptySet

LEMMA RunsAppend ==
  ASSUME NEW S, NEW s \in Seq(S), NEW e \in S, NEW c
  PROVE  /\ e # c => Runs(Append(s, e), c) = Runs(s, c)
         /\ e = c => Runs(Append(s, e), c) = Runs(s, c) \cup {Len(s) + 1}
         /\ e = c => Cardinality(Runs(Append(s, e), c)) = Cardinality(Runs(s, c)) + 1
<1>1. /\ Len(s) \in Nat /\ DOMAIN s = 1 .. Len(s)
      /\ DOMAIN Append(s, e) = DOMAIN s \cup {Len(s) + 1}
      /\ Append(s, e)[Len(s) + 1] = e
      /\ \A i \in DOMAIN s : Append(s, e)[i] = s[i]
  OBVIOUS
<1>2. e # c => Runs(Append(s, e), c) = Runs(s, c)
  BY <1>1 DEF Runs
<1>3. e = c => Runs(Append(s, e), c) = Runs(s, c) \cup {Len(s) + 1}
  BY <1>1 DEF Runs
<1>4. Len(s) + 1 \notin Runs(s, c)
  BY <1>1 DEF Runs
<1>5. IsFiniteSet(Runs(s, c))
  BY RunsFinite
<1>6. Cardinality(Runs(s, c) \cup {Len(s) + 1}) = Cardinality(Runs(s, c)) + 1
  BY <1>4, <1>5, FS_AddElement
<1> QED
  BY <1>2, <1>3, <1>6

LEMMA RunsConcat ==
  ASSUME NEW S, NEW s \in Seq(S), NEW t \in Seq(S), NEW c
  PROVE  Cardinality(Runs(s \o t, c)) <= Cardinality(Runs(s, c)) + Cardinality(Runs(t, c))
<1> DEFINE f == [i \in Runs(t, c) |-> Len(s) + i]
           U == {f[i] : i \in Runs(t, c)}
<1>1. /\ Len(s) \in Nat
      /\ \A i \in DOMAIN (s \o t) :
           \/ i \in DOMAIN s /\ (s \o t)[i] = s[i]
           \/ /\ i - Len(s) \in DOMAIN t /\ i = Len(s) + (i - Len(s))
              /\ (s \o t)[i] = t[i - Len(s)]
  OBVIOUS
<1>2. /\ IsFiniteSet(Runs(s, c)) /\ Cardinality(Runs(s, c)) \in Nat
      /\ IsFiniteSet(Runs(t, c)) /\ Cardinality(Runs(t, c)) \in Nat
  BY RunsFinite
<1>3. \A i \in Runs(t, c) : f[i] = Len(s) + i
  OBVIOUS
<1>4. f \in Surjection(Runs(t, c), U)
  BY DEF Surjection
<1>5. IsFiniteSet(U) /\ Cardinality(U) <= Cardinality(Runs(t, c))
  BY <1>2, <1>4, FS_Surjection
<1>6. Runs(s \o t, c) \subseteq Runs(s, c) \cup U
  <2> SUFFICES ASSUME NEW i \in DOMAIN (s \o t), (s \o t)[i] = c
               PROVE  i \in Runs(s, c) \cup U
    BY DEF Runs
  <2>1. CASE i \in DOMAIN s /\ (s \o t)[i] = s[i]
    BY <2>1 DEF Runs
  <2>2. CASE /\ i - Len(s) \in DOMAIN t /\ i = Len(s) + (i - Len(s))
             /\ (s \o t)[i] = t[i - Len(s)]
    <3>1. PICK j : j = i - Len(s)
      OBVIOUS
    <3>2. j \in Runs(t, c) /\ f[j] = i
      BY <2>2, <3>1 DEF Runs
    <3> QED
      BY <3>2
  <2> QED
    BY <1>1, <2>1, <2>2
<1> HIDE DEF U, f
<1>7. /\ IsFiniteSet(Runs(s, c) \cup U)
      /\ Cardinality(Runs(s, c) \cup U) <= Cardinality(Runs(s, c)) + Cardinality(U)
  <2>1. IsFiniteSet(Runs(s, c) \cap U)
    BY <1>2, FS_Intersection
  <2>2. Cardinality(Runs(s, c) \cap U) \in Nat /\ Cardinality(U) \in Nat
    BY <1>5, <2>1, FS_CardinalityType
  <2>3. /\ IsFiniteSet(Runs(s, c) \cup U)
        /\ Cardinality(Runs(s, c) \cup U)
             = Cardinality(Runs(s, c)) + Cardinality(U) - Cardinality(Runs(s, c) \cap U)
    BY <1>2, <1>5, FS_Union
  <2> QED
    BY <1>2, <2>2, <2>3
<1>8. Cardinality(Runs(s \o t, c)) <= Cardinality(Runs(s, c) \cup U)
  BY <1>6, <1>7, FS_Subset
<1>9. /\ Cardinality(U) \in Nat /\ Cardinality(Runs(s, c) \cup U) \in Nat
      /\ Cardinality(Runs(s \o t, c)) \in Nat
  <2>1. s \o t \in Seq(S)
    OBVIOUS
  <2> QED
    BY <1>5, <1>7, <2>1, RunsFinite, FS_CardinalityType
<1> QED
  BY <1>2, <1>5, <1>7, <1>8, <1>9

-----------------------------------------------------------------------------
(***************************************************************************)
(* How many are added, how many are taken away                             *)
(***************************************************************************)

LEMMA Fewer ==
  ASSUME NEW S, NEW T, IsFiniteSet(S), T \subseteq S
  PROVE  /\ IsFiniteSet(T)
         /\ Cardinality(S) \in Nat /\ Cardinality(T) \in Nat
         /\ Cardinality(T) <= Cardinality(S)
<1>1. IsFiniteSet(T) /\ Cardinality(T) <= Cardinality(S)
  BY FS_Subset
<1> QED
  BY <1>1, FS_CardinalityType

LEMMA More ==
  ASSUME NEW S, NEW T, NEW U, IsFiniteSet(S), IsFiniteSet(U),
         T \subseteq S \cup U
  PROVE  /\ IsFiniteSet(T)
         /\ Cardinality(S) \in Nat /\ Cardinality(T) \in Nat
         /\ Cardinality(U) \in Nat
         /\ Cardinality(T) <= Cardinality(S) + Cardinality(U)
<1>1. IsFiniteSet(S \cap U)
  BY FS_Intersection
<1>2. /\ Cardinality(S \cap U) \in Nat
      /\ Cardinality(S) \in Nat /\ Cardinality(U) \in Nat
  BY <1>1, FS_CardinalityType
<1>3. /\ IsFiniteSet(S \cup U)
      /\ Cardinality(S \cup U)
           = Cardinality(S) + Cardinality(U) - Cardinality(S \cap U)
  BY FS_Union
<1>4. /\ IsFiniteSet(T) /\ Cardinality(T) \in Nat /\ Cardinality(S \cup U) \in Nat
      /\ Cardinality(T) <= Cardinality(S \cup U)
  BY <1>3, Fewer
<1> QED
  BY <1>2, <1>3, <1>4

LEMMA Less ==
  ASSUME NEW S, NEW T, NEW U, IsFiniteSet(S), U \subseteq S, T \subseteq S \ U
  PROVE  /\ IsFiniteSet(T)
         /\ Cardinality(S) \in Nat /\ Cardinality(T) \in Nat
         /\ Cardinality(U) \in Nat
         /\ Cardinality(T) + Cardinality(U) <= Cardinality(S)
<1>1. S \cap U = U
  OBVIOUS
<1>2. IsFiniteSet(U) /\ Cardinality(U) \in Nat /\ Cardinality(S) \in Nat
  BY Fewer
<1>3. /\ IsFiniteSet(S \ U)
      /\ Cardinality(S \ U) = Cardinality(S) - Cardinality(U)
  BY <1>1, FS_Difference
<1>4. /\ IsFiniteSet(T) /\ Cardinality(T) \in Nat /\ Cardinality(S \ U) \in Nat
      /\ Cardinality(T) <= Cardinality(S \ U)
  BY <1>3, Fewer
<1> QED
  BY <1>2, <1>3, <1>4

LEMMA OneMore ==
  ASSUME NEW S, NEW T, NEW x, IsFiniteSet(S), T \subseteq S \cup {x}
  PROVE  /\ IsFiniteSet(T)
         /\ Cardinality(S) \in Nat /\ Cardinality(T) \in Nat
         /\ Cardinality(T) <= Cardinality(S) + 1
<1>1. IsFiniteSet({x}) /\ Cardinality({x}) = 1
  BY FS_Singleton
<1> QED
  BY <1>1, More

LEMMA OneLess ==
  ASSUME NEW S, NEW T, NEW x \in S, IsFiniteSet(S), T \subseteq S \ {x}
  PROVE  /\ IsFiniteSet(T)
         /\ Cardinality(S) \in Nat /\ Cardinality(T) \in Nat
         /\ Cardinality(T) + 1 <= Cardinality(S)
<1>1. Cardinality({x}) = 1
  BY FS_Singleton
<1>2. {x} \subseteq S
  OBVIOUS
<1> QED
  BY <1>1, <1>2, Less

LEMMA Paired ==
  ASSUME NEW a, NEW K, IsFiniteSet(K)
  PROVE  /\ IsFiniteSet({a} \X K)
         /\ Cardinality({a} \X K) = Cardinality(K)
<1>1. IsFiniteSet({a}) /\ Cardinality({a}) = 1 /\ Cardinality(K) \in Nat
  BY FS_Singleton, FS_CardinalityType
<1>2. /\ IsFiniteSet({a} \X K)
      /\ Cardinality({a} \X K) = Cardinality({a}) * Cardinality(K)
  BY <1>1, FS_Product
<1> QED
  BY <1>1, <1>2

-----------------------------------------------------------------------------
(***************************************************************************)
(* What keeps the invariant                                                *)
(***************************************************************************)

LEMMA LogTypes ==
  ASSUME TypeOK, NEW n \in Machine
  PROVE  /\ data[n] \in Log /\ data[n] \in Logs(n)
         /\ backup[n] \subseteq Log
         /\ \A i \in Index : mem[<<n, i>>] \in Log
         /\ Logs(n) \subseteq Log
<1>1. data[n] \in Log /\ backup[n] \subseteq Log
  BY DEF TypeOK
<1>2. \A i \in Index : mem[<<n, i>>] \in Log
  BY Processes DEF TypeOK
<1> QED
  BY <1>1, <1>2 DEF Logs

LEMMA NewLogTypes ==
  ASSUME TypeOK', NEW n \in Machine
  PROVE  Logs(n)' \subseteq Log
<1>1. data'[n] \in Log /\ backup'[n] \subseteq Log
  BY DEF TypeOK
<1>2. \A i \in Index : mem'[<<n, i>>] \in Log
  BY Processes DEF TypeOK
<1> QED
  BY <1>1, <1>2 DEF Logs

LEMMA LogRuns ==
  ASSUME NEW l \in Log, NEW c
  PROVE  IsFiniteSet(Runs(l, c)) /\ Cardinality(Runs(l, c)) \in Nat
BY RunsFinite DEF Log

\* A command has one writer at most.
LEMMA OneSender ==
  ASSUME Shape, NEW c, NEW n
  PROVE  IsFiniteSet(ToSend(c, n)) /\ Cardinality(ToSend(c, n)) \in {0, 1}
<1>1. ASSUME NEW p \in ToSend(c, n), NEW q \in ToSend(c, n) PROVE p = q
  <2>1. /\ p \in Proc /\ q \in Proc /\ Rules(p) /\ Rules(q)
        /\ origin[c] = p[1] /\ origin[c] = q[1]
    BY <1>1 DEF ToSend, Shape, WritersRule
  <2>2. /\ p[1] \in Machine /\ p[2] \in Index /\ q[2] \in Index
        /\ p = <<p[1], p[2]>> /\ q = <<p[1], q[2]>>
    BY <2>1, Processes
  <2> QED
    BY <2>1, <2>2 DEF Shape, OneRuler
<1>2. ToSend(c, n) = {} \/ \E p : ToSend(c, n) = {p}
  BY <1>1
<1>3. CASE ToSend(c, n) = {}
  BY <1>3, FS_EmptySet
<1>4. ASSUME NEW p, ToSend(c, n) = {p}
      PROVE  IsFiniteSet(ToSend(c, n)) /\ Cardinality(ToSend(c, n)) \in {0, 1}
  BY <1>4, FS_Singleton
<1> QED
  BY <1>2, <1>3, <1>4

LEMMA ComingNumbers ==
  ASSUME FinitelyMany, NEW c \in Command, NEW n \in Machine
  PROVE  /\ IsFiniteSet(SavedRuns(c, n)) /\ Cardinality(SavedRuns(c, n)) \in Nat
         /\ IsFiniteSet(ToRun(c, n)) /\ Cardinality(ToRun(c, n)) \in Nat
         /\ IsFiniteSet(Replied(c, n)) /\ Cardinality(Replied(c, n)) \in Nat
         /\ IsFiniteSet(ToSend(c, n)) /\ Cardinality(ToSend(c, n)) \in Nat
         /\ Coming(c, n) \in Nat
<1>1. /\ IsFiniteSet(SavedRuns(c, n)) /\ IsFiniteSet(ToRun(c, n))
      /\ IsFiniteSet(Replied(c, n)) /\ IsFiniteSet(ToSend(c, n))
  BY DEF FinitelyMany
<1>2. /\ Cardinality(SavedRuns(c, n)) \in Nat /\ Cardinality(ToRun(c, n)) \in Nat
      /\ Cardinality(Replied(c, n)) \in Nat /\ Cardinality(ToSend(c, n)) \in Nat
  BY <1>1, FS_CardinalityType
<1> QED
  BY <1>1, <1>2 DEF Coming

LEMMA NewComingNumbers ==
  ASSUME FinitelyMany', NEW c \in Command, NEW n \in Machine
  PROVE  Coming(c, n)' \in Nat
<1>1. /\ IsFiniteSet(SavedRuns(c, n)') /\ IsFiniteSet(ToRun(c, n)')
      /\ IsFiniteSet(Replied(c, n)') /\ IsFiniteSet(ToSend(c, n)')
  BY DEF FinitelyMany
<1>2. /\ Cardinality(SavedRuns(c, n)') \in Nat /\ Cardinality(ToRun(c, n)') \in Nat
      /\ Cardinality(Replied(c, n)') \in Nat /\ Cardinality(ToSend(c, n)') \in Nat
  BY <1>1, FS_CardinalityType
<1> QED
  BY <1>2 DEF Coming

\* What is on its way becomes less, or more with a failure.
LEMMA RunsKept ==
  ASSUME Shape, Shape', RunsInv,
         \A c \in Command : origin[c] # NoMachine => origin'[c] # NoMachine,
         \A c \in Command : Known(c)' => Known(c) \/ origin'[c] # NoMachine,
         FinitelyMany',
         \A c \in Command, n \in Machine :
           \A l \in Logs(n)' : \E x \in Logs(n) :
             Cardinality(Runs(l, c)) + Coming(c, n)' + crashes + timeouts
               <= Cardinality(Runs(x, c)) + Coming(c, n) + crashes' + timeouts'
  PROVE  RunsInv'
<1>1. Fresh'
  BY DEF RunsInv, Fresh
<1>2. ComingBounded'
  <2> SUFFICES ASSUME NEW c \in Command, NEW n \in Machine, NEW l \in Logs(n)'
               PROVE  Cardinality(Runs(l, c)) + Coming(c, n)' <= 1 + crashes' + timeouts'
    BY DEF ComingBounded
  <2>1. PICK x \in Logs(n) :
          Cardinality(Runs(l, c)) + Coming(c, n)' + crashes + timeouts
            <= Cardinality(Runs(x, c)) + Coming(c, n) + crashes' + timeouts'
    OBVIOUS
  <2>2. Cardinality(Runs(x, c)) + Coming(c, n) <= 1 + crashes + timeouts
    BY DEF RunsInv, ComingBounded
  <2>3. x \in Log /\ l \in Log
    BY LogTypes, NewLogTypes DEF Shape
  <2>4. Cardinality(Runs(x, c)) \in Nat /\ Cardinality(Runs(l, c)) \in Nat
    BY <2>3, LogRuns
  <2>5. Coming(c, n) \in Nat
    BY ComingNumbers DEF RunsInv
  <2>6. /\ crashes \in Nat /\ timeouts \in Nat
        /\ crashes' \in Nat /\ timeouts' \in Nat
    BY DEF Shape, TypeOK
  <2>7. Coming(c, n)' \in Nat
    BY NewComingNumbers
  <2> QED
    BY <2>1, <2>2, <2>4, <2>5, <2>6, <2>7
<1> QED
  BY <1>1, <1>2 DEF RunsInv

\* No process runs anything; what is known is known already.
LEMMA LogsLeft ==
  ASSUME Shape, Shape', RunsInv, UNCHANGED origin,
         \A n \in Machine : Logs(n)' \subseteq Logs(n) \cup {<<>>},
         \A c \in Command :
           \/ \E m \in Machine, p \in Proc : c \in ToSet(failed'[m][p])
           \/ \E d \in calls' : (d.op = "update" /\ d.cmd = c) \/ c \in ToSet(d.cmds)
           => Known(c) \/ origin[c] # NoMachine,
         FinitelyMany',
         \A c \in Command, n \in Machine :
           Coming(c, n)' + crashes + timeouts <= Coming(c, n) + crashes' + timeouts'
  PROVE  RunsInv'
<1>1. ASSUME NEW c \in Command, Known(c)'
      PROVE  Known(c) \/ origin[c] # NoMachine
  <2>1. CASE \E n \in Machine : \E l \in Logs(n)' : c \in ToSet(l)
    BY <2>1, SetOfSeq DEF Known
  <2> QED
    BY <1>1, <2>1 DEF Known
<1>2. ASSUME NEW c \in Command, NEW n \in Machine, NEW l \in Logs(n)'
      PROVE  \E x \in Logs(n) :
               Cardinality(Runs(l, c)) + Coming(c, n)' + crashes + timeouts
                 <= Cardinality(Runs(x, c)) + Coming(c, n) + crashes' + timeouts'
  <2>1. PICK x \in Logs(n) : l = x \/ l = <<>>
    BY LogTypes DEF Shape
  <2>2. x \in Log /\ l \in Log
    BY LogTypes, NewLogTypes DEF Shape
  <2>3. Cardinality(Runs(x, c)) \in Nat /\ Cardinality(Runs(l, c)) \in Nat
    BY <2>2, LogRuns
  <2>4. Cardinality(Runs(l, c)) <= Cardinality(Runs(x, c))
    <3>1. CASE l = x
      BY <2>3, <3>1
    <3>2. CASE l = <<>>
      BY <2>3, <3>2, SetOfSeq, RunsNone
    <3> QED
      BY <2>1, <3>1, <3>2
  <2>5. Coming(c, n) \in Nat /\ Coming(c, n)' \in Nat
    BY ComingNumbers, NewComingNumbers DEF RunsInv
  <2>6. /\ crashes \in Nat /\ timeouts \in Nat
        /\ crashes' \in Nat /\ timeouts' \in Nat
    BY DEF Shape, TypeOK
  <2>7. Coming(c, n)' + crashes + timeouts <= Coming(c, n) + crashes' + timeouts'
    OBVIOUS
  <2> QED
    BY <2>3, <2>4, <2>5, <2>6, <2>7
<1> QED
  BY <1>1, <1>2, RunsKept

\* A process runs commands that were on their way to it.
LEMMA LogsRun ==
  ASSUME Shape, Shape', RunsInv, UNCHANGED <<origin, backup, crashes, timeouts>>,
         NEW p \in Proc, NEW cmds \in Seq(Command), RunAll(p, cmds),
         \A c \in Command : c \in ToSet(cmds) => Known(c),
         \A c \in Command :
           \/ \E m \in Machine, q \in Proc : c \in ToSet(failed'[m][q])
           \/ \E d \in calls' : (d.op = "update" /\ d.cmd = c) \/ c \in ToSet(d.cmds)
           => Known(c) \/ origin[c] # NoMachine,
         FinitelyMany',
         \A c \in Command, n \in Machine :
           /\ Coming(c, n)' <= Coming(c, n)
           /\ n = p[1] => Coming(c, n)' + Cardinality(Runs(cmds, c)) <= Coming(c, n)
  PROVE  RunsInv'
<1>1. p[1] \in Machine /\ p[2] \in Index /\ p = <<p[1], p[2]>>
  BY Processes
<1>2. PICK old, new : old = mem[p] /\ new = old \o cmds
  OBVIOUS
<1>3. old \in Logs(p[1]) /\ old \in Log
  BY <1>1, <1>2, LogTypes DEF Logs, Shape
<1>4. mem'[p] = new /\ \A q \in Proc \ {p} : mem'[q] = mem[q]
  BY <1>2 DEF RunAll, Shape, TypeOK
<1>5. /\ \A n \in Machine \ {p[1]} : data'[n] = data[n]
      /\ data'[p[1]] = data[p[1]] \/ data'[p[1]] = new
  BY <1>4, CmdsRun DEF Shape
<1>6. ASSUME NEW n \in Machine, NEW l \in Logs(n)'
      PROVE  l \in Logs(n) \/ (n = p[1] /\ l = new)
  <2>1. CASE l = data'[n]
    BY <1>5, <2>1 DEF Logs
  <2>2. CASE l \in backup'[n]
    BY <2>2 DEF Logs
  <2>3. CASE \E i \in Index : l = mem'[<<n, i>>]
    <3>1. PICK i \in Index : l = mem'[<<n, i>>]
      BY <2>3
    <3>2. CASE <<n, i>> = p
      BY <1>1, <1>4, <3>1, <3>2
    <3>3. CASE <<n, i>> # p
      BY <1>4, <3>1, <3>3, Processes DEF Logs
    <3> QED
      BY <3>2, <3>3
  <2> QED
    BY <2>1, <2>2, <2>3 DEF Logs
<1>7. ToSet(new) = ToSet(old) \cup ToSet(cmds)
  <2>1. cmds \in Seq(Command \cup ToSet(Base)) /\ old \in Seq(Command \cup ToSet(Base))
    BY <1>3 DEF Log
  <2> QED
    BY <1>2, <2>1, ConcatSet
<1>8. ASSUME NEW c \in Command, Known(c)'
      PROVE  Known(c) \/ origin[c] # NoMachine
  <2>1. CASE \E n \in Machine : \E l \in Logs(n)' : c \in ToSet(l)
    <3>1. PICK n \in Machine : \E l \in Logs(n)' : c \in ToSet(l)
      BY <2>1
    <3>2. PICK l \in Logs(n)' : c \in ToSet(l)
      BY <3>1
    <3>3. CASE l \in Logs(n)
      BY <3>2, <3>3 DEF Known
    <3>4. CASE l = new
      BY <1>1, <1>3, <1>7, <3>2, <3>4 DEF Known
    <3> QED
      BY <1>6, <3>3, <3>4
  <2> QED
    BY <1>8, <2>1 DEF Known
<1>9. ASSUME NEW c \in Command, NEW n \in Machine, NEW l \in Logs(n)'
      PROVE  \E x \in Logs(n) :
               Cardinality(Runs(l, c)) + Coming(c, n)' + crashes + timeouts
                 <= Cardinality(Runs(x, c)) + Coming(c, n) + crashes' + timeouts'
  <2>1. Coming(c, n) \in Nat /\ Coming(c, n)' \in Nat
    BY ComingNumbers, NewComingNumbers DEF RunsInv
  <2>2. /\ crashes \in Nat /\ timeouts \in Nat
        /\ crashes' = crashes /\ timeouts' = timeouts
    BY DEF Shape, TypeOK
  <2>3. l \in Log /\ Cardinality(Runs(l, c)) \in Nat
    BY NewLogTypes, LogRuns DEF Shape
  <2>4. Coming(c, n)' <= Coming(c, n)
    OBVIOUS
  <2>5. CASE l \in Logs(n)
    <3>1. Cardinality(Runs(l, c)) + Coming(c, n)' + crashes + timeouts
                 <= Cardinality(Runs(l, c)) + Coming(c, n) + crashes' + timeouts'
      BY <2>1, <2>2, <2>3, <2>4
    <3> QED
      BY <2>5, <3>1
  <2>6. CASE n = p[1] /\ l = new
    <3>1. /\ old \in Seq(Command \cup ToSet(Base))
          /\ cmds \in Seq(Command \cup ToSet(Base))
      BY <1>3 DEF Log
    <3>2. Cardinality(Runs(l, c)) <= Cardinality(Runs(old, c)) + Cardinality(Runs(cmds, c))
      BY <1>2, <2>6, <3>1, RunsConcat
    <3>3. Cardinality(Runs(old, c)) \in Nat /\ Cardinality(Runs(cmds, c)) \in Nat
      BY <3>1, RunsFinite
    <3>4. Coming(c, n)' + Cardinality(Runs(cmds, c)) <= Coming(c, n)
      BY <2>6
    <3>5. Cardinality(Runs(l, c)) + Coming(c, n)' + crashes + timeouts
                 <= Cardinality(Runs(old, c)) + Coming(c, n) + crashes' + timeouts'
      BY <2>1, <2>2, <2>3, <3>2, <3>3, <3>4
    <3> QED
      BY <1>3, <2>6, <3>5
  <2> QED
    BY <1>6, <2>5, <2>6
<1> QED
  BY <1>8, <1>9, RunsKept

LEMMA LogsSame ==
  ASSUME UNCHANGED <<mem, data, backup>>
  PROVE  \A n \in Machine : Logs(n)' \subseteq Logs(n) \cup {<<>>}
BY DEF Logs

\* Writers do not begin, and do not lose the calls they wait for.
LEMMA SendersLeft ==
  ASSUME \A q \in Proc : writer'[q] # Idle =>
           /\ writer[q] # Idle
           /\ writer'[q].cmd = writer[q].cmd
           /\ writer'[q].todo \subseteq writer[q].todo
           /\ \A n \in writer'[q].todo : Calling(q, n) => Calling(q, n)'
  PROVE  \A c \in Command, n \in Machine : ToSend(c, n)' \subseteq ToSend(c, n)
<1> SUFFICES ASSUME NEW c \in Command, NEW n \in Machine, NEW q \in ToSend(c, n)'
             PROVE  q \in ToSend(c, n)
  OBVIOUS
<1>1. /\ q \in Proc /\ writer'[q] # Idle /\ writer'[q].cmd = c
      /\ n \in writer'[q].todo /\ ~Calling(q, n)'
  BY DEF ToSend
<1> QED
  BY <1>1 DEF ToSend

\* Neither cmd.txt nor a call changes.
LEMMA StillRuns ==
  ASSUME Shape, Shape', RunsInv,
         UNCHANGED <<origin, failed, calls, crashes, timeouts>>,
         \A q \in Proc : writer'[q] # Idle =>
           /\ writer[q] # Idle
           /\ writer'[q].cmd = writer[q].cmd
           /\ writer'[q].todo \subseteq writer[q].todo,
         \A n \in Machine : Logs(n)' \subseteq Logs(n) \cup {<<>>}
  PROVE  RunsInv'
<1>1. ASSUME NEW c \in Command, NEW n \in Machine
      PROVE  /\ SavedRuns(c, n)' = SavedRuns(c, n)
             /\ ToRun(c, n)' = ToRun(c, n)
             /\ Replied(c, n)' = Replied(c, n)
             /\ ToSend(c, n)' \subseteq ToSend(c, n)
  <2>1. \A q \in Proc : \A k : Calling(q, k)' = Calling(q, k)
    BY DEF Calling
  <2> QED
    BY <2>1, SendersLeft DEF SavedRuns, ToRun, Replied
<1>2. ASSUME NEW c \in Command, NEW n \in Machine
      PROVE  /\ IsFiniteSet(ToSend(c, n)')
             /\ Cardinality(ToSend(c, n)') \in Nat
             /\ Cardinality(ToSend(c, n)') <= Cardinality(ToSend(c, n))
  BY <1>1, ComingNumbers, Fewer DEF RunsInv
<1>3. FinitelyMany'
  BY <1>1, <1>2 DEF RunsInv, FinitelyMany
<1>4. ASSUME NEW c \in Command, NEW n \in Machine
      PROVE  Coming(c, n)' + crashes + timeouts <= Coming(c, n) + crashes' + timeouts'
  BY <1>1, <1>2, ComingNumbers DEF Coming, RunsInv, Shape, TypeOK
<1>5. \A c \in Command :
        \/ \E m \in Machine, q \in Proc : c \in ToSet(failed'[m][q])
        \/ \E d \in calls' : (d.op = "update" /\ d.cmd = c) \/ c \in ToSet(d.cmds)
        => Known(c)
  BY DEF Known
<1> QED
  BY <1>3, <1>4, <1>5, LogsLeft

LEMMA SaveRuns ==
  ASSUME Shape, Shape', RunsInv, NEW p \in Proc, Save(p)
  PROVE  RunsInv'
<1>1. /\ writer[p] # Idle
      /\ writer' = [writer EXCEPT ![p].pc = "saved"]
  BY WriterType DEF Shape, Save
<1>2. /\ \A q \in Proc \ {p} : writer'[q] = writer[q]
      /\ writer'[p].cmd = writer[p].cmd /\ writer'[p].todo = writer[p].todo
  BY <1>1, WriterPc DEF Shape
<1>3. UNCHANGED <<origin, failed, calls, crashes, timeouts, mem>>
  BY DEF Save, histVars, failVars
<1>4. p[1] \in Machine /\ p[2] \in Index /\ p = <<p[1], p[2]>>
  BY Processes
<1>5. /\ \A n \in Machine : data'[n] = IF n = p[1] THEN mem[p] ELSE data[n]
      /\ \A n \in Machine : backup'[n] \subseteq backup[n]
  BY DEF Save, Shape, TypeOK
<1>6. mem[p] \in Logs(p[1])
  BY <1>4 DEF Logs
<1>7. \A n \in Machine : Logs(n)' \subseteq Logs(n) \cup {<<>>}
  <2> SUFFICES ASSUME NEW n \in Machine, NEW l \in Logs(n)' PROVE l \in Logs(n)
    OBVIOUS
  <2>1. CASE l = data'[n]
    BY <1>5, <1>6, <2>1 DEF Logs
  <2>2. CASE l \in backup'[n]
    BY <1>5, <2>2 DEF Logs
  <2>3. CASE \E i \in Index : l = mem'[<<n, i>>]
    BY <1>3, <2>3 DEF Logs
  <2> QED
    BY <2>1, <2>2, <2>3 DEF Logs
<1> QED
  BY <1>1, <1>2, <1>3, <1>7, StillRuns

LEMMA StartSendingRuns ==
  ASSUME Shape, Shape', RunsInv, NEW p \in Proc, StartSending(p)
  PROVE  RunsInv'
<1>1. writer[p] # Idle /\ writer' = [writer EXCEPT ![p].pc = "sending"]
  BY WriterType DEF Shape, StartSending
<1>2. /\ \A q \in Proc \ {p} : writer'[q] = writer[q]
      /\ writer'[p].cmd = writer[p].cmd /\ writer'[p].todo = writer[p].todo
  BY <1>1, WriterPc DEF Shape
<1>3. UNCHANGED <<origin, failed, calls, crashes, timeouts, mem, data, backup>>
  BY DEF StartSending, fileVars, histVars, failVars
<1> QED
  BY <1>1, <1>2, <1>3, LogsSame, StillRuns

LEMMA AnswerRuns ==
  ASSUME Shape, Shape', RunsInv, NEW p \in Proc, Answer(p)
  PROVE  RunsInv'
<1>1. writer'[p] = Idle /\ \A q \in Proc \ {p} : writer'[q] = writer[q]
  BY DEF Answer, Shape, TypeOK
<1>2. UNCHANGED <<origin, failed, calls, crashes, timeouts, mem, data, backup>>
  BY DEF Answer, fileVars, failVars
<1> QED
  BY <1>1, <1>2, LogsSame, StillRuns

LEMMA TakeOverRuns ==
  ASSUME Shape, Shape', RunsInv, NEW p \in Proc, TakeOver(p)
  PROVE  RunsInv'
<1>1. UNCHANGED <<origin, failed, calls, crashes, timeouts, writer>>
  BY DEF TakeOver, histVars, failVars
<1>2. p[1] \in Machine /\ p[2] \in Index /\ p = <<p[1], p[2]>>
  BY Processes
<1>3. PICK m : m = p[1]
  OBVIOUS
<1>4. mem'[p] = data[m] /\ \A q \in Proc \ {p} : mem'[q] = mem[q]
  BY <1>3 DEF TakeOver, Shape, TypeOK
<1>5. /\ \A n \in Machine : backup'[n] \subseteq backup[n]
      /\ \A n \in Machine : n # m => data'[n] = data[n]
  BY <1>3 DEF TakeOver, Shape, TypeOK
<1>6. data'[m] = data[m] \/ data'[m] \in backup[m]
  <2>1. CASE backup[m] = {}
    BY <1>3, <2>1 DEF TakeOver
  <2>2. CASE backup[m] # {}
    <3>1. PICK b : b = CHOOSE d \in backup[m] : TRUE
      OBVIOUS
    <3>2. data'[m] = b
      BY <1>2, <1>3, <2>2, <3>1 DEF TakeOver, Shape, TypeOK
    <3> QED
      BY <2>2, <3>1, <3>2
  <2> QED
    BY <2>1, <2>2
<1>7. ASSUME NEW n \in Machine, NEW i \in Index PROVE mem'[<<n, i>>] \in Logs(n)
  <2>1. CASE <<n, i>> = p
    <3>1. n = m
      BY <1>2, <1>3, <2>1
    <3> QED
      BY <1>4, <2>1, <3>1 DEF Logs
  <2>2. CASE <<n, i>> # p
    BY <1>4, <2>2, Processes DEF Logs
  <2> QED
    BY <2>1, <2>2
<1>8. \A n \in Machine : Logs(n)' \subseteq Logs(n) \cup {<<>>}
  <2> SUFFICES ASSUME NEW n \in Machine, NEW l \in Logs(n)' PROVE l \in Logs(n)
    OBVIOUS
  <2>1. CASE l = data'[n]
    BY <1>5, <1>6, <2>1 DEF Logs
  <2>2. CASE l \in backup'[n]
    BY <1>5, <2>2 DEF Logs
  <2>3. CASE \E i \in Index : l = mem'[<<n, i>>]
    BY <1>7, <2>3
  <2> QED
    BY <2>1, <2>2, <2>3 DEF Logs
<1> QED
  BY <1>1, <1>8, StillRuns

\* Nothing that counts changes.
LEMMA OtherRuns ==
  ASSUME Shape, Shape', RunsInv,
         UNCHANGED <<origin, failed, calls, crashes, timeouts, writer, mem, data, backup>>
  PROVE  RunsInv'
BY LogsSame, StillRuns

-----------------------------------------------------------------------------
(***************************************************************************)
(* The handlers                                                            *)
(***************************************************************************)

LEMMA MovedRuns ==
  ASSUME Shape, NEW d \in calls, NEW pc \in {"fetch", "done"},
         NEW cmds \in Seq(Command), Goes(d, pc, cmds), UNCHANGED writer
  PROVE  \A c \in Command, n \in Machine :
           /\ ToRun(c, n)' \subseteq ToRun(c, n) \ {d}
           /\ n # d.from[1] => Replied(c, n)' \subseteq Replied(c, n)
           /\ Replied(c, n)' \subseteq
                Replied(c, n) \cup ({Moved(d, pc, cmds)} \X Runs(cmds, c))
           /\ ToSend(c, n)' \subseteq ToSend(c, n)
           /\ (\E e \in calls' : (e.op = "update" /\ e.cmd = c) \/ c \in ToSet(e.cmds))
                => Known(c) \/ c \in ToSet(cmds)
<1>1. PICK new : new = Moved(d, pc, cmds)
  OBVIOUS
<1>2. d \in Call /\ pc \in Stage
  BY DEF Shape, TypeOK, Call, Stage
<1>3. /\ new.pc = pc /\ new.cmds = cmds /\ new.heard = d.heard
      /\ new.from = d.from /\ new.to = d.to /\ new.op = d.op /\ new.cmd = d.cmd
  BY <1>1, <1>2, CallGoes
<1>4. /\ \A e \in calls : e # d => e \in calls'
      /\ \A e \in calls' : (e \in calls /\ e # d) \/ e = new
      /\ d.heard => new \in calls'
  BY <1>1, <1>2, CallGone DEF Shape
<1>5. \A q \in Proc : \A k : Calling(q, k) => Calling(q, k)'
  <2> SUFFICES ASSUME NEW q \in Proc, NEW k,
                      NEW e \in calls, e.op = "update", e.heard, e.from = q,
                      e.to[1] = k, e.pc # "failed"
               PROVE  Calling(q, k)'
    BY DEF Calling
  <2>1. CASE e = d
    BY <1>3, <1>4, <2>1 DEF Calling
  <2>2. CASE e # d
    BY <1>4, <2>2 DEF Calling
  <2> QED
    BY <2>1, <2>2
<1> SUFFICES ASSUME NEW c \in Command, NEW n \in Machine
             PROVE  /\ ToRun(c, n)' \subseteq ToRun(c, n) \ {d}
                    /\ n # d.from[1] => Replied(c, n)' \subseteq Replied(c, n)
                    /\ Replied(c, n)' \subseteq Replied(c, n) \cup ({new} \X Runs(cmds, c))
                    /\ ToSend(c, n)' \subseteq ToSend(c, n)
                    /\ (\E e \in calls' : (e.op = "update" /\ e.cmd = c) \/ c \in ToSet(e.cmds))
                         => Known(c) \/ c \in ToSet(cmds)
  BY <1>1
<1>6. ToRun(c, n)' \subseteq ToRun(c, n) \ {d}
  BY <1>3, <1>4 DEF ToRun
<1>7. ASSUME NEW t \in Replied(c, n)'
      PROVE  \/ t \in Replied(c, n)
             \/ n = d.from[1] /\ t \in {new} \X Runs(cmds, c)
  <2>1. PICK e \in calls', k \in Nat : t = <<e, k>>
    BY DEF Replied
  <2>2. e.from[1] = n /\ k \in Runs(e.cmds, c)
    BY <2>1 DEF Replied
  <2>3. CASE e \in calls
    BY <2>1, <2>2, <2>3 DEF Replied
  <2>4. CASE e = new
    BY <1>3, <2>1, <2>2, <2>4
  <2> QED
    BY <1>4, <2>3, <2>4
<1>8. ToSend(c, n)' \subseteq ToSend(c, n)
  BY <1>5, SendersLeft
<1>9. (\E e \in calls' : (e.op = "update" /\ e.cmd = c) \/ c \in ToSet(e.cmds))
         => Known(c) \/ c \in ToSet(cmds)
  BY <1>3, <1>4 DEF Known
<1> QED
  BY <1>6, <1>7, <1>8, <1>9

\* What counts, from the sets.
LEMMA CountedLess ==
  ASSUME FinitelyMany,
         \A c \in Command, n \in Machine :
           /\ SavedRuns(c, n)' \subseteq SavedRuns(c, n)
           /\ ToRun(c, n)' \subseteq ToRun(c, n)
           /\ Replied(c, n)' \subseteq Replied(c, n)
           /\ ToSend(c, n)' \subseteq ToSend(c, n)
  PROVE  /\ FinitelyMany'
         /\ \A c \in Command, n \in Machine :
              /\ Coming(c, n)' \in Nat /\ Coming(c, n) \in Nat
              /\ Coming(c, n)' <= Coming(c, n)
<1>1. ASSUME NEW c \in Command, NEW n \in Machine
      PROVE  /\ IsFiniteSet(SavedRuns(c, n)') /\ IsFiniteSet(ToRun(c, n)')
             /\ IsFiniteSet(Replied(c, n)') /\ IsFiniteSet(ToSend(c, n)')
             /\ Coming(c, n)' \in Nat /\ Coming(c, n) \in Nat
             /\ Coming(c, n)' <= Coming(c, n)
  <2>1. /\ IsFiniteSet(SavedRuns(c, n)') /\ Cardinality(SavedRuns(c, n)') \in Nat
        /\ Cardinality(SavedRuns(c, n)') <= Cardinality(SavedRuns(c, n))
    BY Fewer DEF FinitelyMany
  <2>2. /\ IsFiniteSet(ToRun(c, n)') /\ Cardinality(ToRun(c, n)') \in Nat
        /\ Cardinality(ToRun(c, n)') <= Cardinality(ToRun(c, n))
    BY Fewer DEF FinitelyMany
  <2>3. /\ IsFiniteSet(Replied(c, n)') /\ Cardinality(Replied(c, n)') \in Nat
        /\ Cardinality(Replied(c, n)') <= Cardinality(Replied(c, n))
    BY Fewer DEF FinitelyMany
  <2>4. /\ IsFiniteSet(ToSend(c, n)') /\ Cardinality(ToSend(c, n)') \in Nat
        /\ Cardinality(ToSend(c, n)') <= Cardinality(ToSend(c, n))
    BY Fewer DEF FinitelyMany
  <2> QED
    BY <2>1, <2>2, <2>3, <2>4, ComingNumbers DEF Coming
<1> QED
  BY <1>1 DEF FinitelyMany

LEMMA ResetRuns ==
  ASSUME Shape, Shape', RunsInv, NEW d \in calls, Reset(d)
  PROVE  RunsInv'
<1>0. PICK cmds : cmds = <<>>
  OBVIOUS
<1>1. PICK pc \in {"fetch", "done"} : Goes(d, pc, cmds)
  BY <1>0 DEF Reset
<1>2. UNCHANGED <<origin, failed, crashes, timeouts, writer, mem, data, backup>>
  BY DEF Reset, fileVars, failVars
<1>3. cmds \in Seq(Command) /\ \A c : Runs(cmds, c) = {} /\ c \notin ToSet(cmds)
  BY <1>0, SetOfSeq, RunsNone
<1>4. \A c \in Command, n \in Machine :
        /\ ToRun(c, n)' \subseteq ToRun(c, n)
        /\ Replied(c, n)' \subseteq Replied(c, n)
        /\ ToSend(c, n)' \subseteq ToSend(c, n)
        /\ (\E e \in calls' : (e.op = "update" /\ e.cmd = c) \/ c \in ToSet(e.cmds))
                => Known(c)
  <2> SUFFICES ASSUME NEW c \in Command, NEW n \in Machine
               PROVE  /\ ToRun(c, n)' \subseteq ToRun(c, n)
                      /\ Replied(c, n)' \subseteq Replied(c, n)
                      /\ ToSend(c, n)' \subseteq ToSend(c, n)
                      /\ (\E e \in calls' : (e.op = "update" /\ e.cmd = c) \/ c \in ToSet(e.cmds))
                              => Known(c)
    OBVIOUS
  <2>1. PICK new : new = Moved(d, pc, cmds)
    OBVIOUS
  <2>2. {new} \X Runs(cmds, c) = {} /\ c \notin ToSet(cmds)
    BY <1>3
  <2>3. /\ ToRun(c, n)' \subseteq ToRun(c, n) \ {d}
        /\ Replied(c, n)' \subseteq Replied(c, n) \cup ({new} \X Runs(cmds, c))
        /\ ToSend(c, n)' \subseteq ToSend(c, n)
        /\ (\E e \in calls' : (e.op = "update" /\ e.cmd = c) \/ c \in ToSet(e.cmds))
             => Known(c) \/ c \in ToSet(cmds)
    <3>1. UNCHANGED writer /\ cmds \in Seq(Command)
      BY <1>2, <1>3
    <3> QED
      BY <1>1, <2>1, <3>1, MovedRuns
  <2> QED
    BY <2>2, <2>3
<1>5. \A c \in Command, n \in Machine : SavedRuns(c, n)' \subseteq SavedRuns(c, n)
  BY <1>2 DEF SavedRuns
<1>6. /\ FinitelyMany'
      /\ \A c \in Command, n \in Machine :
           /\ Coming(c, n)' \in Nat /\ Coming(c, n) \in Nat
           /\ Coming(c, n)' <= Coming(c, n)
  BY <1>4, <1>5, CountedLess DEF RunsInv
<1>7. \A c \in Command, n \in Machine :
        Coming(c, n)' + crashes + timeouts <= Coming(c, n) + crashes' + timeouts'
  BY <1>2, <1>6 DEF Shape, TypeOK
<1>8. \A c \in Command :
        \/ \E m \in Machine, q \in Proc : c \in ToSet(failed'[m][q])
        \/ \E e \in calls' : (e.op = "update" /\ e.cmd = c) \/ c \in ToSet(e.cmds)
        => Known(c)
  <2> SUFFICES ASSUME NEW c \in Command,
                      \/ \E m \in Machine, q \in Proc : c \in ToSet(failed'[m][q])
                      \/ \E e \in calls' : (e.op = "update" /\ e.cmd = c) \/ c \in ToSet(e.cmds)
               PROVE  Known(c)
    OBVIOUS
  <2>1. CASE \E m \in Machine, q \in Proc : c \in ToSet(failed'[m][q])
    BY <1>2, <2>1 DEF Known
  <2>2. CASE \E e \in calls' : (e.op = "update" /\ e.cmd = c) \/ c \in ToSet(e.cmds)
    <3>1. d.from[1] \in Machine
      BY CallType, Processes DEF Shape, TypeOK, Call
    <3> QED
      BY <1>4, <2>2, <3>1
  <2> QED
    BY <2>1, <2>2
<1> QED
  BY <1>2, <1>6, <1>7, <1>8, LogsLeft, LogsSame

LEMMA FetchRuns ==
  ASSUME Shape, Shape', RunsInv, NEW d \in calls, Fetch(d)
  PROVE  RunsInv'
<1>1. PICK m, id, cmds, new : /\ m = d.to[1] /\ id = Owner(d)
                              /\ cmds = failed[m][id]
                              /\ new = Moved(d, "done", cmds)
  OBVIOUS
<1>2. /\ m \in Machine /\ id \in Proc /\ id[1] = d.from[1] /\ d.from[1] \in Machine
      /\ cmds \in Seq(Command)
  BY <1>1, FetchOwner
<1>3. /\ failed' = [failed EXCEPT ![m] = [failed[m] EXCEPT ![id] = <<>>]]
      /\ Goes(d, "done", cmds)
  BY <1>1 DEF Fetch, Remaining, CmdsFor, Owner
<1>4. /\ failed'[m][id] = <<>>
      /\ \A k \in Machine, r \in Proc :
           k # m \/ r # id => failed'[k][r] = failed[k][r]
  BY <1>2, <1>3 DEF Shape, TypeOK
<1>5. UNCHANGED <<origin, crashes, timeouts, writer, mem, data, backup>>
  BY DEF Fetch, procVars, failVars
<1>6. \A c \in Command, n \in Machine :
        /\ ToRun(c, n)' \subseteq ToRun(c, n) \ {d}
        /\ n # d.from[1] => Replied(c, n)' \subseteq Replied(c, n)
        /\ Replied(c, n)' \subseteq Replied(c, n) \cup ({new} \X Runs(cmds, c))
        /\ ToSend(c, n)' \subseteq ToSend(c, n)
        /\ (\E e \in calls' : (e.op = "update" /\ e.cmd = c) \/ c \in ToSet(e.cmds))
             => Known(c) \/ c \in ToSet(cmds)
  BY <1>1, <1>2, <1>3, <1>5, MovedRuns
<1>7. ASSUME NEW c \in Command, NEW n \in Machine
      PROVE  /\ SavedRuns(c, n)' \subseteq SavedRuns(c, n)
             /\ n = d.from[1] =>
                  /\ {<<m, id>>} \X Runs(cmds, c) \subseteq SavedRuns(c, n)
                  /\ SavedRuns(c, n)' \subseteq
                       SavedRuns(c, n) \ ({<<m, id>>} \X Runs(cmds, c))
  <2>1. Runs(<<>>, c) = {}
    BY SetOfSeq, RunsNone
  <2>2. Runs(cmds, c) \subseteq Nat
    BY <1>2, RunsFinite
  <2>3. ASSUME NEW t \in SavedRuns(c, n)'
        PROVE  t \in SavedRuns(c, n) /\ t[1] # <<m, id>>
    <3>1. PICK k \in Machine, r \in Proc, i \in Nat : t = <<<<k, r>>, i>>
      BY DEF SavedRuns
    <3>2. r[1] = n /\ i \in Runs(failed'[k][r], c)
      BY <3>1 DEF SavedRuns
    <3>3. k # m \/ r # id
      BY <1>4, <2>1, <3>2
    <3> QED
      BY <1>4, <3>1, <3>2, <3>3 DEF SavedRuns
  <2>4. ASSUME NEW t \in {<<m, id>>} \X Runs(cmds, c), n = d.from[1]
        PROVE  t \in SavedRuns(c, n)
    <3>1. PICK i \in Runs(cmds, c) : t = <<<<m, id>>, i>>
      OBVIOUS
    <3> QED
      BY <1>1, <1>2, <2>2, <2>4, <3>1 DEF SavedRuns
  <2> QED
    BY <2>3, <2>4
<1>8. ASSUME NEW c \in Command, NEW n \in Machine
      PROVE  /\ IsFiniteSet(SavedRuns(c, n)') /\ IsFiniteSet(ToRun(c, n)')
             /\ IsFiniteSet(Replied(c, n)') /\ IsFiniteSet(ToSend(c, n)')
             /\ Coming(c, n)' + crashes + timeouts <= Coming(c, n) + crashes' + timeouts'
  <2>1. /\ IsFiniteSet(SavedRuns(c, n)) /\ IsFiniteSet(ToRun(c, n))
        /\ IsFiniteSet(Replied(c, n)) /\ IsFiniteSet(ToSend(c, n))
        /\ IsFiniteSet(Runs(cmds, c)) /\ Cardinality(Runs(cmds, c)) \in Nat
    BY <1>2, ComingNumbers, RunsFinite DEF RunsInv
  <2>2. /\ IsFiniteSet(ToRun(c, n)')
        /\ Cardinality(ToRun(c, n)) \in Nat /\ Cardinality(ToRun(c, n)') \in Nat
        /\ Cardinality(ToRun(c, n)') <= Cardinality(ToRun(c, n))
    <3>1. ToRun(c, n)' \subseteq ToRun(c, n)
      BY <1>6
    <3> QED
      BY <2>1, <3>1, Fewer
  <2>3. /\ IsFiniteSet(ToSend(c, n)')
        /\ Cardinality(ToSend(c, n)) \in Nat /\ Cardinality(ToSend(c, n)') \in Nat
        /\ Cardinality(ToSend(c, n)') <= Cardinality(ToSend(c, n))
    <3>1. ToSend(c, n)' \subseteq ToSend(c, n)
      BY <1>6
    <3> QED
      BY <2>1, <3>1, Fewer
  <2>4. /\ IsFiniteSet(SavedRuns(c, n)') /\ IsFiniteSet(Replied(c, n)')
        /\ Cardinality(SavedRuns(c, n)) \in Nat /\ Cardinality(SavedRuns(c, n)') \in Nat
        /\ Cardinality(Replied(c, n)) \in Nat /\ Cardinality(Replied(c, n)') \in Nat
        /\ Cardinality(SavedRuns(c, n)') + Cardinality(Replied(c, n)')
             <= Cardinality(SavedRuns(c, n)) + Cardinality(Replied(c, n))
    <3>1. CASE n # d.from[1]
      <4>1. SavedRuns(c, n)' \subseteq SavedRuns(c, n)
        BY <1>7
      <4>2. Replied(c, n)' \subseteq Replied(c, n)
        BY <1>6, <3>1
      <4>3. /\ IsFiniteSet(SavedRuns(c, n)')
            /\ Cardinality(SavedRuns(c, n)) \in Nat /\ Cardinality(SavedRuns(c, n)') \in Nat
            /\ Cardinality(SavedRuns(c, n)') <= Cardinality(SavedRuns(c, n))
        BY <2>1, <4>1, Fewer
      <4>4. /\ IsFiniteSet(Replied(c, n)')
            /\ Cardinality(Replied(c, n)) \in Nat /\ Cardinality(Replied(c, n)') \in Nat
            /\ Cardinality(Replied(c, n)') <= Cardinality(Replied(c, n))
        BY <2>1, <4>2, Fewer
      <4> QED
        BY <4>3, <4>4
    <3>2. CASE n = d.from[1]
      <4>1. PICK U, V : U = {<<m, id>>} \X Runs(cmds, c) /\ V = {new} \X Runs(cmds, c)
        OBVIOUS
      <4>2. /\ IsFiniteSet(U) /\ Cardinality(U) = Cardinality(Runs(cmds, c))
            /\ IsFiniteSet(V) /\ Cardinality(V) = Cardinality(Runs(cmds, c))
        BY <2>1, <4>1, Paired
      <4>3. U \subseteq SavedRuns(c, n) /\ SavedRuns(c, n)' \subseteq SavedRuns(c, n) \ U
        BY <1>7, <3>2, <4>1
      <4>4. Replied(c, n)' \subseteq Replied(c, n) \cup V
        BY <1>6, <4>1
      <4>5. /\ IsFiniteSet(SavedRuns(c, n)')
            /\ Cardinality(SavedRuns(c, n)) \in Nat /\ Cardinality(SavedRuns(c, n)') \in Nat
            /\ Cardinality(SavedRuns(c, n)') + Cardinality(U) <= Cardinality(SavedRuns(c, n))
        BY <2>1, <4>3, Less
      <4>6. /\ IsFiniteSet(Replied(c, n)')
            /\ Cardinality(Replied(c, n)) \in Nat /\ Cardinality(Replied(c, n)') \in Nat
            /\ Cardinality(Replied(c, n)') <= Cardinality(Replied(c, n)) + Cardinality(V)
        BY <2>1, <4>2, <4>4, More
      <4> QED
        BY <2>1, <4>2, <4>5, <4>6
    <3> QED
      BY <3>1, <3>2
  <2>5. crashes' = crashes /\ timeouts' = timeouts /\ crashes \in Nat /\ timeouts \in Nat
    BY <1>5 DEF Shape, TypeOK
  <2> QED
    BY <2>2, <2>3, <2>4, <2>5 DEF Coming
<1>9. \A c \in Command :
        \/ \E k \in Machine, q \in Proc : c \in ToSet(failed'[k][q])
        \/ \E e \in calls' : (e.op = "update" /\ e.cmd = c) \/ c \in ToSet(e.cmds)
        => Known(c)
  <2> SUFFICES ASSUME NEW c \in Command,
                      \/ \E k \in Machine, q \in Proc : c \in ToSet(failed'[k][q])
                      \/ \E e \in calls' : (e.op = "update" /\ e.cmd = c) \/ c \in ToSet(e.cmds)
               PROVE  Known(c)
    OBVIOUS
  <2>1. CASE \E k \in Machine, q \in Proc : c \in ToSet(failed'[k][q])
    BY <1>4, <2>1, SetOfSeq DEF Known
  <2>2. CASE \E e \in calls' : (e.op = "update" /\ e.cmd = c) \/ c \in ToSet(e.cmds)
    <3>1. Known(c) \/ c \in ToSet(cmds)
      BY <1>2, <1>6, <2>2
    <3> QED
      BY <1>1, <1>2, <3>1 DEF Known
  <2> QED
    BY <2>1, <2>2
<1>10. FinitelyMany'
  BY <1>8 DEF FinitelyMany
<1> QED
  BY <1>5, <1>8, <1>9, <1>10, LogsLeft, LogsSame

LEMMA UpdateRuns ==
  ASSUME Shape, Shape', RunsInv, NEW d \in calls, Update(d)
  PROVE  RunsInv'
<1>1. PICK p, cmds, none : p = d.to /\ cmds = <<d.cmd>> /\ none = <<>>
  OBVIOUS
<1>2. /\ d \in Call /\ p \in Proc /\ p[1] \in Machine /\ d.cmd \in Command
      /\ d.op = "update" /\ d.pc = "run"
  <2>1. d \in Call /\ d.op = "update" /\ d.pc = "run"
    BY DEF Shape, TypeOK, Call, Update
  <2> QED
    BY <1>1, <2>1, CallType, Processes
<1>3. RunAll(p, cmds) /\ Goes(d, "fetch", none) /\ cmds \in Seq(Command)
  BY <1>1, <1>2 DEF Update
<1>4. none \in Seq(Command) /\ \A c : Runs(none, c) = {} /\ c \notin ToSet(none)
  BY <1>1, SetOfSeq, RunsNone
<1>5. UNCHANGED <<origin, backup, failed, crashes, timeouts, writer>>
  BY DEF Update, failVars
<1>6. ASSUME NEW c \in Command, NEW n \in Machine
      PROVE  /\ ToRun(c, n)' \subseteq ToRun(c, n) \ {d}
             /\ Replied(c, n)' \subseteq Replied(c, n)
             /\ ToSend(c, n)' \subseteq ToSend(c, n)
             /\ (\E e \in calls' : (e.op = "update" /\ e.cmd = c) \/ c \in ToSet(e.cmds))
                  => Known(c)
  <2>1. PICK new : new = Moved(d, "fetch", none)
    OBVIOUS
  <2>2. {new} \X Runs(none, c) = {} /\ c \notin ToSet(none)
    BY <1>4
  <2>3. /\ ToRun(c, n)' \subseteq ToRun(c, n) \ {d}
        /\ Replied(c, n)' \subseteq Replied(c, n) \cup ({new} \X Runs(none, c))
        /\ ToSend(c, n)' \subseteq ToSend(c, n)
        /\ (\E e \in calls' : (e.op = "update" /\ e.cmd = c) \/ c \in ToSet(e.cmds))
             => Known(c) \/ c \in ToSet(none)
    <3>1. UNCHANGED writer
      BY <1>5
    <3> QED
      BY <1>3, <1>4, <2>1, <3>1, MovedRuns
  <2> QED
    BY <2>2, <2>3
<1>7. ASSUME NEW c \in Command, NEW n \in Machine
      PROVE  /\ IsFiniteSet(SavedRuns(c, n)') /\ IsFiniteSet(ToRun(c, n)')
             /\ IsFiniteSet(Replied(c, n)') /\ IsFiniteSet(ToSend(c, n)')
             /\ Coming(c, n)' <= Coming(c, n)
             /\ n = p[1] => Coming(c, n)' + Cardinality(Runs(cmds, c)) <= Coming(c, n)
  <2>1. /\ IsFiniteSet(SavedRuns(c, n)) /\ IsFiniteSet(ToRun(c, n))
        /\ IsFiniteSet(Replied(c, n)) /\ IsFiniteSet(ToSend(c, n))
        /\ Cardinality(SavedRuns(c, n)) \in Nat
    BY ComingNumbers DEF RunsInv
  <2>2. SavedRuns(c, n)' = SavedRuns(c, n)
    BY <1>5 DEF SavedRuns
  <2>3. /\ IsFiniteSet(Replied(c, n)')
        /\ Cardinality(Replied(c, n)) \in Nat /\ Cardinality(Replied(c, n)') \in Nat
        /\ Cardinality(Replied(c, n)') <= Cardinality(Replied(c, n))
    BY <1>6, <2>1, Fewer
  <2>4. /\ IsFiniteSet(ToSend(c, n)')
        /\ Cardinality(ToSend(c, n)) \in Nat /\ Cardinality(ToSend(c, n)') \in Nat
        /\ Cardinality(ToSend(c, n)') <= Cardinality(ToSend(c, n))
    BY <1>6, <2>1, Fewer
  <2>5. ToRun(c, n)' \subseteq ToRun(c, n) \ {d} /\ ToRun(c, n)' \subseteq ToRun(c, n)
    BY <1>6
  <2>6. /\ IsFiniteSet(ToRun(c, n)')
        /\ Cardinality(ToRun(c, n)) \in Nat /\ Cardinality(ToRun(c, n)') \in Nat
        /\ Cardinality(ToRun(c, n)') <= Cardinality(ToRun(c, n))
    BY <2>1, <2>5, Fewer
  <2>7. ASSUME n = p[1]
        PROVE  /\ Cardinality(Runs(cmds, c)) \in Nat
               /\ Cardinality(ToRun(c, n)') + Cardinality(Runs(cmds, c))
                    <= Cardinality(ToRun(c, n))
    <3>1. CASE c = d.cmd
      <4>1. d \in ToRun(c, n)
        BY <1>1, <1>2, <2>7, <3>1 DEF ToRun
      <4>2. Cardinality(ToRun(c, n)') + 1 <= Cardinality(ToRun(c, n))
        BY <2>1, <2>5, <4>1, OneLess
      <4>3. Runs(cmds, c) = {1}
        BY <1>1, <3>1 DEF Runs
      <4>4. Cardinality(Runs(cmds, c)) = 1
        BY <4>3, FS_Singleton
      <4> QED
        BY <4>2, <4>4
    <3>2. CASE c # d.cmd
      <4>1. c \notin ToSet(cmds)
        BY <1>1, <3>2, SetOfSeq
      <4>2. Cardinality(Runs(cmds, c)) = 0
        BY <4>1, RunsNone
      <4> QED
        BY <2>6, <4>2
    <3> QED
      BY <3>1, <3>2
  <2> QED
    BY <2>1, <2>2, <2>3, <2>4, <2>6, <2>7 DEF Coming
<1>8. FinitelyMany'
  BY <1>7 DEF FinitelyMany
<1>9. \A c \in Command : c \in ToSet(cmds) => Known(c)
  BY <1>1, <1>2, SetOfSeq DEF Known
<1>10. \A c \in Command :
         \/ \E k \in Machine, q \in Proc : c \in ToSet(failed'[k][q])
         \/ \E e \in calls' : (e.op = "update" /\ e.cmd = c) \/ c \in ToSet(e.cmds)
         => Known(c)
  <2> SUFFICES ASSUME NEW c \in Command,
                      \/ \E k \in Machine, q \in Proc : c \in ToSet(failed'[k][q])
                      \/ \E e \in calls' : (e.op = "update" /\ e.cmd = c) \/ c \in ToSet(e.cmds)
               PROVE  Known(c)
    OBVIOUS
  <2>1. CASE \E k \in Machine, q \in Proc : c \in ToSet(failed'[k][q])
    BY <1>5, <2>1 DEF Known
  <2>2. CASE \E e \in calls' : (e.op = "update" /\ e.cmd = c) \/ c \in ToSet(e.cmds)
    BY <1>2, <1>6, <2>2
  <2> QED
    BY <2>1, <2>2
<1> QED
  BY <1>2, <1>3, <1>5, <1>7, <1>8, <1>9, <1>10, LogsRun

-----------------------------------------------------------------------------
(***************************************************************************)
(* The callers                                                             *)
(***************************************************************************)

\* The calls that are left are calls there were, each at most once.
LEMMA CallsStand ==
  ASSUME FinitelyMany, NEW F \in [calls' -> calls],
         \A d, e \in calls' : F[d] = F[e] => d = e,
         \A d \in calls' : /\ d.op = F[d].op /\ d.cmd = F[d].cmd
                           /\ d.from = F[d].from /\ d.to = F[d].to
                           /\ d.cmds = F[d].cmds
                           /\ d.pc = "run" => F[d].pc = "run"
  PROVE  /\ \A c \in Command, n \in Machine :
              /\ IsFiniteSet(ToRun(c, n)')
              /\ Cardinality(ToRun(c, n)') <= Cardinality(ToRun(c, n))
              /\ IsFiniteSet(Replied(c, n)')
              /\ Cardinality(Replied(c, n)') <= Cardinality(Replied(c, n))
         /\ \A c \in Command :
              (\E d \in calls' : (d.op = "update" /\ d.cmd = c) \/ c \in ToSet(d.cmds))
                => Known(c)
<1>1. ASSUME NEW c \in Command, NEW n \in Machine
      PROVE  /\ IsFiniteSet(ToRun(c, n)')
             /\ Cardinality(ToRun(c, n)') <= Cardinality(ToRun(c, n))
             /\ IsFiniteSet(Replied(c, n)')
             /\ Cardinality(Replied(c, n)') <= Cardinality(Replied(c, n))
  <2>1. PICK S, T : S = ToRun(c, n)' /\ T = ToRun(c, n)
    OBVIOUS
  <2>2. PICK f : f = [d \in S |-> F[d]]
    OBVIOUS
  <2>3. S \subseteq calls' /\ \A d \in S : F[d] \in T
    BY <2>1 DEF ToRun
  <2>4. f \in Injection(S, T)
    BY <2>2, <2>3 DEF Injection, IsInjective
  <2>5. IsFiniteSet(S) /\ Cardinality(S) <= Cardinality(T)
    BY <2>1, <2>4, FS_Injection DEF FinitelyMany
  <2>6. PICK U, V : U = Replied(c, n)' /\ V = Replied(c, n)
    OBVIOUS
  <2>7. PICK g : g = [t \in U |-> <<F[t[1]], t[2]>>]
    OBVIOUS
  <2>8. ASSUME NEW t \in U
        PROVE  t[1] \in calls' /\ t = <<t[1], t[2]>> /\ <<F[t[1]], t[2]>> \in V
    <3>1. PICK d \in calls', k \in Nat : t = <<d, k>>
      BY <2>6 DEF Replied
    <3>2. d.from[1] = n /\ k \in Runs(d.cmds, c)
      BY <2>6, <3>1 DEF Replied
    <3>3. <<F[d], k>> \in V
      BY <2>6, <3>2 DEF Replied
    <3> QED
      BY <3>1, <3>3
  <2>9. g \in Injection(U, V)
    <3>1. g \in [U -> V]
      BY <2>7, <2>8
    <3>2. ASSUME NEW t \in U, NEW u \in U, g[t] = g[u] PROVE t = u
      <4>1. F[t[1]] = F[u[1]] /\ t[2] = u[2]
        BY <2>7, <3>2
      <4>2. t[1] \in calls' /\ t = <<t[1], t[2]>>
        BY <2>8
      <4>3. u[1] \in calls' /\ u = <<u[1], u[2]>>
        BY <2>8
      <4>4. t[1] = u[1]
        BY <4>1, <4>2, <4>3
      <4> QED
        BY <4>1, <4>2, <4>3, <4>4
    <3> QED
      BY <3>1, <3>2 DEF Injection, IsInjective
  <2>10. IsFiniteSet(U) /\ Cardinality(U) <= Cardinality(V)
    BY <2>6, <2>9, FS_Injection DEF FinitelyMany
  <2> QED
    BY <2>1, <2>5, <2>6, <2>10
<1>2. ASSUME NEW c \in Command, NEW d \in calls',
             (d.op = "update" /\ d.cmd = c) \/ c \in ToSet(d.cmds)
      PROVE  Known(c)
  <2>1. F[d] \in calls
    OBVIOUS
  <2> QED
    BY <1>2, <2>1 DEF Known
<1> QED
  BY <1>1, <1>2

\* A command is saved: before, its writer had to send it, or this is a failure.
LEMMA SaveCmdRuns ==
  ASSUME Shape, Shape', RunsInv, NEW p \in Proc, NEW q \in Proc, writer[p] # Idle,
         SaveCmd(p, q), UNCHANGED <<mem, data, backup, origin>>,
         \A c \in Command, n \in Machine :
           /\ IsFiniteSet(ToRun(c, n)')
           /\ Cardinality(ToRun(c, n)') <= Cardinality(ToRun(c, n))
           /\ IsFiniteSet(Replied(c, n)')
           /\ Cardinality(Replied(c, n)') <= Cardinality(Replied(c, n)),
         \A c \in Command :
           (\E d \in calls' : (d.op = "update" /\ d.cmd = c) \/ c \in ToSet(d.cmds))
             => Known(c),
         \A r \in Proc, n \in Machine :
           (r # p \/ n # q[1]) /\ Calling(r, n) => Calling(r, n)',
         \/ /\ crashes' = crashes /\ timeouts' = timeouts + 1
         \/ /\ crashes' = crashes /\ timeouts' = timeouts
            /\ p \in ToSend(writer[p].cmd, q[1])
  PROVE  RunsInv'
<1>1. PICK x, m, k : x = writer[p].cmd /\ m = p[1] /\ k = q[1]
  OBVIOUS
<1>2. PICK old, new : old = failed[m][q] /\ new = Append(old, x)
  OBVIOUS
<1>3. /\ x \in Command /\ m \in Machine /\ k \in Machine /\ origin[x] # NoMachine
      /\ old \in Seq(Command) /\ writer[p].todo \subseteq Machine
  <2>1. m \in Machine /\ k \in Machine /\ old \in Seq(Command)
    BY <1>1, <1>2, Processes DEF Shape, TypeOK
  <2>2. x \in Command /\ writer[p].todo \subseteq Machine
    BY <1>1, WriterType DEF Shape
  <2>3. origin[x] = m
    BY <1>1 DEF Shape, WritersRule
  <2> QED
    BY <2>1, <2>2, <2>3, NoMachineAssumption
<1>4. /\ failed' = [failed EXCEPT ![m][q] = new]
      /\ writer' = [writer EXCEPT ![p].todo = @ \ {k}]
  BY <1>1, <1>2 DEF SaveCmd
<1>5. /\ failed'[m][q] = new
      /\ \A j \in Machine, r \in Proc :
           j # m \/ r # q => failed'[j][r] = failed[j][r]
  BY <1>3, <1>4 DEF Shape, TypeOK
<1>6. /\ \A r \in Proc \ {p} : writer'[r] = writer[r]
      /\ writer'[p].cmd = x /\ writer'[p].todo = writer[p].todo \ {k}
  BY <1>1, <1>4, WriterTodo DEF Shape
<1>7. PICK t : t = <<<<m, q>>, Len(old) + 1>>
  OBVIOUS
<1>8. ASSUME NEW c \in Command, NEW n \in Machine
      PROVE  /\ SavedRuns(c, n)' \subseteq SavedRuns(c, n) \cup {t}
             /\ c # x \/ n # k => SavedRuns(c, n)' \subseteq SavedRuns(c, n)
  <2>1. ASSUME NEW u \in SavedRuns(c, n)'
        PROVE  u \in SavedRuns(c, n) \/ (c = x /\ n = k /\ u = t)
    <3>1. PICK j \in Machine, r \in Proc, i \in Nat : u = <<<<j, r>>, i>>
      BY DEF SavedRuns
    <3>2. r[1] = n /\ i \in Runs(failed'[j][r], c)
      BY <3>1 DEF SavedRuns
    <3>3. CASE j # m \/ r # q
      BY <1>5, <3>1, <3>2, <3>3 DEF SavedRuns
    <3>4. CASE j = m /\ r = q
      <4>1. i \in Runs(new, c)
        BY <1>5, <3>2, <3>4
      <4>2. \/ i \in Runs(old, c)
            \/ c = x /\ i = Len(old) + 1
        BY <1>2, <1>3, <4>1, RunsAppend
      <4>3. CASE i \in Runs(old, c)
        BY <1>2, <3>1, <3>2, <3>4, <4>3 DEF SavedRuns
      <4>4. CASE c = x /\ i = Len(old) + 1
        BY <1>1, <1>7, <3>1, <3>2, <3>4, <4>4
      <4> QED
        BY <4>2, <4>3, <4>4
    <3> QED
      BY <3>3, <3>4
  <2> QED
    BY <2>1
<1>9. ASSUME NEW c \in Command, NEW n \in Machine
      PROVE  /\ ToSend(c, n)' \subseteq ToSend(c, n)
             /\ c = x /\ n = k => ToSend(c, n)' \subseteq ToSend(c, n) \ {p}
  <2>1. ASSUME NEW r \in ToSend(c, n)'
        PROVE  r \in ToSend(c, n) /\ (r # p \/ n # k)
    <3>1. /\ r \in Proc /\ writer'[r] # Idle /\ writer'[r].cmd = c
          /\ n \in writer'[r].todo /\ ~Calling(r, n)'
      BY DEF ToSend
    <3>2. r # p \/ n # k
      BY <1>6, <3>1
    <3>3. writer[r] # Idle /\ writer[r].cmd = c /\ n \in writer[r].todo
      BY <1>1, <1>6, <3>1
    <3> QED
      BY <1>1, <3>1, <3>2, <3>3 DEF ToSend
  <2> QED
    BY <2>1
<1>10. ASSUME NEW c \in Command, NEW n \in Machine
       PROVE  /\ IsFiniteSet(SavedRuns(c, n)') /\ IsFiniteSet(ToSend(c, n)')
              /\ Coming(c, n)' + crashes + timeouts <= Coming(c, n) + crashes' + timeouts'
  <2>1. /\ IsFiniteSet(SavedRuns(c, n)) /\ IsFiniteSet(ToRun(c, n))
        /\ IsFiniteSet(Replied(c, n)) /\ IsFiniteSet(ToSend(c, n))
        /\ Cardinality(ToRun(c, n)) \in Nat /\ Cardinality(Replied(c, n)) \in Nat
    BY ComingNumbers DEF RunsInv
  <2>2. /\ Cardinality(ToRun(c, n)') \in Nat /\ Cardinality(Replied(c, n)') \in Nat
        /\ Cardinality(ToRun(c, n)') <= Cardinality(ToRun(c, n))
        /\ Cardinality(Replied(c, n)') <= Cardinality(Replied(c, n))
    BY FS_CardinalityType
  <2>3. ToSend(c, n)' \subseteq ToSend(c, n)
    BY <1>9
  <2>4. /\ IsFiniteSet(ToSend(c, n)')
        /\ Cardinality(ToSend(c, n)) \in Nat /\ Cardinality(ToSend(c, n)') \in Nat
        /\ Cardinality(ToSend(c, n)') <= Cardinality(ToSend(c, n))
    BY <2>1, <2>3, Fewer
  <2>5. SavedRuns(c, n)' \subseteq SavedRuns(c, n) \cup {t}
    BY <1>8
  <2>6. /\ IsFiniteSet(SavedRuns(c, n)')
        /\ Cardinality(SavedRuns(c, n)) \in Nat /\ Cardinality(SavedRuns(c, n)') \in Nat
        /\ Cardinality(SavedRuns(c, n)') <= Cardinality(SavedRuns(c, n)) + 1
    BY <2>1, <2>5, OneMore
  <2>7. /\ crashes \in Nat /\ timeouts \in Nat
        /\ crashes' \in Nat /\ timeouts' \in Nat
    BY DEF Shape, TypeOK
  <2>8. CASE crashes' = crashes /\ timeouts' = timeouts + 1
    BY <2>1, <2>2, <2>4, <2>6, <2>7, <2>8 DEF Coming
  <2>9. CASE /\ crashes' = crashes /\ timeouts' = timeouts
             /\ p \in ToSend(x, k)
    <3>1. CASE c = x /\ n = k
      <4>1. p \in ToSend(c, n) /\ ToSend(c, n)' \subseteq ToSend(c, n) \ {p}
        BY <1>9, <2>9, <3>1
      <4>2. Cardinality(ToSend(c, n)') + 1 <= Cardinality(ToSend(c, n))
        BY <2>1, <4>1, OneLess
      <4> QED
        BY <2>1, <2>2, <2>4, <2>6, <2>7, <2>9, <4>2 DEF Coming
    <3>2. CASE c # x \/ n # k
      <4>1. SavedRuns(c, n)' \subseteq SavedRuns(c, n)
        BY <1>8, <3>2
      <4>2. Cardinality(SavedRuns(c, n)') <= Cardinality(SavedRuns(c, n))
        BY <2>1, <4>1, Fewer
      <4> QED
        BY <2>1, <2>2, <2>4, <2>6, <2>7, <2>9, <4>2 DEF Coming
    <3> QED
      BY <3>1, <3>2
  <2> QED
    BY <1>1, <2>4, <2>6, <2>8, <2>9
<1>11. FinitelyMany'
  BY <1>10 DEF FinitelyMany
<1>12. ASSUME NEW c \in Command,
              \/ \E j \in Machine, r \in Proc : c \in ToSet(failed'[j][r])
              \/ \E e \in calls' : (e.op = "update" /\ e.cmd = c) \/ c \in ToSet(e.cmds)
       PROVE  Known(c) \/ origin[c] # NoMachine
  <2>1. ASSUME NEW j \in Machine, NEW r \in Proc, c \in ToSet(failed'[j][r])
        PROVE  Known(c) \/ origin[c] # NoMachine
    <3>1. CASE j # m \/ r # q
      BY <1>5, <2>1, <3>1 DEF Known
    <3>2. CASE j = m /\ r = q
      <4>1. ToSet(new) = ToSet(old) \cup {x}
        BY <1>2, <1>3, AppendSet
      <4>2. c \in ToSet(old) \/ c = x
        BY <1>5, <2>1, <3>2, <4>1
      <4> QED
        BY <1>2, <1>3, <4>2 DEF Known
    <3> QED
      BY <3>1, <3>2
  <2> QED
    BY <1>12, <2>1
<1> QED
  BY <1>10, <1>11, <1>12, LogsLeft, LogsSame

\* Calls that are over go.
LEMMA CallsGo ==
  ASSUME FinitelyMany, calls' \subseteq calls
  PROVE  /\ \A c \in Command, n \in Machine :
              /\ ToRun(c, n)' \subseteq ToRun(c, n)
              /\ Replied(c, n)' \subseteq Replied(c, n)
              /\ IsFiniteSet(ToRun(c, n)')
              /\ Cardinality(ToRun(c, n)') <= Cardinality(ToRun(c, n))
              /\ IsFiniteSet(Replied(c, n)')
              /\ Cardinality(Replied(c, n)') <= Cardinality(Replied(c, n))
         /\ \A c \in Command :
              (\E d \in calls' : (d.op = "update" /\ d.cmd = c) \/ c \in ToSet(d.cmds))
                => Known(c)
<1>1. ASSUME NEW c \in Command, NEW n \in Machine
      PROVE  /\ ToRun(c, n)' \subseteq ToRun(c, n)
             /\ Replied(c, n)' \subseteq Replied(c, n)
             /\ IsFiniteSet(ToRun(c, n)')
             /\ Cardinality(ToRun(c, n)') <= Cardinality(ToRun(c, n))
             /\ IsFiniteSet(Replied(c, n)')
             /\ Cardinality(Replied(c, n)') <= Cardinality(Replied(c, n))
  <2>1. ToRun(c, n)' \subseteq ToRun(c, n)
    BY DEF ToRun
  <2>2. Replied(c, n)' \subseteq Replied(c, n)
    BY DEF Replied
  <2>3. IsFiniteSet(ToRun(c, n)) /\ IsFiniteSet(Replied(c, n))
    BY DEF FinitelyMany
  <2> QED
    BY <2>1, <2>2, <2>3, Fewer
<1> QED
  BY <1>1 DEF Known

LEMMA NotSentRuns ==
  ASSUME Shape, Shape', RunsInv, NEW p \in Proc, NotSent(p)
  PROVE  RunsInv'
<1>1. PICK d \in Pending(p, "update") :
        d.pc = "failed" /\ SaveCmd(p, d.to) /\ calls' = calls \ {d}
  BY DEF NotSent
<1>2. /\ d \in calls /\ d.op = "update" /\ d.heard /\ d.from = p /\ d.to \in Proc
      /\ writer[p] # Idle /\ d.to[1] \in writer[p].todo
      /\ \A e \in calls : e.op = "update" /\ e.heard /\ e.from = p => e = d
  BY <1>1, PendingUpdate
<1>3. UNCHANGED <<mem, data, backup, origin, crashes, timeouts>>
  BY DEF NotSent, histVars, failVars
<1>4. \A r \in Proc, n \in Machine : Calling(r, n) => Calling(r, n)'
  BY <1>1 DEF Calling
<1>5. ~Calling(p, d.to[1])
  BY <1>1, <1>2 DEF Calling
<1>6. p \in ToSend(writer[p].cmd, d.to[1])
  BY <1>2, <1>5 DEF ToSend
<1>7. PICK q \in Proc : q = d.to
  BY <1>2
<1>8. SaveCmd(p, q) /\ p \in ToSend(writer[p].cmd, q[1])
  BY <1>1, <1>6, <1>7
<1> QED
  BY <1>1, <1>2, <1>3, <1>4, <1>8, CallsGo, SaveCmdRuns DEF RunsInv

\* A call begins.
LEMMA SendRuns ==
  ASSUME Shape, Shape', RunsInv, NEW p \in Proc, NEW k \in Machine, Send(p, k)
  PROVE  RunsInv'
<1>1. PICK q, x : q = Peer(p, k) /\ x = writer[p].cmd
  OBVIOUS
<1>2. /\ q \in Proc /\ q[1] = k /\ x \in Command
      /\ writer[p] # Idle /\ writer[p].pc = "sending" /\ k \in writer[p].todo
  <2>1. table[p][k] \in Index
    BY DEF Shape, TypeOK
  <2> QED
    BY <1>1, <2>1, WriterType, Processes DEF Send, Peer, Shape
<1>3. UNCHANGED <<mem, data, backup, origin, crashes, timeouts>>
  BY DEF Send, histVars, failVars
<1>4. \A d \in calls : ~(d.op = "update" /\ d.heard /\ d.from = p)
  BY DEF Send, Pending
<1>5. p \in ToSend(x, k)
  BY <1>1, <1>2, <1>4 DEF ToSend, Calling
<1>6. CASE ~Alive(q)
  <2>1. SaveCmd(p, q) /\ calls' = calls
    BY <1>1, <1>6 DEF Send
  <2>2. \A r \in Proc, n \in Machine : Calling(r, n) => Calling(r, n)'
    BY <2>1 DEF Calling
  <2>3. p \in ToSend(writer[p].cmd, q[1])
    BY <1>1, <1>2, <1>5
  <2> QED
    BY <1>2, <1>3, <2>1, <2>2, <2>3, CallsGo, SaveCmdRuns DEF RunsInv
<1>7. CASE Alive(q)
  <2>1. PICK new : new = Called(p, q, "update", x, 0)
    OBVIOUS
  <2>2. calls' = calls \cup {new} /\ UNCHANGED <<failed, writer>>
    BY <1>1, <1>7, <2>1 DEF Send
  <2>3. /\ new.op = "update" /\ new.pc = "run" /\ new.cmd = x /\ new.to = q
        /\ new.from = p /\ new.heard /\ new.cmds = <<>>
    BY <2>1 DEF Called
  <2>4. \A c : Runs(<<>>, c) = {} /\ c \notin ToSet(<<>>)
    BY SetOfSeq, RunsNone
  <2>5. ASSUME NEW c \in Command, NEW n \in Machine
        PROVE  /\ SavedRuns(c, n)' = SavedRuns(c, n)
               /\ ToRun(c, n)' \subseteq ToRun(c, n) \cup {new}
               /\ c # x \/ n # k => ToRun(c, n)' \subseteq ToRun(c, n)
               /\ Replied(c, n)' \subseteq Replied(c, n)
               /\ ToSend(c, n)' \subseteq ToSend(c, n)
               /\ c = x /\ n = k => ToSend(c, n)' \subseteq ToSend(c, n) \ {p}
    <3>1. SavedRuns(c, n)' = SavedRuns(c, n)
      BY <2>2 DEF SavedRuns
    <3>2. /\ ToRun(c, n)' \subseteq ToRun(c, n) \cup {new}
          /\ c # x \/ n # k => ToRun(c, n)' \subseteq ToRun(c, n)
      BY <1>2, <2>2, <2>3 DEF ToRun
    <3>3. Replied(c, n)' \subseteq Replied(c, n)
      BY <2>2, <2>3, <2>4 DEF Replied
    <3>4. \A r \in Proc : \A j : Calling(r, j) => Calling(r, j)'
      BY <2>2 DEF Calling
    <3>5. ToSend(c, n)' \subseteq ToSend(c, n)
      BY <2>2, <3>4, SendersLeft
    <3>6. Calling(p, k)'
      BY <1>2, <2>2, <2>3 DEF Calling
    <3>7. c = x /\ n = k => p \notin ToSend(c, n)'
      BY <3>6 DEF ToSend
    <3> QED
      BY <3>1, <3>2, <3>3, <3>5, <3>7
  <2>6. ASSUME NEW c \in Command, NEW n \in Machine
        PROVE  /\ IsFiniteSet(SavedRuns(c, n)') /\ IsFiniteSet(ToRun(c, n)')
               /\ IsFiniteSet(Replied(c, n)') /\ IsFiniteSet(ToSend(c, n)')
               /\ Coming(c, n)' + crashes + timeouts <= Coming(c, n) + crashes' + timeouts'
    <3>1. /\ IsFiniteSet(SavedRuns(c, n)) /\ IsFiniteSet(ToRun(c, n))
          /\ IsFiniteSet(Replied(c, n)) /\ IsFiniteSet(ToSend(c, n))
          /\ Cardinality(SavedRuns(c, n)) \in Nat
      BY ComingNumbers DEF RunsInv
    <3>2. /\ IsFiniteSet(Replied(c, n)')
          /\ Cardinality(Replied(c, n)) \in Nat /\ Cardinality(Replied(c, n)') \in Nat
          /\ Cardinality(Replied(c, n)') <= Cardinality(Replied(c, n))
      BY <2>5, <3>1, Fewer
    <3>3. ToRun(c, n)' \subseteq ToRun(c, n) \cup {new} /\ ToSend(c, n)' \subseteq ToSend(c, n)
      BY <2>5
    <3>4. /\ IsFiniteSet(ToRun(c, n)')
          /\ Cardinality(ToRun(c, n)) \in Nat /\ Cardinality(ToRun(c, n)') \in Nat
          /\ Cardinality(ToRun(c, n)') <= Cardinality(ToRun(c, n)) + 1
      BY <3>1, <3>3, OneMore
    <3>5. /\ IsFiniteSet(ToSend(c, n)')
          /\ Cardinality(ToSend(c, n)) \in Nat /\ Cardinality(ToSend(c, n)') \in Nat
          /\ Cardinality(ToSend(c, n)') <= Cardinality(ToSend(c, n))
      BY <3>1, <3>3, Fewer
    <3>6. crashes' = crashes /\ timeouts' = timeouts /\ crashes \in Nat /\ timeouts \in Nat
      BY <1>3 DEF Shape, TypeOK
    <3>7. SavedRuns(c, n)' = SavedRuns(c, n)
      BY <2>5
    <3>8. Coming(c, n)' + crashes + timeouts <= Coming(c, n) + crashes' + timeouts'
      <4>1. CASE c = x /\ n = k
        <5>1. p \in ToSend(c, n) /\ ToSend(c, n)' \subseteq ToSend(c, n) \ {p}
          BY <1>5, <2>5, <4>1
        <5>2. Cardinality(ToSend(c, n)') + 1 <= Cardinality(ToSend(c, n))
          BY <3>1, <5>1, OneLess
        <5> QED
          BY <3>1, <3>2, <3>4, <3>5, <3>6, <3>7, <5>2 DEF Coming
      <4>2. CASE c # x \/ n # k
        <5>1. ToRun(c, n)' \subseteq ToRun(c, n)
          BY <2>5, <4>2
        <5>2. Cardinality(ToRun(c, n)') <= Cardinality(ToRun(c, n))
          BY <3>1, <5>1, Fewer
        <5> QED
          BY <3>1, <3>2, <3>4, <3>5, <3>6, <3>7, <5>2 DEF Coming
      <4> QED
        BY <4>1, <4>2
    <3> QED
      BY <3>1, <3>2, <3>4, <3>5, <3>7, <3>8
  <2>7. FinitelyMany'
    BY <2>6 DEF FinitelyMany
  <2>8. origin[x] # NoMachine
    <3>1. origin[x] = p[1]
      BY <1>1, <1>2 DEF Shape, WritersRule
    <3> QED
      BY <3>1, Processes, NoMachineAssumption
  <2>9. \A c \in Command :
          \/ \E m \in Machine, r \in Proc : c \in ToSet(failed'[m][r])
          \/ \E e \in calls' : (e.op = "update" /\ e.cmd = c) \/ c \in ToSet(e.cmds)
          => Known(c) \/ origin[c] # NoMachine
    BY <2>2, <2>3, <2>4, <2>8 DEF Known
  <2> QED
    BY <1>3, <2>6, <2>7, <2>9, LogsLeft, LogsSame
<1> QED
  BY <1>6, <1>7

LEMMA GreetRuns ==
  ASSUME Shape, Shape', RunsInv, NEW p \in Proc, NEW k \in Machine, Greet(p, k)
  PROVE  RunsInv'
<1>1. UNCHANGED <<mem, data, backup, origin, crashes, timeouts, writer, failed>>
  BY DEF Greet, fileVars, histVars, failVars
<1>2. \/ calls' = calls
      \/ \E new : /\ calls' = calls \cup {new}
                  /\ new.op = "greet" /\ new.cmds = <<>>
  <2>1. PICK q : q = Peer(p, k)
    OBVIOUS
  <2>2. PICK new : new = Called(p, q, "greet", p[2], greet[p].dead)
    OBVIOUS
  <2>3. new.op = "greet" /\ new.cmds = <<>>
    BY <2>2 DEF Called
  <2>4. calls' = calls \/ calls' = calls \cup {new}
    BY <2>1, <2>2 DEF Greet
  <2> QED
    BY <2>3, <2>4
<1>3. CASE calls' = calls
  BY <1>1, <1>3, OtherRuns
<1>4. ASSUME NEW new, calls' = calls \cup {new}, new.op = "greet", new.cmds = <<>>
      PROVE  RunsInv'
  <2>1. \A c : Runs(<<>>, c) = {} /\ c \notin ToSet(<<>>)
    BY SetOfSeq, RunsNone
  <2>2. \A c \in Command, n \in Machine :
          /\ SavedRuns(c, n)' \subseteq SavedRuns(c, n)
          /\ ToRun(c, n)' \subseteq ToRun(c, n)
    BY <1>1, <1>4 DEF SavedRuns, ToRun
  <2>3. \A c \in Command, n \in Machine : Replied(c, n)' \subseteq Replied(c, n)
    BY <1>4, <2>1 DEF Replied
  <2>4. \A r \in Proc : \A j : Calling(r, j) => Calling(r, j)'
    BY <1>4 DEF Calling
  <2>5. \A c \in Command, n \in Machine : ToSend(c, n)' \subseteq ToSend(c, n)
    BY <1>1, <2>4, SendersLeft
  <2>6. /\ FinitelyMany'
        /\ \A c \in Command, n \in Machine :
             /\ Coming(c, n)' \in Nat /\ Coming(c, n) \in Nat
             /\ Coming(c, n)' <= Coming(c, n)
    BY <2>2, <2>3, <2>5, CountedLess DEF RunsInv
  <2>7. \A c \in Command, n \in Machine :
          Coming(c, n)' + crashes + timeouts <= Coming(c, n) + crashes' + timeouts'
    BY <1>1, <2>6 DEF Shape, TypeOK
  <2>8. \A c \in Command :
          \/ \E m \in Machine, r \in Proc : c \in ToSet(failed'[m][r])
          \/ \E e \in calls' : (e.op = "update" /\ e.cmd = c) \/ c \in ToSet(e.cmds)
          => Known(c)
    BY <1>1, <1>4, <2>1 DEF Known
  <2> QED
    BY <1>1, <2>6, <2>7, <2>8, LogsLeft, LogsSame
<1> QED
  BY <1>2, <1>3, <1>4

LEMMA TimeoutRuns ==
  ASSUME Shape, Shape', RunsInv, NEW d \in calls, Timeout(d)
  PROVE  RunsInv'
<1>1. PICK p, q, u : p = d.from /\ q = d.to /\ u = [d EXCEPT !.heard = FALSE]
  OBVIOUS
<1>2. /\ d \in Call /\ p \in Proc /\ q \in Proc /\ d.op \in {"update", "greet"}
      /\ d.heard
  <2>1. d \in Call /\ d.heard
    BY DEF Shape, TypeOK, Call, Timeout
  <2> QED
    BY <1>1, <2>1, CallType
<1>3. /\ u.heard = FALSE /\ u.from = d.from /\ u.to = d.to /\ u.op = d.op
      /\ u.cmd = d.cmd /\ u.pc = d.pc /\ u.cmds = d.cmds
  BY <1>1, <1>2, CallUnheard
<1>4. calls' = (calls \ {d}) \cup {u}
  BY <1>1 DEF Timeout
<1>5. UNCHANGED <<mem, data, backup, origin, crashes>> /\ timeouts' = timeouts + 1
  BY DEF Timeout, histVars
<1>6. PICK F : F = [e \in calls' |-> IF e = u THEN d ELSE e]
  OBVIOUS
<1>7. F \in [calls' -> calls]
  BY <1>4, <1>6
<1>8. \A e, g \in calls' : F[e] = F[g] => e = g
  BY <1>4, <1>6
<1>9. \A e \in calls' : /\ e.op = F[e].op /\ e.cmd = F[e].cmd
                        /\ e.from = F[e].from /\ e.to = F[e].to
                        /\ e.cmds = F[e].cmds
                        /\ e.pc = "run" => F[e].pc = "run"
  BY <1>3, <1>6
<1>10. /\ \A c \in Command, n \in Machine :
            /\ IsFiniteSet(ToRun(c, n)')
            /\ Cardinality(ToRun(c, n)') <= Cardinality(ToRun(c, n))
            /\ IsFiniteSet(Replied(c, n)')
            /\ Cardinality(Replied(c, n)') <= Cardinality(Replied(c, n))
       /\ \A c \in Command :
            (\E e \in calls' : (e.op = "update" /\ e.cmd = c) \/ c \in ToSet(e.cmds))
              => Known(c)
  BY <1>7, <1>8, <1>9, CallsStand DEF RunsInv
<1>11. CASE d.op = "update"
  <2>1. SaveCmd(p, q)
    BY <1>1, <1>11 DEF Timeout
  <2>2. writer[p] # Idle
    <3>1. d \in Pending(p, "update")
      BY <1>1, <1>2, <1>11 DEF Pending
    <3> QED
      BY <1>2, <3>1, PendingUpdate
  <2>3. ASSUME NEW r \in Proc, NEW n \in Machine, r # p \/ n # q[1], Calling(r, n)
        PROVE  Calling(r, n)'
    <3>1. PICK e \in calls : /\ e.op = "update" /\ e.heard
                             /\ e.from = r /\ e.to[1] = n
                             /\ e.pc # "failed"
      BY <2>3 DEF Calling
    <3>2. e # d
      BY <1>1, <2>3, <3>1
    <3>3. e \in calls'
      BY <1>4, <3>2
    <3> QED
      BY <3>1, <3>3 DEF Calling
  <2> QED
    BY <1>2, <1>5, <1>10, <2>1, <2>2, <2>3, SaveCmdRuns
<1>12. CASE d.op = "greet"
  <2>1. UNCHANGED failed /\ UNCHANGED writer
    BY <1>12 DEF Timeout
  <2>2. ASSUME NEW r \in Proc, NEW n, Calling(r, n)
        PROVE  Calling(r, n)'
    <3>1. PICK e \in calls : /\ e.op = "update" /\ e.heard
                             /\ e.from = r /\ e.to[1] = n
                             /\ e.pc # "failed"
      BY <2>2 DEF Calling
    <3>2. e \in calls'
      BY <1>4, <1>12, <3>1
    <3> QED
      BY <3>1, <3>2 DEF Calling
  <2>3. \A c \in Command, n \in Machine : ToSend(c, n)' \subseteq ToSend(c, n)
    BY <2>1, <2>2, SendersLeft
  <2>4. \A c \in Command, n \in Machine : SavedRuns(c, n)' = SavedRuns(c, n)
    BY <2>1 DEF SavedRuns
  <2>5. ASSUME NEW c \in Command, NEW n \in Machine
        PROVE  /\ IsFiniteSet(SavedRuns(c, n)') /\ IsFiniteSet(ToSend(c, n)')
               /\ Coming(c, n)' + crashes + timeouts <= Coming(c, n) + crashes' + timeouts'
    <3>1. /\ IsFiniteSet(SavedRuns(c, n)) /\ Cardinality(SavedRuns(c, n)) \in Nat
          /\ IsFiniteSet(ToSend(c, n))
          /\ Cardinality(ToRun(c, n)) \in Nat /\ Cardinality(Replied(c, n)) \in Nat
      BY ComingNumbers DEF RunsInv
    <3>2. /\ IsFiniteSet(ToSend(c, n)')
          /\ Cardinality(ToSend(c, n)) \in Nat /\ Cardinality(ToSend(c, n)') \in Nat
          /\ Cardinality(ToSend(c, n)') <= Cardinality(ToSend(c, n))
      BY <2>3, <3>1, Fewer
    <3>3. /\ Cardinality(ToRun(c, n)') \in Nat /\ Cardinality(Replied(c, n)') \in Nat
          /\ Cardinality(ToRun(c, n)') <= Cardinality(ToRun(c, n))
          /\ Cardinality(Replied(c, n)') <= Cardinality(Replied(c, n))
      BY <1>10, FS_CardinalityType
    <3>4. /\ crashes' = crashes /\ timeouts' = timeouts + 1
          /\ crashes \in Nat /\ timeouts \in Nat
      BY <1>5 DEF Shape, TypeOK
    <3>5. SavedRuns(c, n)' = SavedRuns(c, n)
      BY <2>4
    <3> QED
      BY <3>1, <3>2, <3>3, <3>4, <3>5 DEF Coming
  <2>6. FinitelyMany'
    BY <1>10, <2>5 DEF FinitelyMany
  <2>7. \A c \in Command :
          \/ \E m \in Machine, r \in Proc : c \in ToSet(failed'[m][r])
          \/ \E e \in calls' : (e.op = "update" /\ e.cmd = c) \/ c \in ToSet(e.cmds)
          => Known(c)
    BY <1>10, <2>1 DEF Known
  <2> QED
    BY <1>5, <2>5, <2>6, <2>7, LogsLeft, LogsSame
<1> QED
  BY <1>2, <1>11, <1>12

\* A call has returned: what it brings is run.
LEMMA ReplyRuns ==
  ASSUME Shape, Shape', RunsInv, NEW p \in Proc, NEW d \in calls, d.from = p,
         d.cmds \in Seq(Command), RunAll(p, d.cmds), calls' = calls \ {d},
         UNCHANGED <<origin, backup, failed, crashes, timeouts>>,
         \A c \in Command, n \in Machine : ToSend(c, n)' \subseteq ToSend(c, n)
  PROVE  RunsInv'
<1>1. PICK cmds : cmds = d.cmds
  OBVIOUS
<1>2. cmds \in Seq(Command) /\ RunAll(p, cmds)
  BY <1>1
<1>3. /\ \A c \in Command, n \in Machine :
           /\ ToRun(c, n)' \subseteq ToRun(c, n)
           /\ Replied(c, n)' \subseteq Replied(c, n)
      /\ \A c \in Command :
           (\E e \in calls' : (e.op = "update" /\ e.cmd = c) \/ c \in ToSet(e.cmds))
             => Known(c)
  BY CallsGo DEF RunsInv
<1>4. \A c \in Command, n \in Machine : SavedRuns(c, n)' = SavedRuns(c, n)
  BY DEF SavedRuns
<1>5. ASSUME NEW c \in Command, NEW n \in Machine
      PROVE  /\ IsFiniteSet(SavedRuns(c, n)') /\ IsFiniteSet(ToRun(c, n)')
             /\ IsFiniteSet(Replied(c, n)') /\ IsFiniteSet(ToSend(c, n)')
             /\ Coming(c, n)' <= Coming(c, n)
             /\ n = p[1] => Coming(c, n)' + Cardinality(Runs(cmds, c)) <= Coming(c, n)
  <2>1. /\ IsFiniteSet(SavedRuns(c, n)) /\ IsFiniteSet(ToRun(c, n))
        /\ IsFiniteSet(Replied(c, n)) /\ IsFiniteSet(ToSend(c, n))
        /\ Cardinality(SavedRuns(c, n)) \in Nat
        /\ SavedRuns(c, n)' = SavedRuns(c, n)
    BY <1>4, ComingNumbers DEF RunsInv
  <2>2. /\ IsFiniteSet(ToRun(c, n)')
        /\ Cardinality(ToRun(c, n)) \in Nat /\ Cardinality(ToRun(c, n)') \in Nat
        /\ Cardinality(ToRun(c, n)') <= Cardinality(ToRun(c, n))
    BY <1>3, <2>1, Fewer
  <2>3. /\ IsFiniteSet(ToSend(c, n)')
        /\ Cardinality(ToSend(c, n)) \in Nat /\ Cardinality(ToSend(c, n)') \in Nat
        /\ Cardinality(ToSend(c, n)') <= Cardinality(ToSend(c, n))
    BY <2>1, Fewer
  <2>4. /\ IsFiniteSet(Replied(c, n)')
        /\ Cardinality(Replied(c, n)) \in Nat /\ Cardinality(Replied(c, n)') \in Nat
        /\ Cardinality(Replied(c, n)') <= Cardinality(Replied(c, n))
    BY <1>3, <2>1, Fewer
  <2>5. ASSUME n = p[1]
        PROVE  /\ Cardinality(Runs(cmds, c)) \in Nat
               /\ Cardinality(Replied(c, n)') + Cardinality(Runs(cmds, c))
                    <= Cardinality(Replied(c, n))
    <3>1. /\ IsFiniteSet(Runs(cmds, c)) /\ Cardinality(Runs(cmds, c)) \in Nat
          /\ Runs(cmds, c) \subseteq Nat
      BY <1>2, RunsFinite
    <3>2. PICK V : V = {d} \X Runs(cmds, c)
      OBVIOUS
    <3>3. Cardinality(V) = Cardinality(Runs(cmds, c))
      BY <3>1, <3>2, Paired
    <3>4. V \subseteq Replied(c, n)
      <4> SUFFICES ASSUME NEW k \in Runs(cmds, c) PROVE <<d, k>> \in Replied(c, n)
        BY <3>2
      <4> QED
        BY <1>1, <2>5, <3>1 DEF Replied
    <3>5. Replied(c, n)' \subseteq Replied(c, n) \ V
      <4> SUFFICES ASSUME NEW t \in Replied(c, n)' PROVE t \notin V
        BY <1>3
      <4>1. t[1] \in calls'
        BY DEF Replied
      <4> QED
        BY <3>2, <4>1
    <3> QED
      BY <2>1, <3>1, <3>3, <3>4, <3>5, Less
  <2> QED
    BY <2>1, <2>2, <2>3, <2>4, <2>5 DEF Coming
<1>6. FinitelyMany'
  BY <1>5 DEF FinitelyMany
<1>7. \A c \in Command : c \in ToSet(cmds) => Known(c)
  BY <1>1 DEF Known
<1>8. \A c \in Command :
        \/ \E m \in Machine, r \in Proc : c \in ToSet(failed'[m][r])
        \/ \E e \in calls' : (e.op = "update" /\ e.cmd = c) \/ c \in ToSet(e.cmds)
        => Known(c)
  BY <1>3 DEF Known
<1> QED
  BY <1>2, <1>5, <1>6, <1>7, <1>8, LogsRun

LEMMA SentRuns ==
  ASSUME Shape, Shape', RunsInv, NEW p \in Proc, Sent(p)
  PROVE  RunsInv'
<1>1. PICK d \in Pending(p, "update") :
        /\ RunAll(p, d.cmds)
        /\ writer' = [writer EXCEPT ![p].todo = @ \ {d.to[1]}]
        /\ calls' = calls \ {d}
  BY DEF Sent
<1>2. /\ d \in calls /\ d.from = p /\ d.cmds \in Seq(Command) /\ writer[p] # Idle
  BY PendingUpdate
<1>3. UNCHANGED <<origin, backup, failed, crashes, timeouts>>
  BY DEF Sent, histVars, failVars
<1>4. /\ \A r \in Proc \ {p} : writer'[r] = writer[r]
      /\ writer'[p].cmd = writer[p].cmd
      /\ writer'[p].todo = writer[p].todo \ {d.to[1]}
  BY <1>1, <1>2, WriterTodo DEF Shape
<1>5. ASSUME NEW r \in Proc, NEW n, r # p \/ n # d.to[1], Calling(r, n)
      PROVE  Calling(r, n)'
  <2>1. PICK e \in calls : /\ e.op = "update" /\ e.heard
                           /\ e.from = r /\ e.to[1] = n
                           /\ e.pc # "failed"
    BY <1>5 DEF Calling
  <2>2. e \in calls'
    BY <1>1, <1>2, <1>5, <2>1
  <2> QED
    BY <2>1, <2>2 DEF Calling
<1>6. \A c \in Command, n \in Machine : ToSend(c, n)' \subseteq ToSend(c, n)
  <2>1. ASSUME NEW r \in Proc, writer'[r] # Idle
        PROVE  /\ writer[r] # Idle
               /\ writer'[r].cmd = writer[r].cmd
               /\ writer'[r].todo \subseteq writer[r].todo
               /\ \A n \in writer'[r].todo : Calling(r, n) => Calling(r, n)'
    <3>1. CASE r = p
      BY <1>2, <1>4, <1>5, <3>1
    <3>2. CASE r # p
      BY <1>4, <1>5, <2>1, <3>2
    <3> QED
      BY <3>1, <3>2
  <2> QED
    BY <2>1, SendersLeft
<1> QED
  BY <1>1, <1>2, <1>3, <1>6, ReplyRuns

LEMMA GreetedRuns ==
  ASSUME Shape, Shape', RunsInv, NEW p \in Proc, Greeted(p)
  PROVE  RunsInv'
<1>1. PICK d \in Pending(p, "greet") :
        RunAll(p, d.cmds) /\ calls' = calls \ {d}
  BY DEF Greeted
<1>2. d \in calls /\ d.from = p /\ d.op = "greet" /\ d.cmds \in Seq(Command)
  BY PendingGreet
<1>3. UNCHANGED <<origin, backup, failed, crashes, timeouts, writer>>
  BY DEF Greeted, histVars, failVars
<1>4. \A r \in Proc : \A n : Calling(r, n) => Calling(r, n)'
  BY <1>1, <1>2 DEF Calling
<1>5. \A c \in Command, n \in Machine : ToSend(c, n)' \subseteq ToSend(c, n)
  BY <1>3, <1>4, SendersLeft
<1> QED
  BY <1>1, <1>2, <1>3, <1>5, ReplyRuns

LEMMA NewSender ==
  ASSUME Shape', NEW c, NEW n
  PROVE  /\ IsFiniteSet(ToSend(c, n)') /\ Cardinality(ToSend(c, n)') \in {0, 1}
         /\ n = origin'[c] => Cardinality(ToSend(c, n)') = 0
<1>1. ASSUME NEW p \in ToSend(c, n)'
      PROVE  /\ p \in Proc /\ Rules(p)' /\ origin'[c] = p[1]
             /\ n # p[1]
  <2>1. p \in Proc /\ writer'[p] # Idle /\ writer'[p].cmd = c /\ n \in writer'[p].todo
    BY <1>1 DEF ToSend
  <2> QED
    BY <2>1 DEF Shape, WritersRule, Others
<1>2. ASSUME NEW p \in ToSend(c, n)', NEW q \in ToSend(c, n)' PROVE p = q
  <2>1. /\ p \in Proc /\ q \in Proc /\ Rules(p)' /\ Rules(q)'
        /\ origin'[c] = p[1] /\ origin'[c] = q[1]
    BY <1>1
  <2>2. /\ p[1] \in Machine /\ p[2] \in Index /\ q[2] \in Index
        /\ p = <<p[1], p[2]>> /\ q = <<p[1], q[2]>>
    BY <2>1, Processes
  <2> QED
    BY <2>1, <2>2 DEF Shape, OneRuler
<1>3. ToSend(c, n)' = {} \/ \E p : ToSend(c, n)' = {p}
  BY <1>2
<1>4. CASE ToSend(c, n)' = {}
  BY <1>4, FS_EmptySet
<1>5. ASSUME NEW p, ToSend(c, n)' = {p}
      PROVE  /\ IsFiniteSet(ToSend(c, n)') /\ Cardinality(ToSend(c, n)') \in {0, 1}
             /\ n # origin'[c]
  BY <1>1, <1>5, FS_Singleton
<1> QED
  BY <1>3, <1>4, <1>5

\* A call to the process that is killed fails, and if the command has been run
\* there, it will be saved again; its own writer is gone.
LEMMA CrashRuns ==
  ASSUME Shape, Shape', RunsInv, NEW p \in Proc, Crash(p)
  PROVE  RunsInv'
<1> DEFINE R(d, c) ==
             /\ d.op = c.op /\ d.cmd = c.cmd /\ d.from = c.from /\ d.to = c.to
             /\ d.cmds = c.cmds
             /\ d.pc = "run" => c.pc = "run"
             /\ IF c.from # p
                THEN IF c.to # p THEN d = c ELSE d = [c EXCEPT !.pc = "failed"]
                ELSE d = [c EXCEPT !.heard = FALSE]
<1>1. \A d \in calls' : \E c \in calls : R(d, c)
  <2> SUFFICES ASSUME NEW d \in calls' PROVE \E c \in calls : R(d, c)
    OBVIOUS
  <2>1. PICK c \in calls :
          /\ d.from = c.from /\ d.to = c.to /\ d.op = c.op /\ d.cmd = c.cmd
          /\ d.dead = c.dead /\ d.cmds = c.cmds
          /\ \/ c.from # p /\ c.to # p /\ d = c
             \/ /\ c.from # p /\ c.to = p /\ d.pc = "failed"
                /\ d = [c EXCEPT !.pc = "failed"]
                /\ d.heard = c.heard /\ (c.heard \/ c.pc = "done")
             \/ /\ c.from = p /\ c.to # p /\ ~d.heard /\ d.pc = c.pc
                /\ c.pc \in {"run", "fetch"}
                /\ d = [c EXCEPT !.heard = FALSE]
    BY CallsOfDead DEF Shape
  <2>2. R(d, c)
    <3>1. CASE c.from # p /\ c.to # p /\ d = c
      BY <3>1
    <3>2. CASE /\ c.from # p /\ c.to = p /\ d.pc = "failed"
               /\ d = [c EXCEPT !.pc = "failed"]
      BY <2>1, <3>2
    <3>3. CASE /\ c.from = p /\ c.to # p /\ ~d.heard /\ d.pc = c.pc
               /\ c.pc \in {"run", "fetch"}
               /\ d = [c EXCEPT !.heard = FALSE]
      BY <2>1, <3>3
    <3> QED
      BY <2>1, <3>1, <3>2, <3>3
  <2> QED
    BY <2>2
<1>2. PICK F : F = [d \in calls' |-> CHOOSE c \in calls : R(d, c)]
  OBVIOUS
<1>3. \A d \in calls' : F[d] \in calls /\ R(d, F[d])
  BY <1>1, <1>2
<1>4. F \in [calls' -> calls]
  BY <1>2, <1>3
<1>5. \A d, e \in calls' : F[d] = F[e] => d = e
  <2> SUFFICES ASSUME NEW d \in calls', NEW e \in calls', F[d] = F[e]
               PROVE  d = e
    OBVIOUS
  <2>1. PICK c : c = F[d]
    OBVIOUS
  <2>2. R(d, c) /\ R(e, c)
    BY <1>3, <2>1
  <2>3. PICK a, b : a = [c EXCEPT !.pc = "failed"] /\ b = [c EXCEPT !.heard = FALSE]
    OBVIOUS
  <2>4. /\ d = IF c.from # p THEN IF c.to # p THEN c ELSE a ELSE b
        /\ e = IF c.from # p THEN IF c.to # p THEN c ELSE a ELSE b
    BY <2>2, <2>3, Zenon
  <2> QED
    BY <2>4
<1>6. \A d \in calls' : /\ d.op = F[d].op /\ d.cmd = F[d].cmd
                        /\ d.from = F[d].from /\ d.to = F[d].to
                        /\ d.cmds = F[d].cmds
                        /\ d.pc = "run" => F[d].pc = "run"
  BY <1>3
<1>7. /\ \A c \in Command, n \in Machine :
           /\ IsFiniteSet(ToRun(c, n)')
           /\ Cardinality(ToRun(c, n)') <= Cardinality(ToRun(c, n))
           /\ IsFiniteSet(Replied(c, n)')
           /\ Cardinality(Replied(c, n)') <= Cardinality(Replied(c, n))
      /\ \A c \in Command :
           (\E e \in calls' : (e.op = "update" /\ e.cmd = c) \/ c \in ToSet(e.cmds))
             => Known(c)
  BY <1>4, <1>5, <1>6, CallsStand DEF RunsInv
<1> HIDE DEF R
<1>8. /\ UNCHANGED <<failed, origin, timeouts>> /\ crashes' = crashes + 1
      /\ \A n \in Machine : /\ data'[n] = data[n] \/ data'[n] = <<>>
                           /\ \A b \in backup'[n] : b \in backup[n] \/ b = <<>>
  BY CrashFiles DEF Crash, Shape
<1>9. \A q \in Proc : mem'[q] = mem[q] \/ mem'[q] = <<>>
  BY DEF Crash, Shape, TypeOK
<1>10. \A n \in Machine : Logs(n)' \subseteq Logs(n) \cup {<<>>}
  BY <1>8, <1>9, Processes DEF Logs
<1>11. \A c \in Command, n \in Machine : SavedRuns(c, n)' = SavedRuns(c, n)
  BY <1>8 DEF SavedRuns
<1>12. ASSUME NEW c \in Command, NEW n \in Machine
       PROVE  /\ IsFiniteSet(SavedRuns(c, n)') /\ IsFiniteSet(ToSend(c, n)')
              /\ Coming(c, n)' + crashes + timeouts <= Coming(c, n) + crashes' + timeouts'
  <2>1. /\ IsFiniteSet(SavedRuns(c, n)) /\ Cardinality(SavedRuns(c, n)) \in Nat
        /\ Cardinality(ToSend(c, n)) \in Nat
        /\ Cardinality(ToRun(c, n)) \in Nat /\ Cardinality(Replied(c, n)) \in Nat
    BY ComingNumbers DEF RunsInv
  <2>2. IsFiniteSet(ToSend(c, n)') /\ Cardinality(ToSend(c, n)') \in {0, 1}
    BY NewSender
  <2>3. /\ Cardinality(ToRun(c, n)') \in Nat /\ Cardinality(Replied(c, n)') \in Nat
        /\ Cardinality(ToRun(c, n)') <= Cardinality(ToRun(c, n))
        /\ Cardinality(Replied(c, n)') <= Cardinality(Replied(c, n))
    BY <1>7, FS_CardinalityType
  <2>4. /\ crashes' = crashes + 1 /\ timeouts' = timeouts
        /\ crashes \in Nat /\ timeouts \in Nat
    BY <1>8 DEF Shape, TypeOK
  <2>5. SavedRuns(c, n)' = SavedRuns(c, n)
    BY <1>11
  <2> QED
    BY <2>1, <2>2, <2>3, <2>4, <2>5 DEF Coming
<1>13. FinitelyMany'
  BY <1>7, <1>12 DEF FinitelyMany
<1>14. \A c \in Command :
         \/ \E m \in Machine, r \in Proc : c \in ToSet(failed'[m][r])
         \/ \E e \in calls' : (e.op = "update" /\ e.cmd = c) \/ c \in ToSet(e.cmds)
         => Known(c)
  BY <1>7, <1>8 DEF Known
<1> QED
  BY <1>8, <1>10, <1>12, <1>13, <1>14, LogsLeft

-----------------------------------------------------------------------------
(***************************************************************************)
(* A client                                                                *)
(***************************************************************************)

LEMMA SubmitRuns ==
  ASSUME Shape, Shape', RunsInv, NEW p \in Proc, NEW x \in Command, Submit(p, x)
  PROVE  RunsInv'
<1>1. PICK m, old, new : m = p[1] /\ old = mem[p] /\ new = Append(old, x)
  OBVIOUS
<1>2. /\ m \in Machine /\ p[2] \in Index /\ p = <<m, p[2]>>
      /\ old \in Seq(Command \cup ToSet(Base)) /\ x \in Command \cup ToSet(Base)
      /\ origin[x] = NoMachine
  BY <1>1, Processes DEF Submit, Shape, TypeOK, Log
<1>3. /\ origin'[x] = m /\ m # NoMachine
      /\ \A c \in Command \ {x} : origin'[c] = origin[c]
  BY <1>1, <1>2, NoMachineAssumption DEF Submit, Shape, TypeOK
<1>4. mem'[p] = new /\ \A q \in Proc \ {p} : mem'[q] = mem[q]
  BY <1>1 DEF Submit, Shape, TypeOK
<1>5. backup'[m] = {new} /\ \A n \in Machine \ {m} : backup'[n] = backup[n]
  BY <1>1, <1>2, <1>4 DEF Submit, Shape, TypeOK
<1>6. UNCHANGED <<data, failed, calls, crashes, timeouts>>
  BY DEF Submit, failVars
<1>7. old \in Logs(m)
  BY <1>1, <1>2 DEF Logs
<1>8. ASSUME NEW n \in Machine, NEW l \in Logs(n)'
      PROVE  l \in Logs(n) \/ (n = m /\ l = new)
  <2>1. CASE l = data'[n]
    BY <1>6, <2>1 DEF Logs
  <2>2. CASE l \in backup'[n]
    BY <1>5, <2>2 DEF Logs
  <2>3. CASE \E i \in Index : l = mem'[<<n, i>>]
    <3>1. PICK i \in Index : l = mem'[<<n, i>>]
      BY <2>3
    <3>2. CASE <<n, i>> = p
      BY <1>2, <1>4, <3>1, <3>2
    <3>3. CASE <<n, i>> # p
      BY <1>4, <3>1, <3>3, Processes DEF Logs
    <3> QED
      BY <3>2, <3>3
  <2> QED
    BY <2>1, <2>2, <2>3 DEF Logs
<1>9. ToSet(new) = ToSet(old) \cup {x}
  BY <1>1, <1>2, AppendSet
<1>10. Fresh'
  <2> SUFFICES ASSUME NEW c \in Command \ {x}, Known(c)' PROVE Known(c)
    BY <1>3 DEF Fresh, RunsInv
  <2>1. CASE \E n \in Machine : \E l \in Logs(n)' : c \in ToSet(l)
    <3>1. PICK n \in Machine : \E l \in Logs(n)' : c \in ToSet(l)
      BY <2>1
    <3>2. PICK l \in Logs(n)' : c \in ToSet(l)
      BY <3>1
    <3>3. CASE l \in Logs(n)
      BY <3>2, <3>3 DEF Known
    <3>4. CASE l = new
      BY <1>2, <1>7, <1>9, <3>2, <3>4 DEF Known
    <3> QED
      BY <1>8, <3>3, <3>4
  <2> QED
    BY <1>6, <2>1 DEF Known
<1>11. ~Known(x)
  BY <1>2 DEF RunsInv, Fresh
<1>12. ASSUME NEW c \in Command, NEW n \in Machine
       PROVE  /\ SavedRuns(c, n)' = SavedRuns(c, n)
              /\ ToRun(c, n)' = ToRun(c, n)
              /\ Replied(c, n)' = Replied(c, n)
              /\ IsFiniteSet(ToSend(c, n)')
              /\ c # x => ToSend(c, n)' = ToSend(c, n)
  <2>1. \A q \in Proc : \A k : Calling(q, k)' = Calling(q, k)
    BY <1>6 DEF Calling
  <2>2. ASSUME c # x PROVE ToSend(c, n)' = ToSend(c, n)
    <3>1. /\ writer[p] = Idle /\ writer'[p].cmd = x
          /\ \A q \in Proc \ {p} : writer'[q] = writer[q]
      <4>1. PICK w : w = [pc |-> "asking", cmd |-> x, todo |-> Others(p[1])]
        OBVIOUS
      <4>2. writer[p] = Idle /\ writer' = [writer EXCEPT ![p] = w] /\ w.cmd = x
        BY <4>1 DEF Submit
      <4> QED
        BY <4>2 DEF Shape, TypeOK
    <3>2. ASSUME NEW q \in Proc
          PROVE  q \in ToSend(c, n)' <=> q \in ToSend(c, n)
      <4>1. CASE q = p
        BY <2>2, <3>1, <4>1 DEF ToSend
      <4>2. CASE q # p
        BY <2>1, <3>1, <4>2 DEF ToSend
      <4> QED
        BY <4>1, <4>2
    <3>3. ToSend(c, n)' \subseteq Proc /\ ToSend(c, n) \subseteq Proc
      BY DEF ToSend
    <3> QED
      BY <3>2, <3>3
  <2> QED
    BY <1>6, <2>2, NewSender DEF SavedRuns, ToRun, Replied
<1>13. FinitelyMany'
  BY <1>12 DEF RunsInv, FinitelyMany
<1>14. ComingBounded'
  <2> SUFFICES ASSUME NEW c \in Command, NEW n \in Machine, NEW l \in Logs(n)'
               PROVE  Cardinality(Runs(l, c)) + Coming(c, n)' <= 1 + crashes' + timeouts'
    BY DEF ComingBounded
  <2>1. crashes' = crashes /\ timeouts' = timeouts /\ crashes \in Nat /\ timeouts \in Nat
    BY <1>6 DEF Shape, TypeOK
  <2>2. CASE c # x
    <3>1. Coming(c, n)' = Coming(c, n)
      BY <1>12, <2>2 DEF Coming
    <3>2. CASE l \in Logs(n)
      BY <2>1, <3>1, <3>2 DEF RunsInv, ComingBounded
    <3>3. CASE n = m /\ l = new
      <4>1. Runs(l, c) = Runs(old, c)
        BY <1>1, <1>2, <2>2, <3>3, RunsAppend
      <4>2. Cardinality(Runs(old, c)) + Coming(c, n) <= 1 + crashes + timeouts
        BY <1>7, <3>3 DEF RunsInv, ComingBounded
      <4> QED
        BY <2>1, <3>1, <4>1, <4>2
    <3> QED
      BY <1>8, <3>2, <3>3
  <2>3. CASE c = x
    <3>1. \A k \in Logs(n) : Cardinality(Runs(k, c)) = 0
      BY <1>11, <2>3, RunsNone DEF Known
    <3>2. SavedRuns(c, n) = {}
      <4> SUFFICES ASSUME NEW j \in Machine, NEW q \in Proc,
                          NEW i \in Runs(failed[j][q], c)
                   PROVE  FALSE
        BY DEF SavedRuns
      <4>1. c \notin ToSet(failed[j][q])
        BY <1>11, <2>3 DEF Known
      <4> QED
        BY <4>1, RunsNone
    <3>3. ToRun(c, n) = {}
      BY <1>11, <2>3 DEF ToRun, Known
    <3>4. Replied(c, n) = {}
      <4> SUFFICES ASSUME NEW d \in calls, NEW i \in Runs(d.cmds, c)
                   PROVE  FALSE
        BY DEF Replied
      <4>1. c \notin ToSet(d.cmds)
        BY <1>11, <2>3 DEF Known
      <4> QED
        BY <4>1, RunsNone
    <3>5. Coming(c, n)' = Cardinality(ToSend(c, n)') /\ Cardinality(ToSend(c, n)') \in {0, 1}
      <4>1. Cardinality(SavedRuns(c, n)') = 0
        BY <1>12, <3>2, FS_EmptySet
      <4>2. Cardinality(ToRun(c, n)') = 0 /\ Cardinality(Replied(c, n)') = 0
        BY <1>12, <3>3, <3>4, FS_EmptySet
      <4>3. Cardinality(ToSend(c, n)') \in {0, 1}
        BY NewSender
      <4> QED
        BY <4>1, <4>2, <4>3 DEF Coming
    <3>6. CASE l \in Logs(n)
      BY <2>1, <3>1, <3>5, <3>6
    <3>7. CASE n = m /\ l = new
      <4>1. Cardinality(ToSend(c, n)') = 0
        BY <1>3, <2>3, <3>7, NewSender
      <4>2. Cardinality(Runs(l, c)) = Cardinality(Runs(old, c)) + 1
        <5>1. Cardinality(Runs(Append(old, x), x)) = Cardinality(Runs(old, x)) + 1
          BY <1>2, RunsAppend
        <5> QED
          BY <1>1, <2>3, <3>7, <5>1
      <4>3. Cardinality(Runs(old, c)) = 0
        BY <1>7, <3>1, <3>7
      <4> QED
        BY <2>1, <3>5, <4>1, <4>2, <4>3
    <3> QED
      BY <1>8, <3>6, <3>7
  <2> QED
    BY <2>2, <2>3
<1> QED
  BY <1>10, <1>13, <1>14 DEF RunsInv

-----------------------------------------------------------------------------
(***************************************************************************)
(* Theorem                                                                 *)
(***************************************************************************)

LEMMA InitRuns == Init => RunsInv
<1> SUFFICES ASSUME Init PROVE RunsInv
  OBVIOUS
<1>0. PICK none : none = <<>>
  OBVIOUS
<1>1. \A c \in Command : c \notin ToSet(Base) /\ c \notin ToSet(none)
  BY <1>0, BaseAssumption, SetOfSeq
<1>2. \A n \in Machine : \A l \in Logs(n) : l = Base \/ l = none
  BY <1>0, Processes DEF Init, Logs
<1>3. \A m \in Machine, p \in Proc : failed[m][p] = none
  BY <1>0 DEF Init
<1>4. calls = {} /\ \A p \in Proc : writer[p] = Idle
  BY DEF Init
<1>5. \A c \in Command : ~Known(c)
  BY <1>1, <1>2, <1>3, <1>4 DEF Known
<1>6. \A c \in Command : Runs(Base, c) = {} /\ Runs(none, c) = {}
  BY <1>1, RunsNone
<1>7. \A c \in Command, n \in Machine :
        /\ SavedRuns(c, n) = {} /\ ToRun(c, n) = {}
        /\ Replied(c, n) = {} /\ ToSend(c, n) = {}
  BY <1>3, <1>4, <1>6 DEF SavedRuns, ToRun, Replied, ToSend
<1>8. FinitelyMany
  BY <1>7, FS_EmptySet DEF FinitelyMany
<1>9. ASSUME NEW c \in Command, NEW n \in Machine, NEW l \in Logs(n)
      PROVE  Cardinality(Runs(l, c)) + Coming(c, n) <= 1 + crashes + timeouts
  <2>1. Cardinality(Runs(l, c)) = 0
    BY <1>2, <1>6, FS_EmptySet
  <2>2. Coming(c, n) = 0
    BY <1>7, FS_EmptySet DEF Coming
  <2>3. crashes = 0 /\ timeouts = 0
    BY DEF Init
  <2> QED
    BY <2>1, <2>2, <2>3
<1> QED
  BY <1>5, <1>8, <1>9 DEF RunsInv, Fresh, ComingBounded

LEMMA NextRuns == Shape /\ RunsInv /\ [Next]_vars => RunsInv'
<1> SUFFICES ASSUME Shape, RunsInv, [Next]_vars PROVE RunsInv'
  OBVIOUS
<1>1. Shape'
  BY NextShape
<1>2. CASE UNCHANGED vars
  <2>1. UNCHANGED <<origin, failed, calls, crashes, timeouts, writer, mem, data, backup>>
    BY <1>2 DEF vars, procVars, fileVars, histVars, failVars
  <2> QED
    BY <1>1, <2>1, OtherRuns
<1>3. ASSUME NEW p \in Proc, NEW c \in Command, Submit(p, c) PROVE RunsInv'
  BY <1>1, <1>3, SubmitRuns
<1>4. ASSUME NEW p \in Proc,
             Save(p) \/ StartSending(p) \/ Sent(p) \/ NotSent(p) \/ Answer(p)
      PROVE  RunsInv'
  BY <1>1, <1>4, SaveRuns, StartSendingRuns, SentRuns, NotSentRuns, AnswerRuns
<1>5. ASSUME NEW p \in Proc, NEW n \in Machine, Send(p, n) \/ Greet(p, n)
      PROVE  RunsInv'
  BY <1>1, <1>5, SendRuns, GreetRuns
<1>6. ASSUME NEW p \in Proc, StartGreeting(p) \/ EndGreeting(p) \/ Restart(p)
      PROVE  RunsInv'
  <2>1. UNCHANGED <<origin, failed, calls, crashes, timeouts, writer, mem, data, backup>>
    BY <1>6 DEF StartGreeting, EndGreeting, Restart, fileVars, histVars, failVars
  <2> QED
    BY <1>1, <2>1, OtherRuns
<1>7. ASSUME NEW p \in Proc, TakeOver(p) \/ Greeted(p) \/ Crash(p)
      PROVE  RunsInv'
  BY <1>1, <1>7, TakeOverRuns, GreetedRuns, CrashRuns
<1>8. ASSUME NEW c \in calls, Update(c) \/ Reset(c) \/ Fetch(c) \/ Timeout(c)
      PROVE  RunsInv'
  BY <1>1, <1>8, UpdateRuns, ResetRuns, FetchRuns, TimeoutRuns
<1> QED
  BY <1>2, <1>3, <1>4, <1>5, <1>6, <1>7, <1>8, Steps

\* Whatever fails, and in whatever order: a machine runs a command of a client
\* once, and once more for every process that is killed and every RPC that
\* misses its deadline.
THEOREM FewRuns == Spec => []RunsBounded
<1>1. Init => Shape /\ RunsInv
  BY InitShape, InitRuns
<1>2. Shape /\ RunsInv /\ [Next]_vars => (Shape /\ RunsInv)'
  BY NextShape, NextRuns
<1>3. Shape /\ RunsInv => RunsBounded
  <2> SUFFICES ASSUME Shape, RunsInv, NEW c \in Command, NEW n \in Machine
               PROVE  Cardinality(Runs(data[n], c)) <= 1 + crashes + timeouts
    BY DEF RunsBounded
  <2>1. data[n] \in Logs(n) /\ data[n] \in Log
    BY LogTypes DEF Shape
  <2>2. Cardinality(Runs(data[n], c)) + Coming(c, n) <= 1 + crashes + timeouts
    BY <2>1 DEF RunsInv, ComingBounded
  <2>3. Cardinality(Runs(data[n], c)) \in Nat /\ Coming(c, n) \in Nat
    BY <2>1, LogRuns, ComingNumbers DEF RunsInv
  <2>4. crashes \in Nat /\ timeouts \in Nat
    BY DEF Shape, TypeOK
  <2> QED
    BY <2>2, <2>3, <2>4
<1> QED
  BY <1>1, <1>2, <1>3, PTL DEF Spec

-----------------------------------------------------------------------------
(***************************************************************************)
(* What the machines have when everything has been sent                    *)
(***************************************************************************)

\* The client of c will not be answered: its writer was killed.
Orphan(c) == /\ origin[c] # NoMachine
             /\ c \notin done
             /\ \A p \in Proc : writer[p] # Idle => writer[p].cmd # c

SomeOrphan == \E c \in Command : Orphan(c)

Asking(p) == writer[p] # Idle /\ writer[p].pc = "asking"

WritersOpen == \A p \in Proc : writer[p] # Idle => writer[p].cmd \notin done

\* A backup belongs to a writer who asks for the lock, or has been killed.
BackupsUsed ==
  \A n \in Machine : backup[n] # {} =>
    SomeOrphan \/ \E p \in Proc : p[1] = n /\ Asking(p)

\* The rooms of the start stay, where the files are whole.
BaseKept ==
  /\ \A n \in Machine \ torn :
       /\ ToSet(Base) \subseteq ToSet(data[n])
       /\ \A b \in backup[n] : ToSet(Base) \subseteq ToSet(b)
  /\ \A p \in Proc :
       Rules(p) /\ p[1] \notin torn => ToSet(Base) \subseteq ToSet(mem[p])

\* What comes from elsewhere is written when it is run, and a takeover reads
\* nothing that it then replaces by a backup.
RulersSaved ==
  SomeOrphan \/
    \A p \in Proc : Rules(p) /\ p[1] \notin torn =>
      \A c \in Command :
        c \in ToSet(mem[p]) /\ origin[c] # p[1] => c \in ToSet(data[p[1]])

SameInv == WritersOpen /\ BackupsUsed /\ BaseKept /\ RulersSaved

\* Writers stay what they are, or become less.
WritersStay ==
  \A p \in Proc :
    /\ writer'[p] # Idle => writer[p] # Idle /\ writer'[p].cmd = writer[p].cmd
    /\ Asking(p) => Asking(p)'

LEMMA OrphansStay ==
  ASSUME UNCHANGED <<origin, done>>,
         \A p \in Proc : writer'[p] # Idle =>
           writer[p] # Idle /\ writer'[p].cmd = writer[p].cmd
  PROVE  SomeOrphan => SomeOrphan'
BY DEF SomeOrphan, Orphan

LEMMA OpenStays ==
  ASSUME SameInv, UNCHANGED done,
         \A p \in Proc : writer'[p] # Idle =>
           writer[p] # Idle /\ writer'[p].cmd = writer[p].cmd
  PROVE  WritersOpen'
BY DEF SameInv, WritersOpen

LEMMA BackupsStay ==
  ASSUME SameInv, SomeOrphan => SomeOrphan',
         \A n \in Machine : backup'[n] \subseteq backup[n],
         \A p \in Proc : Asking(p) => Asking(p)' \/ backup'[p[1]] = {}
  PROVE  BackupsUsed'
<1> SUFFICES ASSUME NEW n \in Machine, backup'[n] # {}
             PROVE  SomeOrphan' \/ \E p \in Proc : p[1] = n /\ Asking(p)'
  BY DEF BackupsUsed
<1>1. backup[n] # {}
  OBVIOUS
<1>2. CASE SomeOrphan
  BY <1>2
<1>3. CASE \E p \in Proc : p[1] = n /\ Asking(p)
  BY <1>3
<1> QED
  BY <1>1, <1>2, <1>3 DEF SameInv, BackupsUsed

\* Nothing is run or written.
LEMMA SameStays ==
  ASSUME SameInv, WritersStay, UNCHANGED <<origin, done, mem, data, backup, torn>>,
         \A p \in Proc : Rules(p)' => Rules(p)
  PROVE  SameInv'
<1>1. SomeOrphan => SomeOrphan'
  BY OrphansStay DEF WritersStay
<1>2. WritersOpen'
  BY OpenStays DEF WritersStay
<1>3. BackupsUsed'
  BY <1>1, BackupsStay DEF WritersStay
<1>4. BaseKept'
  BY DEF SameInv, BaseKept
<1>5. RulersSaved'
  BY <1>1 DEF SameInv, RulersSaved
<1> QED
  BY <1>2, <1>3, <1>4, <1>5 DEF SameInv

LEMMA RulerAlone ==
  ASSUME Shape, NEW p \in Proc, Rules(p)
  PROVE  \A q \in Proc : /\ q[1] \in Machine
                         /\ Rules(q) /\ q[1] = p[1] => q = p
<1> SUFFICES ASSUME NEW q \in Proc
             PROVE  q[1] \in Machine /\ (Rules(q) /\ q[1] = p[1] => q = p)
  OBVIOUS
<1>1. /\ q[1] \in Machine /\ q[2] \in Index /\ q = <<q[1], q[2]>>
      /\ p[2] \in Index /\ p = <<p[1], p[2]>>
  BY Processes
<1>2. ASSUME Rules(q), q[1] = p[1] PROVE q = p
  <2>1. Rules(<<p[1], q[2]>>) /\ Rules(<<p[1], p[2]>>)
    BY <1>1, <1>2
  <2>2. p[1] \in Machine
    BY <1>1, <1>2
  <2>3. q[2] = p[2]
    BY <1>1, <2>1, <2>2 DEF Shape, OneRuler
  <2> QED
    BY <1>1, <1>2, <2>3
<1> QED
  BY <1>1, <1>2

\* A ruler runs commands.
LEMMA SameRun ==
  ASSUME Shape, SameInv, WritersStay, UNCHANGED <<origin, done, backup, role, torn>>,
         NEW p \in Proc, Rules(p), NEW cmds \in Seq(Command), RunAll(p, cmds)
  PROVE  SameInv'
<1>1. SomeOrphan => SomeOrphan'
  BY OrphansStay DEF WritersStay
<1>2. WritersOpen'
  BY OpenStays DEF WritersStay
<1>3. BackupsUsed'
  BY <1>1, BackupsStay DEF WritersStay
<1>4. /\ \A q \in Proc \ {p} : mem'[q] = mem[q]
      /\ ToSet(mem'[p]) = ToSet(mem[p]) \cup ToSet(cmds)
      /\ \A n \in Machine \ {p[1]} : data'[n] = data[n]
      /\ \/ data' = data /\ mem' = mem
         \/ data'[p[1]] = mem'[p]
  BY CmdsRun DEF Shape
<1>5. \A q \in Proc : /\ q[1] \in Machine /\ Rules(q)' = Rules(q)
                      /\ Rules(q) /\ q[1] = p[1] => q = p
  BY RulerAlone DEF Rules
<1>6. CASE data' = data /\ mem' = mem
  <2>1. UNCHANGED <<origin, done, mem, data, backup, torn>>
    BY <1>6
  <2>2. \A q \in Proc : Rules(q)' => Rules(q)
    BY <1>5
  <2> QED
    BY <2>1, <2>2, SameStays
<1>7. CASE data'[p[1]] = mem'[p]
  <2>1. BaseKept'
    BY <1>4, <1>5, <1>7 DEF SameInv, BaseKept
  <2>2. RulersSaved'
    BY <1>1, <1>4, <1>5, <1>7 DEF SameInv, RulersSaved
  <2> QED
    BY <1>2, <1>3, <2>1, <2>2 DEF SameInv
<1> QED
  BY <1>4, <1>6, <1>7

\* A writer has one machine less to send to.
LEMMA TodoStays ==
  ASSUME Shape, NEW p \in Proc, writer[p] # Idle, NEW n,
         writer' = [writer EXCEPT ![p].todo = @ \ {n}]
  PROVE  WritersStay
<1>1. /\ \A q \in Proc \ {p} : writer'[q] = writer[q]
      /\ writer'[p] # Idle /\ writer'[p].pc = writer[p].pc
      /\ writer'[p].cmd = writer[p].cmd
  BY WriterTodo DEF Shape
<1> SUFFICES ASSUME NEW q \in Proc
             PROVE  /\ writer'[q] # Idle => writer[q] # Idle /\ writer'[q].cmd = writer[q].cmd
                    /\ Asking(q) => Asking(q)'
  BY DEF WritersStay
<1>2. CASE q = p
  BY <1>1, <1>2 DEF Asking
<1>3. CASE q # p
  BY <1>1, <1>3 DEF Asking
<1> QED
  BY <1>2, <1>3

LEMMA SaveSame ==
  ASSUME Shape, SameInv, NEW p \in Proc, Save(p)
  PROVE  SameInv'
<1>1. writer[p] # Idle /\ writer' = [writer EXCEPT ![p].pc = "saved"]
  BY WriterType DEF Shape, Save
<1>2. /\ \A q \in Proc \ {p} : writer'[q] = writer[q]
      /\ writer'[p] # Idle /\ writer'[p].cmd = writer[p].cmd
  BY <1>1, WriterPc DEF Shape
<1>3. UNCHANGED <<origin, done, mem, role, torn>>
  BY DEF Save, histVars
<1>4. Rules(p) /\ p[1] \in Machine
  BY <1>1, Processes DEF Shape, WritersRule
<1>5. /\ \A n \in Machine : data'[n] = IF n = p[1] THEN mem[p] ELSE data[n]
      /\ \A n \in Machine : backup'[n] = IF n = p[1] THEN {} ELSE backup[n]
  BY DEF Save, Shape, TypeOK
<1>6. \A q \in Proc : writer'[q] # Idle => writer[q] # Idle /\ writer'[q].cmd = writer[q].cmd
  BY <1>1, <1>2
<1>7. SomeOrphan => SomeOrphan'
  BY <1>3, <1>6, OrphansStay
<1>8. WritersOpen'
  BY <1>3, <1>6, OpenStays
<1>9. BackupsUsed'
  <2>1. \A q \in Proc : Asking(q) => Asking(q)' \/ backup'[q[1]] = {}
    BY <1>2, <1>4, <1>5 DEF Asking
  <2>2. \A n \in Machine : backup'[n] \subseteq backup[n]
    BY <1>5
  <2> QED
    BY <1>7, <2>1, <2>2, BackupsStay
<1>10. \A q \in Proc : /\ q[1] \in Machine /\ Rules(q)' = Rules(q)
                       /\ Rules(q) /\ q[1] = p[1] => q = p
  BY <1>3, <1>4, RulerAlone DEF Rules
<1>11. BaseKept'
  BY <1>3, <1>4, <1>5, <1>10 DEF SameInv, BaseKept
<1>12. RulersSaved'
  BY <1>3, <1>5, <1>7, <1>10 DEF SameInv, RulersSaved
<1> QED
  BY <1>8, <1>9, <1>11, <1>12 DEF SameInv

\* A command has one writer.
LEMMA OtherCmd ==
  ASSUME Shape, NEW p \in Proc, writer[p] # Idle
  PROVE  /\ Rules(p) /\ origin[writer[p].cmd] = p[1] /\ p[1] # NoMachine
         /\ writer[p].cmd \in Command
         /\ \A q \in Proc : writer[q] # Idle /\ writer[q].cmd = writer[p].cmd => q = p
<1>1. /\ Rules(p) /\ origin[writer[p].cmd] = p[1] /\ p[1] \in Machine
      /\ writer[p].cmd \in Command
  BY WriterType, Processes DEF Shape, WritersRule
<1>2. ASSUME NEW q \in Proc, writer[q] # Idle, writer[q].cmd = writer[p].cmd
      PROVE  q = p
  <2>1. Rules(q) /\ origin[writer[q].cmd] = q[1]
    BY <1>2 DEF Shape, WritersRule
  <2>2. q[1] = p[1]
    BY <1>1, <1>2, <2>1
  <2> QED
    BY <1>1, <2>1, <2>2, RulerAlone
<1> QED
  BY <1>1, <1>2, NoMachineAssumption

LEMMA SubmitSame ==
  ASSUME Shape, SavedFirst, SameInv, NEW p \in Proc, NEW c \in Command, Submit(p, c)
  PROVE  SameInv'
<1>1. PICK m, old, new : m = p[1] /\ old = mem[p] /\ new = Append(old, c)
  OBVIOUS
<1>2. /\ m \in Machine /\ Rules(p) /\ writer[p] = Idle /\ origin[c] = NoMachine
      /\ old \in Seq(Command \cup ToSet(Base)) /\ c \in Command \cup ToSet(Base)
  BY <1>1, Processes DEF Submit, Shape, TypeOK, Log
<1>3. origin'[c] = m /\ \A x \in Command \ {c} : origin'[x] = origin[x]
  BY <1>1 DEF Submit, Shape, TypeOK
<1>4. mem'[p] = new /\ \A q \in Proc \ {p} : mem'[q] = mem[q]
  BY <1>1 DEF Submit, Shape, TypeOK
<1>5. backup'[m] = {new} /\ \A n \in Machine \ {m} : backup'[n] = backup[n]
  BY <1>1, <1>2, <1>4 DEF Submit, Shape, TypeOK
<1>6. UNCHANGED <<data, done, role, torn>>
  BY DEF Submit
<1>7. ToSet(new) = ToSet(old) \cup {c}
  BY <1>1, <1>2, AppendSet
<1>8. /\ writer'[p] # Idle /\ writer'[p].pc = "asking" /\ writer'[p].cmd = c
      /\ \A q \in Proc \ {p} : writer'[q] = writer[q]
  <2>1. PICK w : w = [pc |-> "asking", cmd |-> c, todo |-> Others(p[1])]
    OBVIOUS
  <2>2. w.pc = "asking" /\ w.cmd = c /\ w # Idle
    BY <2>1 DEF Idle
  <2>3. writer' = [writer EXCEPT ![p] = w]
    BY <2>1 DEF Submit
  <2> QED
    BY <2>2, <2>3 DEF Shape, TypeOK
<1>9. c \notin done
  BY <1>2 DEF SavedFirst, Abroad
<1>10. SomeOrphan => SomeOrphan'
  <2> SUFFICES ASSUME NEW x \in Command, Orphan(x) PROVE Orphan(x)'
    BY DEF SomeOrphan
  <2>1. x # c
    BY <1>2 DEF Orphan
  <2> QED
    BY <1>3, <1>6, <1>8, <2>1 DEF Orphan
<1>11. WritersOpen'
  BY <1>6, <1>8, <1>9 DEF SameInv, WritersOpen
<1>12. BackupsUsed'
  <2> SUFFICES ASSUME NEW n \in Machine, backup'[n] # {}
               PROVE  SomeOrphan' \/ \E q \in Proc : q[1] = n /\ Asking(q)'
    BY DEF BackupsUsed
  <2>1. CASE n = m
    BY <1>1, <1>8, <2>1 DEF Asking
  <2>2. CASE n # m
    <3>1. backup[n] # {}
      BY <1>5, <2>2
    <3>2. CASE SomeOrphan
      BY <1>10, <3>2
    <3>3. CASE \E q \in Proc : q[1] = n /\ Asking(q)
      <4>1. PICK q \in Proc : q[1] = n /\ Asking(q)
        BY <3>3
      <4>2. Asking(q)'
        BY <1>1, <1>8, <2>2, <4>1 DEF Asking
      <4> QED
        BY <4>1, <4>2
    <3> QED
      BY <3>1, <3>2, <3>3 DEF SameInv, BackupsUsed
  <2> QED
    BY <2>1, <2>2
<1>13. BaseKept'
  <2>1. m \notin torn => ToSet(Base) \subseteq ToSet(new)
    BY <1>1, <1>2, <1>7 DEF SameInv, BaseKept
  <2>2. \A q \in Proc : Rules(q)' = Rules(q)
    BY <1>6 DEF Rules
  <2>3. \A n \in Machine \ torn :
          /\ ToSet(Base) \subseteq ToSet(data'[n])
          /\ \A b \in backup'[n] : ToSet(Base) \subseteq ToSet(b)
    BY <1>5, <1>6, <2>1 DEF SameInv, BaseKept
  <2>4. \A q \in Proc :
          Rules(q)' /\ q[1] \notin torn => ToSet(Base) \subseteq ToSet(mem'[q])
    BY <1>1, <1>4, <2>1, <2>2 DEF SameInv, BaseKept
  <2> QED
    BY <1>6, <2>3, <2>4 DEF BaseKept
<1>14. RulersSaved'
  <2> SUFFICES ASSUME ~SomeOrphan', NEW q \in Proc, Rules(q)', NEW x \in Command,
                      q[1] \notin torn', x \in ToSet(mem'[q]), origin'[x] # q[1]
               PROVE  x \in ToSet(data'[q[1]])
    BY DEF RulersSaved
  <2>1. x \in ToSet(mem[q])
    BY <1>1, <1>3, <1>4, <1>7
  <2>2. origin[x] # q[1]
    BY <1>2, <1>3, Processes, NoMachineAssumption
  <2>3. ~SomeOrphan /\ Rules(q)
    BY <1>6, <1>10 DEF Rules
  <2> QED
    BY <1>6, <2>1, <2>2, <2>3 DEF SameInv, RulersSaved
<1> QED
  BY <1>11, <1>12, <1>13, <1>14 DEF SameInv

LEMMA AnswerSame ==
  ASSUME Shape, SameInv, NEW p \in Proc, Answer(p)
  PROVE  SameInv'
<1>1. /\ writer[p] # Idle /\ ~Asking(p)
  BY WriterType DEF Shape, Answer, Asking
<1>2. /\ writer'[p] = Idle /\ \A q \in Proc \ {p} : writer'[q] = writer[q]
      /\ done' = done \cup {writer[p].cmd}
  BY DEF Answer, Shape, TypeOK
<1>3. UNCHANGED <<role, mem, data, backup, origin, torn>>
  BY DEF Answer, fileVars
<1>4. SomeOrphan => SomeOrphan'
  <2> SUFFICES ASSUME NEW x \in Command, Orphan(x) PROVE Orphan(x)'
    BY DEF SomeOrphan
  <2>1. x # writer[p].cmd
    BY <1>1 DEF Orphan
  <2> QED
    BY <1>2, <1>3, <2>1 DEF Orphan
<1>5. WritersOpen'
  <2> SUFFICES ASSUME NEW q \in Proc, writer'[q] # Idle
               PROVE  writer'[q].cmd \notin done'
    BY DEF WritersOpen
  <2>1. q # p /\ writer'[q] = writer[q]
    BY <1>2
  <2>2. writer[q].cmd # writer[p].cmd
    BY <1>1, <2>1, OtherCmd
  <2> QED
    BY <1>2, <2>1, <2>2 DEF SameInv, WritersOpen
<1>6. BackupsUsed'
  <2>1. \A q \in Proc : Asking(q) => Asking(q)'
    BY <1>1, <1>2 DEF Asking
  <2> QED
    BY <1>3, <1>4, <2>1, BackupsStay
<1>7. \A q \in Proc : Rules(q)' = Rules(q)
  BY <1>3 DEF Rules
<1>8. BaseKept'
  BY <1>3, <1>7 DEF SameInv, BaseKept
<1>9. RulersSaved'
  BY <1>3, <1>4, <1>7 DEF SameInv, RulersSaved
<1> QED
  BY <1>5, <1>6, <1>8, <1>9 DEF SameInv

LEMMA TakeOverSame ==
  ASSUME Shape, SameInv, NEW p \in Proc, TakeOver(p)
  PROVE  SameInv'
<1>1. PICK m : m = p[1]
  OBVIOUS
<1>2. /\ m \in Machine /\ \A i \in Index : ~Rules(<<m, i>>)
  BY <1>1, Processes DEF TakeOver
<1>3. UNCHANGED <<writer, origin, done, torn>>
  BY DEF TakeOver, histVars
<1>4. mem'[p] = data[m] /\ \A q \in Proc \ {p} : mem'[q] = mem[q]
  BY <1>1 DEF TakeOver, Shape, TypeOK
<1>5. /\ \A n \in Machine : backup'[n] \subseteq backup[n]
      /\ \A n \in Machine : n # m => data'[n] = data[n]
  BY <1>1 DEF TakeOver, Shape, TypeOK
<1>6. /\ backup[m] = {} => data'[m] = data[m]
      /\ backup[m] # {} => data'[m] \in backup[m]
  <2>1. CASE backup[m] = {}
    BY <1>1, <2>1 DEF TakeOver
  <2>2. CASE backup[m] # {}
    <3>1. PICK b : b = CHOOSE d \in backup[m] : TRUE
      OBVIOUS
    <3>2. data'[m] = b
      BY <1>1, <1>2, <2>2, <3>1 DEF TakeOver, Shape, TypeOK
    <3> QED
      BY <2>2, <3>1, <3>2
  <2> QED
    BY <2>1, <2>2
<1>7. \A q \in Proc : Rules(q)' => q = p \/ (Rules(q) /\ q[1] \in Machine /\ q[1] # m)
  <2> SUFFICES ASSUME NEW q \in Proc, Rules(q)', q # p
               PROVE  Rules(q) /\ q[1] \in Machine /\ q[1] # m
    OBVIOUS
  <2>1. role'[q] = role[q]
    BY DEF TakeOver, Shape, TypeOK
  <2>2. Rules(q)
    BY <2>1 DEF Rules
  <2>3. q[1] \in Machine /\ q[2] \in Index /\ q = <<q[1], q[2]>>
    BY Processes
  <2> QED
    BY <1>2, <2>2, <2>3
<1>8. SomeOrphan => SomeOrphan'
  BY <1>3, OrphansStay
<1>9. WritersOpen'
  BY <1>3, OpenStays
<1>10. BackupsUsed'
  <2>1. \A q \in Proc : Asking(q) => Asking(q)'
    BY <1>3 DEF Asking
  <2> QED
    BY <1>5, <1>8, <2>1, BackupsStay
<1>11. backup[m] # {} => SomeOrphan
  <2> SUFFICES ASSUME NEW q \in Proc, q[1] = m, Asking(q)
               PROVE  FALSE
    BY <1>2 DEF SameInv, BackupsUsed
  <2>1. Rules(q)
    BY DEF Asking, Shape, WritersRule
  <2>2. q[2] \in Index /\ q = <<m, q[2]>>
    BY Processes
  <2> QED
    BY <1>2, <2>1, <2>2
<1>12. BaseKept'
  <2>1. m \notin torn => ToSet(Base) \subseteq ToSet(data[m])
    BY <1>2 DEF SameInv, BaseKept
  <2>2. m \notin torn => ToSet(Base) \subseteq ToSet(data'[m])
    BY <1>2, <1>6, <2>1 DEF SameInv, BaseKept
  <2>3. \A n \in Machine \ torn :
          /\ ToSet(Base) \subseteq ToSet(data'[n])
          /\ \A b \in backup'[n] : ToSet(Base) \subseteq ToSet(b)
    BY <1>5, <2>2 DEF SameInv, BaseKept
  <2>4. \A q \in Proc :
          Rules(q)' /\ q[1] \notin torn => ToSet(Base) \subseteq ToSet(mem'[q])
    <3> SUFFICES ASSUME NEW q \in Proc, Rules(q)', q[1] \notin torn
                 PROVE  ToSet(Base) \subseteq ToSet(mem'[q])
      OBVIOUS
    <3>1. CASE q = p
      BY <1>1, <1>4, <2>1, <3>1
    <3>2. CASE q # p
      BY <1>4, <1>7, <3>2 DEF SameInv, BaseKept
    <3> QED
      BY <3>1, <3>2
  <2> QED
    BY <1>3, <2>3, <2>4 DEF BaseKept
<1>13. RulersSaved'
  <2> SUFFICES ASSUME ~SomeOrphan', NEW q \in Proc, Rules(q)', NEW x \in Command,
                      q[1] \notin torn', x \in ToSet(mem'[q]), origin'[x] # q[1]
               PROVE  x \in ToSet(data'[q[1]])
    BY DEF RulersSaved
  <2>1. ~SomeOrphan /\ backup[m] = {}
    BY <1>8, <1>11
  <2>2. CASE q = p
    BY <1>1, <1>4, <1>6, <2>1, <2>2
  <2>3. CASE q # p
    BY <1>3, <1>4, <1>5, <1>7, <2>1, <2>3 DEF SameInv, RulersSaved
  <2> QED
    BY <2>2, <2>3
<1> QED
  BY <1>9, <1>10, <1>12, <1>13 DEF SameInv

LEMMA CrashSame ==
  ASSUME Shape, SameInv, NEW p \in Proc, Crash(p)
  PROVE  SameInv'
<1>1. /\ UNCHANGED <<origin, done>>
      /\ torn \subseteq torn'
      /\ \A n \in Machine \ torn' : data'[n] = data[n] /\ backup'[n] = backup[n]
  BY CrashFiles DEF Crash, Shape
<1>2. /\ role'[p] = "down" /\ writer'[p] = Idle
      /\ \A q \in Proc \ {p} : /\ role'[q] = role[q] /\ writer'[q] = writer[q]
                               /\ mem'[q] = mem[q]
  BY DEF Crash, Shape, TypeOK
<1>3. \A q \in Proc : writer'[q] # Idle => writer[q] # Idle /\ writer'[q].cmd = writer[q].cmd
  BY <1>2
<1>4. SomeOrphan => SomeOrphan'
  BY <1>1, <1>3, OrphansStay
<1>5. WritersOpen'
  BY <1>1, <1>3, OpenStays
<1>6. writer[p] # Idle => SomeOrphan'
  <2> SUFFICES ASSUME writer[p] # Idle PROVE SomeOrphan'
    OBVIOUS
  <2>1. PICK x : x = writer[p].cmd
    OBVIOUS
  <2>2. /\ x \in Command /\ origin[x] # NoMachine
        /\ \A q \in Proc : writer[q] # Idle /\ writer[q].cmd = x => q = p
    BY <2>1, OtherCmd
  <2>3. x \notin done
    BY <2>1 DEF SameInv, WritersOpen
  <2>4. \A q \in Proc : writer'[q] # Idle => writer'[q].cmd # x
    BY <1>2, <2>2
  <2>5. Orphan(x)'
    BY <1>1, <2>2, <2>3, <2>4 DEF Orphan
  <2> QED
    BY <2>2, <2>5 DEF SomeOrphan
<1>7. BackupsUsed'
  <2>1. CASE writer[p] = Idle
    <3>1. \A q \in Proc : Asking(q) => Asking(q)'
      BY <1>2, <2>1 DEF Asking
    <3>2. writer[p].pc # "asking"
      BY <2>1, WriterType DEF Shape
    <3>3. UNCHANGED backup
      BY <3>2 DEF Crash, Tear
    <3> QED
      BY <1>1, <1>4, <3>1, <3>3, BackupsStay
  <2>2. CASE writer[p] # Idle
    BY <1>6, <2>2 DEF BackupsUsed
  <2> QED
    BY <2>1, <2>2
<1>8. \A q \in Proc : Rules(q)' => q # p /\ Rules(q)
  BY <1>2 DEF Rules
<1>9. BaseKept'
  BY <1>1, <1>2, <1>8 DEF SameInv, BaseKept
<1>10. RulersSaved'
  <2> SUFFICES ASSUME ~SomeOrphan', NEW q \in Proc, Rules(q)', NEW x \in Command,
                      q[1] \notin torn', x \in ToSet(mem'[q]), origin'[x] # q[1]
               PROVE  x \in ToSet(data'[q[1]])
    BY DEF RulersSaved
  <2>1. q # p /\ Rules(q) /\ mem'[q] = mem[q] /\ q[1] \in Machine
    BY <1>2, <1>8, Processes
  <2>2. x \in ToSet(data[q[1]])
    BY <1>1, <1>4, <2>1 DEF SameInv, RulersSaved
  <2> QED
    BY <1>1, <2>1, <2>2
<1> QED
  BY <1>5, <1>7, <1>9, <1>10 DEF SameInv

\* The steps that only start, move or end a call or a thread.
LEMMA QuietSteps ==
  ASSUME Shape, SameInv,
         UNCHANGED <<origin, done, mem, data, backup, torn>>,
         UNCHANGED writer \/ WritersStay,
         \A p \in Proc : Rules(p)' => Rules(p)
  PROVE  SameInv'
<1>1. WritersStay
  BY DEF WritersStay, Asking
<1> QED
  BY <1>1, SameStays

LEMMA WriterSame ==
  ASSUME Shape, SameInv, NEW p \in Proc,
         StartSending(p) \/ NotSent(p) \/ \E n \in Machine : Send(p, n)
  PROVE  SameInv'
<1>1. UNCHANGED <<origin, done, mem, data, backup, role, torn>>
  BY DEF StartSending, NotSent, Send, fileVars, histVars
<1>2. \A q \in Proc : Rules(q)' => Rules(q)
  BY <1>1 DEF Rules
<1>3. CASE StartSending(p)
  <2>1. writer[p] # Idle /\ ~Asking(p) /\ writer' = [writer EXCEPT ![p].pc = "sending"]
    BY <1>3, WriterType DEF Shape, StartSending, Asking
  <2>2. /\ \A q \in Proc \ {p} : writer'[q] = writer[q]
        /\ writer'[p].cmd = writer[p].cmd
    BY <2>1, WriterPc DEF Shape
  <2>3. WritersStay
    BY <2>1, <2>2 DEF WritersStay, Asking
  <2> QED
    BY <1>1, <1>2, <2>3, QuietSteps
<1>4. CASE NotSent(p)
  <2>1. PICK d \in Pending(p, "update") : SaveCmd(p, d.to)
    BY <1>4 DEF NotSent
  <2>2. writer[p] # Idle
    BY PendingUpdate
  <2>3. WritersStay
    BY <2>1, <2>2, TodoStays DEF SaveCmd
  <2> QED
    BY <1>1, <1>2, <2>3, QuietSteps
<1>5. ASSUME NEW n \in Machine, Send(p, n) PROVE SameInv'
  <2>1. PICK q : q = Peer(p, n)
    OBVIOUS
  <2>2. writer[p] # Idle
    BY <1>5, WriterType DEF Shape, Send
  <2>3. CASE Alive(q)
    <3>1. UNCHANGED writer
      BY <1>5, <2>1, <2>3 DEF Send
    <3> QED
      BY <1>1, <1>2, <3>1, QuietSteps
  <2>4. CASE ~Alive(q)
    <3>1. SaveCmd(p, q)
      BY <1>5, <2>1, <2>4 DEF Send
    <3>2. WritersStay
      BY <2>2, <3>1, TodoStays DEF SaveCmd
    <3> QED
      BY <1>1, <1>2, <3>2, QuietSteps
  <2> QED
    BY <2>3, <2>4
<1> QED
  BY <1>3, <1>4, <1>5

LEMMA OtherSame ==
  ASSUME Shape, SameInv, NEW p \in Proc,
         \/ StartGreeting(p) \/ EndGreeting(p) \/ Restart(p)
         \/ \E n \in Machine : Greet(p, n)
  PROVE  SameInv'
<1>1. UNCHANGED <<origin, done, mem, data, backup, writer, torn>>
  BY DEF StartGreeting, EndGreeting, Restart, Greet, fileVars, histVars
<1>2. \A q \in Proc : Rules(q)' => Rules(q)
  <2>1. CASE EndGreeting(p)
    <3>1. Rules(p)
      BY <2>1 DEF EndGreeting, Rules, Shape, GreetersRule
    <3>2. \A q \in Proc \ {p} : role'[q] = role[q]
      BY <2>1 DEF EndGreeting, Shape, TypeOK
    <3> QED
      BY <3>1, <3>2 DEF Rules
  <2>2. CASE Restart(p)
    <3>1. role'[p] = "slave" /\ \A q \in Proc \ {p} : role'[q] = role[q]
      BY <2>2 DEF Restart, Shape, TypeOK
    <3> QED
      BY <3>1 DEF Rules
  <2>3. CASE StartGreeting(p) \/ \E n \in Machine : Greet(p, n)
    BY <2>3 DEF StartGreeting, Greet, Rules
  <2> QED
    BY <2>1, <2>2, <2>3
<1> QED
  BY <1>1, <1>2, QuietSteps

LEMMA ReplySame ==
  ASSUME Shape, SameInv, NEW p \in Proc, Sent(p) \/ Greeted(p)
  PROVE  SameInv'
<1>1. CASE Sent(p)
  <2>1. PICK d \in Pending(p, "update") :
          /\ RunAll(p, d.cmds)
          /\ writer' = [writer EXCEPT ![p].todo = @ \ {d.to[1]}]
    BY <1>1 DEF Sent
  <2>2. Rules(p) /\ writer[p] # Idle /\ d.cmds \in Seq(Command)
    BY PendingUpdate
  <2>3. WritersStay
    BY <2>1, <2>2, TodoStays
  <2>4. UNCHANGED <<origin, done, backup, role, torn>>
    BY <1>1 DEF Sent, histVars
  <2> QED
    BY <2>1, <2>2, <2>3, <2>4, SameRun
<1>2. CASE Greeted(p)
  <2>1. PICK d \in Pending(p, "greet") : RunAll(p, d.cmds)
    BY <1>2 DEF Greeted
  <2>2. Rules(p) /\ d.cmds \in Seq(Command)
    BY PendingGreet
  <2>3. UNCHANGED <<origin, done, backup, role, writer, torn>>
    BY <1>2 DEF Greeted, histVars
  <2>4. WritersStay
    BY <2>3 DEF WritersStay, Asking
  <2> QED
    BY <2>1, <2>2, <2>3, <2>4, SameRun
<1> QED
  BY <1>1, <1>2

LEMMA CallSame ==
  ASSUME Shape, Reaching, SameInv, NEW d \in calls,
         Update(d) \/ Reset(d) \/ Fetch(d) \/ Timeout(d)
  PROVE  SameInv'
<1>1. d \in Call /\ d.from \in Proc /\ d.to \in Proc /\ d.op \in {"update", "greet"}
  <2>1. d \in Call
    BY DEF Shape, TypeOK, Call
  <2> QED
    BY <2>1, CallType
<1>2. CASE Update(d)
  <2>1. PICK cmds : cmds = <<d.cmd>>
    OBVIOUS
  <2>2. d.op = "update" /\ d.pc = "run"
    BY <1>2 DEF Update
  <2>3. d.cmd \in Command
    BY <1>1, <2>2, CallType
  <2>4. cmds \in Seq(Command) /\ RunAll(d.to, cmds)
    BY <1>2, <2>1, <2>3 DEF Update
  <2>5. Rules(d.to)
    BY <2>2 DEF Reaching
  <2>6. UNCHANGED <<origin, done, backup, role, writer, torn>>
    BY <1>2 DEF Update
  <2>7. WritersStay
    BY <2>6 DEF WritersStay, Asking
  <2> QED
    BY <1>1, <2>4, <2>5, <2>6, <2>7, SameRun
<1>3. CASE Reset(d) \/ Fetch(d)
  <2>1. UNCHANGED <<origin, done, mem, data, backup, role, writer, torn>>
    BY <1>3 DEF Reset, Fetch, procVars, fileVars
  <2>2. \A q \in Proc : Rules(q)' => Rules(q)
    BY <2>1 DEF Rules
  <2> QED
    BY <2>1, <2>2, QuietSteps
<1>4. CASE Timeout(d)
  <2>1. UNCHANGED <<origin, done, mem, data, backup, role, torn>>
    BY <1>4 DEF Timeout, histVars
  <2>2. \A q \in Proc : Rules(q)' => Rules(q)
    BY <2>1 DEF Rules
  <2>3. CASE d.op = "update"
    <3>1. SaveCmd(d.from, d.to)
      BY <1>4, <2>3 DEF Timeout
    <3>2. d \in Pending(d.from, "update")
      BY <1>4, <2>3 DEF Timeout, Pending
    <3>3. writer[d.from] # Idle
      BY <1>1, <3>2, PendingUpdate
    <3>4. WritersStay
      BY <1>1, <3>1, <3>3, TodoStays DEF SaveCmd
    <3> QED
      BY <2>1, <2>2, <3>4, QuietSteps
  <2>4. CASE d.op # "update"
    <3>1. UNCHANGED writer
      BY <1>4, <2>4 DEF Timeout
    <3> QED
      BY <2>1, <2>2, <3>1, QuietSteps
  <2> QED
    BY <2>3, <2>4
<1> QED
  BY <1>2, <1>3, <1>4

LEMMA InitSame == Init => SameInv
<1> SUFFICES ASSUME Init PROVE SameInv
  OBVIOUS
<1>1. WritersOpen /\ BackupsUsed
  BY DEF Init, WritersOpen, BackupsUsed
<1>2. \A n \in Machine : data[n] = Base /\ backup[n] = {}
  BY DEF Init
<1>3. \A p \in Proc : Rules(p) => mem[p] = Base
  BY DEF Init, Rules
<1>4. BaseKept
  BY <1>2, <1>3 DEF BaseKept
<1>5. RulersSaved
  BY <1>2, <1>3, Processes DEF RulersSaved
<1> QED
  BY <1>1, <1>4, <1>5 DEF SameInv

LEMMA NextSame ==
  Shape /\ Control /\ Data /\ SameInv /\ [Next]_vars => SameInv'
<1> SUFFICES ASSUME Shape, Control, Data, SameInv, [Next]_vars PROVE SameInv'
  OBVIOUS
<1>1. CASE UNCHANGED vars
  <2>1. UNCHANGED <<origin, done, mem, data, backup, writer, role, torn>>
    BY <1>1 DEF vars, procVars, fileVars, histVars
  <2>2. \A q \in Proc : Rules(q)' => Rules(q)
    BY <2>1 DEF Rules
  <2> QED
    BY <2>1, <2>2, QuietSteps
<1>2. ASSUME NEW p \in Proc, NEW c \in Command, Submit(p, c) PROVE SameInv'
  BY <1>2, SubmitSame DEF Data
<1>3. ASSUME NEW p \in Proc,
             Save(p) \/ StartSending(p) \/ Sent(p) \/ NotSent(p) \/ Answer(p)
      PROVE  SameInv'
  BY <1>3, SaveSame, WriterSame, ReplySame, AnswerSame
<1>4. ASSUME NEW p \in Proc, NEW n \in Machine, Send(p, n) \/ Greet(p, n)
      PROVE  SameInv'
  BY <1>4, WriterSame, OtherSame
<1>5. ASSUME NEW p \in Proc,
             \/ TakeOver(p) \/ StartGreeting(p) \/ Greeted(p)
             \/ EndGreeting(p) \/ Crash(p) \/ Restart(p)
      PROVE  SameInv'
  BY <1>5, TakeOverSame, OtherSame, ReplySame, CrashSame
<1>6. ASSUME NEW c \in calls, Update(c) \/ Reset(c) \/ Fetch(c) \/ Timeout(c)
      PROVE  SameInv'
  BY <1>6, CallSame DEF Control
<1> QED
  BY <1>1, <1>2, <1>3, <1>4, <1>5, <1>6, Steps

\* All that a machine has of its rooms when everything has been sent and run.
LEMMA QuietSame ==
  ASSUME IInv, Fresh, SameInv, OneFailure, Quiet, dropped = {},
         NEW m \in Machine, NEW n \in Machine \ torn
  PROVE  ToSet(data[m]) \subseteq ToSet(data[n])
<1> SUFFICES ASSUME NEW c \in ToSet(data[m]) PROVE c \in ToSet(data[n])
  OBVIOUS
<1>1. Shape /\ Data
  BY DEF IInv
<1>2. c \in Command \cup ToSet(Base)
  <2>1. data[m] \in Seq(Command \cup ToSet(Base))
    BY <1>1 DEF Shape, TypeOK, Log
  <2> QED
    BY <2>1, SetOfSeq
<1>3. CASE c \in ToSet(Base)
  BY <1>3 DEF SameInv, BaseKept
<1>4. CASE c \in Command
  <2>1. c \in done
    <3>1. data[m] \in Logs(m)
      BY DEF Logs
    <3>2. origin[c] # NoMachine
      BY <1>4, <3>1 DEF Fresh, Known
    <3> QED
      BY <1>4, <3>2 DEF Quiet
  <2>2. CASE n = origin[c]
    BY <1>1, <1>4, <2>1, <2>2 DEF Data, SavedFirst, Abroad, Safe
  <2>3. CASE n # origin[c]
    <3>1. Settled(c, n)
      BY <1>1, <2>1, <2>3 DEF Data, DoneSettled
    <3>2. ~SavedFor(c, n)
      BY Processes, SetOfSeq DEF Quiet, NothingSaved, SavedFor
    <3>3. ~Returning(c, n) /\ <<c, n>> \notin dropped
      BY DEF Quiet, Returning
    <3>4. Ran(c, n)
      BY <3>1, <3>2, <3>3 DEF Settled
    <3>5. ~SomeOrphan
      BY DEF Quiet, SomeOrphan, Orphan
    <3>6. CASE (\A i \in Index : ~Rules(<<n, i>>)) /\ c \in ToSet(data[n])
      BY <3>6
    <3>7. CASE \E i \in Index : Rules(<<n, i>>) /\ c \in ToSet(mem[<<n, i>>])
      <4>1. PICK i \in Index : Rules(<<n, i>>) /\ c \in ToSet(mem[<<n, i>>])
        BY <3>7
      <4>2. PICK p \in Proc : p = <<n, i>> /\ p[1] = n
        BY Processes
      <4> QED
        BY <1>4, <2>3, <3>5, <4>1, <4>2 DEF SameInv, RulersSaved
    <3> QED
      BY <3>4, <3>6, <3>7 DEF Ran
  <2> QED
    BY <2>2, <2>3
<1> QED
  BY <1>2, <1>3, <1>4

\* Until the second failure: when everything has been sent and run, and no reply
\* was lost, all machines have the same commands in their data.dat, but one with
\* a process that was killed while it wrote its files.
THEOREM SameInTheEnd == Spec => []SameSets
<1> DEFINE Inv == IInv /\ RunsInv /\ (OneFailure => SameInv)
<1>1. Init => Inv
  BY InitInv, InitRuns, InitSame
<1>2. Inv /\ [Next]_vars => Inv'
  <2> SUFFICES ASSUME Inv, [Next]_vars PROVE Inv'
    OBVIOUS
  <2>1. IInv'
    BY NextInv
  <2>2. RunsInv'
    BY NextRuns DEF IInv
  <2>3. ASSUME OneFailure' PROVE SameInv'
    <3>1. OneFailure
      BY <2>3, <2>1, EarlierFailures DEF IInv
    <3> QED
      BY <3>1, NextSame DEF IInv
  <2> QED
    BY <2>1, <2>2, <2>3
<1>3. Inv => SameSets
  <2> SUFFICES ASSUME Inv, OneFailure, Quiet, dropped = {},
                      NEW m \in Machine \ torn, NEW n \in Machine \ torn
               PROVE  ToSet(data[m]) = ToSet(data[n])
    BY DEF SameSets
  <2>1. ToSet(data[m]) \subseteq ToSet(data[n])
    BY QuietSame DEF RunsInv
  <2>2. ToSet(data[n]) \subseteq ToSet(data[m])
    BY QuietSame DEF RunsInv
  <2> QED
    BY <2>1, <2>2
<1> QED
  BY <1>1, <1>2, <1>3, PTL DEF Spec
=============================================================================
