------------------------- MODULE ReplicationProofs -------------------------
(***************************************************************************)
(* Proofs about Replication, for every set of machines and commands, any   *)
(* number of processes per machine and any bound on the failures.          *)
(***************************************************************************)
EXTENDS Replication, TLAPS

-----------------------------------------------------------------------------
(***************************************************************************)
(* What holds after any number of failures                                 *)
(***************************************************************************)

\* A machine has one ruler at most.
OneRuler ==
  \A m \in Machine, i, j \in Index :
    Rules(<<m, i>>) /\ Rules(<<m, j>>) => i = j

\* Who writes a command rules, got it from a client, and sends it to others.
WritersRule ==
  \A p \in Proc : writer[p] # Idle =>
    /\ Rules(p)
    /\ writer[p].todo \subseteq Others(p[1])
    /\ origin[writer[p].cmd] = p[1]

GreetersRule ==
  \A p \in Proc :
    /\ comm[p] = "greet" => role[p] = "greeting"
    /\ role[p] = "greeting" => greet[p].dead \in Index
    /\ greet[p].todo \subseteq Others(p[1])

\* The caller of an RPC that is heard waits for it.
CallersWait ==
  \A c \in calls :
    /\ c.op = "update" /\ c.heard =>
         /\ writer[c.from].pc = "sending"
         /\ writer[c.from].cmd = c.cmd
         /\ c.to[1] \in writer[c.from].todo
    /\ c.op = "greet" /\ c.heard =>
         /\ role[c.from] = "greeting"
         /\ c.to[1] \in greet[c.from].todo
    /\ c.op = "greet" => c.dead \in Index

OneCall ==
  \A c, d \in calls :
    c.heard /\ d.heard /\ c.from = d.from /\ c.op = d.op => c = d

Shape == /\ TypeOK
         /\ OneRuler
         /\ WritersRule
         /\ GreetersRule
         /\ CallersWait
         /\ OneCall

-----------------------------------------------------------------------------
(***************************************************************************)
(* What holds of masters, tables and calls until the second failure        *)
(***************************************************************************)

\* The master that machine m was started with still rules.
Orig(m) == Rules(<<m, Size>>)

OneChanged ==
  /\ \A m, n \in Machine : ~Orig(m) /\ ~Orig(n) => m = n
  /\ \A m \in Machine : ~Orig(m) => crashes = 1

\* It is started again only when another has taken over.
Replaced ==
  \A m \in Machine :
    /\ ~Orig(m) /\ Alive(<<m, Size>>) =>
         \E i \in Index : role[<<m, i>>] = "master"
    /\ role[<<m, Size>>] # "greeting"

\* The tables name the first master until another rules, and the masters that
\* have been told of that one name him.
Tables ==
  \A n \in Machine :
    /\ Orig(n) => \A p \in Proc : table[p][n] = Size
    /\ \A i \in Index, k \in Others(n) :
         \/ role[<<n, i>>] = "master"
         \/ role[<<n, i>>] = "greeting" /\ k \notin greet[<<n, i>>].todo
         => table[<<k, Size>>][n] = i
    /\ \A p \in Proc : table[p][n] = Size \/ Rules(<<n, table[p][n]>>)

\* Who is called rules when the handler starts; a call that has not ended
\* returns nothing yet.
Reaching ==
  \A c \in calls :
    /\ c.op = "update" /\ c.pc = "run" => Rules(c.to)
    /\ c.op = "greet" =>
         /\ c.heard
         /\ c.to[2] = Size /\ c.to[1] # c.from[1]
         /\ c.cmd = c.from[2]
         /\ c.pc # "failed"
         /\ c.pc # "run" => table[c.to][c.from[1]] = c.from[2]
    /\ c.pc # "done" => c.cmds = <<>>

Unharmed ==
  crashes + timeouts = 0 =>
    /\ NothingSaved
    /\ \A c \in calls : c.cmds = <<>> /\ c.pc # "failed"

Control == /\ OneChanged
           /\ Replaced
           /\ Tables
           /\ Reaching
           /\ Unharmed

-----------------------------------------------------------------------------
(***************************************************************************)
(* Where the commands are until the second failure                         *)
(***************************************************************************)

\* A process or file of machine n has command c among its rooms.
InRooms(c, n) ==
  \/ c \in ToSet(data[n])
  \/ \E b \in backup[n] : c \in ToSet(b)
  \/ \E i \in Index : Rules(<<n, i>>) /\ c \in ToSet(mem[<<n, i>>])

\* Its writer has written the data of its machine.
Sealed(c) ==
  \E p \in Proc : /\ writer[p] # Idle
                  /\ writer[p].pc \in {"saved", "sending"}
                  /\ writer[p].cmd = c

\* Command c is known outside of the machine that got it, or may be soon.
Abroad(c) ==
  \/ \E n \in Machine : n # origin[c] /\ InRooms(c, n)
  \/ \E m \in Machine, p \in Proc : c \in ToSet(failed[m][p])
  \/ \E d \in calls : (d.op = "update" /\ d.cmd = c) \/ c \in ToSet(d.cmds)
  \/ c \in done
  \/ Sealed(c)

\* All that machine n has of its rooms has c, if its files are whole.
Safe(c, n) ==
  \/ n \in torn
  \/ /\ c \in ToSet(data[n])
     /\ \A i \in Index : Rules(<<n, i>>) => c \in ToSet(mem[<<n, i>>])
     /\ \A b \in backup[n] : c \in ToSet(b)

SavedFirst ==
  \A c \in Command :
    Abroad(c) => origin[c] # NoMachine /\ Safe(c, origin[c])

WritersKnow ==
  \A p \in Proc : writer[p] # Idle => writer[p].cmd \in ToSet(mem[p])

\* What comes from elsewhere is written when it is run.
Written ==
  \A n \in Machine, c \in Command :
    Orig(n) /\ origin[c] # n /\ c \in ToSet(mem[<<n, Size>>])
      => c \in ToSet(data[n])

\* The ruler of machine n has run c; without a ruler, the data have it, if they
\* are whole.
Ran(c, n) ==
  \/ n \in torn
  \/ \E i \in Index : Rules(<<n, i>>) /\ c \in ToSet(mem[<<n, i>>])
  \/ (\A i \in Index : ~Rules(<<n, i>>)) /\ c \in ToSet(data[n])

\* Nothing is left to do so that n gets c.
Settled(c, n) ==
  \/ Ran(c, n)
  \/ SavedFor(c, n)
  \/ Returning(c, n)
  \/ <<c, n>> \in dropped

DoneSettled ==
  \A c \in done, n \in Machine : n # origin[c] => Settled(c, n)

SentSettled ==
  \A p \in Proc : writer[p] # Idle =>
    \A n \in Others(p[1]) \ writer[p].todo : Settled(writer[p].cmd, n)

CallsRun ==
  \A c \in calls :
    c.op = "update" /\ c.heard /\ c.pc \in {"fetch", "done"}
      => Ran(c.cmd, c.to[1])

Data == /\ SavedFirst
        /\ WritersKnow
        /\ Written
        /\ DoneSettled
        /\ SentSettled
        /\ CallsRun

-----------------------------------------------------------------------------
(***************************************************************************)
(* Sequences, processes and records                                        *)
(***************************************************************************)

LEMMA AppendSet ==
  ASSUME NEW S, NEW s \in Seq(S), NEW e \in S
  PROVE  /\ Append(s, e) \in Seq(S)
         /\ ToSet(Append(s, e)) = ToSet(s) \cup {e}
<1>1. /\ Append(s, e) \in Seq(S)
      /\ DOMAIN Append(s, e) = DOMAIN s \cup {Len(s) + 1}
      /\ Append(s, e)[Len(s) + 1] = e
      /\ \A i \in DOMAIN s : Append(s, e)[i] = s[i]
  OBVIOUS
<1> QED
  BY <1>1 DEF ToSet

LEMMA ConcatSet ==
  ASSUME NEW S, NEW s \in Seq(S), NEW t \in Seq(S)
  PROVE  /\ s \o t \in Seq(S)
         /\ ToSet(s \o t) = ToSet(s) \cup ToSet(t)
<1>1. /\ s \o t \in Seq(S)
      /\ \A i \in DOMAIN s : i \in DOMAIN (s \o t) /\ (s \o t)[i] = s[i]
      /\ \A i \in DOMAIN t :
           /\ Len(s) + i \in DOMAIN (s \o t)
           /\ (s \o t)[Len(s) + i] = t[i]
      /\ \A i \in DOMAIN (s \o t) :
           \/ i \in DOMAIN s
           \/ i - Len(s) \in DOMAIN t /\ i = Len(s) + (i - Len(s))
  OBVIOUS
<1>2. ToSet(s) \cup ToSet(t) \subseteq ToSet(s \o t)
  <2>1. ASSUME NEW i \in DOMAIN s PROVE s[i] \in ToSet(s \o t)
    BY <1>1 DEF ToSet
  <2>2. ASSUME NEW i \in DOMAIN t PROVE t[i] \in ToSet(s \o t)
    <3>1. PICK j \in DOMAIN (s \o t) : (s \o t)[j] = t[i]
      BY <1>1
    <3> QED
      BY <3>1 DEF ToSet
  <2> QED
    BY <2>1, <2>2 DEF ToSet
<1>3. ASSUME NEW i \in DOMAIN (s \o t)
      PROVE  (s \o t)[i] \in ToSet(s) \cup ToSet(t)
  <2>1. CASE i \in DOMAIN s
    BY <1>1, <2>1 DEF ToSet
  <2>2. CASE i \notin DOMAIN s
    <3>1. PICK j \in DOMAIN t : i = Len(s) + j
      BY <1>1, <2>2
    <3>2. (s \o t)[i] = t[j]
      BY <1>1, <3>1
    <3> QED
      BY <3>2 DEF ToSet
  <2> QED
    BY <2>1, <2>2
<1> QED
  BY <1>1, <1>2, <1>3 DEF ToSet

LEMMA SetOfSeq ==
  /\ ToSet(<<>>) = {}
  /\ \A S : \A s \in Seq(S) : ToSet(s) \subseteq S
  /\ \A e : ToSet(<<e>>) = {e}
<1>1. ToSet(<<>>) = {}
  BY DEF ToSet
<1>2. ASSUME NEW S, NEW s \in Seq(S) PROVE ToSet(s) \subseteq S
  BY DEF ToSet
<1>3. ASSUME NEW e PROVE ToSet(<<e>>) = {e}
  <2>1. DOMAIN <<e>> = {1} /\ <<e>>[1] = e
    OBVIOUS
  <2> QED BY <2>1 DEF ToSet
<1> QED
  BY <1>1, <1>2, <1>3

LEMMA Processes ==
  /\ \A p \in Proc : p[1] \in Machine /\ p[2] \in Index /\ p = <<p[1], p[2]>>
  /\ \A m \in Machine, i \in Index :
       <<m, i>> \in Proc /\ <<m, i>>[1] = m /\ <<m, i>>[2] = i
  /\ Size \in Index
BY SizeAssumption DEF Proc, Index

Call == Calls("update", Command) \cup Calls("greet", Index)

Stage == {"run", "fetch", "done", "failed"}

LEMMA CallType ==
  ASSUME NEW c \in Call
  PROVE  /\ c.from \in Proc /\ c.to \in Proc /\ c.heard \in BOOLEAN
         /\ c.op \in {"update", "greet"}
         /\ c.op = "update" => c.cmd \in Command
         /\ c.op = "greet" => c.cmd \in Index
         /\ c.dead \in Index \cup {0}
         /\ c.pc \in {"run", "fetch", "done", "failed"}
         /\ c.cmds \in Seq(Command)
BY DEF Call, Calls

\* A call that changes.
Moved(c, pc, cmds) == [c EXCEPT !.pc = pc, !.cmds = cmds]

LEMMA CallUnheard ==
  ASSUME NEW c \in Call
  PROVE  LET d == [c EXCEPT !.heard = FALSE] IN
         /\ d \in Call /\ d.heard = FALSE
         /\ d.from = c.from /\ d.to = c.to /\ d.op = c.op /\ d.cmd = c.cmd
         /\ d.dead = c.dead /\ d.pc = c.pc /\ d.cmds = c.cmds
BY DEF Call, Calls

LEMMA CallGoes ==
  ASSUME NEW c \in Call, NEW pc \in Stage,
         NEW cmds \in Seq(Command)
  PROVE  LET d == Moved(c, pc, cmds) IN
         /\ d \in Call /\ d.pc = pc /\ d.cmds = cmds
         /\ d.from = c.from /\ d.to = c.to /\ d.op = c.op /\ d.cmd = c.cmd
         /\ d.dead = c.dead /\ d.heard = c.heard
BY DEF Call, Calls, Stage, Moved

LEMMA CallFails ==
  ASSUME NEW c \in Call
  PROVE  LET d == [c EXCEPT !.pc = "failed"] IN
         /\ d \in Call /\ d.pc = "failed" /\ d.cmds = c.cmds
         /\ d.from = c.from /\ d.to = c.to /\ d.op = c.op /\ d.cmd = c.cmd
         /\ d.dead = c.dead /\ d.heard = c.heard
BY DEF Call, Calls

LEMMA CallNew ==
  ASSUME NEW p \in Proc, NEW q \in Proc
  PROVE  /\ \A x \in Command : Called(p, q, "update", x, 0) \in Call
         /\ \A i, j \in Index : Called(p, q, "greet", i, j) \in Call
<1>1. <<>> \in Seq(Command)
  OBVIOUS
<1>2. ASSUME NEW x \in Command PROVE Called(p, q, "update", x, 0) \in Calls("update", Command)
  BY <1>1 DEF Called, Calls
<1>3. ASSUME NEW i \in Index, NEW j \in Index
      PROVE Called(p, q, "greet", i, j) \in Calls("greet", Index)
  BY <1>1 DEF Called, Calls
<1> QED
  BY <1>2, <1>3 DEF Call

LEMMA WriterType ==
  ASSUME TypeOK, NEW p \in Proc
  PROVE  /\ writer[p] \in {Idle} \cup Writing
         /\ writer[p] # Idle =>
              /\ writer[p].pc \in {"asking", "saved", "sending"}
              /\ writer[p].cmd \in Command
              /\ writer[p].todo \subseteq Machine
         /\ writer[p] = Idle <=> writer[p].pc = "idle"
<1>1. writer[p] \in {Idle} \cup Writing
  BY DEF TypeOK
<1>2. Idle.pc = "idle"
  BY DEF Idle
<1>3. \A w \in Writing : /\ w.pc \in {"asking", "saved", "sending"}
                         /\ w.cmd \in Command /\ w.todo \subseteq Machine
  BY DEF Writing
<1> QED
  BY <1>1, <1>2, <1>3

\* The writer of p goes on, or has one machine less to send to.
LEMMA WriterPc ==
  ASSUME TypeOK, NEW p \in Proc, writer[p] # Idle,
         NEW pc \in {"asking", "saved", "sending"},
         writer' = [writer EXCEPT ![p].pc = pc]
  PROVE  /\ writer' \in [Proc -> {Idle} \cup Writing]
         /\ \A q \in Proc \ {p} : writer'[q] = writer[q]
         /\ writer'[p] # Idle /\ writer'[p].pc = pc
         /\ writer'[p].cmd = writer[p].cmd /\ writer'[p].todo = writer[p].todo
<1>1. writer \in [Proc -> {Idle} \cup Writing] /\ writer[p] \in Writing
  BY DEF TypeOK
<1>2. PICK new : new = [writer[p] EXCEPT !.pc = pc]
  OBVIOUS
<1>3. /\ new \in Writing /\ new.pc = pc
      /\ new.cmd = writer[p].cmd /\ new.todo = writer[p].todo
  BY <1>1, <1>2 DEF Writing
<1>4. new # Idle
  BY <1>3 DEF Idle
<1>5. writer' = [writer EXCEPT ![p] = new]
  BY <1>2
<1> QED
  BY <1>1, <1>3, <1>4, <1>5

LEMMA WriterTodo ==
  ASSUME TypeOK, NEW p \in Proc, writer[p] # Idle, NEW n,
         writer' = [writer EXCEPT ![p].todo = @ \ {n}]
  PROVE  /\ writer' \in [Proc -> {Idle} \cup Writing]
         /\ \A q \in Proc \ {p} : writer'[q] = writer[q]
         /\ writer'[p] # Idle /\ writer'[p].pc = writer[p].pc
         /\ writer'[p].cmd = writer[p].cmd
         /\ writer'[p].todo = writer[p].todo \ {n}
<1>1. writer \in [Proc -> {Idle} \cup Writing] /\ writer[p] \in Writing
  BY DEF TypeOK
<1>2. PICK new : new = [writer[p] EXCEPT !.todo = writer[p].todo \ {n}]
  OBVIOUS
<1>3. /\ new \in Writing /\ new.pc = writer[p].pc
      /\ new.cmd = writer[p].cmd /\ new.todo = writer[p].todo \ {n}
  BY <1>1, <1>2 DEF Writing
<1>4. new # Idle
  BY <1>1, <1>3 DEF Idle, Writing
<1>5. writer' = [writer EXCEPT ![p] = new]
  BY <1>2
<1> QED
  BY <1>1, <1>3, <1>4, <1>5

Greeting == [dead : Index \cup {0}, todo : SUBSET Machine]

LEMMA GreetTodo ==
  ASSUME TypeOK, NEW p \in Proc, NEW n,
         greet' = [greet EXCEPT ![p].todo = @ \ {n}]
  PROVE  /\ greet' \in [Proc -> Greeting]
         /\ \A q \in Proc \ {p} : greet'[q] = greet[q]
         /\ greet'[p].dead = greet[p].dead
         /\ greet'[p].todo = greet[p].todo \ {n}
<1>1. greet \in [Proc -> Greeting] /\ greet[p] \in Greeting
  BY DEF TypeOK, Greeting
<1>2. PICK new : new = [greet[p] EXCEPT !.todo = greet[p].todo \ {n}]
  OBVIOUS
<1>3. /\ new \in Greeting /\ new.dead = greet[p].dead
      /\ new.todo = greet[p].todo \ {n}
  BY <1>1, <1>2 DEF Greeting
<1>4. greet' = [greet EXCEPT ![p] = new]
  BY <1>2
<1> QED
  BY <1>1, <1>3, <1>4

\* A command that could not be sent is added to the commands for one process.
LEMMA CmdSaved ==
  ASSUME TypeOK, NEW p \in Proc, NEW q \in Proc, writer[p] # Idle, SaveCmd(p, q)
  PROVE  /\ failed' \in [Machine -> [Proc -> Seq(Command)]]
         /\ ToSet(failed'[p[1]][q]) = ToSet(failed[p[1]][q]) \cup {writer[p].cmd}
         /\ \A m \in Machine, r \in Proc :
              (m = p[1] /\ r = q) \/ failed'[m][r] = failed[m][r]
         /\ writer' \in [Proc -> {Idle} \cup Writing]
<1> DEFINE s == failed[p[1]][q]
<1>1. /\ failed \in [Machine -> [Proc -> Seq(Command)]] /\ p[1] \in Machine
      /\ s \in Seq(Command) /\ writer[p].cmd \in Command
  BY WriterType, Processes DEF TypeOK
<1>2. PICK new : new = Append(s, writer[p].cmd)
  OBVIOUS
<1>3. new \in Seq(Command) /\ ToSet(new) = ToSet(s) \cup {writer[p].cmd}
  BY <1>1, <1>2, AppendSet
<1>4. failed' = [failed EXCEPT ![p[1]] = [failed[p[1]] EXCEPT ![q] = new]]
  BY <1>1, <1>2 DEF SaveCmd
<1>5. failed' \in [Machine -> [Proc -> Seq(Command)]]
  BY <1>1, <1>3, <1>4
<1>6. \A m \in Machine, r \in Proc :
        failed'[m][r] = IF m = p[1] /\ r = q THEN new ELSE failed[m][r]
  BY <1>1, <1>4
<1>7. writer' = [writer EXCEPT ![p].todo = @ \ {q[1]}]
  BY DEF SaveCmd
<1>8. writer' \in [Proc -> {Idle} \cup Writing]
  BY <1>7, WriterTodo
<1> QED
  BY <1>1, <1>3, <1>5, <1>6, <1>8

\* Commands are run in a process.
LEMMA CmdsRun ==
  ASSUME TypeOK, NEW p \in Proc, NEW cmds \in Seq(Command), RunAll(p, cmds)
  PROVE  /\ mem' \in [Proc -> Log] /\ data' \in [Machine -> Log]
         /\ \A q \in Proc \ {p} : mem'[q] = mem[q]
         /\ ToSet(mem'[p]) = ToSet(mem[p]) \cup ToSet(cmds)
         /\ \A n \in Machine \ {p[1]} : data'[n] = data[n]
         /\ \/ cmds = <<>> /\ data' = data /\ mem' = mem
            \/ data'[p[1]] = mem'[p]
<1>1. /\ mem \in [Proc -> Log] /\ data \in [Machine -> Log] /\ p[1] \in Machine
      /\ mem[p] \in Seq(Command \cup ToSet(Base))
      /\ cmds \in Seq(Command \cup ToSet(Base))
  BY Processes DEF TypeOK, Log
<1>2. PICK new : new = mem[p] \o cmds
  OBVIOUS
<1>3. new \in Log /\ ToSet(new) = ToSet(mem[p]) \cup ToSet(cmds)
  BY <1>1, <1>2, ConcatSet DEF Log
<1>4. mem' = [mem EXCEPT ![p] = new]
  BY <1>2 DEF RunAll
<1>5. mem' \in [Proc -> Log] /\ mem'[p] = new /\ \A q \in Proc \ {p} : mem'[q] = mem[q]
  BY <1>1, <1>3, <1>4
<1>6. CASE cmds = <<>>
  <2>1. new = mem[p]
    BY <1>1, <1>2, <1>6
  <2>2. mem' = mem /\ data' = data
    BY <1>1, <1>4, <1>6, <2>1 DEF RunAll
  <2> QED
    BY <1>1, <1>3, <1>5, <1>6, <2>2
<1>7. CASE cmds # <<>>
  <2>1. data' = [data EXCEPT ![p[1]] = new]
    BY <1>5, <1>7 DEF RunAll
  <2> QED
    BY <1>1, <1>3, <1>5, <2>1
<1> QED
  BY <1>6, <1>7

\* A handler goes on; if it ends unheard, what it returns is dropped.
LEMMA CallGone ==
  ASSUME TypeOK, NEW c \in calls, NEW pc \in Stage,
         NEW cmds \in Seq(Command), Goes(c, pc, cmds)
  PROVE  /\ calls' \subseteq Call
         /\ dropped \subseteq dropped' /\ dropped' \subseteq Command \X Machine
         /\ \A d \in calls : d # c => d \in calls'
         /\ \A d \in calls' :
              \/ d \in calls /\ d # c
              \/ /\ pc # "done" \/ c.heard
                 /\ d = Moved(c, pc, cmds)
         /\ pc # "done" \/ c.heard => Moved(c, pc, cmds) \in calls' /\ dropped' = dropped
         /\ pc = "done" /\ ~c.heard =>
              dropped' = dropped \cup (ToSet(cmds) \X {c.from[1]})
<1>1. calls \subseteq Call /\ c \in Call /\ dropped \subseteq Command \X Machine
  BY DEF TypeOK, Call
<1>2. ToSet(cmds) \subseteq Command /\ c.from[1] \in Machine
  BY <1>1, SetOfSeq, CallType, Processes
<1>3. PICK new : new = Moved(c, pc, cmds)
  OBVIOUS
<1>4. new \in Call
  BY <1>1, <1>3, CallGoes
<1>5. CASE pc = "done" /\ ~c.heard
  <2>1. /\ calls' = calls \ {c}
        /\ dropped' = dropped \cup (ToSet(cmds) \X {c.from[1]})
    BY <1>5 DEF Goes
  <2> QED
    BY <1>1, <1>2, <1>5, <2>1
<1>6. CASE ~(pc = "done" /\ ~c.heard)
  <2>1. calls' = (calls \ {c}) \cup {new} /\ dropped' = dropped
    BY <1>3, <1>6 DEF Goes, Moved
  <2> QED
    BY <1>1, <1>3, <1>4, <1>6, <2>1
<1> QED
  BY <1>5, <1>6

\* What a crash does to a call: its caller hears no more of it, or it fails.
LEMMA CallsOfDead ==
  ASSUME TypeOK, NEW p \in Proc, Crash(p)
  PROVE  /\ calls' \subseteq Call
         /\ dropped \subseteq dropped' /\ dropped' \subseteq Command \X Machine
         /\ \A c \in calls : c.from = p => ToSet(c.cmds) \X {p[1]} \subseteq dropped'
         /\ \A d \in calls' : \E c \in calls :
              /\ d.from = c.from /\ d.to = c.to /\ d.op = c.op /\ d.cmd = c.cmd
              /\ d.dead = c.dead /\ d.cmds = c.cmds
              /\ \/ c.from # p /\ c.to # p /\ d = c
                 \/ /\ c.from # p /\ c.to = p /\ d.pc = "failed"
                    /\ d = [c EXCEPT !.pc = "failed"]
                    /\ d.heard = c.heard /\ (c.heard \/ c.pc = "done")
                 \/ /\ c.from = p /\ c.to # p /\ ~d.heard /\ d.pc = c.pc
                    /\ c.pc \in {"run", "fetch"}
                    /\ d = [c EXCEPT !.heard = FALSE]
         /\ \A c \in calls :
              /\ c.from # p /\ c.to # p => c \in calls'
              /\ c.from # p /\ c.to = p /\ c.heard =>
                   [c EXCEPT !.pc = "failed"] \in calls'
<1>1. calls \subseteq Call /\ dropped \subseteq Command \X Machine /\ p[1] \in Machine
  BY Processes DEF TypeOK, Call
<1>2. ASSUME NEW c \in calls PROVE ToSet(c.cmds) \subseteq Command
  BY <1>1, CallType, SetOfSeq
<1>3. dropped' = dropped \cup UNION {ToSet(c.cmds) \X {p[1]} :
                                       c \in {d \in calls : d.from = p}}
  BY DEF Crash
<1>4. dropped' \subseteq Command \X Machine
  <2>1. ASSUME NEW x \in UNION {ToSet(c.cmds) \X {p[1]} :
                                  c \in {d \in calls : d.from = p}}
        PROVE  x \in Command \X Machine
    <3>1. PICK c \in calls : x \in ToSet(c.cmds) \X {p[1]}
      BY <2>1
    <3> QED
      BY <1>1, <1>2, <3>1
  <2> QED
    BY <1>1, <1>3, <2>1
<1>5. \A c \in calls : c.from = p => ToSet(c.cmds) \X {p[1]} \subseteq dropped'
  BY <1>3
<1>6. calls' =
       {IF c.to = p THEN [c EXCEPT !.pc = "failed"] ELSE c :
          c \in {d \in calls : d.from # p /\ (d.to = p /\ d.pc # "done"
                                                => d.heard)}}
       \cup {[c EXCEPT !.heard = FALSE] :
               c \in {d \in calls : d.from = p /\ d.to # p
                                    /\ d.pc \in {"run", "fetch"}}}
  BY DEF Crash
<1>7. ASSUME NEW d \in calls'
      PROVE  /\ d \in Call
             /\ \E c \in calls :
                  /\ d.from = c.from /\ d.to = c.to /\ d.op = c.op /\ d.cmd = c.cmd
                  /\ d.dead = c.dead /\ d.cmds = c.cmds
                  /\ \/ c.from # p /\ c.to # p /\ d = c
                     \/ /\ c.from # p /\ c.to = p /\ d.pc = "failed"
                        /\ d = [c EXCEPT !.pc = "failed"]
                        /\ d.heard = c.heard /\ (c.heard \/ c.pc = "done")
                     \/ /\ c.from = p /\ c.to # p /\ ~d.heard /\ d.pc = c.pc
                        /\ c.pc \in {"run", "fetch"}
                        /\ d = [c EXCEPT !.heard = FALSE]
  <2>1. CASE \E c \in calls : /\ c.from # p /\ (c.to = p /\ c.pc # "done" => c.heard)
                              /\ d = IF c.to = p THEN [c EXCEPT !.pc = "failed"] ELSE c
    <3>1. PICK c \in calls : /\ c.from # p /\ (c.to = p /\ c.pc # "done" => c.heard)
                             /\ d = IF c.to = p THEN [c EXCEPT !.pc = "failed"] ELSE c
      BY <2>1
    <3>2. c \in Call
      BY <1>1
    <3>3. CASE c.to = p
      <4>1. d = [c EXCEPT !.pc = "failed"]
        BY <3>1, <3>3
      <4> QED
        BY <3>1, <3>2, <3>3, <4>1, CallFails
    <3>4. CASE c.to # p
      BY <3>1, <3>2, <3>4
    <3> QED
      BY <3>3, <3>4
  <2>2. CASE \E c \in calls : /\ c.from = p /\ c.to # p /\ c.pc \in {"run", "fetch"}
                              /\ d = [c EXCEPT !.heard = FALSE]
    <3>1. PICK c \in calls : /\ c.from = p /\ c.to # p /\ c.pc \in {"run", "fetch"}
                             /\ d = [c EXCEPT !.heard = FALSE]
      BY <2>2
    <3>2. c \in Call
      BY <1>1
    <3> QED
      BY <3>1, <3>2, CallUnheard
  <2> QED
    BY <1>6, <2>1, <2>2
<1>8. ASSUME NEW c \in calls
      PROVE  /\ c.from # p /\ c.to # p => c \in calls'
             /\ c.from # p /\ c.to = p /\ c.heard =>
                  [c EXCEPT !.pc = "failed"] \in calls'
  BY <1>6
<1>9. dropped \subseteq dropped' /\ calls' \subseteq Call
  BY <1>3, <1>7
<1> QED
  BY <1>4, <1>5, <1>7, <1>8, <1>9

-----------------------------------------------------------------------------
(***************************************************************************)
(* Types                                                                   *)
(***************************************************************************)

LEMMA SubmitType ==
  ASSUME TypeOK, NEW p \in Proc, NEW c \in Command, Submit(p, c)
  PROVE  TypeOK'
<1>1. /\ p[1] \in Machine /\ mem \in [Proc -> Log] /\ mem[p] \in Log
      /\ c \in Command \cup ToSet(Base)
  BY Processes DEF TypeOK
<1>2. PICK new : new = Append(mem[p], c)
  OBVIOUS
<1>3. new \in Log
  BY <1>1, <1>2, AppendSet DEF Log
<1>4. mem' = [mem EXCEPT ![p] = new]
  BY <1>2 DEF Submit
<1>5. mem' \in [Proc -> Log] /\ mem'[p] = new
  BY <1>1, <1>3, <1>4
<1>6. backup' = [backup EXCEPT ![p[1]] = {new}]
  BY <1>5 DEF Submit
<1>7. /\ backup' \in [Machine -> SUBSET Log]
      /\ \A m \in Machine : \A b, d \in backup'[m] : b = d
  BY <1>1, <1>3, <1>6 DEF TypeOK
<1>8. PICK w : w = [pc |-> "asking", cmd |-> c, todo |-> Others(p[1])]
  OBVIOUS
<1>9. w \in Writing
  BY <1>8 DEF Writing, Others
<1>10. writer' = [writer EXCEPT ![p] = w]
  BY <1>8 DEF Submit
<1>11. writer' \in [Proc -> {Idle} \cup Writing]
  BY <1>9, <1>10 DEF TypeOK
<1>12. origin' \in [Command -> Machine \cup {NoMachine}]
  BY <1>1 DEF TypeOK, Submit
<1> QED
  BY <1>5, <1>7, <1>11, <1>12 DEF TypeOK, Submit, failVars

LEMMA SaveType ==
  ASSUME TypeOK, NEW p \in Proc, Save(p)
  PROVE  TypeOK'
<1>1. writer[p] # Idle /\ writer' = [writer EXCEPT ![p].pc = "saved"]
  BY WriterType DEF Save
<1>2. writer' \in [Proc -> {Idle} \cup Writing]
  BY <1>1, WriterPc
<1>3. p[1] \in Machine /\ mem[p] \in Log
  BY Processes DEF TypeOK
<1>4. /\ data' \in [Machine -> Log] /\ backup' \in [Machine -> SUBSET Log]
      /\ \A m \in Machine : \A b, d \in backup'[m] : b = d
  BY <1>3 DEF TypeOK, Save
<1> QED
  BY <1>2, <1>4 DEF TypeOK, Save, histVars, failVars

LEMMA StartSendingType ==
  ASSUME TypeOK, NEW p \in Proc, StartSending(p)
  PROVE  TypeOK'
<1>1. writer[p] # Idle /\ writer' = [writer EXCEPT ![p].pc = "sending"]
  BY WriterType DEF StartSending
<1>2. writer' \in [Proc -> {Idle} \cup Writing]
  BY <1>1, WriterPc
<1> QED
  BY <1>2 DEF TypeOK, StartSending, fileVars, histVars, failVars

LEMMA SendType ==
  ASSUME TypeOK, NEW p \in Proc, NEW n \in Machine, Send(p, n)
  PROVE  TypeOK'
<1> DEFINE q == Peer(p, n)
<1>1. q \in Proc /\ writer[p] # Idle /\ writer[p].cmd \in Command
  <2>1. table[p][n] \in Index
    BY DEF TypeOK
  <2>2. q \in Proc
    BY <2>1, Processes DEF Peer
  <2> QED
    BY <2>2, WriterType DEF Send
<1> HIDE DEF q
<1>2. CASE Alive(q)
  <2>1. calls' = calls \cup {Called(p, q, "update", writer[p].cmd, 0)}
    BY <1>2 DEF Send, q
  <2>2. calls' \subseteq Call
    BY <1>1, <2>1, CallNew DEF TypeOK, Call
  <2>3. UNCHANGED <<failed, writer>>
    BY <1>2 DEF Send, q
  <2> QED
    BY <2>2, <2>3 DEF TypeOK, Send, histVars, failVars, Call
<1>3. CASE ~Alive(q)
  <2>1. SaveCmd(p, q) /\ calls' = calls
    BY <1>3 DEF Send, q
  <2>2. /\ failed' \in [Machine -> [Proc -> Seq(Command)]]
        /\ writer' \in [Proc -> {Idle} \cup Writing]
    BY <1>1, <2>1, CmdSaved
  <2> QED
    BY <2>1, <2>2 DEF TypeOK, Send, histVars, failVars
<1> QED
  BY <1>2, <1>3

\* An RPC that its caller waits for.
LEMMA PendingUpdate ==
  ASSUME Shape, NEW p \in Proc, NEW c \in Pending(p, "update")
  PROVE  /\ c \in calls /\ c \in Call /\ c.op = "update" /\ c.heard /\ c.from = p
         /\ writer[p] # Idle /\ writer[p].pc = "sending" /\ Rules(p)
         /\ c.to \in Proc /\ c.to[1] \in Machine /\ c.to[1] # p[1]
         /\ c.to[1] \in writer[p].todo
         /\ c.cmd = writer[p].cmd /\ c.cmd \in Command /\ origin[c.cmd] = p[1]
         /\ c.cmds \in Seq(Command)
         /\ \A d \in calls : d.op = "update" /\ d.heard /\ d.from = p => d = c
<1>1. c \in calls /\ c \in Call /\ c.op = "update" /\ c.heard /\ c.from = p
  BY DEF Pending, Shape, TypeOK, Call
<1>2. /\ writer[p].pc = "sending" /\ c.to[1] \in writer[p].todo
      /\ c.cmd = writer[p].cmd
  BY <1>1 DEF Shape, CallersWait
<1>3. writer[p] # Idle
  BY <1>2, WriterType DEF Shape
<1>4. /\ Rules(p) /\ writer[p].todo \subseteq Others(p[1])
      /\ origin[writer[p].cmd] = p[1]
  BY <1>3 DEF Shape, WritersRule
<1>5. c.to[1] \in Machine /\ c.to[1] # p[1]
  BY <1>2, <1>4 DEF Others
<1>6. \A d \in calls : d.op = "update" /\ d.heard /\ d.from = p => d = c
  BY <1>1 DEF Shape, OneCall
<1> QED
  BY <1>1, <1>2, <1>3, <1>4, <1>5, <1>6, CallType

LEMMA PendingGreet ==
  ASSUME Shape, NEW p \in Proc, NEW c \in Pending(p, "greet")
  PROVE  /\ c \in calls /\ c \in Call /\ c.op = "greet" /\ c.heard /\ c.from = p
         /\ role[p] = "greeting" /\ Rules(p)
         /\ c.to \in Proc /\ c.to[1] \in Machine /\ c.to[1] # p[1]
         /\ c.to[1] \in greet[p].todo
         /\ c.cmds \in Seq(Command)
         /\ \A d \in calls : d.op = "greet" /\ d.heard /\ d.from = p => d = c
<1>1. c \in calls /\ c \in Call /\ c.op = "greet" /\ c.heard /\ c.from = p
  BY DEF Pending, Shape, TypeOK, Call
<1>2. role[p] = "greeting" /\ c.to[1] \in greet[p].todo
  BY <1>1 DEF Shape, CallersWait
<1>3. greet[p].todo \subseteq Others(p[1])
  BY DEF Shape, GreetersRule
<1>4. c.to[1] \in Machine /\ c.to[1] # p[1]
  BY <1>2, <1>3 DEF Others
<1>5. \A d \in calls : d.op = "greet" /\ d.heard /\ d.from = p => d = c
  BY <1>1 DEF Shape, OneCall
<1> QED
  BY <1>1, <1>2, <1>4, <1>5, CallType DEF Rules

LEMMA SentType ==
  ASSUME Shape, NEW p \in Proc, Sent(p)
  PROVE  TypeOK'
<1> USE DEF Shape
<1>1. PICK c \in Pending(p, "update") :
        /\ RunAll(p, c.cmds)
        /\ writer' = [writer EXCEPT ![p].todo = @ \ {c.to[1]}]
        /\ calls' = calls \ {c}
  BY DEF Sent
<1>2. c \in calls /\ c.cmds \in Seq(Command) /\ writer[p] # Idle
  BY <1>1, PendingUpdate
<1>3. mem' \in [Proc -> Log] /\ data' \in [Machine -> Log]
  BY <1>1, <1>2, CmdsRun
<1>4. writer' \in [Proc -> {Idle} \cup Writing]
  BY <1>1, <1>2, WriterTodo
<1> QED
  BY <1>1, <1>3, <1>4 DEF TypeOK, Sent, histVars, failVars

LEMMA NotSentType ==
  ASSUME Shape, NEW p \in Proc, NotSent(p)
  PROVE  TypeOK'
<1> USE DEF Shape
<1>1. PICK c \in Pending(p, "update") :
        SaveCmd(p, c.to) /\ calls' = calls \ {c}
  BY DEF NotSent
<1>2. c.to \in Proc /\ writer[p] # Idle
  BY <1>1, PendingUpdate
<1>3. /\ failed' \in [Machine -> [Proc -> Seq(Command)]]
      /\ writer' \in [Proc -> {Idle} \cup Writing]
  BY <1>1, <1>2, CmdSaved
<1> QED
  BY <1>1, <1>3 DEF TypeOK, NotSent, histVars, failVars

LEMMA AnswerType ==
  ASSUME TypeOK, NEW p \in Proc, Answer(p)
  PROVE  TypeOK'
<1>1. writer[p].cmd \in Command
  BY WriterType DEF Answer
<1> QED
  BY <1>1 DEF TypeOK, Answer, fileVars, failVars

LEMMA TakeOverType ==
  ASSUME TypeOK, NEW p \in Proc, TakeOver(p)
  PROVE  TypeOK'
<1> DEFINE m == p[1]
<1>1. m \in Machine /\ p[2] \in Index /\ known[p] \in Index /\ data[m] \in Log
  BY Processes DEF TypeOK
<1>2. mem' \in [Proc -> Log]
  BY <1>1 DEF TypeOK, TakeOver
<1>3. data' \in [Machine -> Log]
  <2>1. CASE backup[m] = {}
    BY <2>1 DEF TypeOK, TakeOver
  <2>2. CASE backup[m] # {}
    <3>1. (CHOOSE b \in backup[m] : TRUE) \in Log
      BY <1>1, <2>2 DEF TypeOK
    <3> QED
      BY <1>1, <2>2, <3>1 DEF TypeOK, TakeOver
  <2> QED
    BY <2>1, <2>2
<1>4. /\ backup' \in [Machine -> SUBSET Log]
      /\ \A n \in Machine : \A b, d \in backup'[n] : b = d
  BY <1>1 DEF TypeOK, TakeOver
<1>5. PICK g : g = [dead |-> known[p], todo |-> Others(m)]
  OBVIOUS
<1>6. g \in Greeting /\ greet' = [greet EXCEPT ![p] = g]
  BY <1>1, <1>5 DEF TakeOver, Greeting, Others
<1>7. greet' \in [Proc -> Greeting]
  BY <1>6 DEF TypeOK, Greeting
<1>8. known' \in [Proc -> Index] /\ role' \in [Proc -> {"down", "slave", "greeting", "master"}]
  BY <1>1 DEF TypeOK, TakeOver
<1> QED
  BY <1>2, <1>3, <1>4, <1>7, <1>8 DEF TypeOK, TakeOver, histVars, failVars, Greeting

LEMMA StartGreetingType ==
  ASSUME TypeOK, NEW p \in Proc, StartGreeting(p)
  PROVE  TypeOK'
BY DEF TypeOK, StartGreeting, fileVars, histVars, failVars

LEMMA GreetType ==
  ASSUME Shape, NEW p \in Proc, NEW n \in Machine, Greet(p, n)
  PROVE  TypeOK'
<1> USE DEF Shape
<1> DEFINE q == Peer(p, n)
<1>1. q \in Proc /\ p[2] \in Index /\ greet[p].dead \in Index
  <2>1. table[p][n] \in Index
    BY DEF TypeOK
  <2>2. q \in Proc
    BY <2>1, Processes DEF Peer
  <2>3. greet[p].dead \in Index
    BY DEF Greet, GreetersRule
  <2> QED
    BY <2>2, <2>3, Processes
<1> HIDE DEF q
<1>2. CASE Alive(q)
  <2>1. calls' = calls \cup {Called(p, q, "greet", p[2], greet[p].dead)} /\ greet' = greet
    BY <1>2 DEF Greet, q
  <2>2. calls' \subseteq Call
    BY <1>1, <2>1, CallNew DEF TypeOK, Call
  <2> QED
    BY <2>1, <2>2 DEF TypeOK, Greet, fileVars, histVars, failVars, Call
<1>3. CASE ~Alive(q)
  <2>1. greet' = [greet EXCEPT ![p].todo = @ \ {n}] /\ calls' = calls
    BY <1>3 DEF Greet, q
  <2>2. greet' \in [Proc -> Greeting]
    BY <2>1, GreetTodo
  <2> QED
    BY <2>1, <2>2 DEF TypeOK, Greet, fileVars, histVars, failVars, Greeting
<1> QED
  BY <1>2, <1>3

LEMMA GreetedType ==
  ASSUME Shape, NEW p \in Proc, Greeted(p)
  PROVE  TypeOK'
<1> USE DEF Shape
<1>1. PICK c \in Pending(p, "greet") :
        /\ RunAll(p, c.cmds)
        /\ greet' = [greet EXCEPT ![p].todo = @ \ {c.to[1]}]
        /\ calls' = calls \ {c}
  BY DEF Greeted
<1>2. c \in calls /\ c.cmds \in Seq(Command)
  BY <1>1, PendingGreet
<1>3. mem' \in [Proc -> Log] /\ data' \in [Machine -> Log]
  BY <1>1, <1>2, CmdsRun
<1>4. greet' \in [Proc -> Greeting]
  BY <1>1, GreetTodo
<1> QED
  BY <1>1, <1>3, <1>4 DEF TypeOK, Greeted, histVars, failVars, Greeting

LEMMA EndGreetingType ==
  ASSUME TypeOK, NEW p \in Proc, EndGreeting(p)
  PROVE  TypeOK'
<1>1. NoGreet \in Greeting
  BY DEF NoGreet, Greeting
<1>2. greet' \in [Proc -> Greeting]
  BY <1>1 DEF TypeOK, EndGreeting, Greeting
<1> QED
  BY <1>2 DEF TypeOK, EndGreeting, fileVars, histVars, failVars, Greeting

LEMMA UpdateType ==
  ASSUME TypeOK, NEW c \in calls, Update(c)
  PROVE  TypeOK'
<1>1. c \in Call /\ c.to \in Proc /\ c.cmd \in Command
  <2>1. c \in Call
    BY DEF TypeOK, Call
  <2> QED
    BY <2>1, CallType DEF Update
<1>2. <<c.cmd>> \in Seq(Command) /\ <<>> \in Seq(Command)
  BY <1>1
<1>3. mem' \in [Proc -> Log] /\ data' \in [Machine -> Log]
  BY <1>1, <1>2, CmdsRun DEF Update
<1>4. calls' \subseteq Call /\ dropped' \subseteq Command \X Machine
  BY <1>2, CallGone DEF Update, Stage
<1> QED
  BY <1>3, <1>4 DEF TypeOK, Update, failVars, Call

LEMMA ResetType ==
  ASSUME TypeOK, NEW c \in calls, Reset(c)
  PROVE  TypeOK'
<1>1. /\ c \in Call /\ c.to \in Proc /\ c.cmd \in Index /\ c.from \in Proc
      /\ c.from[1] \in Machine
  <2>1. c \in Call
    BY DEF TypeOK, Call
  <2> QED
    BY <2>1, CallType, Processes DEF Reset
<1>2. <<>> \in Seq(Command)
  OBVIOUS
<1>3. calls' \subseteq Call /\ dropped' \subseteq Command \X Machine
  BY <1>2, CallGone DEF Reset, Stage
<1>4. table' \in [Proc -> [Machine -> Index]]
  BY <1>1 DEF TypeOK, Reset
<1> QED
  BY <1>3, <1>4 DEF TypeOK, Reset, fileVars, failVars, Call

\* Whose commands a handler hands out.
Owner(c) == IF c.op = "update" THEN c.from ELSE <<c.from[1], c.dead>>

LEMMA FetchOwner ==
  ASSUME Shape, NEW c \in calls
  PROVE  /\ c \in Call
         /\ c.from \in Proc /\ c.to \in Proc
         /\ c.from[1] \in Machine /\ c.to[1] \in Machine
         /\ Owner(c) \in Proc /\ Owner(c)[1] = c.from[1]
         /\ failed[c.to[1]][Owner(c)] \in Seq(Command)
<1>1. c \in Call
  BY DEF Shape, TypeOK, Call
<1>2. /\ c.from \in Proc /\ c.to \in Proc /\ c.op \in {"update", "greet"}
      /\ c.from[1] \in Machine /\ c.to[1] \in Machine
  BY <1>1, CallType, Processes
<1>3. c.op = "greet" => c.dead \in Index
  BY DEF Shape, CallersWait
<1>4. Owner(c) \in Proc /\ Owner(c)[1] = c.from[1]
  BY <1>2, <1>3, Processes DEF Owner
<1> QED
  BY <1>1, <1>2, <1>4 DEF Shape, TypeOK

\* They are taken out of cmd.txt.
LEMMA CmdsFetched ==
  ASSUME Shape, NEW c \in calls, Fetch(c)
  PROVE  /\ failed' \in [Machine -> [Proc -> Seq(Command)]]
         /\ \A m \in Machine, r \in Proc :
              \/ failed'[m][r] = failed[m][r]
              \/ m = c.to[1] /\ r = Owner(c) /\ failed'[m][r] = <<>>
         /\ Goes(c, "done", failed[c.to[1]][Owner(c)])
<1> DEFINE m == c.to[1]
<1>1. m \in Machine /\ Owner(c) \in Proc
  BY FetchOwner
<1>2. /\ failed' = [failed EXCEPT ![m] = [failed[m] EXCEPT ![Owner(c)] = <<>>]]
      /\ Goes(c, "done", failed[m][Owner(c)])
  BY DEF Fetch, Owner, Remaining, CmdsFor
<1>3. failed \in [Machine -> [Proc -> Seq(Command)]] /\ <<>> \in Seq(Command)
  BY DEF Shape, TypeOK
<1>4. PICK f : f = [failed[m] EXCEPT ![Owner(c)] = <<>>]
  OBVIOUS
<1>5. f \in [Proc -> Seq(Command)]
  BY <1>1, <1>3, <1>4
<1>6. failed' = [failed EXCEPT ![m] = f]
  BY <1>2, <1>4
<1>7. failed' \in [Machine -> [Proc -> Seq(Command)]]
  BY <1>1, <1>3, <1>5, <1>6
<1>8. \A n \in Machine, r \in Proc :
        failed'[n][r] = IF n = m /\ r = Owner(c) THEN <<>> ELSE failed[n][r]
  BY <1>1, <1>3, <1>4, <1>6
<1> QED
  BY <1>2, <1>7, <1>8

LEMMA FetchType ==
  ASSUME Shape, NEW c \in calls, Fetch(c)
  PROVE  TypeOK'
<1> USE DEF Shape
<1>1. /\ failed' \in [Machine -> [Proc -> Seq(Command)]]
      /\ Goes(c, "done", failed[c.to[1]][Owner(c)])
  BY CmdsFetched
<1>2. failed[c.to[1]][Owner(c)] \in Seq(Command)
  BY FetchOwner
<1>3. calls' \subseteq Call /\ dropped' \subseteq Command \X Machine
  BY <1>1, <1>2, CallGone DEF Stage
<1> QED
  BY <1>1, <1>3 DEF TypeOK, Fetch, procVars, failVars, Call

LEMMA TimeoutType ==
  ASSUME Shape, NEW c \in calls, Timeout(c)
  PROVE  TypeOK'
<1> USE DEF Shape
<1> DEFINE p == c.from
<1>1. c \in Call /\ p \in Proc /\ c.to \in Proc
  <2>1. c \in Call
    BY DEF TypeOK, Call
  <2> QED
    BY <2>1, CallType
<1>2. calls' \subseteq Call
  BY <1>1, CallUnheard DEF Timeout, TypeOK, Call
<1>3. /\ timeouts' \in Nat /\ crashes' \in Nat
      /\ crashes' + timeouts' <= MaxFailures
  BY FailuresAssumption DEF Timeout, TypeOK
<1>4. CASE c.op = "update"
  <2>1. SaveCmd(p, c.to) /\ greet' = greet
    BY <1>4 DEF Timeout
  <2>2. writer[p].pc = "sending"
    BY <1>4 DEF CallersWait, Timeout
  <2>3. writer[p] # Idle
    BY <1>1, <2>2, WriterType
  <2>4. /\ failed' \in [Machine -> [Proc -> Seq(Command)]]
        /\ writer' \in [Proc -> {Idle} \cup Writing]
    BY <1>1, <2>1, <2>3, CmdSaved
  <2> QED
    BY <1>2, <1>3, <2>1, <2>4 DEF TypeOK, Timeout, histVars, Call
<1>5. CASE c.op # "update"
  <2>1. /\ greet' = [greet EXCEPT ![p].todo = @ \ {c.to[1]}]
        /\ UNCHANGED <<failed, writer>>
    BY <1>5 DEF Timeout
  <2>2. greet' \in [Proc -> Greeting]
    BY <1>1, <2>1, GreetTodo
  <2> QED
    BY <1>2, <1>3, <2>1, <2>2 DEF TypeOK, Timeout, histVars, Call, Greeting
<1> QED
  BY <1>4, <1>5

\* What a process leaves that is killed while it writes a file.
LEMMA CrashFiles ==
  ASSUME TypeOK, NEW p \in Proc, Crash(p)
  PROVE  /\ data' \in [Machine -> Log] /\ backup' \in [Machine -> SUBSET Log]
         /\ \A m \in Machine : \A b, d \in backup'[m] : b = d
         /\ torn' \subseteq Machine /\ torn \subseteq torn'
         /\ \A n \in Machine \ torn' : data'[n] = data[n] /\ backup'[n] = backup[n]
         /\ \A n \in Machine \ {p[1]} : data'[n] = data[n]
         /\ \A n \in Machine :
              /\ data'[n] = data[n] \/ data'[n] = <<>>
              /\ \A b \in backup'[n] : b \in backup[n] \/ b = <<>>
              /\ ToSet(data'[n]) \subseteq ToSet(data[n])
              /\ \A b \in backup'[n] : b \in backup[n] \/ ToSet(b) = {}
<1>1. PICK e : e = <<>>
  OBVIOUS
<1>2. ToSet(e) = {} /\ e \in Log
  BY <1>1, SetOfSeq DEF Log
<1>3. CASE UNCHANGED <<data, backup, torn>>
  BY <1>3 DEF TypeOK
<1>4. CASE Tear(p)
  <2>1. p[1] \in Machine
    BY Processes
  <2>2. torn' = torn \cup {p[1]}
    BY <1>4 DEF Tear
  <2>3. \/ data' = data
        \/ \E d \in {e, data[p[1]]} : data' = [data EXCEPT ![p[1]] = d]
    BY <1>1, <1>4 DEF Tear
  <2>4. \/ backup' = backup
        \/ backup' = [backup EXCEPT ![p[1]] = {}]
        \/ backup' = [backup EXCEPT ![p[1]] = {e}]
    BY <1>1, <1>4 DEF Tear
  <2>5. data \in [Machine -> Log] /\ backup \in [Machine -> SUBSET Log]
    BY DEF TypeOK
  <2>6. /\ data' \in [Machine -> Log]
        /\ \A n \in Machine : data'[n] = data[n] \/ (n = p[1] /\ data'[n] = e)
    <3>1. CASE data' = data
      BY <2>5, <3>1
    <3>2. ASSUME NEW d \in {e, data[p[1]]}, data' = [data EXCEPT ![p[1]] = d]
          PROVE  /\ data' \in [Machine -> Log]
                 /\ \A n \in Machine :
                      data'[n] = data[n] \/ (n = p[1] /\ data'[n] = e)
      <4>1. d \in Log
        BY <1>2, <2>1, <2>5
      <4> QED
        BY <2>1, <2>5, <3>2, <4>1
    <3> QED
      BY <2>3, <3>1, <3>2
  <2>7. /\ backup' \in [Machine -> SUBSET Log]
        /\ \A n \in Machine : \/ backup'[n] = backup[n]
                              \/ n = p[1] /\ backup'[n] = {}
                              \/ n = p[1] /\ backup'[n] = {e}
    <3>1. CASE backup' = backup
      BY <2>5, <3>1
    <3>2. CASE backup' = [backup EXCEPT ![p[1]] = {}]
      BY <2>1, <2>5, <3>2
    <3>3. CASE backup' = [backup EXCEPT ![p[1]] = {e}]
      BY <1>2, <2>1, <2>5, <3>3
    <3> QED
      BY <2>4, <3>1, <3>2, <3>3
  <2>8. ASSUME NEW m \in Machine, NEW b \in backup'[m], NEW d \in backup'[m]
        PROVE  b = d
    <3>1. CASE backup'[m] = backup[m]
      BY <3>1 DEF TypeOK
    <3>2. CASE backup'[m] = {} \/ backup'[m] = {e}
      BY <3>2
    <3> QED
      BY <2>7, <3>1, <3>2
  <2>9. torn' \subseteq Machine /\ torn \subseteq torn' /\ p[1] \in torn'
    BY <2>1, <2>2 DEF TypeOK
  <2>10. \A n \in Machine \ torn' : data'[n] = data[n] /\ backup'[n] = backup[n]
    BY <2>6, <2>7, <2>9
  <2>11. \A n \in Machine :
           /\ data'[n] = data[n] \/ data'[n] = e
           /\ \A b \in backup'[n] : b \in backup[n] \/ b = e
    BY <2>6, <2>7
  <2> QED
    BY <1>1, <1>2, <2>6, <2>7, <2>8, <2>9, <2>10, <2>11
<1> QED
  BY <1>3, <1>4 DEF Crash

LEMMA CrashType ==
  ASSUME TypeOK, NEW p \in Proc, Crash(p)
  PROVE  TypeOK'
<1>1. calls' \subseteq Call /\ dropped' \subseteq Command \X Machine
  BY CallsOfDead
<1>2. /\ timeouts' \in Nat /\ crashes' \in Nat
      /\ crashes' + timeouts' <= MaxFailures
  BY FailuresAssumption DEF Crash, TypeOK
<1>3. NoGreet \in Greeting /\ <<>> \in Log
  BY DEF NoGreet, Greeting, Log
<1>4. greet' \in [Proc -> Greeting]
  BY <1>3 DEF TypeOK, Crash, Greeting
<1>5. mem' \in [Proc -> Log]
  BY <1>3 DEF TypeOK, Crash
<1> QED
  BY <1>1, <1>2, <1>4, <1>5, CrashFiles DEF TypeOK, Crash, Call, Greeting

LEMMA RestartType ==
  ASSUME TypeOK, NEW p \in Proc, Restart(p)
  PROVE  TypeOK'
<1>1. PICK i \in Index : /\ role' = [role EXCEPT ![p] = "slave"]
                         /\ known' = [known EXCEPT ![p] = known[<<p[1], i>>]]
                         /\ table' = [table EXCEPT ![p] = [m \in Machine |-> Size]]
  BY DEF Restart
<1>2. known[<<p[1], i>>] \in Index /\ Size \in Index
  BY Processes DEF TypeOK
<1>3. known' \in [Proc -> Index] /\ table' \in [Proc -> [Machine -> Index]]
  BY <1>1, <1>2 DEF TypeOK
<1> QED
  BY <1>1, <1>3 DEF TypeOK, Restart, fileVars, histVars, failVars

LEMMA InitShape == Init => Shape
<1> SUFFICES ASSUME Init PROVE Shape
  OBVIOUS
<1>1. Base \in Log /\ <<>> \in Log
  <2>1. Base \in Seq(ToSet(Base)) /\ \A S, T : Seq(S) \subseteq Seq(S \cup T)
    BY BaseAssumption
  <2>2. Seq(ToSet(Base)) \subseteq Seq(ToSet(Base) \cup Command)
    BY <2>1
  <2>3. ToSet(Base) \cup Command = Command \cup ToSet(Base)
    OBVIOUS
  <2> QED
    BY <2>1, <2>2, <2>3 DEF Log
<1>2. NoGreet \in Greeting /\ NoGreet.todo = {}
  BY DEF NoGreet, Greeting
<1>3. mem \in [Proc -> Log] /\ data \in [Machine -> Log]
  BY <1>1 DEF Init
<1>4. table \in [Proc -> [Machine -> Index]] /\ known \in [Proc -> Index]
  BY Processes DEF Init
<1>5. greet \in [Proc -> Greeting]
  BY <1>2 DEF Init
<1>6. failed \in [Machine -> [Proc -> Seq(Command)]]
  BY DEF Init
<1>7. TypeOK
  BY <1>3, <1>4, <1>5, <1>6, FailuresAssumption DEF TypeOK, Init, Greeting
<1>8. OneRuler
  BY Processes DEF Init, OneRuler, Rules
<1>9. WritersRule /\ CallersWait /\ OneCall
  BY DEF Init, WritersRule, CallersWait, OneCall
<1>10. GreetersRule
  BY <1>2 DEF Init, GreetersRule
<1> QED
  BY <1>7, <1>8, <1>9, <1>10 DEF Shape

-----------------------------------------------------------------------------
(***************************************************************************)
(* Writers, greeters and calls                                             *)
(***************************************************************************)

LEMMA SubmitShape ==
  ASSUME Shape, NEW p \in Proc, NEW c \in Command, Submit(p, c)
  PROVE  Shape'
<1> USE DEF Shape
<1>1. TypeOK'
  BY SubmitType
<1>2. OneRuler' /\ GreetersRule' /\ OneCall'
  BY DEF Submit, OneRuler, Rules, GreetersRule, OneCall
<1>3. \A q \in Proc \ {p} : writer'[q] = writer[q]
  BY DEF Submit
<1>4. writer'[p].todo = Others(p[1]) /\ writer'[p].cmd = c
  BY DEF Submit, TypeOK
<1>5. origin'[c] = p[1] /\ \A d \in Command \ {c} : origin'[d] = origin[d]
  BY DEF Submit, TypeOK
<1>6. WritersRule'
  <2> SUFFICES ASSUME NEW q \in Proc, writer'[q] # Idle
               PROVE  /\ Rules(q)' /\ writer'[q].todo \subseteq Others(q[1])
                      /\ origin'[writer'[q].cmd] = q[1]
    BY DEF WritersRule
  <2>1. CASE q = p
    BY <1>4, <1>5, <2>1 DEF Submit, Rules
  <2>2. CASE q # p
    <3>1. /\ writer[q] # Idle /\ writer[q].cmd \in Command
          /\ origin[writer[q].cmd] = q[1] /\ q[1] \in Machine
      BY <1>3, <2>2, WriterType, Processes DEF WritersRule
    <3>2. writer[q].cmd # c
      BY <3>1, NoMachineAssumption DEF Submit
    <3> QED
      BY <1>3, <1>5, <2>2, <3>1, <3>2 DEF Submit, Rules, WritersRule
  <2> QED
    BY <2>1, <2>2
<1>7. CallersWait'
  <2>1. \A d \in calls : d.op = "update" /\ d.heard => d.from \in Proc \ {p}
    <3> SUFFICES ASSUME NEW d \in calls, d.op = "update", d.heard
                 PROVE  d.from \in Proc \ {p}
      OBVIOUS
    <3>1. d.from \in Proc
      BY CallType DEF TypeOK, Call
    <3>2. writer[d.from].pc = "sending"
      BY DEF CallersWait
    <3> QED
      BY <3>1, <3>2 DEF Submit, Idle
  <2> QED
    BY <1>3, <2>1 DEF CallersWait, Submit
<1> QED
  BY <1>1, <1>2, <1>6, <1>7

\* The writer of a process goes on, and no call is involved.
LEMMA WriterGoesOn ==
  ASSUME Shape, NEW p \in Proc, writer[p] # Idle,
         NEW pc \in {"asking", "saved", "sending"},
         writer' = [writer EXCEPT ![p].pc = pc],
         writer[p].pc = "sending" => pc = "sending",
         UNCHANGED <<role, greet, calls, origin>>
  PROVE  OneRuler' /\ WritersRule' /\ CallersWait' /\ OneCall'
<1> USE DEF Shape
<1>1. /\ \A q \in Proc \ {p} : writer'[q] = writer[q]
      /\ writer'[p] # Idle /\ writer'[p].pc = pc
      /\ writer'[p].cmd = writer[p].cmd /\ writer'[p].todo = writer[p].todo
  BY WriterPc
<1>2. OneRuler' /\ OneCall'
  BY DEF OneRuler, Rules, OneCall
<1>3. WritersRule'
  BY <1>1 DEF WritersRule, Rules
<1>4. \A d \in calls : d.from \in Proc
  BY CallType DEF TypeOK, Call
<1>5. CallersWait'
  BY <1>1, <1>4 DEF CallersWait
<1> QED
  BY <1>2, <1>3, <1>5

LEMMA SaveShape ==
  ASSUME Shape, NEW p \in Proc, Save(p)
  PROVE  Shape'
<1>1. TypeOK' /\ writer[p] # Idle
  BY SaveType, WriterType DEF Shape, Save
<1>2. OneRuler' /\ WritersRule' /\ CallersWait' /\ OneCall'
  BY <1>1, WriterGoesOn DEF Save, histVars
<1>3. GreetersRule'
  BY DEF Shape, GreetersRule, Save
<1> QED
  BY <1>1, <1>2, <1>3 DEF Shape

LEMMA StartSendingShape ==
  ASSUME Shape, NEW p \in Proc, StartSending(p)
  PROVE  Shape'
<1>1. TypeOK' /\ writer[p] # Idle
  BY StartSendingType, WriterType DEF Shape, StartSending
<1>2. OneRuler' /\ WritersRule' /\ CallersWait' /\ OneCall'
  BY <1>1, WriterGoesOn DEF StartSending, histVars
<1>3. GreetersRule'
  BY DEF Shape, GreetersRule, StartSending, TypeOK
<1> QED
  BY <1>1, <1>2, <1>3 DEF Shape

\* A writer has sent its command to a machine, or saved it, and no call of it
\* is left.
LEMMA WriterSent ==
  ASSUME Shape, NEW p \in Proc, writer[p] # Idle, NEW n,
         writer' = [writer EXCEPT ![p].todo = @ \ {n}],
         \A d \in calls' : \E c \in calls :
           /\ d.op = c.op /\ d.from = c.from /\ d.to = c.to /\ d.cmd = c.cmd
           /\ d.dead = c.dead /\ (d.heard => c.heard /\ d = c),
         \A d \in calls' : d.op = "update" /\ d.heard => d.from # p,
         UNCHANGED <<role, comm, greet, origin>>
  PROVE  OneRuler' /\ WritersRule' /\ GreetersRule' /\ CallersWait' /\ OneCall'
<1> USE DEF Shape
<1>1. /\ \A q \in Proc \ {p} : writer'[q] = writer[q]
      /\ writer'[p] # Idle /\ writer'[p].pc = writer[p].pc
      /\ writer'[p].cmd = writer[p].cmd
      /\ writer'[p].todo = writer[p].todo \ {n}
  BY WriterTodo
<1>2. OneRuler' /\ OneCall' /\ GreetersRule'
  BY DEF OneRuler, Rules, OneCall, GreetersRule
<1>3. WritersRule'
  BY <1>1 DEF WritersRule, Rules
<1>4. \A d \in calls : d.from \in Proc
  BY CallType DEF TypeOK, Call
<1>5. CallersWait'
  <2> SUFFICES ASSUME NEW d \in calls'
               PROVE  /\ d.op = "update" /\ d.heard =>
                           /\ writer'[d.from].pc = "sending"
                           /\ writer'[d.from].cmd = d.cmd
                           /\ d.to[1] \in writer'[d.from].todo
                      /\ d.op = "greet" /\ d.heard =>
                           /\ role'[d.from] = "greeting"
                           /\ d.to[1] \in greet'[d.from].todo
                      /\ d.op = "greet" => d.dead \in Index
    BY DEF CallersWait
  <2>1. PICK c \in calls :
           /\ d.op = c.op /\ d.from = c.from /\ d.to = c.to /\ d.cmd = c.cmd
           /\ d.dead = c.dead /\ (d.heard => c.heard /\ d = c)
    OBVIOUS
  <2>2. d.op = "update" /\ d.heard => d.from \in Proc \ {p}
    BY <1>4, <2>1
  <2> QED
    BY <1>1, <2>1, <2>2 DEF CallersWait
<1> QED
  BY <1>2, <1>3, <1>5

\* A new call is heard by a caller that has no other.
LEMMA CallStarts ==
  ASSUME Shape, NEW c \in Call, c.heard, calls' = calls \cup {c},
         Pending(c.from, c.op) = {},
         c.op = "update" => /\ writer[c.from].pc = "sending"
                            /\ writer[c.from].cmd = c.cmd
                            /\ c.to[1] \in writer[c.from].todo,
         c.op = "greet" => /\ role[c.from] = "greeting"
                           /\ c.to[1] \in greet[c.from].todo
                           /\ c.dead \in Index,
         UNCHANGED <<role, comm, greet, origin, writer>>
  PROVE  OneRuler' /\ WritersRule' /\ GreetersRule' /\ CallersWait' /\ OneCall'
<1> USE DEF Shape
<1>1. OneRuler' /\ WritersRule' /\ GreetersRule'
  BY DEF OneRuler, Rules, WritersRule, GreetersRule
<1>2. CallersWait'
  BY DEF CallersWait
<1>3. \A d \in calls : d.from = c.from /\ d.op = c.op => ~d.heard
  BY DEF Pending
<1>4. OneCall'
  BY <1>3 DEF OneCall
<1> QED
  BY <1>1, <1>2, <1>4

LEMMA SendShape ==
  ASSUME Shape, NEW p \in Proc, NEW n \in Machine, Send(p, n)
  PROVE  Shape'
<1> DEFINE q == Peer(p, n)
<1>1. TypeOK'
  BY SendType DEF Shape
<1>2. /\ q \in Proc /\ q[1] = n /\ writer[p] # Idle /\ writer[p].cmd \in Command
      /\ writer[p].pc = "sending" /\ n \in writer[p].todo
      /\ Pending(p, "update") = {}
  <2>1. table[p][n] \in Index
    BY DEF Shape, TypeOK
  <2>2. q \in Proc /\ q[1] = n
    BY <2>1, Processes DEF Peer
  <2> QED
    BY <2>2, WriterType DEF Send, Shape
<1> HIDE DEF q
<1>3. UNCHANGED <<role, comm, greet, origin>>
  BY DEF Send, histVars
<1>4. CASE Alive(q)
  <2>1. PICK c : c = Called(p, q, "update", writer[p].cmd, 0)
    OBVIOUS
  <2>2. calls' = calls \cup {c} /\ UNCHANGED writer
    BY <1>4, <2>1 DEF Send, q
  <2>3. c \in Call
    BY <1>2, <2>1, CallNew
  <2>4. /\ c.from = p /\ c.to = q /\ c.op = "update" /\ c.heard
        /\ c.cmd = writer[p].cmd
    BY <2>1 DEF Called
  <2>5. OneRuler' /\ WritersRule' /\ GreetersRule' /\ CallersWait' /\ OneCall'
    BY <1>2, <1>3, <2>2, <2>3, <2>4, CallStarts
  <2> QED
    BY <1>1, <2>5 DEF Shape
<1>5. CASE ~Alive(q)
  <2>1. SaveCmd(p, q) /\ calls' = calls
    BY <1>5 DEF Send, q
  <2>2. writer' = [writer EXCEPT ![p].todo = @ \ {q[1]}]
    BY <2>1 DEF SaveCmd
  <2>3. \A d \in calls' : d.op = "update" /\ d.heard => d.from # p
    BY <1>2, <2>1 DEF Pending
  <2>4. OneRuler' /\ WritersRule' /\ GreetersRule' /\ CallersWait' /\ OneCall'
    BY <1>2, <1>3, <2>1, <2>2, <2>3, WriterSent
  <2> QED
    BY <1>1, <2>4 DEF Shape
<1> QED
  BY <1>4, <1>5

LEMMA SentShape ==
  ASSUME Shape, NEW p \in Proc, Sent(p)
  PROVE  Shape'
<1>1. TypeOK'
  BY SentType
<1>2. PICK c \in Pending(p, "update") :
        /\ writer' = [writer EXCEPT ![p].todo = @ \ {c.to[1]}]
        /\ calls' = calls \ {c}
  BY DEF Sent
<1>3. /\ writer[p] # Idle
      /\ \A d \in calls : d.op = "update" /\ d.heard /\ d.from = p => d = c
  BY <1>2, PendingUpdate
<1>4. UNCHANGED <<role, comm, greet, origin>>
  BY DEF Sent, histVars
<1>5. OneRuler' /\ WritersRule' /\ GreetersRule' /\ CallersWait' /\ OneCall'
  BY <1>2, <1>3, <1>4, WriterSent
<1> QED
  BY <1>1, <1>5 DEF Shape

LEMMA NotSentShape ==
  ASSUME Shape, NEW p \in Proc, NotSent(p)
  PROVE  Shape'
<1>1. TypeOK'
  BY NotSentType
<1>2. PICK c \in Pending(p, "update") :
        SaveCmd(p, c.to) /\ calls' = calls \ {c}
  BY DEF NotSent
<1>3. /\ writer[p] # Idle
      /\ \A d \in calls : d.op = "update" /\ d.heard /\ d.from = p => d = c
  BY <1>2, PendingUpdate
<1>4. /\ UNCHANGED <<role, comm, greet, origin>>
      /\ writer' = [writer EXCEPT ![p].todo = @ \ {c.to[1]}]
  BY <1>2 DEF NotSent, histVars, SaveCmd
<1>5. OneRuler' /\ WritersRule' /\ GreetersRule' /\ CallersWait' /\ OneCall'
  BY <1>2, <1>3, <1>4, WriterSent
<1> QED
  BY <1>1, <1>5 DEF Shape

LEMMA AnswerShape ==
  ASSUME Shape, NEW p \in Proc, Answer(p)
  PROVE  Shape'
<1> USE DEF Shape
<1>1. TypeOK'
  BY AnswerType
<1>2. OneRuler' /\ OneCall'
  BY DEF Answer, OneRuler, Rules, OneCall
<1>3. GreetersRule'
  BY DEF Answer, GreetersRule, TypeOK
<1>4. writer'[p] = Idle /\ \A q \in Proc \ {p} : writer'[q] = writer[q]
  BY DEF Answer, TypeOK
<1>5. WritersRule'
  BY <1>4 DEF Answer, WritersRule, Rules
<1>6. \A d \in calls : d.from \in Proc
  BY CallType DEF TypeOK, Call
<1>7. \A d \in calls : d.op = "update" /\ d.heard => d.from # p
  BY DEF CallersWait, Answer
<1>8. CallersWait'
  BY <1>4, <1>6, <1>7 DEF Answer, CallersWait
<1> QED
  BY <1>1, <1>2, <1>3, <1>5, <1>8

LEMMA TakeOverShape ==
  ASSUME Shape, NEW p \in Proc, TakeOver(p)
  PROVE  Shape'
<1> USE DEF Shape
<1>1. TypeOK'
  BY TakeOverType
<1>2. /\ role[p] = "slave" /\ role'[p] = "greeting" /\ p[1] \in Machine
      /\ \A q \in Proc \ {p} : role'[q] = role[q]
      /\ known[p] \in Index /\ p = <<p[1], p[2]>>
      /\ \A i \in Index : ~Rules(<<p[1], i>>)
  BY Processes DEF TakeOver, TypeOK
<1>3. OneRuler'
  BY <1>2, Processes DEF OneRuler, Rules
<1>4. PICK g : g = [dead |-> known[p], todo |-> Others(p[1])]
  OBVIOUS
<1>5. greet' = [greet EXCEPT ![p] = g]
  BY <1>4 DEF TakeOver
<1>6. greet'[p] = g /\ \A q \in Proc \ {p} : greet'[q] = greet[q]
  BY <1>5 DEF TypeOK
<1>7. GreetersRule'
  BY <1>2, <1>4, <1>6 DEF GreetersRule, TakeOver
<1>8. WritersRule'
  BY <1>2 DEF WritersRule, Rules, TakeOver, histVars
<1>9. \A d \in calls : d.from \in Proc
  BY CallType DEF TypeOK, Call
<1>10. CallersWait' /\ OneCall'
  BY <1>2, <1>6, <1>9 DEF CallersWait, OneCall, TakeOver
<1> QED
  BY <1>1, <1>3, <1>7, <1>8, <1>10

LEMMA StartGreetingShape ==
  ASSUME Shape, NEW p \in Proc, StartGreeting(p)
  PROVE  Shape'
<1> USE DEF Shape
<1>1. TypeOK'
  BY StartGreetingType
<1>2. OneRuler' /\ WritersRule' /\ CallersWait' /\ OneCall'
  BY DEF StartGreeting, OneRuler, Rules, WritersRule, CallersWait, OneCall,
         histVars
<1>3. GreetersRule'
  BY DEF GreetersRule, StartGreeting, TypeOK
<1> QED
  BY <1>1, <1>2, <1>3

\* A greeter has told a machine, or given up, and no call of it is left.
LEMMA GreeterTold ==
  ASSUME Shape, NEW p \in Proc, NEW n,
         greet' = [greet EXCEPT ![p].todo = @ \ {n}],
         \A d \in calls' : \E c \in calls :
           /\ d.op = c.op /\ d.from = c.from /\ d.to = c.to /\ d.cmd = c.cmd
           /\ d.dead = c.dead /\ (d.heard => c.heard /\ d = c),
         \A d \in calls' : d.op = "greet" /\ d.heard => d.from # p,
         UNCHANGED <<role, comm, writer, origin>>
  PROVE  OneRuler' /\ WritersRule' /\ GreetersRule' /\ CallersWait' /\ OneCall'
<1> USE DEF Shape
<1>1. /\ \A q \in Proc \ {p} : greet'[q] = greet[q]
      /\ greet'[p].dead = greet[p].dead
      /\ greet'[p].todo = greet[p].todo \ {n}
  BY GreetTodo
<1>2. OneRuler' /\ OneCall' /\ WritersRule'
  BY DEF OneRuler, Rules, OneCall, WritersRule
<1>3. GreetersRule'
  BY <1>1 DEF GreetersRule
<1>4. \A d \in calls : d.from \in Proc
  BY CallType DEF TypeOK, Call
<1>5. CallersWait'
  <2> SUFFICES ASSUME NEW d \in calls'
               PROVE  /\ d.op = "update" /\ d.heard =>
                           /\ writer'[d.from].pc = "sending"
                           /\ writer'[d.from].cmd = d.cmd
                           /\ d.to[1] \in writer'[d.from].todo
                      /\ d.op = "greet" /\ d.heard =>
                           /\ role'[d.from] = "greeting"
                           /\ d.to[1] \in greet'[d.from].todo
                      /\ d.op = "greet" => d.dead \in Index
    BY DEF CallersWait
  <2>1. PICK c \in calls :
           /\ d.op = c.op /\ d.from = c.from /\ d.to = c.to /\ d.cmd = c.cmd
           /\ d.dead = c.dead /\ (d.heard => c.heard /\ d = c)
    OBVIOUS
  <2>2. d.op = "greet" /\ d.heard => d.from \in Proc \ {p}
    BY <1>4, <2>1
  <2> QED
    BY <1>1, <2>1, <2>2 DEF CallersWait
<1> QED
  BY <1>2, <1>3, <1>5

LEMMA GreetShape ==
  ASSUME Shape, NEW p \in Proc, NEW n \in Machine, Greet(p, n)
  PROVE  Shape'
<1> DEFINE q == Peer(p, n)
<1>1. TypeOK'
  BY GreetType
<1>2. /\ q \in Proc /\ q[1] = n /\ p[2] \in Index
      /\ role[p] = "greeting" /\ greet[p].dead \in Index
      /\ n \in greet[p].todo /\ Pending(p, "greet") = {}
  <2>1. table[p][n] \in Index
    BY DEF Shape, TypeOK
  <2>2. q \in Proc /\ q[1] = n
    BY <2>1, Processes DEF Peer
  <2> QED
    BY <2>2, Processes DEF Greet, Shape, GreetersRule
<1> HIDE DEF q
<1>3. UNCHANGED <<role, comm, writer, origin>>
  BY DEF Greet, histVars
<1>4. CASE Alive(q)
  <2>1. PICK c : c = Called(p, q, "greet", p[2], greet[p].dead)
    OBVIOUS
  <2>2. calls' = calls \cup {c} /\ UNCHANGED greet
    BY <1>4, <2>1 DEF Greet, q
  <2>3. c \in Call
    BY <1>2, <2>1, CallNew
  <2>4. /\ c.from = p /\ c.to = q /\ c.op = "greet" /\ c.heard
        /\ c.dead = greet[p].dead
    BY <2>1 DEF Called
  <2>5. OneRuler' /\ WritersRule' /\ GreetersRule' /\ CallersWait' /\ OneCall'
    BY <1>2, <1>3, <2>2, <2>3, <2>4, CallStarts
  <2> QED
    BY <1>1, <2>5 DEF Shape
<1>5. CASE ~Alive(q)
  <2>1. greet' = [greet EXCEPT ![p].todo = @ \ {n}] /\ calls' = calls
    BY <1>5 DEF Greet, q
  <2>2. \A d \in calls' : d.op = "greet" /\ d.heard => d.from # p
    BY <1>2, <2>1 DEF Pending
  <2>3. OneRuler' /\ WritersRule' /\ GreetersRule' /\ CallersWait' /\ OneCall'
    BY <1>2, <1>3, <2>1, <2>2, GreeterTold
  <2> QED
    BY <1>1, <2>3 DEF Shape
<1> QED
  BY <1>4, <1>5

LEMMA GreetedShape ==
  ASSUME Shape, NEW p \in Proc, Greeted(p)
  PROVE  Shape'
<1>1. TypeOK'
  BY GreetedType
<1>2. PICK c \in Pending(p, "greet") :
        /\ greet' = [greet EXCEPT ![p].todo = @ \ {c.to[1]}]
        /\ calls' = calls \ {c}
  BY DEF Greeted
<1>3. \A d \in calls : d.op = "greet" /\ d.heard /\ d.from = p => d = c
  BY <1>2, PendingGreet
<1>4. UNCHANGED <<role, comm, writer, origin>>
  BY DEF Greeted, histVars
<1>5. OneRuler' /\ WritersRule' /\ GreetersRule' /\ CallersWait' /\ OneCall'
  BY <1>2, <1>3, <1>4, GreeterTold
<1> QED
  BY <1>1, <1>5 DEF Shape

LEMMA EndGreetingShape ==
  ASSUME Shape, NEW p \in Proc, EndGreeting(p)
  PROVE  Shape'
<1> USE DEF Shape
<1>1. TypeOK'
  BY EndGreetingType
<1>2. /\ role[p] = "greeting" /\ role'[p] = "master"
      /\ \A q \in Proc \ {p} : role'[q] = role[q]
  BY DEF EndGreeting, GreetersRule, TypeOK
<1>3. \A q \in Proc : Rules(q)' = Rules(q)
  BY <1>2 DEF Rules
<1>4. OneRuler' /\ OneCall'
  BY <1>3, Processes DEF OneRuler, OneCall, EndGreeting
<1>5. WritersRule'
  BY <1>3 DEF WritersRule, EndGreeting, histVars
<1>6. PICK g : g = NoGreet
  OBVIOUS
<1>7. /\ greet'[p] = g /\ g.todo = {}
      /\ \A q \in Proc \ {p} : greet'[q] = greet[q]
  BY <1>6 DEF EndGreeting, TypeOK, NoGreet
<1>8. comm'[p] = "free" /\ \A q \in Proc \ {p} : comm'[q] = comm[q]
  BY DEF EndGreeting, TypeOK
<1>9. GreetersRule'
  BY <1>2, <1>7, <1>8 DEF GreetersRule
<1>10. \A d \in calls : d.from \in Proc
  BY CallType DEF TypeOK, Call
<1>11. \A d \in calls : d.op = "greet" /\ d.heard => d.from # p
  BY DEF CallersWait, EndGreeting
<1>12. CallersWait'
  BY <1>2, <1>7, <1>10, <1>11 DEF EndGreeting, CallersWait
<1> QED
  BY <1>1, <1>4, <1>5, <1>9, <1>12

\* A handler goes on.
LEMMA HandlerGoesOn ==
  ASSUME Shape, NEW c \in calls, NEW pc \in Stage,
         NEW cmds \in Seq(Command), Goes(c, pc, cmds),
         UNCHANGED <<role, comm, writer, greet, origin>>
  PROVE  OneRuler' /\ WritersRule' /\ GreetersRule' /\ CallersWait' /\ OneCall'
<1>1. OneRuler' /\ WritersRule' /\ GreetersRule'
  BY DEF Shape, OneRuler, Rules, WritersRule, GreetersRule
<1>2. c \in Call
  BY DEF Shape, TypeOK, Call
<1>3. PICK new : new = Moved(c, pc, cmds)
  OBVIOUS
<1>4. /\ new.from = c.from /\ new.to = c.to /\ new.op = c.op /\ new.cmd = c.cmd
      /\ new.dead = c.dead /\ new.heard = c.heard
  BY <1>2, <1>3, CallGoes
<1>5. \A d \in calls' : (d \in calls /\ d # c) \/ d = new
  BY <1>3, CallGone DEF Shape
<1>6. CallersWait'
  BY <1>4, <1>5 DEF Shape, CallersWait
<1>7. OneCall'
  BY <1>4, <1>5 DEF Shape, OneCall
<1> QED
  BY <1>1, <1>6, <1>7

LEMMA UpdateShape ==
  ASSUME Shape, NEW c \in calls, Update(c)
  PROVE  Shape'
<1>1. TypeOK' /\ <<>> \in Seq(Command)
  BY UpdateType DEF Shape
<1>2. OneRuler' /\ WritersRule' /\ GreetersRule' /\ CallersWait' /\ OneCall'
  BY <1>1, HandlerGoesOn DEF Update, Stage
<1> QED
  BY <1>1, <1>2 DEF Shape

LEMMA ResetShape ==
  ASSUME Shape, NEW c \in calls, Reset(c)
  PROVE  Shape'
<1>1. TypeOK' /\ <<>> \in Seq(Command)
  BY ResetType DEF Shape
<1>2. OneRuler' /\ WritersRule' /\ GreetersRule' /\ CallersWait' /\ OneCall'
  BY <1>1, HandlerGoesOn DEF Reset, Stage
<1> QED
  BY <1>1, <1>2 DEF Shape

LEMMA FetchShape ==
  ASSUME Shape, NEW c \in calls, Fetch(c)
  PROVE  Shape'
<1>1. TypeOK' /\ failed[c.to[1]][Owner(c)] \in Seq(Command)
  BY FetchType, FetchOwner
<1>2. OneRuler' /\ WritersRule' /\ GreetersRule' /\ CallersWait' /\ OneCall'
  BY <1>1, HandlerGoesOn, CmdsFetched DEF Fetch, procVars, Stage
<1> QED
  BY <1>1, <1>2 DEF Shape

LEMMA TimeoutShape ==
  ASSUME Shape, NEW c \in calls, Timeout(c)
  PROVE  Shape'
<1> USE DEF Shape
<1>1. TypeOK'
  BY TimeoutType
<1>2. /\ c \in Call /\ c.from \in Proc /\ c.heard
      /\ c.op \in {"update", "greet"}
  <2>1. c \in Call
    BY DEF TypeOK, Call
  <2> QED
    BY <2>1, CallType DEF Timeout
<1>3. PICK new : new = [c EXCEPT !.heard = FALSE]
  OBVIOUS
<1>4. /\ new.from = c.from /\ new.to = c.to /\ new.op = c.op /\ new.cmd = c.cmd
      /\ new.dead = c.dead /\ new.heard = FALSE
  BY <1>2, <1>3, CallUnheard
<1>5. calls' = (calls \ {c}) \cup {new}
  BY <1>3 DEF Timeout
<1>6. \A d \in calls' : \E e \in calls :
         /\ d.op = e.op /\ d.from = e.from /\ d.to = e.to /\ d.cmd = e.cmd
         /\ d.dead = e.dead /\ (d.heard => e.heard /\ d = e)
  BY <1>4, <1>5
<1>7. \A d \in calls' : d.op = c.op /\ d.heard => d.from # c.from
  BY <1>2, <1>4, <1>5 DEF OneCall
<1>8. CASE c.op = "update"
  <2>1. writer[c.from].pc = "sending"
    BY <1>2, <1>8 DEF CallersWait
  <2>2. writer[c.from] # Idle
    BY <1>2, <2>1, WriterType
  <2>3. /\ writer' = [writer EXCEPT ![c.from].todo = @ \ {c.to[1]}]
        /\ UNCHANGED <<role, comm, greet, origin>>
    BY <1>8 DEF Timeout, SaveCmd, histVars
  <2>4. \A d \in calls' : d.op = "update" /\ d.heard => d.from # c.from
    BY <1>7, <1>8
  <2> HIDE DEF Shape
  <2>5. OneRuler' /\ WritersRule' /\ GreetersRule' /\ CallersWait' /\ OneCall'
    BY <1>2, <1>6, <2>2, <2>3, <2>4, WriterSent
  <2> QED
    BY <1>1, <2>5 DEF Shape
<1>9. CASE c.op = "greet"
  <2>1. /\ greet' = [greet EXCEPT ![c.from].todo = @ \ {c.to[1]}]
        /\ UNCHANGED <<role, comm, writer, origin>>
    BY <1>9 DEF Timeout, histVars
  <2>2. \A d \in calls' : d.op = "greet" /\ d.heard => d.from # c.from
    BY <1>7, <1>9
  <2> HIDE DEF Shape
  <2>3. OneRuler' /\ WritersRule' /\ GreetersRule' /\ CallersWait' /\ OneCall'
    BY <1>2, <1>6, <2>1, <2>2, GreeterTold
  <2> QED
    BY <1>1, <2>3 DEF Shape
<1> QED
  BY <1>2, <1>8, <1>9

LEMMA CrashShape ==
  ASSUME Shape, NEW p \in Proc, Crash(p)
  PROVE  Shape'
<1> USE DEF Shape
<1>1. TypeOK'
  BY CrashType
<1>2. /\ role'[p] = "down" /\ comm'[p] = "free" /\ writer'[p] = Idle
      /\ \A q \in Proc \ {p} :
           /\ role'[q] = role[q] /\ comm'[q] = comm[q]
           /\ writer'[q] = writer[q]
  BY DEF Crash, TypeOK
<1>3. PICK g : g = NoGreet
  OBVIOUS
<1>4. /\ greet'[p] = g /\ g.todo = {}
      /\ \A q \in Proc \ {p} : greet'[q] = greet[q]
  BY <1>3 DEF Crash, TypeOK, NoGreet
<1>5. OneRuler'
  BY <1>2, Processes DEF OneRuler, Rules
<1>6. WritersRule'
  BY <1>2 DEF Crash, WritersRule, Rules
<1>7. GreetersRule'
  BY <1>2, <1>4 DEF GreetersRule
<1>8. \A d \in calls : d.from \in Proc
  BY CallType DEF TypeOK, Call
<1>9. \A d \in calls' : \E c \in calls :
        /\ d.from = c.from /\ d.to = c.to /\ d.op = c.op /\ d.cmd = c.cmd
        /\ d.dead = c.dead
        /\ d.heard => /\ c.from # p /\ c.heard = d.heard
                      /\ IF c.to = p THEN d = [c EXCEPT !.pc = "failed"]
                         ELSE d = c
  <2> SUFFICES ASSUME NEW d \in calls'
               PROVE \E c \in calls :
                 /\ d.from = c.from /\ d.to = c.to /\ d.op = c.op /\ d.cmd = c.cmd
                 /\ d.dead = c.dead
                 /\ d.heard => /\ c.from # p /\ c.heard = d.heard
                               /\ IF c.to = p THEN d = [c EXCEPT !.pc = "failed"]
                                  ELSE d = c
    OBVIOUS
  <2> QED
    BY CallsOfDead
<1>10. CallersWait'
  <2> SUFFICES ASSUME NEW d \in calls'
               PROVE  /\ d.op = "update" /\ d.heard =>
                           /\ writer'[d.from].pc = "sending"
                           /\ writer'[d.from].cmd = d.cmd
                           /\ d.to[1] \in writer'[d.from].todo
                      /\ d.op = "greet" /\ d.heard =>
                           /\ role'[d.from] = "greeting"
                           /\ d.to[1] \in greet'[d.from].todo
                      /\ d.op = "greet" => d.dead \in Index
    BY DEF CallersWait
  <2>1. PICK c \in calls :
           /\ d.from = c.from /\ d.to = c.to /\ d.op = c.op /\ d.cmd = c.cmd
           /\ d.dead = c.dead /\ (d.heard => c.from # p /\ c.heard = d.heard)
    BY <1>9
  <2> QED
    BY <1>2, <1>4, <1>8, <2>1 DEF CallersWait
<1>11. OneCall'
  <2> SUFFICES ASSUME NEW d \in calls', NEW e \in calls', d.heard, e.heard,
                      d.from = e.from, d.op = e.op
               PROVE  d = e
    BY DEF OneCall
  <2>1. PICK c \in calls :
           /\ d.from = c.from /\ d.op = c.op /\ c.heard /\ c.from # p
           /\ d.to = c.to
           /\ IF c.to = p THEN d = [c EXCEPT !.pc = "failed"] ELSE d = c
    BY <1>9
  <2>2. PICK b \in calls :
           /\ e.from = b.from /\ e.op = b.op /\ b.heard /\ b.from # p
           /\ e.to = b.to
           /\ IF b.to = p THEN e = [b EXCEPT !.pc = "failed"] ELSE e = b
    BY <1>9
  <2>3. c = b
    BY <2>1, <2>2 DEF OneCall
  <2> QED
    BY <2>1, <2>2, <2>3
<1> QED
  BY <1>1, <1>5, <1>6, <1>7, <1>10, <1>11

LEMMA RestartShape ==
  ASSUME Shape, NEW p \in Proc, Restart(p)
  PROVE  Shape'
<1> USE DEF Shape
<1>1. TypeOK'
  BY RestartType
<1>2. /\ role[p] = "down" /\ role'[p] = "slave"
      /\ \A q \in Proc \ {p} : role'[q] = role[q]
  BY DEF Restart, TypeOK
<1>3. \A q \in Proc : Rules(q)' = Rules(q)
  BY <1>2 DEF Rules
<1>4. OneRuler' /\ OneCall'
  BY <1>3, Processes DEF OneRuler, OneCall, Restart
<1>5. WritersRule'
  BY <1>3 DEF WritersRule, Restart, histVars
<1>6. GreetersRule'
  BY <1>2 DEF GreetersRule, Restart
<1>7. \A d \in calls : d.from \in Proc
  BY CallType DEF TypeOK, Call
<1>8. CallersWait'
  BY <1>2, <1>7 DEF Restart, CallersWait
<1> QED
  BY <1>1, <1>4, <1>5, <1>6, <1>8

\* The steps of Next, one by one.
LEMMA Steps ==
  ASSUME Next
  PROVE  \/ \E p \in Proc, c \in Command : Submit(p, c)
         \/ \E p \in Proc : Save(p) \/ StartSending(p) \/ Sent(p) \/ NotSent(p)
                            \/ Answer(p)
         \/ \E p \in Proc, n \in Machine : Send(p, n) \/ Greet(p, n)
         \/ \E p \in Proc : TakeOver(p) \/ StartGreeting(p) \/ Greeted(p)
                            \/ EndGreeting(p) \/ Crash(p) \/ Restart(p)
         \/ \E c \in calls : Update(c) \/ Reset(c) \/ Fetch(c) \/ Timeout(c)
BY DEF Next, Write, Rule, Handle

LEMMA NextShape == Shape /\ [Next]_vars => Shape'
<1> SUFFICES ASSUME Shape, [Next]_vars PROVE Shape'
  OBVIOUS
<1>1. CASE UNCHANGED vars
  BY <1>1 DEF vars, procVars, fileVars, histVars, failVars, Shape, TypeOK,
     OneRuler, WritersRule, GreetersRule, CallersWait, OneCall, Rules
<1>2. ASSUME NEW p \in Proc, NEW c \in Command, Submit(p, c) PROVE Shape'
  BY <1>2, SubmitShape
<1>3. ASSUME NEW p \in Proc,
             Save(p) \/ StartSending(p) \/ Sent(p) \/ NotSent(p) \/ Answer(p)
      PROVE  Shape'
  BY <1>3, SaveShape, StartSendingShape, SentShape, NotSentShape, AnswerShape
<1>4. ASSUME NEW p \in Proc, NEW n \in Machine, Send(p, n) \/ Greet(p, n)
      PROVE  Shape'
  BY <1>4, SendShape, GreetShape
<1>5. ASSUME NEW p \in Proc,
             \/ TakeOver(p) \/ StartGreeting(p) \/ Greeted(p)
             \/ EndGreeting(p) \/ Crash(p) \/ Restart(p)
      PROVE  Shape'
  BY <1>5, TakeOverShape, StartGreetingShape, GreetedShape, EndGreetingShape,
     CrashShape, RestartShape
<1>6. ASSUME NEW c \in calls, Update(c) \/ Reset(c) \/ Fetch(c) \/ Timeout(c)
      PROVE  Shape'
  BY <1>6, UpdateShape, ResetShape, FetchShape, TimeoutShape
<1> QED
  BY <1>1, <1>2, <1>3, <1>4, <1>5, <1>6, Steps

-----------------------------------------------------------------------------
(***************************************************************************)
(* Masters, tables and calls                                               *)
(***************************************************************************)

LEMMA FailureCount ==
  ASSUME TypeOK
  PROVE  /\ crashes \in Nat /\ timeouts \in Nat
         /\ crashes + timeouts = 0 => crashes = 0 /\ timeouts = 0
         /\ crashes = 1 => crashes + timeouts # 0
         /\ crashes = 1 /\ OneFailure => crashes + timeouts = 1
<1>1. crashes \in Nat /\ timeouts \in Nat
  BY DEF TypeOK
<1> QED
  BY <1>1 DEF OneFailure

\* As long as nothing has failed the first masters rule.
LEMMA AllOrig ==
  ASSUME Shape, Control, crashes + timeouts = 0
  PROVE  /\ \A m \in Machine : Orig(m)
         /\ \A p \in Proc : Rules(p) => p[2] = Size
         /\ \A c \in calls : c.op # "greet"
<1>1. crashes = 0
  BY FailureCount DEF Shape
<1>2. \A m \in Machine : Orig(m)
  BY <1>1 DEF Control, OneChanged
<1>3. ASSUME NEW p \in Proc, Rules(p) PROVE p[2] = Size
  <2>1. p[1] \in Machine /\ p[2] \in Index /\ p = <<p[1], p[2]>> /\ Size \in Index
    BY Processes
  <2>2. Rules(<<p[1], p[2]>>) /\ Rules(<<p[1], Size>>)
    BY <1>2, <1>3, <2>1 DEF Orig
  <2> QED
    BY <2>1, <2>2 DEF Shape, OneRuler
<1>4. ASSUME NEW c \in calls, c.op = "greet" PROVE FALSE
  <2>1. c.heard /\ c.from \in Proc
    BY <1>4, CallType DEF Control, Reaching, Shape, TypeOK, Call
  <2>2. role[c.from] = "greeting"
    BY <1>4, <2>1 DEF Shape, CallersWait
  <2>3. c.from[2] = Size
    BY <1>3, <2>1, <2>2 DEF Rules
  <2> QED
    BY <2>1, <2>2, <2>3, Processes DEF Control, Replaced
<1> QED
  BY <1>2, <1>3, <1>4

\* Who takes over is in the one machine that has lost its first master.
LEMMA GreeterIsNew ==
  ASSUME Shape, Control, NEW p \in Proc, role[p] = "greeting"
  PROVE  /\ p[2] # Size /\ ~Orig(p[1]) /\ crashes = 1
         /\ \A n \in Machine : n # p[1] => Orig(n)
         /\ \A i \in Index : Rules(<<p[1], i>>) => i = p[2]
<1>1. p[1] \in Machine /\ p[2] \in Index /\ p = <<p[1], p[2]>> /\ Size \in Index
  BY Processes
<1>2. p[2] # Size
  BY <1>1 DEF Control, Replaced
<1>3. Rules(<<p[1], p[2]>>)
  BY <1>1 DEF Rules
<1>4. \A i \in Index : Rules(<<p[1], i>>) => i = p[2]
  BY <1>1, <1>3 DEF Shape, OneRuler
<1>5. ~Orig(p[1])
  BY <1>1, <1>2, <1>4 DEF Orig
<1> QED
  BY <1>1, <1>2, <1>4, <1>5 DEF Control, OneChanged

\* Who is taken for the master of another machine, and lives, rules.
LEMMA PeerRules ==
  ASSUME Shape, Control, NEW p \in Proc, Rules(p),
         NEW n \in Machine, n # p[1]
  PROVE  /\ Peer(p, n) \in Proc /\ Peer(p, n)[1] = n
         /\ Alive(Peer(p, n)) => Rules(Peer(p, n))
         /\ Orig(n) => Peer(p, n) = <<n, Size>> /\ Alive(Peer(p, n))
<1>1. p[1] \in Machine /\ p[2] \in Index /\ p = <<p[1], p[2]>> /\ Size \in Index
  BY Processes
<1>2. table[p][n] \in Index
  BY DEF Shape, TypeOK
<1>3. Peer(p, n) \in Proc /\ Peer(p, n)[1] = n
  BY <1>2, Processes DEF Peer
<1>4. CASE Orig(n)
  <2>1. Peer(p, n) = <<n, Size>>
    BY <1>4 DEF Control, Tables, Peer
  <2> QED
    BY <1>3, <1>4, <2>1 DEF Orig, Rules, Alive
<1>5. CASE ~Orig(n)
  <2> SUFFICES ASSUME Alive(Peer(p, n)) PROVE Rules(Peer(p, n))
    BY <1>3, <1>5
  <2>1. CASE table[p][n] = Size
    <3>1. PICK i \in Index : role[<<n, i>>] = "master"
      BY <1>5, <2>1 DEF Control, Replaced, Peer
    <3>2. i # Size
      BY <1>5, <3>1 DEF Orig, Rules
    <3>3. Orig(p[1])
      BY <1>1, <1>5 DEF Control, OneChanged
    <3>4. p = <<p[1], Size>>
      BY <1>1, <3>3 DEF Orig, Shape, OneRuler
    <3>5. table[<<p[1], Size>>][n] = i
      BY <1>1, <3>1 DEF Control, Tables, Others
    <3> QED
      BY <2>1, <3>2, <3>4, <3>5
  <2>2. CASE table[p][n] # Size
    BY <2>2 DEF Control, Tables, Peer
  <2> QED
    BY <2>1, <2>2
<1> QED
  BY <1>3, <1>4, <1>5

LEMMA ControlFrame ==
  ASSUME Control, calls' \subseteq calls,
         UNCHANGED <<role, table, greet, failed, crashes, timeouts>>
  PROVE  Control'
<1>1. /\ \A p : Rules(p)' = Rules(p) /\ Alive(p)' = Alive(p)
      /\ \A m : Orig(m)' = Orig(m)
  BY DEF Orig, Rules, Alive
<1>2. OneChanged' /\ Replaced' /\ Tables'
  BY <1>1 DEF Control, OneChanged, Replaced, Tables
<1>3. Reaching' /\ Unharmed'
  BY <1>1 DEF Control, Reaching, Unharmed, NothingSaved
<1> QED
  BY <1>2, <1>3 DEF Control

LEMMA SubmitControl ==
  ASSUME Control, NEW p \in Proc, NEW c \in Command, Submit(p, c)
  PROVE  Control'
BY ControlFrame DEF Submit, failVars

LEMMA SaveControl ==
  ASSUME Control, NEW p \in Proc, Save(p)
  PROVE  Control'
BY ControlFrame DEF Save, failVars

LEMMA StartSendingControl ==
  ASSUME Control, NEW p \in Proc, StartSending(p)
  PROVE  Control'
BY ControlFrame DEF StartSending, fileVars, failVars

LEMMA SentControl ==
  ASSUME Control, NEW p \in Proc, Sent(p)
  PROVE  Control'
BY ControlFrame DEF Sent, failVars

LEMMA AnswerControl ==
  ASSUME Control, NEW p \in Proc, Answer(p)
  PROVE  Control'
BY ControlFrame DEF Answer, fileVars, failVars

LEMMA StartGreetingControl ==
  ASSUME Control, NEW p \in Proc, StartGreeting(p)
  PROVE  Control'
BY ControlFrame DEF StartGreeting, fileVars, failVars

LEMMA SendControl ==
  ASSUME Shape, Control, NEW p \in Proc, NEW n \in Machine, Send(p, n)
  PROVE  Control'
<1> DEFINE q == Peer(p, n)
<1>1. writer[p] # Idle /\ writer[p].cmd \in Command /\ n \in writer[p].todo
  BY WriterType DEF Shape, Send
<1>2. Rules(p) /\ n # p[1]
  BY <1>1 DEF Shape, WritersRule, Others
<1>3. /\ q \in Proc /\ (Alive(q) => Rules(q))
      /\ Orig(n) => Alive(q)
  BY <1>2, PeerRules
<1>4. UNCHANGED <<role, table, greet, crashes, timeouts>>
  BY DEF Send, failVars
<1> HIDE DEF q
<1>5. CASE Alive(q)
  <2>1. PICK c : c = Called(p, q, "update", writer[p].cmd, 0)
    OBVIOUS
  <2>2. calls' = calls \cup {c} /\ failed' = failed
    BY <1>5, <2>1 DEF Send, q
  <2>3. /\ c.op = "update" /\ c.to = q /\ c.pc = "run" /\ c.cmds = <<>>
    BY <2>1 DEF Called
  <2>4. /\ \A r : Rules(r)' = Rules(r) /\ Alive(r)' = Alive(r)
        /\ \A m : Orig(m)' = Orig(m)
    BY <1>4 DEF Orig, Rules, Alive
  <2>5. OneChanged' /\ Replaced' /\ Tables'
    BY <1>4, <2>4 DEF Control, OneChanged, Replaced, Tables
  <2>6. Reaching'
    BY <1>3, <1>4, <1>5, <2>2, <2>3, <2>4 DEF Control, Reaching
  <2>7. Unharmed'
    BY <1>4, <2>2, <2>3 DEF Control, Unharmed, NothingSaved
  <2> QED
    BY <2>5, <2>6, <2>7 DEF Control
<1>6. CASE ~Alive(q)
  <2>1. calls' = calls
    BY <1>6 DEF Send, q
  <2>2. crashes + timeouts # 0
    BY <1>3, <1>6, AllOrig
  <2>3. /\ \A r : Rules(r)' = Rules(r) /\ Alive(r)' = Alive(r)
        /\ \A m : Orig(m)' = Orig(m)
    BY <1>4 DEF Orig, Rules, Alive
  <2>4. OneChanged' /\ Replaced' /\ Tables'
    BY <1>4, <2>3 DEF Control, OneChanged, Replaced, Tables
  <2>5. Reaching'
    BY <1>4, <2>1, <2>3 DEF Control, Reaching
  <2>6. Unharmed'
    BY <1>4, <2>2 DEF Unharmed
  <2> QED
    BY <2>4, <2>5, <2>6 DEF Control
<1> QED
  BY <1>5, <1>6

LEMMA NotSentControl ==
  ASSUME Shape, Control, NEW p \in Proc, NotSent(p)
  PROVE  Control'
<1>1. PICK c \in Pending(p, "update") : c.pc = "failed" /\ calls' = calls \ {c}
  BY DEF NotSent
<1>2. crashes + timeouts # 0
  BY <1>1, PendingUpdate DEF Control, Unharmed
<1>3. UNCHANGED <<role, table, greet, crashes, timeouts>>
  BY DEF NotSent, failVars
<1>4. /\ \A r : Rules(r)' = Rules(r) /\ Alive(r)' = Alive(r)
      /\ \A m : Orig(m)' = Orig(m)
  BY <1>3 DEF Orig, Rules, Alive
<1>5. OneChanged' /\ Replaced' /\ Tables'
  BY <1>3, <1>4 DEF Control, OneChanged, Replaced, Tables
<1>6. Reaching'
  BY <1>1, <1>3, <1>4 DEF Control, Reaching
<1>7. Unharmed'
  BY <1>2, <1>3 DEF Unharmed
<1> QED
  BY <1>5, <1>6, <1>7 DEF Control

\* The process that was started as the master does not take over.
LEMMA NewRuler ==
  ASSUME Shape, Control, NEW p \in Proc, TakeOver(p)
  PROVE  p[2] # Size
<1> SUFFICES ASSUME p[2] = Size PROVE FALSE
  OBVIOUS
<1>1. /\ p[1] \in Machine /\ p = <<p[1], Size>> /\ role[p] = "slave"
      /\ \A i \in Index : ~Rules(<<p[1], i>>)
  BY Processes DEF TakeOver
<1>2. ~Orig(p[1]) /\ Alive(<<p[1], Size>>)
  BY <1>1, Processes DEF Orig, Alive
<1>3. PICK i \in Index : role[<<p[1], i>>] = "master"
  BY <1>1, <1>2 DEF Control, Replaced
<1> QED
  BY <1>1, <1>3 DEF Rules

LEMMA TakeOverControl ==
  ASSUME Shape, Control, OneFailure, NEW p \in Proc, TakeOver(p)
  PROVE  Control'
<1> DEFINE m == p[1]
<1>1. /\ m \in Machine /\ p[2] \in Index /\ p = <<m, p[2]>> /\ Size \in Index
      /\ role[p] = "slave" /\ role'[p] = "greeting"
      /\ \A q \in Proc \ {p} : role'[q] = role[q]
      /\ \A i \in Index : ~Rules(<<m, i>>)
  BY Processes DEF TakeOver, Shape, TypeOK
<1>2. PICK g : g = [dead |-> known[p], todo |-> Others(m)]
  OBVIOUS
<1>3. /\ greet' = [greet EXCEPT ![p] = g] /\ g.todo = Others(m)
  BY <1>2 DEF TakeOver
<1>4. greet'[p].todo = Others(m) /\ \A q \in Proc \ {p} : greet'[q] = greet[q]
  BY <1>3 DEF Shape, TypeOK
<1>5. UNCHANGED <<table, failed, calls, crashes, timeouts>>
  BY DEF TakeOver, failVars
<1> HIDE DEF m
<1>6. ~Orig(m)
  BY <1>1 DEF Orig
<1>7. p[2] # Size
  BY NewRuler
<1>8. \A n \in Machine : role'[<<n, Size>>] = role[<<n, Size>>]
  BY <1>1, <1>7, Processes
<1>9. \A n \in Machine : Orig(n)' = Orig(n)
  BY <1>8 DEF Orig, Rules
<1>10. crashes = 1
  BY <1>1, <1>6 DEF Control, OneChanged
<1>11. OneChanged'
  BY <1>5, <1>9 DEF Control, OneChanged
<1>12. Replaced'
  <2> SUFFICES ASSUME NEW n \in Machine
               PROVE  /\ ~Orig(n)' /\ Alive(<<n, Size>>)' =>
                           \E i \in Index : role'[<<n, i>>] = "master"
                      /\ role'[<<n, Size>>] # "greeting"
    BY DEF Replaced
  <2>1. role'[<<n, Size>>] # "greeting"
    BY <1>8 DEF Control, Replaced
  <2>2. ASSUME ~Orig(n)', Alive(<<n, Size>>)'
        PROVE  \E i \in Index : role'[<<n, i>>] = "master"
    <3>1. ~Orig(n) /\ Alive(<<n, Size>>)
      BY <1>8, <1>9, <2>2 DEF Alive
    <3>2. PICK i \in Index : role[<<n, i>>] = "master"
      BY <3>1 DEF Control, Replaced
    <3>3. <<n, i>> # p /\ <<n, i>> \in Proc
      BY <1>1, <3>2, Processes
    <3> QED
      BY <1>1, <3>2, <3>3
  <2> QED
    BY <2>1, <2>2
<1>13. Tables'
  <2> SUFFICES ASSUME NEW n \in Machine
               PROVE
                 /\ Orig(n)' => \A q \in Proc : table'[q][n] = Size
                 /\ \A i \in Index, k \in Others(n) :
                      \/ role'[<<n, i>>] = "master"
                      \/ role'[<<n, i>>] = "greeting" /\ k \notin greet'[<<n, i>>].todo
                      => table'[<<k, Size>>][n] = i
                 /\ \A q \in Proc : \/ table'[q][n] = Size
                                    \/ Rules(<<n, table[q][n]>>)'
    BY DEF Tables
  <2>1. Orig(n)' => \A q \in Proc : table'[q][n] = Size
    BY <1>5, <1>9 DEF Control, Tables
  <2>2. ASSUME NEW i \in Index, NEW k \in Others(n),
               \/ role'[<<n, i>>] = "master"
               \/ role'[<<n, i>>] = "greeting" /\ k \notin greet'[<<n, i>>].todo
        PROVE  table'[<<k, Size>>][n] = i
    <3>1. <<n, i>> \in Proc /\ <<n, i>>[1] = n
      BY Processes
    <3>2. <<n, i>> # p
      BY <1>1, <1>4, <2>2, <3>1
    <3> QED
      BY <1>1, <1>4, <1>5, <2>2, <3>1, <3>2 DEF Control, Tables
  <2>3. ASSUME NEW q \in Proc, table'[q][n] # Size
        PROVE  Rules(<<n, table[q][n]>>)'
    <3>1. Rules(<<n, table[q][n]>>) /\ table'[q][n] = table[q][n]
      BY <1>5, <2>3 DEF Control, Tables
    <3>2. <<n, table[q][n]>> \in Proc \ {p}
      BY <1>1, <3>1, Processes DEF Rules, Shape, TypeOK
    <3>3. role'[<<n, table[q][n]>>] = role[<<n, table[q][n]>>]
      BY <1>1, <3>2
    <3> QED
      BY <1>5, <3>1, <3>3 DEF Rules
  <2> QED
    BY <2>1, <2>2, <2>3
<1>14. Reaching'
  <2>1. \A q \in Proc : Rules(q) => Rules(q)'
    BY <1>1 DEF Rules
  <2>2. \A c \in calls : c.to \in Proc
    BY CallType DEF Shape, TypeOK, Call
  <2> QED
    BY <1>5, <2>1, <2>2 DEF Control, Reaching
<1>15. Unharmed'
  BY <1>5, <1>10, FailureCount DEF Unharmed, Shape
<1> QED
  BY <1>11, <1>12, <1>13, <1>14, <1>15 DEF Control

LEMMA GreetControl ==
  ASSUME Shape, Control, NEW p \in Proc, NEW n \in Machine, Greet(p, n)
  PROVE  Control'
<1> DEFINE q == Peer(p, n)
<1>1. role[p] = "greeting" /\ n \in greet[p].todo /\ n # p[1]
  BY DEF Shape, GreetersRule, Greet, Others
<1>2. crashes = 1 /\ Orig(n) /\ Rules(p)
  BY <1>1, GreeterIsNew DEF Rules
<1>3. q = <<n, Size>> /\ Alive(q)
  BY <1>1, <1>2, PeerRules
<1>4. UNCHANGED <<role, table, failed, crashes, timeouts>>
  BY DEF Greet, fileVars, failVars
<1>5. /\ calls' = calls \cup {Called(p, q, "greet", p[2], greet[p].dead)}
      /\ greet' = greet
  BY <1>3 DEF Greet
<1>6. PICK c : c = Called(p, q, "greet", p[2], greet[p].dead)
  OBVIOUS
<1>7. /\ c.op = "greet" /\ c.to[1] = n /\ c.to[2] = Size /\ c.from = p
      /\ c.cmd = p[2] /\ c.heard /\ c.pc = "run" /\ c.cmds = <<>>
  BY <1>3, <1>6 DEF Called
<1>8. /\ \A r : Rules(r)' = Rules(r) /\ Alive(r)' = Alive(r)
      /\ \A m : Orig(m)' = Orig(m)
  BY <1>4 DEF Orig, Rules, Alive
<1>9. OneChanged' /\ Replaced' /\ Tables'
  BY <1>4, <1>5, <1>8 DEF Control, OneChanged, Replaced, Tables
<1>10. calls' = calls \cup {c}
  BY <1>5, <1>6
<1> HIDE DEF q
<1>11. Reaching'
  <2> SUFFICES ASSUME NEW d \in calls'
               PROVE
                 /\ d.op = "update" /\ d.pc = "run" => Rules(d.to)'
                 /\ d.op = "greet" =>
                      /\ d.heard
                      /\ d.to[2] = Size /\ d.to[1] # d.from[1]
                      /\ d.cmd = d.from[2]
                      /\ d.pc # "failed"
                      /\ d.pc # "run" => table'[d.to][d.from[1]] = d.from[2]
                 /\ d.pc # "done" => d.cmds = <<>>
    BY DEF Reaching
  <2>1. CASE d \in calls
    BY <1>4, <1>8, <2>1 DEF Control, Reaching
  <2>2. CASE d = c
    BY <1>1, <1>7, <2>2
  <2> QED
    BY <1>10, <2>1, <2>2
<1>12. Unharmed'
  BY <1>2, <1>4, FailureCount DEF Unharmed, Shape
<1> QED
  BY <1>9, <1>11, <1>12 DEF Control

LEMMA GreetedControl ==
  ASSUME Shape, Control, NEW p \in Proc, Greeted(p)
  PROVE  Control'
<1>1. PICK c \in Pending(p, "greet") :
        /\ c.pc \in {"done", "failed"}
        /\ greet' = [greet EXCEPT ![p].todo = @ \ {c.to[1]}]
        /\ calls' = calls \ {c}
  BY DEF Greeted
<1>2. /\ c \in calls /\ c.op = "greet" /\ c.from = p /\ c.to \in Proc
      /\ role[p] = "greeting"
  BY <1>1, PendingGreet
<1>3. /\ greet'[p].todo = greet[p].todo \ {c.to[1]}
      /\ \A q \in Proc \ {p} : greet'[q] = greet[q]
  BY <1>1, GreetTodo DEF Shape
<1>4. UNCHANGED <<role, table, failed, crashes, timeouts>>
  BY DEF Greeted, failVars
<1>5. table[c.to][p[1]] = p[2] /\ c.to = <<c.to[1], Size>>
  BY <1>1, <1>2, Processes DEF Control, Reaching
<1>6. /\ \A r : Rules(r)' = Rules(r) /\ Alive(r)' = Alive(r)
      /\ \A m : Orig(m)' = Orig(m)
  BY <1>4 DEF Orig, Rules, Alive
<1>7. OneChanged' /\ Replaced'
  BY <1>4, <1>6 DEF Control, OneChanged, Replaced
<1>8. Tables'
  <2>1. ASSUME NEW n \in Machine, NEW i \in Index, NEW k \in Others(n),
               \/ role'[<<n, i>>] = "master"
               \/ role'[<<n, i>>] = "greeting" /\ k \notin greet'[<<n, i>>].todo
        PROVE  table'[<<k, Size>>][n] = i
    <3>1. <<n, i>> \in Proc /\ <<n, i>>[1] = n /\ <<n, i>>[2] = i
      BY Processes
    <3>2. CASE <<n, i>> = p /\ k = c.to[1]
      BY <1>4, <1>5, <3>1, <3>2
    <3>3. CASE ~(<<n, i>> = p /\ k = c.to[1])
      BY <1>3, <1>4, <2>1, <3>1, <3>3 DEF Control, Tables
    <3> QED
      BY <3>2, <3>3
  <2> QED
    BY <1>4, <1>6, <2>1 DEF Control, Tables
<1>9. Reaching' /\ Unharmed'
  BY <1>1, <1>4, <1>6 DEF Control, Reaching, Unharmed, NothingSaved
<1> QED
  BY <1>7, <1>8, <1>9 DEF Control

LEMMA EndGreetingControl ==
  ASSUME Shape, Control, NEW p \in Proc, EndGreeting(p)
  PROVE  Control'
<1>1. /\ role[p] = "greeting" /\ role'[p] = "master" /\ greet[p].todo = {}
      /\ \A q \in Proc \ {p} : role'[q] = role[q]
  BY DEF EndGreeting, Shape, GreetersRule, TypeOK
<1>2. \A q \in Proc \ {p} : greet'[q] = greet[q]
  BY DEF EndGreeting, Shape, TypeOK
<1>3. UNCHANGED <<table, failed, calls, crashes, timeouts>>
  BY DEF EndGreeting, fileVars, failVars
<1>4. \A q \in Proc : Rules(q)' = Rules(q) /\ Alive(q)' = Alive(q)
  BY <1>1 DEF Rules, Alive
<1>5. \A m \in Machine : Orig(m)' = Orig(m)
  BY <1>4, Processes DEF Orig
<1>6. OneChanged'
  BY <1>3, <1>5 DEF Control, OneChanged
<1>7. Replaced'
  <2>1. \A m \in Machine : <<m, Size>> \in Proc /\ Alive(<<m, Size>>)' = Alive(<<m, Size>>)
    BY <1>4, Processes
  <2>2. \A m \in Machine, i \in Index :
          role[<<m, i>>] = "master" => role'[<<m, i>>] = "master"
    BY <1>1, Processes
  <2>3. \A m \in Machine : role'[<<m, Size>>] # "greeting"
    BY <1>1, Processes DEF Control, Replaced
  <2> QED
    BY <1>5, <2>1, <2>2, <2>3 DEF Control, Replaced
<1>8. Tables'
  <2>1. ASSUME NEW n \in Machine, NEW i \in Index, NEW k \in Others(n),
               \/ role'[<<n, i>>] = "master"
               \/ role'[<<n, i>>] = "greeting" /\ k \notin greet'[<<n, i>>].todo
        PROVE  table'[<<k, Size>>][n] = i
    <3>1. <<n, i>> \in Proc
      BY Processes
    <3>2. \/ role[<<n, i>>] = "master"
          \/ role[<<n, i>>] = "greeting" /\ k \notin greet[<<n, i>>].todo
      BY <1>1, <1>2, <2>1, <3>1
    <3> QED
      BY <1>3, <3>2 DEF Control, Tables
  <2>2. ASSUME NEW n \in Machine, NEW q \in Proc, table[q][n] # Size
        PROVE  Rules(<<n, table[q][n]>>)'
    <3>1. Rules(<<n, table[q][n]>>) /\ <<n, table[q][n]>> \in Proc
      BY <2>2, Processes DEF Control, Tables, Shape, TypeOK
    <3> QED
      BY <1>3, <1>4, <3>1 DEF Rules
  <2> QED
    BY <1>3, <1>5, <2>1, <2>2 DEF Control, Tables
<1>9. \A c \in calls : c.to \in Proc
  BY CallType DEF Shape, TypeOK, Call
<1>10. Reaching' /\ Unharmed'
  BY <1>3, <1>4, <1>9 DEF Control, Reaching, Unharmed, NothingSaved
<1> QED
  BY <1>6, <1>7, <1>8, <1>10 DEF Control

\* A handler goes on, and its call is as it should be.
LEMMA MovedControl ==
  ASSUME Shape, Control, NEW c \in calls, NEW pc \in Stage,
         NEW cmds \in Seq(Command), Goes(c, pc, cmds),
         pc # "run", pc # "failed", pc # "done" => cmds = <<>>,
         c.op = "greet" => table'[c.to][c.from[1]] = c.from[2],
         \A d \in calls : d.op = "greet" /\ d.pc # "run" =>
           table'[d.to][d.from[1]] = table[d.to][d.from[1]],
         UNCHANGED role
  PROVE  /\ Reaching'
         /\ \A d \in calls' : d \in calls \/ (d.cmds = cmds /\ d.pc # "failed")
<1>1. c \in Call
  BY DEF Shape, TypeOK, Call
<1>2. PICK new : new = Moved(c, pc, cmds)
  OBVIOUS
<1>3. /\ new.from = c.from /\ new.to = c.to /\ new.op = c.op /\ new.cmd = c.cmd
      /\ new.heard = c.heard /\ new.pc = pc /\ new.cmds = cmds
  BY <1>1, <1>2, CallGoes
<1>4. \A d \in calls' : d \in calls \/ d = new
  BY <1>2, CallGone DEF Shape
<1>5. Reaching'
  <2> SUFFICES ASSUME NEW d \in calls'
               PROVE
                 /\ d.op = "update" /\ d.pc = "run" => Rules(d.to)'
                 /\ d.op = "greet" =>
                      /\ d.heard
                      /\ d.to[2] = Size /\ d.to[1] # d.from[1]
                      /\ d.cmd = d.from[2]
                      /\ d.pc # "failed"
                      /\ d.pc # "run" => table'[d.to][d.from[1]] = d.from[2]
                 /\ d.pc # "done" => d.cmds = <<>>
    BY DEF Reaching
  <2>1. CASE d \in calls
    BY <2>1 DEF Control, Reaching, Rules
  <2>2. CASE d = new
    BY <1>3, <2>2 DEF Control, Reaching
  <2> QED
    BY <1>4, <2>1, <2>2
<1> QED
  BY <1>3, <1>4, <1>5

LEMMA UpdateControl ==
  ASSUME Shape, Control, NEW c \in calls, Update(c)
  PROVE  Control'
<1>1. UNCHANGED <<role, table, greet, failed, crashes, timeouts>>
  BY DEF Update, failVars
<1>2. /\ Reaching'
      /\ \A d \in calls' : d \in calls \/ (d.cmds = <<>> /\ d.pc # "failed")
  <2>1. "fetch" \in Stage /\ <<>> \in Seq(Command)
    BY DEF Stage
  <2>2. Goes(c, "fetch", <<>>) /\ c.op = "update"
    BY DEF Update
  <2> QED
    BY <1>1, <2>1, <2>2, MovedControl
<1>3. /\ \A r : Rules(r)' = Rules(r) /\ Alive(r)' = Alive(r)
      /\ \A m : Orig(m)' = Orig(m)
  BY <1>1 DEF Orig, Rules, Alive
<1>4. OneChanged' /\ Replaced' /\ Tables'
  BY <1>1, <1>3 DEF Control, OneChanged, Replaced, Tables
<1>5. Unharmed'
  BY <1>1, <1>2 DEF Control, Unharmed, NothingSaved
<1> QED
  BY <1>2, <1>4, <1>5 DEF Control

LEMMA FetchControl ==
  ASSUME Shape, Control, NEW c \in calls, Fetch(c)
  PROVE  Control'
<1> DEFINE cmds == failed[c.to[1]][Owner(c)]
<1>1. UNCHANGED <<role, table, greet, crashes, timeouts>>
  BY DEF Fetch, procVars, failVars
<1>2. /\ c.to[1] \in Machine /\ Owner(c) \in Proc /\ cmds \in Seq(Command)
  BY FetchOwner
<1>3. /\ Goes(c, "done", cmds) /\ c.pc = "fetch"
      /\ \A m \in Machine, r \in Proc :
           failed'[m][r] = failed[m][r] \/ failed'[m][r] = <<>>
  BY CmdsFetched DEF Fetch
<1>4. crashes + timeouts = 0 => cmds = <<>>
  BY <1>2 DEF Control, Unharmed, NothingSaved
<1> HIDE DEF cmds
<1>5. /\ Reaching'
      /\ \A d \in calls' : d \in calls \/ (d.cmds = cmds /\ d.pc # "failed")
  <2>1. "done" \in Stage
    BY DEF Stage
  <2>2. c.op = "greet" => table'[c.to][c.from[1]] = c.from[2]
    BY <1>1, <1>3 DEF Control, Reaching
  <2> QED
    BY <1>1, <1>2, <1>3, <2>1, <2>2, MovedControl
<1>6. /\ \A r : Rules(r)' = Rules(r) /\ Alive(r)' = Alive(r)
      /\ \A m : Orig(m)' = Orig(m)
  BY <1>1 DEF Orig, Rules, Alive
<1>7. OneChanged' /\ Replaced' /\ Tables'
  BY <1>1, <1>6 DEF Control, OneChanged, Replaced, Tables
<1>8. Unharmed'
  BY <1>1, <1>3, <1>4, <1>5 DEF Control, Unharmed, NothingSaved
<1> QED
  BY <1>5, <1>7, <1>8 DEF Control

LEMMA ResetControl ==
  ASSUME Shape, Control, NEW c \in calls, Reset(c)
  PROVE  Control'
<1> DEFINE m == c.from[1]
           pc == IF known[c.to] = c.to[2] THEN "fetch" ELSE "done"
<1>1. UNCHANGED <<role, greet, failed, crashes, timeouts>>
  BY DEF Reset, fileVars, failVars
<1>2. /\ c.op = "greet" /\ c.from \in Proc /\ c.to \in Proc /\ m \in Machine
      /\ c.from = <<m, c.from[2]>> /\ c.from[2] \in Index
  <2>1. c \in Call
    BY DEF Shape, TypeOK, Call
  <2> QED
    BY <2>1, CallType, Processes DEF Reset
<1>3. /\ c.heard /\ c.to[1] # m /\ c.cmd = c.from[2] /\ role[c.from] = "greeting"
  BY <1>2 DEF Control, Reaching, Shape, CallersWait
<1>4. /\ ~Orig(m) /\ crashes = 1
      /\ \A i \in Index : Rules(<<m, i>>) => i = c.from[2]
  BY <1>2, <1>3, GreeterIsNew
<1>5. Rules(c.from)
  BY <1>3 DEF Rules
<1>6. /\ table'[c.to][m] = c.from[2]
      /\ \A q \in Proc, n \in Machine :
           \/ table'[q][n] = table[q][n]
           \/ n = m /\ table'[q][n] = c.from[2]
  BY <1>2, <1>3 DEF Reset, Shape, TypeOK
<1>7. Goes(c, pc, <<>>) /\ pc \in Stage /\ pc # "run" /\ pc # "failed"
  BY DEF Reset, Stage
<1> HIDE DEF m, pc
<1>8. \A d \in calls : d.op = "greet" /\ d.pc # "run" =>
        table'[d.to][d.from[1]] = table[d.to][d.from[1]]
  <2> SUFFICES ASSUME NEW d \in calls, d.op = "greet", d.pc # "run"
               PROVE  table'[d.to][d.from[1]] = table[d.to][d.from[1]]
    OBVIOUS
  <2>1. d \in Call
    BY DEF Shape, TypeOK, Call
  <2>2. /\ d.to \in Proc /\ d.from \in Proc /\ d.from[1] \in Machine
        /\ d.from[2] \in Index /\ d.from = <<d.from[1], d.from[2]>>
    BY <2>1, CallType, Processes
  <2>3. role[d.from] = "greeting" /\ table[d.to][d.from[1]] = d.from[2]
    BY DEF Control, Reaching, Shape, CallersWait
  <2>4. d.from[1] = m => d.from[2] = c.from[2]
    BY <1>4, <2>2, <2>3 DEF Rules
  <2> QED
    BY <1>6, <2>2, <2>3, <2>4
<1>9. /\ Reaching'
      /\ \A d \in calls' : d \in calls \/ (d.cmds = <<>> /\ d.pc # "failed")
  <2>1. <<>> \in Seq(Command)
    OBVIOUS
  <2>2. table'[c.to][c.from[1]] = c.from[2]
    BY <1>6 DEF m
  <2> QED
    BY <1>1, <1>7, <1>8, <2>1, <2>2, MovedControl
<1>10. /\ \A r : Rules(r)' = Rules(r) /\ Alive(r)' = Alive(r)
       /\ \A n : Orig(n)' = Orig(n)
  BY <1>1 DEF Orig, Rules, Alive
<1>11. OneChanged' /\ Replaced'
  BY <1>1, <1>10 DEF Control, OneChanged, Replaced
<1>12. Tables'
  <2>1. ASSUME NEW n \in Machine, NEW q \in Proc, Orig(n)
        PROVE  table'[q][n] = Size
    BY <1>4, <1>6, <2>1 DEF Control, Tables
  <2>2. ASSUME NEW n \in Machine, NEW i \in Index, NEW k \in Others(n),
               \/ role[<<n, i>>] = "master"
               \/ role[<<n, i>>] = "greeting" /\ k \notin greet[<<n, i>>].todo
        PROVE  table'[<<k, Size>>][n] = i
    <3>1. table[<<k, Size>>][n] = i /\ <<k, Size>> \in Proc
      BY <2>2, Processes DEF Control, Tables, Others
    <3>2. n = m => i = c.from[2]
      BY <1>4, <2>2 DEF Rules
    <3> QED
      BY <1>6, <3>1, <3>2
  <2>3. ASSUME NEW n \in Machine, NEW q \in Proc
        PROVE  table'[q][n] = Size \/ Rules(<<n, table'[q][n]>>)
    BY <1>2, <1>5, <1>6 DEF Control, Tables
  <2> QED
    BY <1>1, <1>10, <2>1, <2>2, <2>3 DEF Tables, Rules
<1>13. Unharmed'
  BY <1>1, <1>4, FailureCount DEF Unharmed, Shape
<1> QED
  BY <1>9, <1>11, <1>12, <1>13 DEF Control

\* The first failure comes when there was none.
LEMMA FirstFailure ==
  ASSUME Shape, Shape', OneFailure',
         \/ timeouts' = timeouts + 1 /\ crashes' = crashes
         \/ crashes' = crashes + 1 /\ timeouts' = timeouts
  PROVE  /\ crashes = 0 /\ timeouts = 0 /\ crashes + timeouts = 0
         /\ crashes' + timeouts' # 0
<1>1. /\ crashes \in Nat /\ timeouts \in Nat
      /\ crashes' + timeouts' <= 1
  BY DEF Shape, TypeOK, OneFailure
<1> QED
  BY <1>1

LEMMA TimeoutControl ==
  ASSUME Shape, Shape', Control, OneFailure', NEW c \in calls, Timeout(c)
  PROVE  Control'
<1>1. /\ timeouts' = timeouts + 1 /\ crashes' = crashes
      /\ UNCHANGED <<role, table>>
  BY DEF Timeout
<1>2. crashes = 0 /\ crashes + timeouts = 0 /\ crashes' + timeouts' # 0
  BY <1>1, FirstFailure
<1>3. c.op = "update"
  <2>1. c \in Call
    BY DEF Shape, TypeOK, Call
  <2> QED
    BY <1>2, <2>1, AllOrig, CallType
<1>4. greet' = greet
  BY <1>3 DEF Timeout
<1>5. PICK new : new = [c EXCEPT !.heard = FALSE]
  OBVIOUS
<1>6. /\ new.to = c.to /\ new.op = c.op /\ new.pc = c.pc /\ new.cmds = c.cmds
      /\ calls' = (calls \ {c}) \cup {new}
  BY <1>5, CallUnheard DEF Shape, TypeOK, Call, Timeout
<1>7. /\ \A r : Rules(r)' = Rules(r) /\ Alive(r)' = Alive(r)
      /\ \A m : Orig(m)' = Orig(m)
  BY <1>1 DEF Orig, Rules, Alive
<1>8. OneChanged' /\ Replaced' /\ Tables'
  BY <1>1, <1>4, <1>7 DEF Control, OneChanged, Replaced, Tables
<1>9. Reaching'
  BY <1>1, <1>3, <1>6, <1>7 DEF Control, Reaching
<1>10. Unharmed'
  BY <1>2 DEF Unharmed
<1> QED
  BY <1>8, <1>9, <1>10 DEF Control

LEMMA CrashControl ==
  ASSUME Shape, Shape', Control, OneFailure', NEW p \in Proc, Crash(p)
  PROVE  Control'
<1>1. /\ crashes' = crashes + 1 /\ timeouts' = timeouts
      /\ UNCHANGED table
      /\ role'[p] = "down" /\ \A q \in Proc \ {p} : role'[q] = role[q]
  BY DEF Crash, Shape, TypeOK
<1>2. /\ crashes = 0 /\ crashes + timeouts = 0 /\ crashes' + timeouts' # 0
      /\ crashes' = 1
  BY <1>1, FirstFailure
<1>3. /\ \A m \in Machine : Orig(m)
      /\ \A q \in Proc : Rules(q) => q[2] = Size
      /\ \A c \in calls : c.op # "greet"
  BY <1>2, AllOrig
<1>4. \A m \in Machine : Orig(m)' <=> p # <<m, Size>>
  BY <1>1, <1>3, Processes DEF Orig, Rules
<1>5. OneChanged'
  <2>1. ASSUME NEW m \in Machine, NEW n \in Machine, ~Orig(m)', ~Orig(n)'
        PROVE  m = n
    BY <1>4, <2>1
  <2> QED
    BY <1>2, <2>1 DEF OneChanged
<1>6. Replaced'
  <2> SUFFICES ASSUME NEW m \in Machine
               PROVE  /\ ~Orig(m)' => ~Alive(<<m, Size>>)'
                      /\ role'[<<m, Size>>] # "greeting"
    BY DEF Replaced
  <2> QED
    BY <1>1, <1>4, Processes DEF Control, Replaced, Alive
<1>7. Tables'
  <2>1. \A q \in Proc, n \in Machine : table'[q][n] = Size
    BY <1>1, <1>3 DEF Control, Tables
  <2>2. ASSUME NEW n \in Machine, NEW i \in Index, NEW k \in Others(n),
               Rules(<<n, i>>)'
        PROVE  table'[<<k, Size>>][n] = i
    <3>1. <<n, i>> \in Proc /\ <<n, i>>[2] = i /\ <<k, Size>> \in Proc
      BY Processes DEF Others
    <3>2. Rules(<<n, i>>)
      BY <1>1, <2>2, <3>1 DEF Rules
    <3> QED
      BY <1>3, <2>1, <3>1, <3>2
  <2> QED
    BY <2>1, <2>2 DEF Tables, Rules
<1>8. Reaching'
  <2> SUFFICES ASSUME NEW d \in calls'
               PROVE  /\ d.op = "update" /\ d.pc = "run" => Rules(d.to)'
                      /\ d.op # "greet"
                      /\ d.cmds = <<>>
    BY DEF Reaching
  <2>1. PICK c \in calls :
           /\ d.to = c.to /\ d.op = c.op /\ d.cmds = c.cmds
           /\ \/ c.to # p /\ d.pc = c.pc
              \/ d.pc = "failed"
    BY CallsOfDead DEF Shape
  <2>2. c.to \in Proc
    BY CallType DEF Shape, TypeOK, Call
  <2> QED
    BY <1>1, <1>2, <1>3, <2>1, <2>2 DEF Control, Reaching, Unharmed, Rules
<1>9. Unharmed'
  BY <1>2 DEF Unharmed
<1> QED
  BY <1>5, <1>6, <1>7, <1>8, <1>9 DEF Control

LEMMA RestartControl ==
  ASSUME Shape, Control, NEW p \in Proc, Restart(p)
  PROVE  Control'
<1>1. PICK j \in Index :
        /\ role[p] = "down" /\ role[<<p[1], j>>] = "master"
        /\ role' = [role EXCEPT ![p] = "slave"]
        /\ table' = [table EXCEPT ![p] = [m \in Machine |-> Size]]
  BY DEF Restart
<1>2. UNCHANGED <<greet, calls, failed, crashes, timeouts>>
  BY DEF Restart, fileVars, failVars
<1>3. /\ role'[p] = "slave" /\ \A q \in Proc \ {p} : role'[q] = role[q]
      /\ \A n \in Machine : table'[p][n] = Size
      /\ \A q \in Proc \ {p} : table'[q] = table[q]
  BY <1>1 DEF Shape, TypeOK
<1>4. \A q \in Proc : Rules(q)' = Rules(q)
  BY <1>1, <1>3 DEF Rules
<1>5. \A m \in Machine : Orig(m)' = Orig(m)
  BY <1>4, Processes DEF Orig
<1>6. OneChanged'
  BY <1>2, <1>5 DEF Control, OneChanged
<1>7. Replaced'
  <2> SUFFICES ASSUME NEW m \in Machine
               PROVE  /\ ~Orig(m)' /\ Alive(<<m, Size>>)' =>
                           \E i \in Index : role'[<<m, i>>] = "master"
                      /\ role'[<<m, Size>>] # "greeting"
    BY DEF Replaced
  <2>1. role'[<<m, Size>>] # "greeting"
    BY <1>3, Processes DEF Control, Replaced
  <2>2. CASE p = <<m, Size>>
    <3>1. p[1] = m /\ <<m, j>> \in Proc
      BY <2>2, Processes
    <3>2. <<m, j>> # p
      BY <1>1, <3>1
    <3>3. role'[<<m, j>>] = "master"
      BY <1>1, <1>3, <3>1, <3>2
    <3> QED
      BY <2>1, <3>3
  <2>3. CASE p # <<m, Size>>
    <3>1. role'[<<m, Size>>] = role[<<m, Size>>]
      BY <1>3, <2>3, Processes
    <3>2. \A i \in Index : role[<<m, i>>] = "master" => role'[<<m, i>>] = "master"
      BY <1>1, <1>3, Processes
    <3> QED
      BY <1>5, <2>1, <3>1, <3>2 DEF Control, Replaced, Alive
  <2> QED
    BY <2>2, <2>3
<1>8. Tables'
  <2>1. ASSUME NEW n \in Machine, NEW q \in Proc, Orig(n)
        PROVE  table'[q][n] = Size
    BY <1>3, <2>1 DEF Control, Tables
  <2>2. ASSUME NEW n \in Machine, NEW i \in Index, NEW k \in Others(n),
               \/ role'[<<n, i>>] = "master"
               \/ role'[<<n, i>>] = "greeting" /\ k \notin greet[<<n, i>>].todo
        PROVE  table'[<<k, Size>>][n] = i
    <3>1. <<n, i>> \in Proc /\ <<k, Size>> \in Proc /\ k \in Machine /\ k # n
      BY Processes DEF Others
    <3>2. role'[<<n, i>>] = role[<<n, i>>]
      BY <1>3, <2>2, <3>1
    <3>3. table[<<k, Size>>][n] = i
      BY <2>2, <3>2 DEF Control, Tables
    <3>4. CASE p = <<k, Size>>
      <4>1. ~Orig(k)
        BY <1>1, <3>4 DEF Orig, Rules
      <4>2. Orig(n)
        BY <3>1, <4>1 DEF Control, OneChanged
      <4> QED
        BY <1>3, <3>1, <3>3, <3>4, <4>2 DEF Control, Tables
    <3>5. CASE p # <<k, Size>>
      BY <1>3, <3>1, <3>3, <3>5
    <3> QED
      BY <3>4, <3>5
  <2>3. ASSUME NEW n \in Machine, NEW q \in Proc, table'[q][n] # Size
        PROVE  table'[q][n] = table[q][n] /\ role'[<<n, table[q][n]>>] = role[<<n, table[q][n]>>]
               /\ Rules(<<n, table[q][n]>>)
    <3>1. q # p /\ table'[q][n] = table[q][n]
      BY <1>3, <2>3
    <3>2. Rules(<<n, table[q][n]>>)
      BY <2>3, <3>1 DEF Control, Tables
    <3>3. <<n, table[q][n]>> \in Proc \ {p}
      <4>1. table[q][n] \in Index
        BY DEF Shape, TypeOK
      <4> QED
        BY <1>1, <3>2, <4>1, Processes DEF Rules
    <3> QED
      BY <1>3, <3>1, <3>2, <3>3
  <2> QED
    BY <1>2, <1>5, <2>1, <2>2, <2>3 DEF Tables, Rules
<1>9. Reaching'
  <2> SUFFICES ASSUME NEW d \in calls
               PROVE
                 /\ d.op = "update" /\ d.pc = "run" => Rules(d.to)'
                 /\ d.op = "greet" =>
                      /\ d.heard
                      /\ d.to[2] = Size /\ d.to[1] # d.from[1]
                      /\ d.cmd = d.from[2]
                      /\ d.pc # "failed"
                      /\ d.pc # "run" => table'[d.to][d.from[1]] = d.from[2]
                 /\ d.pc # "done" => d.cmds = <<>>
    BY <1>2 DEF Reaching
  <2>1. d.to \in Proc /\ d.from \in Proc
    BY CallType DEF Shape, TypeOK, Call
  <2>2. d.op = "greet" => d.to # p
    <3> SUFFICES ASSUME d.op = "greet", d.to = p PROVE FALSE
      OBVIOUS
    <3>1. /\ d.heard /\ p[1] # d.from[1] /\ p = <<p[1], Size>> /\ p[1] \in Machine
      BY <2>1, Processes DEF Control, Reaching
    <3>2. role[d.from] = "greeting"
      BY <3>1 DEF Shape, CallersWait
    <3>3. Orig(p[1])
      BY <2>1, <3>1, <3>2, GreeterIsNew
    <3> QED
      BY <1>1, <3>1, <3>3 DEF Orig, Rules
  <2> QED
    BY <1>3, <1>4, <2>1, <2>2 DEF Control, Reaching
<1>10. Unharmed'
  BY <1>2 DEF Control, Unharmed, NothingSaved
<1> QED
  BY <1>6, <1>7, <1>8, <1>9, <1>10 DEF Control

LEMMA InitControl == Init => Control
<1> SUFFICES ASSUME Init PROVE Control
  OBVIOUS
<1>1. \A m \in Machine : Orig(m) /\ role[<<m, Size>>] = "master"
  BY Processes DEF Init, Orig, Rules
<1>2. \A q \in Proc, n \in Machine : table[q][n] = Size
  BY DEF Init
<1>3. \A n \in Machine, i \in Index : Rules(<<n, i>>) => i = Size
  BY Processes DEF Init, Rules
<1>4. Tables
  BY <1>2, <1>3, Processes DEF Tables, Others, Rules
<1> QED
  BY <1>1, <1>4 DEF Control, OneChanged, Replaced, Reaching, Unharmed,
     NothingSaved, Init

\* The failures only become more.
LEMMA EarlierFailures ==
  ASSUME Shape, [Next]_vars, OneFailure'
  PROVE  OneFailure
<1>1. crashes \in Nat /\ timeouts \in Nat
  BY DEF Shape, TypeOK
<1>2. \/ crashes' = crashes \/ crashes' = crashes + 1
      \/ UNCHANGED vars
  BY Steps DEF Submit, Save, StartSending, Sent, NotSent, Answer, Send, Greet,
     TakeOver, StartGreeting, Greeted, EndGreeting, Crash, Restart, Update,
     Reset, Fetch, Timeout, failVars
<1>3. \/ timeouts' = timeouts \/ timeouts' = timeouts + 1
      \/ UNCHANGED vars
  BY Steps DEF Submit, Save, StartSending, Sent, NotSent, Answer, Send, Greet,
     TakeOver, StartGreeting, Greeted, EndGreeting, Crash, Restart, Update,
     Reset, Fetch, Timeout, failVars
<1> QED
  BY <1>1, <1>2, <1>3 DEF OneFailure, vars, failVars

LEMMA NextControl ==
  ASSUME Shape, Shape', Control, OneFailure, OneFailure', [Next]_vars
  PROVE  Control'
<1>1. CASE UNCHANGED vars
  BY <1>1, ControlFrame DEF vars, procVars, fileVars, failVars
<1>2. ASSUME NEW p \in Proc, NEW c \in Command, Submit(p, c) PROVE Control'
  BY <1>2, SubmitControl
<1>3. ASSUME NEW p \in Proc,
             Save(p) \/ StartSending(p) \/ Sent(p) \/ NotSent(p) \/ Answer(p)
      PROVE  Control'
  BY <1>3, SaveControl, StartSendingControl, SentControl, NotSentControl,
     AnswerControl
<1>4. ASSUME NEW p \in Proc, NEW n \in Machine, Send(p, n) \/ Greet(p, n)
      PROVE  Control'
  BY <1>4, SendControl, GreetControl
<1>5. ASSUME NEW p \in Proc,
             \/ TakeOver(p) \/ StartGreeting(p) \/ Greeted(p)
             \/ EndGreeting(p) \/ Crash(p) \/ Restart(p)
      PROVE  Control'
  BY <1>5, TakeOverControl, StartGreetingControl, GreetedControl,
     EndGreetingControl, CrashControl, RestartControl
<1>6. ASSUME NEW c \in calls, Update(c) \/ Reset(c) \/ Fetch(c) \/ Timeout(c)
      PROVE  Control'
  BY <1>6, UpdateControl, ResetControl, FetchControl, TimeoutControl
<1> QED
  BY <1>1, <1>2, <1>3, <1>4, <1>5, <1>6, Steps

-----------------------------------------------------------------------------
(***************************************************************************)
(* The commands                                                            *)
(***************************************************************************)

\* What a step leaves as it was.
RanKept ==
  \A c \in Command, n \in Machine :
    n # origin[c] /\ Ran(c, n) => Ran(c, n)'

SettledKept ==
  \A c \in Command, n \in Machine :
    n # origin[c] /\ Settled(c, n) => Settled(c, n)'

SameRulers == \A q \in Proc : Rules(q)' = Rules(q)

LEMMA RoomsFrame ==
  ASSUME SameRulers, UNCHANGED <<mem, data, backup, torn>>
  PROVE  /\ \A c : \A n \in Machine : InRooms(c, n)' = InRooms(c, n)
         /\ \A c : \A n \in Machine : Safe(c, n)' = Safe(c, n)
         /\ \A c : \A n \in Machine : Ran(c, n)' = Ran(c, n)
         /\ RanKept
<1>1. \A n \in Machine, i \in Index : Rules(<<n, i>>)' = Rules(<<n, i>>)
  BY Processes DEF SameRulers
<1>2. \A c : \A n \in Machine : InRooms(c, n)' = InRooms(c, n)
  BY <1>1 DEF InRooms
<1>3. \A c : \A n \in Machine : Safe(c, n)' = Safe(c, n)
  BY <1>1 DEF Safe
<1>4. \A c : \A n \in Machine : Ran(c, n)' = Ran(c, n)
  BY <1>1 DEF Ran
<1> QED
  BY <1>2, <1>3, <1>4 DEF RanKept

\* The rulers run more, and no other touches the data.
LEMMA RoomsGrow ==
  ASSUME SameRulers,
         \A q \in Proc : Rules(q) => ToSet(mem[q]) \subseteq ToSet(mem'[q]),
         \A n \in Machine : (\A i \in Index : ~Rules(<<n, i>>)) => data'[n] = data[n],
         torn \subseteq torn'
  PROVE  RanKept
<1>1. \A n \in Machine, i \in Index :
        /\ <<n, i>> \in Proc
        /\ Rules(<<n, i>>)' = Rules(<<n, i>>)
  BY Processes DEF SameRulers
<1> SUFFICES ASSUME NEW c \in Command, NEW n \in Machine, Ran(c, n)
             PROVE  Ran(c, n)'
  BY DEF RanKept
<1>2. CASE \E i \in Index : Rules(<<n, i>>) /\ c \in ToSet(mem[<<n, i>>])
  BY <1>1, <1>2 DEF Ran
<1>3. CASE (\A i \in Index : ~Rules(<<n, i>>)) /\ c \in ToSet(data[n])
  BY <1>1, <1>3 DEF Ran
<1>4. CASE n \in torn
  BY <1>4 DEF Ran
<1> QED
  BY <1>2, <1>3, <1>4 DEF Ran

LEMMA SettledStays ==
  ASSUME RanKept, dropped \subseteq dropped',
         \A c \in Command, n \in Machine : SavedFor(c, n) => Settled(c, n)',
         \A c \in Command, n \in Machine :
           n # origin[c] /\ Returning(c, n) => Settled(c, n)'
  PROVE  SettledKept
BY DEF SettledKept, RanKept, Settled

LEMMA SavedFirstKept ==
  ASSUME TypeOK, SavedFirst, UNCHANGED origin,
         \A c \in Command : Abroad(c)' => Abroad(c),
         \A c \in Command, n \in Machine :
           Abroad(c) /\ origin[c] = n /\ Safe(c, n) => Safe(c, n)'
  PROVE  SavedFirst'
<1> SUFFICES ASSUME NEW c \in Command, Abroad(c)'
             PROVE  origin'[c] # NoMachine /\ Safe(c, origin[c])'
  BY DEF SavedFirst
<1>1. PICK o : o = origin[c]
  OBVIOUS
<1>2. o # NoMachine /\ Safe(c, o) /\ o \in Machine
  BY <1>1 DEF SavedFirst, TypeOK
<1>3. Safe(c, o)'
  BY <1>1, <1>2
<1>4. origin'[c] = o
  BY <1>1
<1> QED
  BY <1>2, <1>3, <1>4 DEF Safe

LEMMA DoneKept ==
  ASSUME TypeOK, DoneSettled, SettledKept, UNCHANGED <<origin, done>>
  PROVE  DoneSettled'
BY DEF DoneSettled, SettledKept, TypeOK

LEMMA SentKept ==
  ASSUME Shape, SentSettled, SettledKept,
         \A p \in Proc : writer'[p] # Idle =>
           /\ writer[p] # Idle /\ writer'[p].cmd = writer[p].cmd
           /\ \A n \in Others(p[1]) \ writer'[p].todo :
                \/ n \notin writer[p].todo
                \/ \A c \in Command : c = writer[p].cmd => Settled(c, n)'
  PROVE  SentSettled'
<1> SUFFICES ASSUME NEW p \in Proc, writer'[p] # Idle,
                    NEW n \in Others(p[1]) \ writer'[p].todo
             PROVE  Settled(writer[p].cmd, n)'
  BY DEF SentSettled
<1>1. PICK c : c = writer[p].cmd
  OBVIOUS
<1>2. c \in Command /\ origin[c] = p[1] /\ n \in Machine /\ n # p[1]
  BY <1>1, WriterType DEF Shape, WritersRule, Others
<1>3. Settled(c, n)'
  BY <1>1, <1>2 DEF SentSettled, SettledKept
<1>4. writer'[p].cmd = c
  BY <1>1
<1> QED
  BY <1>3, <1>4 DEF Settled, Ran, SavedFor, Returning

LEMMA CallsKept ==
  ASSUME Shape, CallsRun, RanKept,
         \A d \in calls' : d.op = "update" /\ d.heard /\ d.pc \in {"fetch", "done"} =>
           \/ \E c \in calls : /\ c.op = "update" /\ c.heard
                               /\ c.pc \in {"fetch", "done"}
                               /\ c.cmd = d.cmd /\ c.to = d.to
           \/ Ran(d.cmd, d.to[1])'
  PROVE  CallsRun'
<1> SUFFICES ASSUME NEW d \in calls', d.op = "update", d.heard,
                    d.pc \in {"fetch", "done"},
                    NEW c \in calls, c.op = "update", c.heard,
                    c.pc \in {"fetch", "done"}, c.cmd = d.cmd, c.to = d.to
             PROVE  Ran(d.cmd, d.to[1])'
  BY DEF CallsRun
<1>1. c.from \in Proc
  BY CallType DEF Shape, TypeOK, Call
<1>2. c \in Pending(c.from, "update")
  BY DEF Pending
<1>3. /\ d.cmd \in Command /\ d.to[1] \in Machine /\ origin[d.cmd] # d.to[1]
  BY <1>1, <1>2, PendingUpdate
<1> QED
  BY <1>3 DEF CallsRun, RanKept

\* Only the writers and the clients that have been answered change.
LEMMA DataFrame ==
  ASSUME Shape, Data, SameRulers,
         UNCHANGED <<mem, data, backup, failed, calls, dropped, origin, torn>>,
         \A p \in Proc : writer'[p] # Idle =>
           /\ writer[p] # Idle /\ writer'[p].cmd = writer[p].cmd
           /\ writer'[p].todo = writer[p].todo
           /\ writer'[p].pc \in {"saved", "sending"} => writer[p].pc \in {"saved", "sending"},
         \A c \in done' : c \in done \/ Sealed(c)
  PROVE  /\ SavedFirst' /\ WritersKnow' /\ Written' /\ SentSettled' /\ CallsRun'
         /\ SettledKept
<1>1. /\ \A c : \A n \in Machine : InRooms(c, n)' = InRooms(c, n)
      /\ \A c : \A n \in Machine : Safe(c, n)' = Safe(c, n)
      /\ RanKept
  BY RoomsFrame
<1>2. SettledKept
  <2>1. \A c \in Command, n \in Machine : SavedFor(c, n) => SavedFor(c, n)'
    BY DEF SavedFor
  <2>2. \A c \in Command, n \in Machine : Returning(c, n) => Returning(c, n)'
    BY DEF Returning
  <2> QED
    BY <1>1, <2>1, <2>2, SettledStays DEF Settled
<1>3. SavedFirst'
  <2>1. \A c \in Command : Sealed(c)' => Sealed(c)
    BY DEF Sealed
  <2>2. \A c \in Command : Abroad(c)' => Abroad(c)
    BY <1>1, <2>1 DEF Abroad
  <2> QED
    BY <1>1, <2>2, SavedFirstKept DEF Shape, Data
<1>4. WritersKnow'
  BY DEF Data, WritersKnow
<1>5. Written'
  BY Processes DEF Data, Written, Orig, SameRulers
<1>6. SentSettled'
  BY <1>2, SentKept DEF Data
<1>7. CallsRun'
  BY <1>1, CallsKept DEF Data
<1> QED
  BY <1>2, <1>3, <1>4, <1>5, <1>6, <1>7

LEMMA StartSendingData ==
  ASSUME Shape, Data, NEW p \in Proc, StartSending(p)
  PROVE  Data'
<1>1. writer[p] # Idle /\ writer' = [writer EXCEPT ![p].pc = "sending"]
  BY WriterType DEF Shape, StartSending
<1>2. /\ \A q \in Proc \ {p} : writer'[q] = writer[q]
      /\ writer'[p].cmd = writer[p].cmd /\ writer'[p].todo = writer[p].todo
  BY <1>1, WriterPc DEF Shape
<1>3. /\ UNCHANGED <<mem, data, backup, failed, calls, dropped, origin, done, torn>>
      /\ SameRulers /\ writer[p].pc = "saved"
  BY DEF StartSending, fileVars, histVars, SameRulers, Rules
<1>4. /\ SavedFirst' /\ WritersKnow' /\ Written' /\ SentSettled' /\ CallsRun'
      /\ SettledKept
  BY <1>1, <1>2, <1>3, DataFrame
<1>5. DoneSettled'
  BY <1>3, <1>4, DoneKept DEF Shape, Data
<1> QED
  BY <1>4, <1>5 DEF Data

LEMMA AnswerData ==
  ASSUME Shape, Data, NEW p \in Proc, Answer(p)
  PROVE  Data'
<1>1. writer'[p] = Idle /\ \A q \in Proc \ {p} : writer'[q] = writer[q]
  BY DEF Answer, Shape, TypeOK
<1>2. /\ UNCHANGED <<mem, data, backup, failed, calls, dropped, origin, torn>>
      /\ SameRulers
  BY DEF Answer, fileVars, SameRulers, Rules
<1>3. PICK e : e = writer[p].cmd
  OBVIOUS
<1>4. /\ writer[p] # Idle /\ writer[p].pc = "sending" /\ writer[p].todo = {}
      /\ e \in Command /\ origin[e] = p[1]
      /\ done' = done \cup {e}
  BY <1>3, WriterType DEF Answer, Shape, WritersRule
<1>5. Sealed(e)
  BY <1>3, <1>4 DEF Sealed
<1>6. /\ SavedFirst' /\ WritersKnow' /\ Written' /\ SentSettled' /\ CallsRun'
      /\ SettledKept
  BY <1>1, <1>2, <1>4, <1>5, DataFrame
<1>7. \A n \in Machine : n # origin[e] => Settled(e, n)
  BY <1>3, <1>4 DEF Data, SentSettled, Others
<1>8. \A n \in Machine : n # origin[e] => Settled(e, n)'
  BY <1>4, <1>6, <1>7 DEF SettledKept
<1>9. \A c \in done, n \in Machine : n # origin[c] => Settled(c, n)'
  BY <1>6 DEF Data, DoneSettled, SettledKept, Shape, TypeOK
<1>10. DoneSettled'
  BY <1>2, <1>4, <1>8, <1>9 DEF DoneSettled
<1> QED
  BY <1>6, <1>10 DEF Data

LEMMA GreetersData ==
  ASSUME Shape, Data, NEW p \in Proc,
         StartGreeting(p) \/ EndGreeting(p) \/ Restart(p)
  PROVE  Data'
<1>1. UNCHANGED <<mem, data, backup, failed, calls, dropped, origin, done, writer, torn>>
  BY DEF StartGreeting, EndGreeting, Restart, fileVars, histVars
<1>2. SameRulers
  <2>1. CASE StartGreeting(p)
    BY <2>1 DEF StartGreeting, SameRulers, Rules
  <2>2. CASE EndGreeting(p)
    BY <2>2 DEF EndGreeting, SameRulers, Rules, Shape, GreetersRule, TypeOK
  <2>3. CASE Restart(p)
    BY <2>3 DEF Restart, SameRulers, Rules, Shape, TypeOK
  <2> QED
    BY <2>1, <2>2, <2>3
<1>3. /\ SavedFirst' /\ WritersKnow' /\ Written' /\ SentSettled' /\ CallsRun'
      /\ SettledKept
  BY <1>1, <1>2, DataFrame
<1>4. DoneSettled'
  BY <1>1, <1>3, DoneKept DEF Shape, Data
<1> QED
  BY <1>3, <1>4 DEF Data

\* A writer saves its command for another machine.
LEMMA SaveCmdData ==
  ASSUME Shape, Data, NEW p \in Proc, NEW q \in Proc, writer[p] # Idle,
         writer[p].pc = "sending", SaveCmd(p, q),
         UNCHANGED <<role, mem, data, backup, origin, done, dropped, torn>>,
         \A d \in calls' : \E c \in calls :
           /\ d.op = c.op /\ d.cmd = c.cmd /\ d.to = c.to /\ d.cmds = c.cmds
           /\ d.heard => c.heard /\ d.pc = c.pc,
         \A c \in calls : c.heard /\ c.cmds # <<>> => c \in calls'
  PROVE  Data'
<1>1. PICK e : e = writer[p].cmd
  OBVIOUS
<1>2. /\ \A m \in Machine, r \in Proc :
           /\ ToSet(failed[m][r]) \subseteq ToSet(failed'[m][r])
           /\ ToSet(failed'[m][r]) \subseteq ToSet(failed[m][r]) \cup {e}
      /\ e \in ToSet(failed'[p[1]][q])
      /\ writer' = [writer EXCEPT ![p].todo = @ \ {q[1]}]
  <2>1. TypeOK
    BY DEF Shape
  <2>2. /\ ToSet(failed'[p[1]][q]) = ToSet(failed[p[1]][q]) \cup {e}
        /\ \A m \in Machine, r \in Proc :
             (m = p[1] /\ r = q) \/ failed'[m][r] = failed[m][r]
    BY <1>1, <2>1, CmdSaved
  <2>3. writer' = [writer EXCEPT ![p].todo = @ \ {q[1]}]
    BY DEF SaveCmd
  <2> QED
    BY <2>2, <2>3
<1>3. /\ \A r \in Proc \ {p} : writer'[r] = writer[r]
      /\ writer'[p] # Idle /\ writer'[p].pc = writer[p].pc
      /\ writer'[p].cmd = e
      /\ writer'[p].todo = writer[p].todo \ {q[1]}
  BY <1>1, <1>2, WriterTodo DEF Shape
<1>4. SameRulers
  BY DEF SameRulers, Rules
<1>5. /\ \A c : \A n \in Machine : InRooms(c, n)' = InRooms(c, n)
      /\ \A c : \A n \in Machine : Safe(c, n)' = Safe(c, n)
      /\ RanKept
  BY <1>4, RoomsFrame
<1>6. Sealed(e) /\ e \in Command
  BY <1>1, WriterType DEF Sealed, Shape
<1>7. SettledKept
  <2>1. ASSUME NEW c \in Command, NEW n \in Machine, SavedFor(c, n)
        PROVE  SavedFor(c, n)'
    <3>1. PICK m \in Machine, i \in Index : c \in ToSet(failed[m][<<n, i>>])
      BY <2>1 DEF SavedFor
    <3>2. <<n, i>> \in Proc
      BY Processes
    <3>3. c \in ToSet(failed'[m][<<n, i>>])
      BY <1>2, <3>1, <3>2
    <3> QED
      BY <3>3 DEF SavedFor
  <2>2. ASSUME NEW c \in Command, NEW n \in Machine, Returning(c, n)
        PROVE  Returning(c, n)'
    <3>1. PICK d \in calls : d.from[1] = n /\ d.heard /\ c \in ToSet(d.cmds)
      BY <2>2 DEF Returning
    <3>2. d.cmds # <<>>
      BY <3>1, SetOfSeq
    <3> QED
      BY <3>1, <3>2 DEF Returning
  <2> QED
    BY <1>5, <2>1, <2>2, SettledStays DEF Settled
<1>8. SavedFirst'
  <2>1. \A c \in Command : Sealed(c)' => Sealed(c)
    BY <1>1, <1>3 DEF Sealed
  <2>2. ASSUME NEW c \in Command, NEW m \in Machine, NEW r \in Proc,
               c \in ToSet(failed'[m][r])
        PROVE  Abroad(c)
    <3>1. c \in ToSet(failed[m][r]) \/ c = e
      BY <1>2, <2>2
    <3> QED
      BY <1>6, <3>1 DEF Abroad
  <2>3. ASSUME NEW c \in Command, NEW d \in calls',
               (d.op = "update" /\ d.cmd = c) \/ c \in ToSet(d.cmds)
        PROVE  Abroad(c)
    BY <2>3 DEF Abroad
  <2>4. ASSUME NEW c \in Command, NEW n \in Machine, n # origin[c], InRooms(c, n)'
        PROVE  Abroad(c)
    BY <1>5, <2>4 DEF Abroad
  <2>5. ASSUME NEW c \in Command, Abroad(c)' PROVE Abroad(c)
    <3>1. \/ \E n \in Machine : n # origin[c] /\ InRooms(c, n)'
          \/ \E m \in Machine, r \in Proc : c \in ToSet(failed'[m][r])
          \/ \E d \in calls' : (d.op = "update" /\ d.cmd = c) \/ c \in ToSet(d.cmds)
          \/ c \in done
          \/ Sealed(c)'
      BY <2>5 DEF Abroad
    <3> QED
      BY <2>1, <2>2, <2>3, <2>4, <3>1 DEF Abroad
  <2> QED
    BY <1>5, <2>5, SavedFirstKept DEF Shape, Data
<1>9. WritersKnow'
  BY <1>1, <1>3 DEF Data, WritersKnow
<1>10. Written'
  BY DEF Data, Written, Orig, Rules
<1>11. DoneSettled'
  BY <1>7, DoneKept DEF Shape, Data
<1>12. SentSettled'
  <2>1. SavedFor(e, q[1])'
    <3>1. /\ p[1] \in Machine /\ q[2] \in Index /\ <<q[1], q[2]>> = q
      BY Processes
    <3>2. e \in ToSet(failed'[p[1]][<<q[1], q[2]>>])
      BY <1>2, <3>1
    <3> QED
      BY <3>1, <3>2 DEF SavedFor
  <2>2. Settled(e, q[1])'
    BY <2>1 DEF Settled
  <2> QED
    BY <1>1, <1>3, <1>7, <2>2, SentKept DEF Data
<1>13. CallsRun'
  BY <1>5, CallsKept DEF Data
<1> QED
  BY <1>8, <1>9, <1>10, <1>11, <1>12, <1>13 DEF Data

\* A call starts.
LEMMA NewCallData ==
  ASSUME Shape, Data, NEW c \in Call, calls' = calls \cup {c},
         c.pc = "run", c.cmds = <<>>, c.op = "update" => Sealed(c.cmd),
         UNCHANGED <<role, mem, data, backup, failed, writer, histVars>>
  PROVE  Data'
<1>1. SameRulers /\ UNCHANGED <<origin, done, dropped, torn>>
  BY DEF SameRulers, Rules, histVars
<1>2. /\ \A x : \A n \in Machine : InRooms(x, n)' = InRooms(x, n)
      /\ \A x : \A n \in Machine : Safe(x, n)' = Safe(x, n)
      /\ RanKept
  BY <1>1, RoomsFrame
<1>3. SettledKept
  <2>1. \A x \in Command, n \in Machine : SavedFor(x, n) => SavedFor(x, n)'
    BY DEF SavedFor
  <2>2. \A x \in Command, n \in Machine : Returning(x, n) => Returning(x, n)'
    BY DEF Returning
  <2> QED
    BY <1>1, <1>2, <2>1, <2>2, SettledStays DEF Settled
<1>4. SavedFirst'
  <2>1. \A x \in Command : Sealed(x)' = Sealed(x)
    BY DEF Sealed
  <2>2. \A x : x \notin ToSet(c.cmds)
    BY SetOfSeq
  <2>3. ASSUME NEW x \in Command, Abroad(x)' PROVE Abroad(x)
    <3>1. \/ \E n \in Machine : n # origin[x] /\ InRooms(x, n)'
          \/ \E m \in Machine, r \in Proc : x \in ToSet(failed[m][r])
          \/ \E d \in calls' : (d.op = "update" /\ d.cmd = x) \/ x \in ToSet(d.cmds)
          \/ x \in done
          \/ Sealed(x)'
      BY <1>1, <2>3 DEF Abroad
    <3> QED
      BY <1>2, <2>1, <2>2, <3>1 DEF Abroad
  <2> QED
    BY <1>1, <1>2, <2>3, SavedFirstKept DEF Shape, Data
<1>5. WritersKnow' /\ Written'
  BY <1>1 DEF Data, WritersKnow, Written, Orig, Rules
<1>6. DoneSettled'
  BY <1>1, <1>3, DoneKept DEF Shape, Data
<1>7. SentSettled'
  BY <1>3, SentKept DEF Data
<1>8. CallsRun'
  BY <1>2, CallsKept DEF Data
<1> QED
  BY <1>4, <1>5, <1>6, <1>7, <1>8 DEF Data

LEMMA SendData ==
  ASSUME Shape, Data, NEW p \in Proc, NEW n \in Machine, Send(p, n)
  PROVE  Data'
<1> DEFINE q == Peer(p, n)
<1>1. q \in Proc /\ writer[p] # Idle /\ writer[p].cmd \in Command
  <2>1. table[p][n] \in Index
    BY DEF Shape, TypeOK
  <2>2. q \in Proc
    BY <2>1, Processes DEF Peer
  <2> QED
    BY <2>2, WriterType DEF Send, Shape
<1>2. /\ UNCHANGED <<role, mem, data, backup, histVars>>
      /\ writer[p].pc = "sending"
  BY DEF Send
<1> HIDE DEF q
<1>3. CASE Alive(q)
  <2>1. PICK c : c = Called(p, q, "update", writer[p].cmd, 0)
    OBVIOUS
  <2>2. calls' = calls \cup {c} /\ UNCHANGED <<failed, writer>>
    BY <1>3, <2>1 DEF Send, q
  <2>3. c \in Call
    BY <1>1, <2>1, CallNew
  <2>4. c.pc = "run" /\ c.cmds = <<>> /\ c.cmd = writer[p].cmd
    BY <2>1 DEF Called
  <2>5. Sealed(c.cmd)
    BY <1>1, <1>2, <2>4 DEF Sealed
  <2> QED
    BY <1>2, <2>2, <2>3, <2>4, <2>5, NewCallData
<1>4. CASE ~Alive(q)
  <2>1. SaveCmd(p, q) /\ calls' = calls
    BY <1>4 DEF Send, q
  <2> QED
    BY <1>1, <1>2, <2>1, SaveCmdData DEF histVars
<1> QED
  BY <1>3, <1>4

LEMMA NotSentData ==
  ASSUME Shape, Control, Data, NEW p \in Proc, NotSent(p)
  PROVE  Data'
<1>1. PICK c \in Pending(p, "update") :
        c.pc = "failed" /\ SaveCmd(p, c.to) /\ calls' = calls \ {c}
  BY DEF NotSent
<1>2. /\ c \in calls /\ c.to \in Proc /\ writer[p] # Idle
      /\ writer[p].pc = "sending"
  BY <1>1, PendingUpdate
<1>3. c.cmds = <<>>
  BY <1>1, <1>2 DEF Control, Reaching
<1>4. UNCHANGED <<role, mem, data, backup, origin, done, dropped, torn>>
  BY DEF NotSent, histVars
<1> QED
  BY <1>1, <1>2, <1>3, <1>4, SaveCmdData

LEMMA GreetData ==
  ASSUME Shape, Data, NEW p \in Proc, NEW n \in Machine, Greet(p, n)
  PROVE  Data'
<1> DEFINE q == Peer(p, n)
<1>1. q \in Proc /\ p[2] \in Index /\ greet[p].dead \in Index
  <2>1. table[p][n] \in Index
    BY DEF Shape, TypeOK
  <2>2. q \in Proc
    BY <2>1, Processes DEF Peer
  <2> QED
    BY <2>2, Processes DEF Greet, Shape, GreetersRule
<1>2. UNCHANGED <<role, mem, data, backup, failed, writer, histVars>>
  BY DEF Greet, fileVars
<1> HIDE DEF q
<1>3. CASE Alive(q)
  <2>1. PICK c : c = Called(p, q, "greet", p[2], greet[p].dead)
    OBVIOUS
  <2>2. calls' = calls \cup {c}
    BY <1>3, <2>1 DEF Greet, q
  <2>3. c \in Call
    BY <1>1, <2>1, CallNew
  <2>4. c.pc = "run" /\ c.cmds = <<>> /\ c.op = "greet"
    BY <2>1 DEF Called
  <2> QED
    BY <1>2, <2>2, <2>3, <2>4, NewCallData
<1>4. CASE ~Alive(q)
  <2>1. calls' = calls
    BY <1>4 DEF Greet, q
  <2>2. SameRulers
    BY <1>2 DEF SameRulers, Rules
  <2>3. /\ SavedFirst' /\ WritersKnow' /\ Written' /\ SentSettled' /\ CallsRun'
        /\ SettledKept
    BY <1>2, <2>1, <2>2, DataFrame DEF histVars
  <2>4. DoneSettled'
    BY <1>2, <2>3, DoneKept DEF Shape, Data, histVars
  <2> QED
    BY <2>3, <2>4 DEF Data
<1> QED
  BY <1>3, <1>4

LEMMA TimeoutData ==
  ASSUME Shape, Shape', Control, Data, OneFailure', NEW c \in calls, Timeout(c)
  PROVE  Data'
<1>1. crashes + timeouts = 0
  BY FirstFailure DEF Timeout
<1>2. /\ c \in Call /\ c.op = "update" /\ c.from \in Proc /\ c.to \in Proc
      /\ c.heard
  <2>1. c \in Call
    BY DEF Shape, TypeOK, Call
  <2> QED
    BY <1>1, <2>1, AllOrig, CallType DEF Timeout
<1>3. c \in Pending(c.from, "update")
  BY <1>2 DEF Pending
<1>4. writer[c.from] # Idle /\ writer[c.from].pc = "sending"
  BY <1>2, <1>3, PendingUpdate
<1>5. SaveCmd(c.from, c.to) /\ c.cmds = <<>>
  BY <1>1, <1>2 DEF Timeout, Control, Unharmed
<1>6. UNCHANGED <<role, mem, data, backup, origin, done, dropped, torn>>
  BY DEF Timeout, histVars
<1>7. PICK new : new = [c EXCEPT !.heard = FALSE]
  OBVIOUS
<1>8. /\ new.to = c.to /\ new.op = c.op /\ new.cmd = c.cmd /\ new.cmds = c.cmds
      /\ ~new.heard /\ calls' = (calls \ {c}) \cup {new}
  BY <1>2, <1>7, CallUnheard DEF Timeout
<1>9. \A d \in calls' : \E e \in calls :
           /\ d.op = e.op /\ d.cmd = e.cmd /\ d.to = e.to /\ d.cmds = e.cmds
           /\ d.heard => e.heard /\ d.pc = e.pc
  BY <1>8
<1>10. \A e \in calls : e.heard /\ e.cmds # <<>> => e \in calls'
  BY <1>5, <1>8
<1> QED
  BY <1>2, <1>4, <1>5, <1>6, <1>9, <1>10, SaveCmdData

\* The commands that a handler returns to the caller of c come from cmd.txt.
HandedOut(c, pc, cmds) ==
  /\ \A m \in Machine, r \in Proc :
       /\ ToSet(failed'[m][r]) \subseteq ToSet(failed[m][r])
       /\ \A x \in ToSet(failed[m][r]) :
            \/ x \in ToSet(failed'[m][r])
            \/ pc = "done" /\ x \in ToSet(cmds) /\ r[1] = c.from[1]
  /\ \A x \in ToSet(cmds) : \E m \in Machine, r \in Proc :
       x \in ToSet(failed[m][r])

\* They are returned or dropped, and then no longer in cmd.txt.
LEMMA HandledData ==
  ASSUME Shape, Data, NEW c \in calls, NEW pc \in Stage,
         NEW cmds \in Seq(Command), Goes(c, pc, cmds), c.cmds = <<>>,
         c.op = "update" => c.pc = "fetch",
         HandedOut(c, pc, cmds),
         UNCHANGED <<role, mem, data, backup, writer, origin, done, torn>>
  PROVE  Data'
<1>1. SameRulers
  BY DEF SameRulers, Rules
<1>2. /\ \A x : \A n \in Machine : InRooms(x, n)' = InRooms(x, n)
      /\ \A x : \A n \in Machine : Safe(x, n)' = Safe(x, n)
      /\ RanKept
  BY <1>1, RoomsFrame
<1>3. c \in Call
  BY DEF Shape, TypeOK, Call
<1>4. PICK new : new = Moved(c, pc, cmds)
  OBVIOUS
<1>5. /\ new.from = c.from /\ new.to = c.to /\ new.op = c.op /\ new.cmd = c.cmd
      /\ new.heard = c.heard /\ new.pc = pc /\ new.cmds = cmds
  BY <1>3, <1>4, CallGoes
<1>6. /\ \A d \in calls : d # c => d \in calls'
      /\ \A d \in calls' : d \in calls \/ d = new
      /\ pc # "done" \/ c.heard => new \in calls'
      /\ dropped \subseteq dropped'
      /\ pc = "done" /\ ~c.heard =>
           dropped' = dropped \cup (ToSet(cmds) \X {c.from[1]})
  BY <1>4, CallGone DEF Shape
<1>7. SettledKept
  <2>1. ASSUME NEW x \in Command, NEW n \in Machine, SavedFor(x, n)
        PROVE  Settled(x, n)'
    <3>1. PICK m \in Machine, i \in Index : x \in ToSet(failed[m][<<n, i>>])
      BY <2>1 DEF SavedFor
    <3>2. <<n, i>> \in Proc /\ <<n, i>>[1] = n
      BY Processes
    <3>3. CASE x \in ToSet(failed'[m][<<n, i>>])
      BY <3>3 DEF Settled, SavedFor
    <3>4. CASE pc = "done" /\ x \in ToSet(cmds) /\ n = c.from[1]
      <4>1. CASE c.heard
        <5>1. Returning(x, n)'
          BY <1>5, <1>6, <3>4, <4>1 DEF Returning
        <5> QED
          BY <5>1 DEF Settled
      <4>2. CASE ~c.heard
        <5>1. <<x, n>> \in dropped'
          BY <1>6, <3>4, <4>2
        <5> QED
          BY <5>1 DEF Settled
      <4> QED
        BY <4>1, <4>2
    <3> QED
      BY <3>1, <3>2, <3>3, <3>4 DEF HandedOut
  <2>2. ASSUME NEW x \in Command, NEW n \in Machine, Returning(x, n)
        PROVE  Returning(x, n)'
    <3>1. PICK d \in calls : d.from[1] = n /\ d.heard /\ x \in ToSet(d.cmds)
      BY <2>2 DEF Returning
    <3>2. d # c
      BY <3>1, SetOfSeq
    <3> QED
      BY <1>6, <3>1, <3>2 DEF Returning
  <2> QED
    BY <1>2, <1>6, <2>1, <2>2, SettledStays DEF Settled
<1>8. SavedFirst'
  <2>1. \A x \in Command : Sealed(x)' = Sealed(x)
    BY DEF Sealed
  <2>2. ASSUME NEW x \in Command, NEW d \in calls',
               (d.op = "update" /\ d.cmd = x) \/ x \in ToSet(d.cmds)
        PROVE  Abroad(x)
    <3>1. CASE d \in calls
      BY <2>2, <3>1 DEF Abroad
    <3>2. CASE d = new
      <4>1. CASE c.op = "update" /\ c.cmd = x
        BY <4>1 DEF Abroad
      <4>2. CASE x \in ToSet(cmds)
        BY <4>2 DEF Abroad, HandedOut
      <4> QED
        BY <1>5, <2>2, <3>2, <4>1, <4>2
    <3> QED
      BY <1>6, <3>1, <3>2
  <2>3. ASSUME NEW x \in Command, Abroad(x)' PROVE Abroad(x)
    <3>1. \/ \E n \in Machine : n # origin[x] /\ InRooms(x, n)'
          \/ \E m \in Machine, r \in Proc : x \in ToSet(failed'[m][r])
          \/ \E d \in calls' : (d.op = "update" /\ d.cmd = x) \/ x \in ToSet(d.cmds)
          \/ x \in done
          \/ Sealed(x)'
      BY <2>3 DEF Abroad
    <3>2. (\E m \in Machine, r \in Proc : x \in ToSet(failed'[m][r])) => Abroad(x)
      BY DEF Abroad, HandedOut
    <3>3. (\E n \in Machine : n # origin[x] /\ InRooms(x, n)') => Abroad(x)
      BY <1>2 DEF Abroad
    <3> QED
      BY <2>1, <2>2, <3>1, <3>2, <3>3 DEF Abroad
  <2> QED
    BY <1>2, <2>3, SavedFirstKept DEF Shape, Data
<1>9. WritersKnow' /\ Written'
  BY <1>1 DEF Data, WritersKnow, Written, Orig, Rules
<1>10. DoneSettled'
  BY <1>7, DoneKept DEF Shape, Data
<1>11. SentSettled'
  BY <1>7, SentKept DEF Data
<1>12. CallsRun'
  BY <1>2, <1>5, <1>6, CallsKept DEF Data
<1> QED
  BY <1>8, <1>9, <1>10, <1>11, <1>12 DEF Data

LEMMA ResetData ==
  ASSUME Shape, Control, Data, NEW c \in calls, Reset(c)
  PROVE  Data'
<1> DEFINE pc == IF known[c.to] = c.to[2] THEN "fetch" ELSE "done"
<1>1. /\ c.op = "greet" /\ c.pc = "run"
      /\ UNCHANGED <<role, mem, data, backup, failed, writer, origin, done, torn>>
  BY DEF Reset, fileVars
<1>2. Goes(c, pc, <<>>) /\ pc \in Stage /\ <<>> \in Seq(Command)
  BY DEF Reset, Stage
<1> HIDE DEF pc
<1>3. c.cmds = <<>>
  BY <1>1 DEF Control, Reaching
<1>4. HandedOut(c, pc, <<>>)
  BY <1>1, SetOfSeq DEF HandedOut
<1> QED
  BY <1>1, <1>2, <1>3, <1>4, HandledData

LEMMA FetchData ==
  ASSUME Shape, Control, Data, NEW c \in calls, Fetch(c)
  PROVE  Data'
<1>1. PICK cmds : cmds = failed[c.to[1]][Owner(c)]
  OBVIOUS
<1>2. /\ c.to[1] \in Machine /\ Owner(c) \in Proc /\ cmds \in Seq(Command)
      /\ Owner(c)[1] = c.from[1]
  BY <1>1, FetchOwner
<1>3. PICK pc \in Stage : pc = "done"
  BY DEF Stage
<1>4. /\ Goes(c, pc, cmds) /\ c.pc = "fetch"
      /\ \A m \in Machine, r \in Proc :
           \/ failed'[m][r] = failed[m][r]
           \/ m = c.to[1] /\ r = Owner(c) /\ failed'[m][r] = <<>>
  BY <1>1, <1>3, CmdsFetched DEF Fetch
<1>5. UNCHANGED <<role, mem, data, backup, writer, origin, done, torn>>
  BY DEF Fetch, procVars
<1>6. c.cmds = <<>> /\ (c.op = "update" => c.pc = "fetch")
  BY <1>4 DEF Control, Reaching
<1>7. HandedOut(c, pc, cmds)
  <2>1. \A m \in Machine, r \in Proc :
          ToSet(failed'[m][r]) \subseteq ToSet(failed[m][r])
    BY <1>4, SetOfSeq
  <2>2. \A m \in Machine, r \in Proc : \A x \in ToSet(failed[m][r]) :
          \/ x \in ToSet(failed'[m][r])
          \/ pc = "done" /\ x \in ToSet(cmds) /\ r[1] = c.from[1]
    BY <1>1, <1>2, <1>3, <1>4
  <2>3. \A x \in ToSet(cmds) : \E m \in Machine, r \in Proc :
          x \in ToSet(failed[m][r])
    BY <1>1, <1>2
  <2> QED
    BY <2>1, <2>2, <2>3 DEF HandedOut
<1> QED
  BY <1>2, <1>4, <1>5, <1>6, <1>7, HandledData

\* A ruler runs commands that are known abroad.
LEMMA RunRooms ==
  ASSUME Shape, Data, NEW p \in Proc, Rules(p), NEW cmds \in Seq(Command),
         RunAll(p, cmds), \A c \in ToSet(cmds) : Abroad(c), SameRulers,
         UNCHANGED <<backup, origin, torn>>
  PROVE  /\ RanKept
         /\ \A c \in ToSet(cmds) : Ran(c, p[1])'
         /\ \A c \in Command, n \in Machine :
              n # origin[c] /\ InRooms(c, n)' => Abroad(c)
         /\ \A c \in Command, n \in Machine : Safe(c, n) => Safe(c, n)'
         /\ WritersKnow => \A q \in Proc : writer[q] # Idle => writer[q].cmd \in ToSet(mem'[q])
         /\ Written'
<1> DEFINE m == p[1]
<1>1. /\ m \in Machine /\ p[2] \in Index /\ p = <<m, p[2]>> /\ Size \in Index
      /\ \A i \in Index : Rules(<<m, i>>) => i = p[2]
  BY Processes DEF Shape, OneRuler
<1>2. /\ \A q \in Proc \ {p} : mem'[q] = mem[q]
      /\ ToSet(mem'[p]) = ToSet(mem[p]) \cup ToSet(cmds)
      /\ \A n \in Machine \ {m} : data'[n] = data[n]
      /\ \/ cmds = <<>> /\ data' = data /\ mem' = mem
         \/ data'[m] = mem'[p]
  BY CmdsRun DEF Shape
<1>3. \A n \in Machine, i \in Index :
        <<n, i>> \in Proc /\ Rules(<<n, i>>)' = Rules(<<n, i>>)
  BY Processes DEF SameRulers
<1> HIDE DEF m
<1>4. \A q \in Proc : ToSet(mem[q]) \subseteq ToSet(mem'[q])
  BY <1>2
<1>5. RanKept
  <2>1. ASSUME NEW n \in Machine, \A i \in Index : ~Rules(<<n, i>>)
        PROVE  data'[n] = data[n]
    BY <1>1, <1>2, <2>1
  <2> QED
    BY <1>4, <2>1, RoomsGrow
<1>6. ASSUME NEW c \in ToSet(cmds) PROVE Ran(c, p[1])'
  <2>1. Rules(<<m, p[2]>>)' /\ c \in ToSet(mem'[<<m, p[2]>>])
    BY <1>1, <1>2, <1>3
  <2> QED
    BY <1>1, <2>1 DEF Ran, m
<1>7. ASSUME NEW c \in Command, NEW n \in Machine, n # origin[c], InRooms(c, n)'
      PROVE  Abroad(c)
  <2> SUFFICES ASSUME ~InRooms(c, n) PROVE Abroad(c)
    BY <1>7 DEF Abroad
  <2>1. CASE n = m
    <3>1. c \notin ToSet(mem[p])
      BY <1>1, <2>1 DEF InRooms
    <3>2. c \in ToSet(mem'[p])
      <4>1. CASE c \in ToSet(data'[n])
        BY <1>2, <2>1, <4>1 DEF InRooms
      <4>2. CASE \E b \in backup'[n] : c \in ToSet(b)
        BY <4>2 DEF InRooms
      <4>3. CASE \E i \in Index : Rules(<<n, i>>)' /\ c \in ToSet(mem'[<<n, i>>])
        BY <1>1, <1>3, <2>1, <4>3
      <4> QED
        BY <1>7, <4>1, <4>2, <4>3 DEF InRooms
    <3>3. c \in ToSet(cmds)
      BY <1>2, <3>1, <3>2
    <3> QED
      BY <3>3
  <2>2. CASE n # m
    <3>1. \A i \in Index : <<n, i>> # p
      BY <1>1, <2>2
    <3>2. \A i \in Index : mem'[<<n, i>>] = mem[<<n, i>>]
      BY <1>2, <1>3, <3>1
    <3>3. data'[n] = data[n] /\ backup'[n] = backup[n]
      BY <1>2, <2>2
    <3>4. InRooms(c, n)
      BY <1>3, <1>7, <3>2, <3>3 DEF InRooms
    <3> QED
      BY <3>4
  <2> QED
    BY <2>1, <2>2
<1>8. ASSUME NEW c \in Command, NEW n \in Machine, Safe(c, n)
      PROVE  Safe(c, n)'
  <2> SUFFICES ASSUME n \notin torn PROVE Safe(c, n)'
    BY DEF Safe
  <2>1. c \in ToSet(data'[n])
    BY <1>1, <1>2, <1>8 DEF Safe
  <2>2. \A i \in Index : Rules(<<n, i>>)' => c \in ToSet(mem'[<<n, i>>])
    BY <1>3, <1>4, <1>8 DEF Safe
  <2> QED
    BY <1>8, <2>1, <2>2 DEF Safe
<1>9. WritersKnow => \A q \in Proc : writer[q] # Idle => writer[q].cmd \in ToSet(mem'[q])
  BY <1>4 DEF WritersKnow
<1>10. Written'
  <2> SUFFICES ASSUME NEW n \in Machine, NEW c \in Command, Orig(n)', origin[c] # n,
                      c \in ToSet(mem'[<<n, Size>>])
               PROVE  c \in ToSet(data'[n])
    BY DEF Written
  <2>1. Orig(n) /\ <<n, Size>> \in Proc
    BY <1>1, <1>3 DEF Orig
  <2>2. CASE <<n, Size>> = p
    <3>1. n = m
      BY <2>2 DEF m
    <3> QED
      BY <1>2, <2>1, <2>2, <3>1 DEF Data, Written
  <2>3. CASE <<n, Size>> # p
    <3>1. n # m
      BY <1>1, <2>1, <2>3 DEF Orig
    <3>2. mem'[<<n, Size>>] = mem[<<n, Size>>] /\ data'[n] = data[n]
      BY <1>2, <2>1, <2>3, <3>1
    <3> QED
      BY <2>1, <3>2 DEF Data, Written
  <2> QED
    BY <2>2, <2>3
<1> QED
  BY <1>5, <1>6, <1>7, <1>8, <1>9, <1>10

\* A reply has come: what it returns is run.
LEMMA ReplyData ==
  ASSUME Shape, Data, NEW p \in Proc, Rules(p), NEW c \in calls,
         c.from = p, c.heard, RunAll(p, c.cmds), calls' = calls \ {c},
         UNCHANGED <<role, backup, failed, origin, done, dropped, torn>>,
         \A q \in Proc : writer'[q] # Idle =>
           /\ writer[q] # Idle /\ writer'[q].cmd = writer[q].cmd
           /\ writer'[q].pc = writer[q].pc
  PROVE  /\ SavedFirst' /\ WritersKnow' /\ Written' /\ DoneSettled' /\ CallsRun'
         /\ SettledKept /\ RanKept
<1>1. SameRulers
  BY DEF SameRulers, Rules
<1>2. c.cmds \in Seq(Command)
  BY CallType DEF Shape, TypeOK, Call
<1>3. \A x \in ToSet(c.cmds) : Abroad(x)
  BY DEF Abroad
<1>4. /\ RanKept
      /\ \A x \in ToSet(c.cmds) : Ran(x, p[1])'
      /\ \A x \in Command, n \in Machine :
           n # origin[x] /\ InRooms(x, n)' => Abroad(x)
      /\ \A x \in Command, n \in Machine : Safe(x, n) => Safe(x, n)'
      /\ WritersKnow => \A q \in Proc : writer[q] # Idle => writer[q].cmd \in ToSet(mem'[q])
      /\ Written'
  BY <1>1, <1>2, <1>3, RunRooms
<1>5. SettledKept
  <2>1. ASSUME NEW x \in Command, NEW n \in Machine, SavedFor(x, n)
        PROVE  Settled(x, n)'
    BY <2>1 DEF SavedFor, Settled
  <2>2. ASSUME NEW x \in Command, NEW n \in Machine, Returning(x, n)
        PROVE  Settled(x, n)'
    <3>1. PICK d \in calls : d.from[1] = n /\ d.heard /\ x \in ToSet(d.cmds)
      BY <2>2 DEF Returning
    <3>2. CASE d = c
      BY <1>4, <3>1, <3>2 DEF Settled
    <3>3. CASE d # c
      BY <3>1, <3>3 DEF Settled, Returning
    <3> QED
      BY <3>2, <3>3
  <2> QED
    BY <1>4, <2>1, <2>2, SettledStays
<1>6. SavedFirst'
  <2>1. \A x \in Command : Sealed(x)' => Sealed(x)
    BY DEF Sealed
  <2>2. ASSUME NEW x \in Command, Abroad(x)' PROVE Abroad(x)
    <3>1. \/ \E n \in Machine : n # origin[x] /\ InRooms(x, n)'
          \/ \E m \in Machine, r \in Proc : x \in ToSet(failed[m][r])
          \/ \E d \in calls : (d.op = "update" /\ d.cmd = x) \/ x \in ToSet(d.cmds)
          \/ x \in done
          \/ Sealed(x)'
      BY <2>2 DEF Abroad
    <3> QED
      BY <1>4, <2>1, <3>1 DEF Abroad
  <2> QED
    BY <1>4, <2>2, SavedFirstKept DEF Shape, Data
<1>7. WritersKnow'
  BY <1>4 DEF Data, WritersKnow
<1>8. DoneSettled'
  BY <1>5, DoneKept DEF Shape, Data
<1>9. CallsRun'
  BY <1>4, CallsKept DEF Data
<1> QED
  BY <1>4, <1>5, <1>6, <1>7, <1>8, <1>9

LEMMA SentData ==
  ASSUME Shape, Data, NEW p \in Proc, Sent(p)
  PROVE  Data'
<1>1. PICK c \in Pending(p, "update") :
        /\ c.pc = "done"
        /\ RunAll(p, c.cmds)
        /\ writer' = [writer EXCEPT ![p].todo = @ \ {c.to[1]}]
        /\ calls' = calls \ {c}
  BY DEF Sent
<1>2. /\ c \in calls /\ c.op = "update" /\ c.heard /\ c.from = p /\ Rules(p)
      /\ writer[p] # Idle /\ c.cmd = writer[p].cmd /\ c.cmd \in Command
      /\ c.to[1] \in Machine /\ c.to[1] # origin[c.cmd]
  BY <1>1, PendingUpdate
<1>3. /\ \A q \in Proc \ {p} : writer'[q] = writer[q]
      /\ writer'[p].cmd = writer[p].cmd /\ writer'[p].pc = writer[p].pc
      /\ writer'[p].todo = writer[p].todo \ {c.to[1]}
  BY <1>1, <1>2, WriterTodo DEF Shape
<1>4. UNCHANGED <<role, backup, failed, origin, done, dropped, torn>>
  BY DEF Sent, histVars
<1>5. /\ SavedFirst' /\ WritersKnow' /\ Written' /\ DoneSettled' /\ CallsRun'
      /\ SettledKept /\ RanKept
  BY <1>1, <1>2, <1>3, <1>4, ReplyData
<1>6. SentSettled'
  <2>1. PICK e \in Command, k \in Machine : e = c.cmd /\ k = c.to[1]
    BY <1>2
  <2>2. Ran(e, k)
    BY <1>1, <1>2, <2>1 DEF Data, CallsRun
  <2>3. Settled(e, k)'
    BY <1>2, <1>5, <2>1, <2>2 DEF RanKept, Settled
  <2> QED
    BY <1>2, <1>3, <1>5, <2>1, <2>3, SentKept DEF Data
<1> QED
  BY <1>5, <1>6 DEF Data

LEMMA GreetedData ==
  ASSUME Shape, Data, NEW p \in Proc, Greeted(p)
  PROVE  Data'
<1>1. PICK c \in Pending(p, "greet") :
        RunAll(p, c.cmds) /\ calls' = calls \ {c}
  BY DEF Greeted
<1>2. c \in calls /\ c.heard /\ c.from = p /\ Rules(p)
  BY <1>1, PendingGreet
<1>3. UNCHANGED <<role, backup, failed, origin, done, dropped, writer, torn>>
  BY DEF Greeted, histVars
<1>4. /\ SavedFirst' /\ WritersKnow' /\ Written' /\ DoneSettled' /\ CallsRun'
      /\ SettledKept
  BY <1>1, <1>2, <1>3, ReplyData
<1>5. SentSettled'
  BY <1>3, <1>4, SentKept DEF Data
<1> QED
  BY <1>4, <1>5 DEF Data

\* Another machine's command is run.
LEMMA UpdateData ==
  ASSUME Shape, Control, Data, NEW c \in calls, Update(c)
  PROVE  Data'
<1> DEFINE q == c.to
<1>1. /\ c \in Call /\ q \in Proc /\ q[1] \in Machine /\ c.cmd \in Command
      /\ c.op = "update" /\ c.pc = "run" /\ c.cmds = <<>> /\ Rules(q)
  <2>1. c \in Call /\ c.op = "update" /\ c.pc = "run"
    BY DEF Shape, TypeOK, Call, Update
  <2> QED
    BY <2>1, CallType, Processes DEF Control, Reaching
<1>2. PICK cmds : cmds = <<c.cmd>>
  OBVIOUS
<1>3. cmds \in Seq(Command) /\ ToSet(cmds) = {c.cmd} /\ RunAll(q, cmds)
  <2>1. cmds \in Seq(Command)
    BY <1>1, <1>2
  <2> QED
    BY <1>2, <2>1, SetOfSeq DEF Update
<1>4. UNCHANGED <<role, backup, failed, origin, done, writer, torn>>
  BY DEF Update
<1> HIDE DEF q
<1>5. SameRulers
  BY <1>4 DEF SameRulers, Rules
<1>6. \A x \in ToSet(cmds) : Abroad(x)
  BY <1>1, <1>3 DEF Abroad
<1>7. /\ RanKept
      /\ \A x \in ToSet(cmds) : Ran(x, q[1])'
      /\ \A x \in Command, n \in Machine :
           n # origin[x] /\ InRooms(x, n)' => Abroad(x)
      /\ \A x \in Command, n \in Machine : Safe(x, n) => Safe(x, n)'
      /\ WritersKnow => \A r \in Proc : writer[r] # Idle => writer[r].cmd \in ToSet(mem'[r])
      /\ Written'
  BY <1>1, <1>3, <1>4, <1>5, <1>6, RunRooms
<1>8. PICK new : new = Moved(c, "fetch", <<>>)
  OBVIOUS
<1>9. /\ "fetch" \in Stage /\ <<>> \in Seq(Command) /\ Goes(c, "fetch", <<>>)
  BY DEF Stage, Update
<1>10. /\ new.op = "update" /\ new.to = q /\ new.cmd = c.cmd /\ new.cmds = <<>>
  BY <1>1, <1>8, <1>9, CallGoes DEF q
<1>11. /\ \A d \in calls : d # c => d \in calls'
       /\ \A d \in calls' : d \in calls \/ d = new
       /\ new \in calls' /\ dropped' = dropped
  BY <1>8, <1>9, CallGone DEF Shape
<1>12. SettledKept
  <2>1. ASSUME NEW x \in Command, NEW n \in Machine, SavedFor(x, n)
        PROVE  Settled(x, n)'
    BY <1>4, <2>1 DEF SavedFor, Settled
  <2>2. ASSUME NEW x \in Command, NEW n \in Machine, Returning(x, n)
        PROVE  Settled(x, n)'
    <3>1. PICK d \in calls : d.from[1] = n /\ d.heard /\ x \in ToSet(d.cmds)
      BY <2>2 DEF Returning
    <3>2. d # c
      BY <1>1, <3>1, SetOfSeq
    <3> QED
      BY <1>11, <3>1, <3>2 DEF Returning, Settled
  <2> QED
    BY <1>7, <1>11, <2>1, <2>2, SettledStays
<1>13. SavedFirst'
  <2>1. \A x \in Command : Sealed(x)' = Sealed(x)
    BY <1>4 DEF Sealed
  <2>2. \A d \in calls' : \E e \in calls :
          d.op = e.op /\ d.cmd = e.cmd /\ d.cmds = e.cmds
    BY <1>1, <1>10, <1>11
  <2>3. ASSUME NEW x \in Command, Abroad(x)' PROVE Abroad(x)
    <3>1. \/ \E n \in Machine : n # origin[x] /\ InRooms(x, n)'
          \/ \E m \in Machine, r \in Proc : x \in ToSet(failed[m][r])
          \/ \E d \in calls' : (d.op = "update" /\ d.cmd = x) \/ x \in ToSet(d.cmds)
          \/ x \in done
          \/ Sealed(x)'
      BY <1>4, <2>3 DEF Abroad
    <3>2. (\E d \in calls' : (d.op = "update" /\ d.cmd = x) \/ x \in ToSet(d.cmds))
            => Abroad(x)
      BY <2>2 DEF Abroad
    <3> QED
      BY <1>7, <2>1, <3>1, <3>2 DEF Abroad
  <2> QED
    BY <1>4, <1>7, <2>3, SavedFirstKept DEF Shape, Data
<1>14. WritersKnow'
  BY <1>4, <1>7 DEF Data, WritersKnow
<1>15. DoneSettled'
  BY <1>4, <1>12, DoneKept DEF Shape, Data
<1>16. SentSettled'
  BY <1>4, <1>12, SentKept DEF Data
<1>17. CallsRun'
  <2>1. PICK e \in Command, k \in Machine : e = c.cmd /\ k = q[1]
    BY <1>1
  <2>2. Ran(e, k)'
    BY <1>3, <1>7, <2>1
  <2>3. new.cmd = e /\ new.to[1] = k
    BY <1>10, <2>1
  <2>4. Ran(new.cmd, new.to[1])'
    BY <2>2, <2>3 DEF Ran
  <2> QED
    BY <1>7, <1>11, <2>4, CallsKept DEF Data
<1> QED
  BY <1>7, <1>13, <1>14, <1>15, <1>16, <1>17 DEF Data

\* A command that comes from a client is not known elsewhere.
LEMMA SubmitData ==
  ASSUME Shape, Data, NEW p \in Proc, NEW c \in Command, Submit(p, c)
  PROVE  Data'
<1> DEFINE m == p[1]
<1>1. /\ m \in Machine /\ p[2] \in Index /\ p = <<m, p[2]>>
      /\ Rules(p) /\ writer[p] = Idle /\ origin[c] = NoMachine
      /\ \A i \in Index : Rules(<<m, i>>) => i = p[2]
  BY Processes DEF Submit, Shape, OneRuler
<1>2. /\ origin'[c] = m /\ \A x \in Command \ {c} : origin'[x] = origin[x]
  BY DEF Submit, Shape, TypeOK
<1>3. PICK new : new = Append(mem[p], c)
  OBVIOUS
<1>4. ToSet(new) = ToSet(mem[p]) \cup {c}
  <2>1. mem[p] \in Seq(Command \cup ToSet(Base)) /\ c \in Command \cup ToSet(Base)
    BY DEF Shape, TypeOK, Log
  <2> QED
    BY <1>3, <2>1, AppendSet
<1>5. mem'[p] = new /\ \A q \in Proc \ {p} : mem'[q] = mem[q]
  BY <1>3 DEF Submit, Shape, TypeOK
<1>6. backup'[m] = {new} /\ \A n \in Machine \ {m} : backup'[n] = backup[n]
  BY <1>1, <1>5 DEF Submit, Shape, TypeOK
<1>7. PICK w : w = [pc |-> "asking", cmd |-> c, todo |-> Others(m)]
  OBVIOUS
<1>8. /\ w.pc = "asking" /\ w.cmd = c /\ w.todo = Others(m) /\ w # Idle
      /\ writer'[p] = w /\ \A q \in Proc \ {p} : writer'[q] = writer[q]
  BY <1>7 DEF Submit, Shape, TypeOK, Idle
<1>9. UNCHANGED <<role, data, failed, calls, done, dropped, torn>>
  BY DEF Submit
<1> HIDE DEF m
<1>10. \A n \in Machine, i \in Index :
         <<n, i>> \in Proc /\ Rules(<<n, i>>)' = Rules(<<n, i>>)
  BY <1>9, Processes DEF Rules
<1>11. \A q \in Proc : ToSet(mem[q]) \subseteq ToSet(mem'[q])
  BY <1>4, <1>5
<1>12. ~Abroad(c) /\ c \notin done
  BY <1>1 DEF Data, SavedFirst, Abroad
<1>13. \A q \in Proc : writer[q] # Idle => writer[q].cmd \in Command \ {c}
  <2> SUFFICES ASSUME NEW q \in Proc, writer[q] # Idle
               PROVE  writer[q].cmd \in Command \ {c}
    OBVIOUS
  <2>1. writer[q].cmd \in Command /\ origin[writer[q].cmd] = q[1] /\ q[1] \in Machine
    BY WriterType, Processes DEF Shape, WritersRule
  <2> QED
    BY <1>1, <2>1, NoMachineAssumption
<1>14. RanKept
  <2>1. SameRulers
    BY <1>9 DEF SameRulers, Rules
  <2> QED
    BY <1>9, <1>11, <2>1, RoomsGrow
<1>15. SettledKept
  <2>1. \A x \in Command, n \in Machine : SavedFor(x, n) => SavedFor(x, n)'
    BY <1>9 DEF SavedFor
  <2>2. \A x \in Command, n \in Machine : Returning(x, n) => Returning(x, n)'
    BY <1>9 DEF Returning
  <2> QED
    BY <1>9, <1>14, <2>1, <2>2, SettledStays DEF Settled
<1>16. ASSUME NEW x \in Command, NEW n \in Machine, x # c \/ n # m, InRooms(x, n)'
       PROVE  InRooms(x, n)
  <2>1. CASE x \in ToSet(data'[n])
    BY <1>9, <2>1 DEF InRooms
  <2>2. CASE \E b \in backup'[n] : x \in ToSet(b)
    <3>1. CASE n = m
      <4>1. x \in ToSet(mem[p])
        BY <1>4, <1>6, <1>16, <2>2, <3>1
      <4> QED
        BY <1>1, <3>1, <4>1 DEF InRooms
    <3>2. CASE n # m
      BY <1>6, <2>2, <3>2 DEF InRooms
    <3> QED
      BY <3>1, <3>2
  <2>3. CASE \E i \in Index : Rules(<<n, i>>)' /\ x \in ToSet(mem'[<<n, i>>])
    <3>1. PICK i \in Index : Rules(<<n, i>>)' /\ x \in ToSet(mem'[<<n, i>>])
      BY <2>3
    <3>2. Rules(<<n, i>>) /\ <<n, i>> \in Proc
      BY <1>10, <3>1
    <3>3. x \in ToSet(mem[<<n, i>>])
      <4>1. CASE <<n, i>> = p
        BY <1>1, <1>4, <1>5, <1>16, <3>1, <4>1
      <4>2. CASE <<n, i>> # p
        BY <1>5, <3>1, <3>2, <4>2
      <4> QED
        BY <4>1, <4>2
    <3> QED
      BY <3>2, <3>3 DEF InRooms
  <2> QED
    BY <1>16, <2>1, <2>2, <2>3 DEF InRooms
<1>17. ASSUME NEW x \in Command, NEW n \in Machine, Safe(x, n)
       PROVE  Safe(x, n)'
  <2> SUFFICES ASSUME n \notin torn PROVE Safe(x, n)'
    BY <1>9 DEF Safe
  <2>1. \A i \in Index : Rules(<<n, i>>)' => x \in ToSet(mem'[<<n, i>>])
    BY <1>10, <1>11, <1>17 DEF Safe
  <2>2. \A b \in backup'[n] : x \in ToSet(b)
    BY <1>1, <1>4, <1>6, <1>17 DEF Safe
  <2> QED
    BY <1>9, <1>17, <2>1, <2>2 DEF Safe
<1>18. SavedFirst'
  <2> SUFFICES ASSUME NEW x \in Command, Abroad(x)'
               PROVE  origin'[x] # NoMachine /\ Safe(x, origin[x])'
    BY DEF SavedFirst, Safe
  <2>1. Sealed(x)' => Sealed(x)
    BY <1>8 DEF Sealed, Idle
  <2>2. \/ \E n \in Machine : n # origin'[x] /\ InRooms(x, n)'
        \/ \E k \in Machine, r \in Proc : x \in ToSet(failed[k][r])
        \/ \E d \in calls : (d.op = "update" /\ d.cmd = x) \/ x \in ToSet(d.cmds)
        \/ x \in done
        \/ Sealed(x)'
    BY <1>9 DEF Abroad
  <2>3. (\E n \in Machine : n # origin'[x] /\ InRooms(x, n)') => Abroad(x)
    <3> SUFFICES ASSUME NEW n \in Machine, n # origin'[x], InRooms(x, n)'
                 PROVE  Abroad(x)
      OBVIOUS
    <3>1. InRooms(x, n) /\ n # origin[x]
      BY <1>1, <1>2, <1>16, NoMachineAssumption
    <3> QED
      BY <3>1 DEF Abroad
  <2>4. Abroad(x)
    BY <2>1, <2>2, <2>3 DEF Abroad
  <2>5. x # c /\ origin'[x] = origin[x]
    BY <1>2, <1>12, <2>4
  <2>6. PICK o \in Machine : o = origin[x]
    BY <2>4 DEF Data, SavedFirst, Shape, TypeOK
  <2>7. o # NoMachine /\ Safe(x, o)'
    BY <1>17, <2>4, <2>6 DEF Data, SavedFirst
  <2> QED
    BY <2>5, <2>6, <2>7 DEF Safe
<1>19. WritersKnow'
  <2> SUFFICES ASSUME NEW q \in Proc, writer'[q] # Idle
               PROVE  writer'[q].cmd \in ToSet(mem'[q])
    BY DEF WritersKnow
  <2>1. CASE q = p
    BY <1>4, <1>5, <1>8, <2>1
  <2>2. CASE q # p
    BY <1>8, <1>11, <2>2 DEF Data, WritersKnow
  <2> QED
    BY <2>1, <2>2
<1>20. Written'
  <2> SUFFICES ASSUME NEW n \in Machine, NEW x \in Command, Orig(n)',
                      origin'[x] # n, x \in ToSet(mem'[<<n, Size>>])
               PROVE  x \in ToSet(data'[n])
    BY DEF Written
  <2>1. Orig(n) /\ <<n, Size>> \in Proc
    BY <1>10, Processes DEF Orig
  <2>2. x # c \/ <<n, Size>> # p
    BY <1>1, <1>2
  <2>3. x \in ToSet(mem[<<n, Size>>])
    BY <1>4, <1>5, <2>1, <2>2
  <2>4. origin[x] # n
    BY <1>1, <1>2, NoMachineAssumption
  <2> QED
    BY <1>9, <2>1, <2>3, <2>4 DEF Data, Written
<1>21. DoneSettled'
  <2>1. \A x \in done : x \in Command /\ origin'[x] = origin[x]
    BY <1>2, <1>12 DEF Shape, TypeOK
  <2> QED
    BY <1>9, <1>15, <2>1 DEF Data, DoneSettled, SettledKept
<1>22. SentSettled'
  <2> SUFFICES ASSUME NEW q \in Proc, writer'[q] # Idle,
                      NEW n \in Others(q[1]) \ writer'[q].todo
               PROVE  Settled(writer[q].cmd, n)'
    BY DEF SentSettled, Settled, Ran, SavedFor, Returning
  <2>1. q # p
    BY <1>8 DEF m
  <2>2. PICK e : e = writer[q].cmd
    OBVIOUS
  <2>3. writer'[q] = writer[q] /\ writer[q] # Idle
    BY <1>8, <2>1
  <2>4. e \in Command /\ origin[e] = q[1] /\ n \in Machine /\ n # q[1]
    BY <2>2, <2>3, WriterType DEF Shape, WritersRule, Others
  <2>5. Settled(e, n)
    BY <2>2, <2>3 DEF Data, SentSettled
  <2>6. Settled(e, n)'
    BY <1>15, <2>4, <2>5 DEF SettledKept
  <2> QED
    BY <2>2, <2>3, <2>6 DEF Settled, Ran, SavedFor, Returning
<1>23. CallsRun'
  BY <1>9, <1>14, CallsKept DEF Data
<1> QED
  BY <1>18, <1>19, <1>20, <1>21, <1>22, <1>23 DEF Data

\* From here on the command may be sent: what its origin has of its rooms has it.
LEMMA SaveData ==
  ASSUME Shape, Data, NEW p \in Proc, Save(p)
  PROVE  Data'
<1> DEFINE m == p[1]
<1>1. PICK e : e = writer[p].cmd
  OBVIOUS
<1>2. /\ writer[p] # Idle /\ writer[p].pc = "asking"
      /\ writer' = [writer EXCEPT ![p].pc = "saved"]
  BY WriterType DEF Save, Shape
<1>3. /\ m \in Machine /\ p[2] \in Index /\ p = <<m, p[2]>> /\ Rules(p)
      /\ \A i \in Index : Rules(<<m, i>>) => i = p[2]
      /\ e \in Command /\ origin[e] = m /\ e \in ToSet(mem[p])
  BY <1>1, <1>2, WriterType, Processes DEF Shape, WritersRule, OneRuler, Data,
     WritersKnow
<1>4. /\ \A q \in Proc \ {p} : writer'[q] = writer[q]
      /\ writer'[p].cmd = e /\ writer'[p].todo = writer[p].todo
  BY <1>1, <1>2, WriterPc DEF Shape
<1>5. /\ data'[m] = mem[p] /\ \A n \in Machine \ {m} : data'[n] = data[n]
      /\ backup'[m] = {} /\ \A n \in Machine \ {m} : backup'[n] = backup[n]
  BY <1>3 DEF Save, Shape, TypeOK
<1>6. UNCHANGED <<role, mem, failed, calls, origin, done, dropped, torn>>
  BY DEF Save, histVars
<1> HIDE DEF m
<1>7. SameRulers /\ \A n \in Machine, i \in Index : Rules(<<n, i>>)' = Rules(<<n, i>>)
  BY <1>6 DEF SameRulers, Rules
<1>8. RanKept
  <2>1. ASSUME NEW n \in Machine, \A i \in Index : ~Rules(<<n, i>>)
        PROVE  data'[n] = data[n]
    BY <1>3, <1>5, <2>1
  <2> QED
    BY <1>6, <1>7, <2>1, RoomsGrow
<1>9. SettledKept
  <2>1. \A x \in Command, n \in Machine : SavedFor(x, n) => SavedFor(x, n)'
    BY <1>6 DEF SavedFor
  <2>2. \A x \in Command, n \in Machine : Returning(x, n) => Returning(x, n)'
    BY <1>6 DEF Returning
  <2> QED
    BY <1>6, <1>8, <2>1, <2>2, SettledStays DEF Settled
<1>10. ASSUME NEW x \in Command, NEW n \in Machine, InRooms(x, n)'
       PROVE  InRooms(x, n)
  <2>1. CASE n = m
    BY <1>3, <1>5, <1>6, <1>7, <1>10, <2>1 DEF InRooms
  <2>2. CASE n # m
    BY <1>5, <1>6, <1>7, <1>10, <2>2 DEF InRooms
  <2> QED
    BY <2>1, <2>2
<1>11. ASSUME NEW x \in Command, NEW n \in Machine,
              Safe(x, n) \/ (n = m /\ x \in ToSet(mem[p]))
       PROVE  Safe(x, n)'
  <2> SUFFICES ASSUME n \notin torn PROVE Safe(x, n)'
    BY <1>6 DEF Safe
  <2>1. CASE n = m
    <3>1. x \in ToSet(mem[p])
      BY <1>3, <1>11, <2>1 DEF Safe
    <3> QED
      BY <1>3, <1>5, <1>6, <1>7, <2>1, <3>1 DEF Safe
  <2>2. CASE n # m
    BY <1>5, <1>6, <1>7, <1>11, <2>2 DEF Safe
  <2> QED
    BY <2>1, <2>2
<1>12. SavedFirst'
  <2> SUFFICES ASSUME NEW x \in Command, Abroad(x)'
               PROVE  origin'[x] # NoMachine /\ Safe(x, origin[x])'
    BY DEF SavedFirst
  <2>1. Sealed(x)' => Sealed(x) \/ x = e
    BY <1>4 DEF Sealed
  <2>2. \/ \E n \in Machine : n # origin[x] /\ InRooms(x, n)'
        \/ \E k \in Machine, r \in Proc : x \in ToSet(failed[k][r])
        \/ \E d \in calls : (d.op = "update" /\ d.cmd = x) \/ x \in ToSet(d.cmds)
        \/ x \in done
        \/ Sealed(x)'
    BY <1>6 DEF Abroad
  <2>3. Abroad(x) \/ x = e
    BY <1>10, <2>1, <2>2 DEF Abroad
  <2>4. CASE x = e
    <3>1. Safe(x, m)'
      BY <1>3, <1>11, <2>4
    <3> QED
      BY <1>3, <1>6, <2>4, <3>1, NoMachineAssumption DEF Safe
  <2>5. CASE Abroad(x)
    <3>1. PICK o \in Machine : o = origin[x]
      BY <2>5 DEF Data, SavedFirst, Shape, TypeOK
    <3>2. o # NoMachine /\ Safe(x, o)'
      BY <1>11, <2>5, <3>1 DEF Data, SavedFirst
    <3> QED
      BY <1>6, <3>1, <3>2 DEF Safe
  <2> QED
    BY <2>3, <2>4, <2>5
<1>13. WritersKnow'
  BY <1>1, <1>2, <1>4, <1>6 DEF Data, WritersKnow
<1>14. Written'
  <2> SUFFICES ASSUME NEW n \in Machine, NEW x \in Command, Orig(n)',
                      origin[x] # n, x \in ToSet(mem[<<n, Size>>])
               PROVE  x \in ToSet(data'[n])
    BY <1>6 DEF Written
  <2>1. Orig(n)
    BY <1>6 DEF Orig, Rules
  <2>2. CASE n = m
    BY <1>3, <1>5, <2>1, <2>2, Processes DEF Orig
  <2>3. CASE n # m
    BY <1>5, <2>1, <2>3 DEF Data, Written
  <2> QED
    BY <2>2, <2>3
<1>15. DoneSettled'
  BY <1>6, <1>9, DoneKept DEF Shape, Data
<1>16. SentSettled'
  BY <1>1, <1>2, <1>4, <1>9, SentKept DEF Data
<1>17. CallsRun'
  BY <1>6, <1>8, CallsKept DEF Data
<1> QED
  BY <1>12, <1>13, <1>14, <1>15, <1>16, <1>17 DEF Data

\* A new master starts with the data, and leaves them or the backup as the data.
LEMMA TakeOverData ==
  ASSUME Shape, Control, Data, NEW p \in Proc, TakeOver(p)
  PROVE  Data'
<1> DEFINE m == p[1]
<1>1. /\ m \in Machine /\ p[2] \in Index /\ p = <<m, p[2]>>
      /\ role[p] = "slave" /\ role'[p] = "greeting"
      /\ \A q \in Proc \ {p} : role'[q] = role[q]
      /\ \A i \in Index : ~Rules(<<m, i>>)
      /\ p[2] # Size
  <2>1. p[2] # Size
    BY NewRuler
  <2> QED
    BY <2>1, Processes DEF TakeOver, Shape, TypeOK
<1>2. mem'[p] = data[m] /\ \A q \in Proc \ {p} : mem'[q] = mem[q]
  BY DEF TakeOver, Shape, TypeOK
<1>3. PICK b : b = CHOOSE d \in backup[m] : TRUE
  OBVIOUS
<1>4. backup[m] # {} => b \in backup[m]
  BY <1>3
<1>5. /\ \A n \in Machine \ {m} : data'[n] = data[n] /\ backup'[n] = backup[n]
      /\ backup'[m] = {}
      /\ \/ data'[m] = data[m]
         \/ data'[m] = b /\ b \in backup[m]
  BY <1>1, <1>3, <1>4 DEF TakeOver, Shape, TypeOK
<1>6. UNCHANGED <<failed, calls, origin, done, dropped, writer, torn>>
  BY DEF TakeOver, histVars
<1> HIDE DEF m
<1>7. \A n \in Machine, i \in Index :
        /\ n # m => /\ Rules(<<n, i>>)' = Rules(<<n, i>>)
                    /\ mem'[<<n, i>>] = mem[<<n, i>>]
        /\ n = m => (Rules(<<n, i>>)' <=> <<n, i>> = p)
  <2> SUFFICES ASSUME NEW n \in Machine, NEW i \in Index
               PROVE  /\ n # m => /\ Rules(<<n, i>>)' = Rules(<<n, i>>)
                                  /\ mem'[<<n, i>>] = mem[<<n, i>>]
                      /\ n = m => (Rules(<<n, i>>)' <=> <<n, i>> = p)
    OBVIOUS
  <2>1. <<n, i>> \in Proc
    BY Processes
  <2> QED
    BY <1>1, <1>2, <2>1 DEF Rules
<1>8. RanKept
  <2> SUFFICES ASSUME NEW x \in Command, NEW n \in Machine, Ran(x, n)
               PROVE  Ran(x, n)'
    BY DEF RanKept
  <2> SUFFICES ASSUME n \notin torn PROVE Ran(x, n)'
    BY <1>6 DEF Ran
  <2>1. CASE n = m
    <3>1. x \in ToSet(data[m])
      BY <1>1, <2>1 DEF Ran
    <3>2. Rules(<<n, p[2]>>)' /\ x \in ToSet(mem'[<<n, p[2]>>])
      BY <1>1, <1>2, <1>7, <2>1, <3>1
    <3> QED
      BY <1>1, <3>2 DEF Ran
  <2>2. CASE n # m
    BY <1>5, <1>7, <2>2 DEF Ran
  <2> QED
    BY <2>1, <2>2
<1>9. SettledKept
  <2>1. \A x \in Command, n \in Machine : SavedFor(x, n) => SavedFor(x, n)'
    BY <1>6 DEF SavedFor
  <2>2. \A x \in Command, n \in Machine : Returning(x, n) => Returning(x, n)'
    BY <1>6 DEF Returning
  <2> QED
    BY <1>6, <1>8, <2>1, <2>2, SettledStays DEF Settled
<1>10. ASSUME NEW x \in Command, NEW n \in Machine, InRooms(x, n)'
       PROVE  InRooms(x, n)
  <2>1. CASE n = m
    BY <1>2, <1>5, <1>7, <1>10, <2>1 DEF InRooms
  <2>2. CASE n # m
    BY <1>5, <1>7, <1>10, <2>2 DEF InRooms
  <2> QED
    BY <2>1, <2>2
<1>11. ASSUME NEW x \in Command, NEW n \in Machine, Safe(x, n)
       PROVE  Safe(x, n)'
  <2> SUFFICES ASSUME n \notin torn PROVE Safe(x, n)'
    BY <1>6 DEF Safe
  <2>1. CASE n = m
    BY <1>2, <1>5, <1>7, <1>11, <2>1 DEF Safe
  <2>2. CASE n # m
    BY <1>5, <1>7, <1>11, <2>2 DEF Safe
  <2> QED
    BY <2>1, <2>2
<1>12. SavedFirst'
  <2>1. \A x \in Command : Sealed(x)' => Sealed(x)
    BY <1>6 DEF Sealed
  <2>2. ASSUME NEW x \in Command, Abroad(x)' PROVE Abroad(x)
    <3>1. \/ \E n \in Machine : n # origin[x] /\ InRooms(x, n)'
          \/ \E k \in Machine, r \in Proc : x \in ToSet(failed[k][r])
          \/ \E d \in calls : (d.op = "update" /\ d.cmd = x) \/ x \in ToSet(d.cmds)
          \/ x \in done
          \/ Sealed(x)'
      BY <1>6, <2>2 DEF Abroad
    <3> QED
      BY <1>10, <2>1, <3>1 DEF Abroad
  <2> QED
    BY <1>6, <1>11, <2>2, SavedFirstKept DEF Shape, Data
<1>13. WritersKnow'
  <2> SUFFICES ASSUME NEW q \in Proc, writer[q] # Idle
               PROVE  writer[q].cmd \in ToSet(mem'[q])
    BY <1>6 DEF WritersKnow
  <2>1. q # p
    BY <1>1 DEF Shape, WritersRule, Rules
  <2> QED
    BY <1>2, <2>1 DEF Data, WritersKnow
<1>14. Written'
  <2> SUFFICES ASSUME NEW n \in Machine, NEW x \in Command, Orig(n)',
                      origin[x] # n, x \in ToSet(mem'[<<n, Size>>])
               PROVE  x \in ToSet(data'[n])
    BY <1>6 DEF Written
  <2>1. Size \in Index /\ <<n, Size>> # p
    BY <1>1, Processes
  <2>2. n # m
    BY <1>7, <2>1 DEF Orig
  <2> QED
    BY <1>5, <1>7, <2>1, <2>2 DEF Data, Written, Orig
<1>15. DoneSettled'
  BY <1>6, <1>9, DoneKept DEF Shape, Data
<1>16. SentSettled'
  BY <1>6, <1>9, SentKept DEF Data
<1>17. CallsRun'
  BY <1>6, <1>8, CallsKept DEF Data
<1> QED
  BY <1>12, <1>13, <1>14, <1>15, <1>16, <1>17 DEF Data

\* The first process that is killed leaves what its machine has run in the data,
\* and no command is saved or returned then.
LEMMA CrashData ==
  ASSUME Shape, Shape', Control, Data, OneFailure', NEW p \in Proc, Crash(p)
  PROVE  Data'
<1>1. crashes + timeouts = 0
  BY FirstFailure DEF Crash
<1>2. /\ \A n \in Machine : Orig(n)
      /\ \A q \in Proc : Rules(q) => q[2] = Size
      /\ \A d \in calls : d.cmds = <<>>
  BY <1>1, AllOrig DEF Control, Unharmed
<1>3. /\ role'[p] = "down" /\ \A q \in Proc \ {p} : role'[q] = role[q]
      /\ \A q \in Proc \ {p} : mem'[q] = mem[q]
      /\ writer'[p] = Idle /\ \A q \in Proc \ {p} : writer'[q] = writer[q]
  BY DEF Crash, Shape, TypeOK
<1>4. /\ UNCHANGED <<failed, origin, done>>
      /\ torn \subseteq torn'
      /\ \A n \in Machine \ torn' : data'[n] = data[n] /\ backup'[n] = backup[n]
      /\ \A n \in Machine : /\ ToSet(data'[n]) \subseteq ToSet(data[n])
                           /\ \A b \in backup'[n] : b \in backup[n] \/ ToSet(b) = {}
  BY CrashFiles DEF Crash, Shape
<1>5. /\ dropped \subseteq dropped'
      /\ \A d \in calls' : \E c \in calls :
           /\ d.op = c.op /\ d.cmd = c.cmd /\ d.to = c.to /\ d.cmds = c.cmds
           /\ d = c \/ ~d.heard \/ d.pc = "failed"
  BY CallsOfDead DEF Shape
<1>6. \A n \in Machine, i \in Index :
        Rules(<<n, i>>)' => /\ Rules(<<n, i>>) /\ <<n, i>> # p
                            /\ mem'[<<n, i>>] = mem[<<n, i>>]
  BY <1>3, Processes DEF Rules
<1>7. RanKept
  <2> SUFFICES ASSUME NEW x \in Command, NEW n \in Machine, n # origin[x], Ran(x, n)
               PROVE  Ran(x, n)'
    BY DEF RanKept
  <2> SUFFICES ASSUME n \notin torn' PROVE Ran(x, n)'
    BY DEF Ran
  <2>1. Rules(<<n, Size>>) /\ Size \in Index /\ <<n, Size>> \in Proc
    BY <1>2, Processes DEF Orig
  <2>2. PICK i \in Index : Rules(<<n, i>>) /\ x \in ToSet(mem[<<n, i>>])
    BY <1>4, <2>1 DEF Ran
  <2>3. i = Size
    BY <1>2, <2>2, Processes
  <2>4. CASE p = <<n, Size>>
    <3>1. x \in ToSet(data'[n])
      BY <1>2, <1>4, <2>2, <2>3 DEF Data, Written
    <3>2. \A j \in Index : ~Rules(<<n, j>>)'
      BY <1>2, <1>6, <2>4, Processes
    <3> QED
      BY <3>1, <3>2 DEF Ran
  <2>5. CASE p # <<n, Size>>
    BY <1>3, <2>1, <2>2, <2>3, <2>5 DEF Ran, Rules
  <2> QED
    BY <2>4, <2>5
<1>8. SettledKept
  <2>1. \A x \in Command, n \in Machine : SavedFor(x, n) => SavedFor(x, n)'
    BY <1>4 DEF SavedFor
  <2>2. \A x \in Command, n \in Machine : ~Returning(x, n)
    BY <1>2, SetOfSeq DEF Returning
  <2> QED
    BY <1>5, <1>7, <2>1, <2>2, SettledStays DEF Settled
<1>9. \A x \in Command, n \in Machine : InRooms(x, n)' => InRooms(x, n)
  BY <1>4, <1>6 DEF InRooms
<1>10. ASSUME NEW x \in Command, NEW n \in Machine, Safe(x, n)
       PROVE  Safe(x, n)'
  BY <1>4, <1>6, <1>10 DEF Safe
<1>11. SavedFirst'
  <2>1. \A x \in Command : Sealed(x)' => Sealed(x)
    BY <1>3 DEF Sealed
  <2>2. ASSUME NEW x \in Command, Abroad(x)' PROVE Abroad(x)
    <3>1. \/ \E n \in Machine : n # origin[x] /\ InRooms(x, n)'
          \/ \E k \in Machine, r \in Proc : x \in ToSet(failed[k][r])
          \/ \E d \in calls' : (d.op = "update" /\ d.cmd = x) \/ x \in ToSet(d.cmds)
          \/ x \in done
          \/ Sealed(x)'
      BY <1>4, <2>2 DEF Abroad
    <3>2. (\E d \in calls' : (d.op = "update" /\ d.cmd = x) \/ x \in ToSet(d.cmds))
            => Abroad(x)
      BY <1>5 DEF Abroad
    <3> QED
      BY <1>9, <2>1, <3>1, <3>2 DEF Abroad
  <2> QED
    BY <1>4, <1>10, <2>2, SavedFirstKept DEF Shape, Data
<1>12. WritersKnow'
  BY <1>3 DEF Data, WritersKnow
<1>13. Written'
  <2> SUFFICES ASSUME NEW n \in Machine, NEW x \in Command, Orig(n)',
                      origin[x] # n, x \in ToSet(mem'[<<n, Size>>])
               PROVE  x \in ToSet(data'[n])
    BY <1>4 DEF Written
  <2>1. Orig(n) /\ <<n, Size>> # p /\ mem'[<<n, Size>>] = mem[<<n, Size>>]
    BY <1>6, Processes DEF Orig
  <2>2. ASSUME Tear(p) PROVE n # p[1]
    <3>1. Rules(p)
      <4>1. CASE writer[p].pc = "asking"
        BY <4>1, WriterType DEF Shape, WritersRule
      <4>2. CASE \E c \in calls : c.to = p /\ c.op = "update" /\ c.pc = "run"
        BY <4>2 DEF Control, Reaching
      <4>3. CASE \E c \in calls : c.cmds # <<>>
        BY <1>2, <4>3
      <4> QED
        BY <2>2, <4>1, <4>2, <4>3 DEF Tear
    <3> QED
      BY <1>2, <2>1, <3>1, Processes
  <2>3. data'[n] = data[n]
    BY <2>2, CrashFiles DEF Shape, Crash
  <2> QED
    BY <2>1, <2>3 DEF Data, Written
<1>14. DoneSettled'
  BY <1>4, <1>8, DoneKept DEF Shape, Data
<1>15. SentSettled'
  BY <1>3, <1>8, SentKept DEF Data
<1>16. CallsRun'
  BY <1>5, <1>7, CallsKept DEF Data
<1> QED
  BY <1>11, <1>12, <1>13, <1>14, <1>15, <1>16 DEF Data

LEMMA InitData == Init => Data
<1> SUFFICES ASSUME Init PROVE Data
  OBVIOUS
<1>1. ToSet(Base) \cap Command = {} /\ ToSet(<<>>) = {}
  BY BaseAssumption, SetOfSeq
<1>2. \A c \in Command, p \in Proc : c \notin ToSet(mem[p])
  BY <1>1 DEF Init
<1>3. \A c \in Command, n \in Machine : ~InRooms(c, n)
  BY <1>1, <1>2, Processes DEF Init, InRooms
<1>4. \A c \in Command : ~Sealed(c)
  BY DEF Init, Sealed
<1>5. \A c \in Command : ~Abroad(c)
  BY <1>1, <1>3, <1>4 DEF Init, Abroad
<1>6. \A p \in Proc : writer[p] = Idle
  BY DEF Init
<1>7. SavedFirst /\ WritersKnow /\ SentSettled
  BY <1>5, <1>6 DEF SavedFirst, WritersKnow, SentSettled
<1>8. Written
  BY <1>2, Processes DEF Written
<1>9. DoneSettled /\ CallsRun
  BY DEF Init, DoneSettled, CallsRun
<1> QED
  BY <1>7, <1>8, <1>9 DEF Data

LEMMA NextData ==
  ASSUME Shape, Shape', Control, Data, OneFailure', [Next]_vars
  PROVE  Data'
<1>1. CASE UNCHANGED vars
  <2>1. /\ UNCHANGED <<mem, data, backup, failed, calls, dropped, origin, done, torn>>
        /\ UNCHANGED writer /\ SameRulers
    BY <1>1 DEF vars, procVars, fileVars, histVars, SameRulers, Rules
  <2>2. /\ SavedFirst' /\ WritersKnow' /\ Written' /\ SentSettled' /\ CallsRun'
        /\ SettledKept
    BY <2>1, DataFrame
  <2>3. DoneSettled'
    BY <2>1, <2>2, DoneKept DEF Shape, Data
  <2> QED
    BY <2>2, <2>3 DEF Data
<1>2. ASSUME NEW p \in Proc, NEW c \in Command, Submit(p, c) PROVE Data'
  BY <1>2, SubmitData
<1>3. ASSUME NEW p \in Proc,
             Save(p) \/ StartSending(p) \/ Sent(p) \/ NotSent(p) \/ Answer(p)
      PROVE  Data'
  BY <1>3, SaveData, StartSendingData, SentData, NotSentData, AnswerData
<1>4. ASSUME NEW p \in Proc, NEW n \in Machine, Send(p, n) \/ Greet(p, n)
      PROVE  Data'
  BY <1>4, SendData, GreetData
<1>5. ASSUME NEW p \in Proc,
             \/ TakeOver(p) \/ StartGreeting(p) \/ Greeted(p)
             \/ EndGreeting(p) \/ Crash(p) \/ Restart(p)
      PROVE  Data'
  BY <1>5, TakeOverData, GreetersData, GreetedData, CrashData
<1>6. ASSUME NEW c \in calls, Update(c) \/ Reset(c) \/ Fetch(c) \/ Timeout(c)
      PROVE  Data'
  BY <1>6, UpdateData, ResetData, FetchData, TimeoutData
<1> QED
  BY <1>1, <1>2, <1>3, <1>4, <1>5, <1>6, Steps

-----------------------------------------------------------------------------
(***************************************************************************)
(* Theorems                                                                *)
(***************************************************************************)

\* The inductive invariant: its first part holds whatever fails, the others
\* until the second failure.
IInv == Shape /\ (OneFailure => Control /\ Data)

LEMMA InitInv == Init => IInv
BY InitShape, InitControl, InitData DEF IInv

LEMMA NextInv == IInv /\ [Next]_vars => IInv'
<1> SUFFICES ASSUME IInv, [Next]_vars PROVE IInv'
  OBVIOUS
<1>1. Shape /\ Shape'
  BY NextShape DEF IInv
<1>2. ASSUME OneFailure' PROVE Control' /\ Data'
  <2>1. OneFailure
    BY <1>1, <1>2, EarlierFailures
  <2>2. Control /\ Data
    BY <2>1 DEF IInv
  <2> QED
    BY <1>1, <1>2, <2>1, <2>2, NextControl, NextData
<1> QED
  BY <1>1, <1>2 DEF IInv

\* Whatever fails, a machine has one ruler at most, a writer rules its machine,
\* and a caller that hears of its RPC still waits for it; until the second
\* failure the tables lead updates to rulers, and every command that another
\* machine may know is in all the rooms that its origin has, unless a process of
\* the origin was killed while it wrote its files.
THEOREM Invariant == Spec => []IInv
BY InitInv, NextInv, PTL DEF Spec

\* The files, rooms, tables, threads and RPCs are what they are declared to be,
\* and no machine has two backups.
THEOREM TypeCorrect == Spec => []TypeOK
<1>1. IInv => TypeOK
  BY DEF IInv, Shape
<1> QED
  BY <1>1, Invariant, PTL

\* Until the second failure OnDataUpdated, which does not ask whether its
\* process is the master, runs only in the process that rules its machine.
THEOREM RulersReached == Spec => []UpdatesReachRulers
<1>1. IInv => UpdatesReachRulers
  BY DEF IInv, Control, Reaching, UpdatesReachRulers
<1> QED
  BY <1>1, Invariant, PTL

\* Until the second failure a command that another machine has in its data.dat
\* or that waits in a cmd.txt is in the data.dat of the machine that got it,
\* unless a process there was killed while it wrote the files.
THEOREM SavedShared == Spec => []SavedBeforeShared
<1>1. ASSUME IInv PROVE SavedBeforeShared
  <2> SUFFICES ASSUME OneFailure, NEW c \in Command, NEW n \in Machine,
                      origin[c] \notin {n, NoMachine} \cup torn,
                      c \in ToSet(data[n]) \/ SavedFor(c, n)
               PROVE  c \in ToSet(data[origin[c]])
    BY DEF SavedBeforeShared
  <2>1. SavedFor(c, n) => \E m \in Machine, p \in Proc : c \in ToSet(failed[m][p])
    BY Processes DEF SavedFor
  <2>2. Abroad(c)
    BY <2>1 DEF Abroad, InRooms
  <2> QED
    BY <1>1, <2>2 DEF IInv, Data, SavedFirst, Safe
<1> QED
  BY <1>1, Invariant, PTL

\* Until the second failure a command whose client has been answered is lost by
\* no machine, unless a reply that carries it finds nobody, or a process of the
\* machine was killed while it wrote the files: it stays on all the others.
THEOREM NoneLost == Spec => []NothingLost
<1>1. ASSUME IInv PROVE NothingLost
  <2> SUFFICES ASSUME OneFailure, NEW c \in done, NEW n \in Machine \ torn
               PROVE  \/ Kept(c, n)
                      \/ SavedFor(c, n)
                      \/ Returning(c, n)
                      \/ <<c, n>> \in dropped
    BY DEF NothingLost
  <2>1. CASE n = origin[c]
    <3>1. c \in Command
      BY <1>1 DEF IInv, Shape, TypeOK
    <3>2. Safe(c, n)
      BY <1>1, <2>1, <3>1 DEF IInv, Data, SavedFirst, Abroad
    <3> QED
      BY <3>2 DEF Safe, Kept
  <2>2. CASE n # origin[c]
    <3>1. Settled(c, n)
      BY <1>1, <2>2 DEF IInv, Data, DoneSettled
    <3> QED
      BY <3>1 DEF Settled, Ran, Kept
  <2> QED
    BY <2>1, <2>2
<1> QED
  BY <1>1, Invariant, PTL
=============================================================================
