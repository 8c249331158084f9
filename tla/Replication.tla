---------------------------- MODULE Replication ----------------------------
(***************************************************************************)
(* How the masters of the machines keep their chat rooms equal:            *)
(* WriteChatRoomsToFile and the failed commands of                         *)
(* hw3/src/fbsd/chat_manager.cc, the RPCs OnDataUpdated and                *)
(* NotifyNewNetMaster of ft/p2p_server.cc, the peer table of               *)
(* ft/p2p_comm.cc, and the takeover of ft/failure_detector.cc.             *)
(*                                                                         *)
(* A command is run in the memory of the process that got it; then, under  *)
(* the peer-to-peer lock, the rooms are written to data.dat and the        *)
(* command is sent to the master of every other machine.  A command that   *)
(* could not be sent is put into cmd.txt, under the id of that master, and *)
(* handed out when that master sends a command itself, or when a new one   *)
(* says that it has taken over from it.                                    *)
(*                                                                         *)
(* The chat rooms are represented by the commands that made them, in the   *)
(* order in which they were run (RoomsOf gives the rooms).                 *)
(*                                                                         *)
(* A kill while data.dat or its backup is written leaves an empty file     *)
(* (Tear), which stands for one that is cut short, too; torn remembers the *)
(* machines where that has happened.                                       *)
(***************************************************************************)
EXTENDS Integers, FiniteSets, SequencesExt, ChatRooms

CONSTANTS
  Machine,     \* the machines
  Size,        \* processes per machine, numbered from 1
  Command,     \* the commands that clients may send, each at most once
  Base,        \* the commands behind the rooms of data.dat at the start
  MaxFailures, \* bound: processes killed and RPCs that miss their deadline
  NoMachine    \* no machine

ASSUME SizeAssumption == Size \in Nat \ {0}
ASSUME FailuresAssumption == MaxFailures \in Nat
ASSUME NoMachineAssumption == NoMachine \notin Machine

\* The rooms of the start come from commands that nobody sends again.
ASSUME BaseAssumption == /\ Base \in Seq(ToSet(Base))
                         /\ ToSet(Base) \cap Command = {}

\* The users have logged in: a process that has read no data.dat has no rooms
\* whatever commands it runs.
ASSUME NoLogins ==
  \A c \in Command : ~(c.op = "join" /\ c.user = c.arg)

Index == 1 .. Size
Proc == Machine \X Index

Others(m) == Machine \ {m}

VARIABLES
  role,      \* "down", "slave", "greeting" (takeOverMaster runs), "master"
  known,     \* _master, as an index
  table,     \* _network_clients: the process taken for a machine's master
  comm,      \* who holds _comm._lock: "free", "chat", "greet"
  mem,       \* _chatRooms, as the commands behind them
  data,      \* data.dat of a machine
  backup,    \* its backup: a set that has the one backup, if there is one
  failed,    \* cmd.txt of a machine: the commands for each process, in the
             \* order of their lines
  writer,    \* the chat thread in WriteChatRoomsToFile
  greet,     \* the takeover thread: the id it replaces, the machines to tell
  calls,     \* RPCs that are under way or whose result is not yet used
  origin,    \* history: the machine that got a command from a client
  done,      \* history: commands whose client has been answered
  dropped,   \* history: saved commands in a reply that nobody receives, with
             \* the machine they are for
  torn,      \* history: machines with a process killed while it wrote their
             \* data.dat or backup
  crashes, timeouts  \* processes killed and deadlines missed so far

procVars  == <<role, known, table, comm, mem, writer, greet>>
fileVars  == <<data, backup, failed>>
histVars  == <<origin, done, dropped, torn>>
failVars  == <<crashes, timeouts>>
vars == <<procVars, fileVars, calls, histVars, failVars>>

Idle == [pc |-> "idle"]
NoGreet == [dead |-> 0, todo |-> {}]

Alive(p) == role[p] # "down"
Rules(p) == role[p] \in {"greeting", "master"}

Log == Seq(Command \cup ToSet(Base))

Writing == [pc : {"asking", "saved", "sending"}, cmd : Command,
            todo : SUBSET Machine]

Calls(op, Arg) == [from : Proc, to : Proc, op : {op}, cmd : Arg,
                   dead : Index \cup {0},
                   pc : {"run", "fetch", "done", "failed"},
                   cmds : Seq(Command), heard : BOOLEAN]

TypeOK ==
  /\ role \in [Proc -> {"down", "slave", "greeting", "master"}]
  /\ known \in [Proc -> Index]
  /\ table \in [Proc -> [Machine -> Index]]
  /\ comm \in [Proc -> {"free", "chat", "greet"}]
  /\ mem \in [Proc -> Log]
  /\ data \in [Machine -> Log]
  /\ backup \in [Machine -> SUBSET Log]
  /\ \A m \in Machine : \A b, d \in backup[m] : b = d
  /\ failed \in [Machine -> [Proc -> Seq(Command)]]
  /\ writer \in [Proc -> {Idle} \cup Writing]
  /\ greet \in [Proc -> [dead : Index \cup {0}, todo : SUBSET Machine]]
  /\ calls \subseteq Calls("update", Command) \cup Calls("greet", Index)
  /\ origin \in [Command -> Machine \cup {NoMachine}]
  /\ done \subseteq Command
  /\ dropped \subseteq Command \X Machine
  /\ torn \subseteq Machine
  /\ crashes \in Nat /\ timeouts \in Nat
  /\ crashes + timeouts <= MaxFailures

\* The machines have been started, and their masters have told each other.
Init ==
  /\ role = [p \in Proc |-> IF p[2] = Size THEN "master" ELSE "slave"]
  /\ known = [p \in Proc |-> Size]
  /\ table = [p \in Proc |-> [m \in Machine |-> Size]]
  /\ comm = [p \in Proc |-> "free"]
  /\ mem = [p \in Proc |-> IF p[2] = Size THEN Base ELSE <<>>]
  /\ data = [m \in Machine |-> Base]
  /\ backup = [m \in Machine |-> {}]
  /\ failed = [m \in Machine |-> [p \in Proc |-> <<>>]]
  /\ writer = [p \in Proc |-> Idle]
  /\ greet = [p \in Proc |-> NoGreet]
  /\ calls = {}
  /\ origin = [c \in Command |-> NoMachine]
  /\ done = {}
  /\ dropped = {}
  /\ torn = {}
  /\ crashes = 0 /\ timeouts = 0

-----------------------------------------------------------------------------
\* The process that p takes for the master of machine n.
Peer(p, n) == <<n, table[p][n]>>

\* getFailedCmds(id) in machine m: what it returns, and what it leaves.
CmdsFor(m, id) == failed[m][id]
Remaining(m, id) == [failed[m] EXCEPT ![id] = <<>>]

\* The RPC of p that its caller waits for; the caller holds _comm._lock.
Pending(p, op) == {c \in calls : c.from = p /\ c.op = op /\ c.heard}

Called(p, q, op, cmd, dead) ==
  [from |-> p, to |-> q, op |-> op, cmd |-> cmd, dead |-> dead, pc |-> "run",
   cmds |-> <<>>, heard |-> TRUE]

\* runCmd, one after the other: each is run and all rooms are written.
RunAll(p, cmds) ==
  /\ mem' = [mem EXCEPT ![p] = @ \o cmds]
  /\ data' = IF cmds = <<>> THEN data ELSE [data EXCEPT ![p[1]] = mem'[p]]

-----------------------------------------------------------------------------
(***************************************************************************)
(* A chat thread: JoinChatRoom, LeaveChatRoom or PostChat with net set     *)
(***************************************************************************)

\* The command is run in memory, and the rooms are written to the backup.
Submit(p, c) ==
  /\ Rules(p)
  /\ writer[p] = Idle
  /\ origin[c] = NoMachine
  /\ origin' = [origin EXCEPT ![c] = p[1]]
  /\ mem' = [mem EXCEPT ![p] = Append(@, c)]
  /\ backup' = [backup EXCEPT ![p[1]] = {mem'[p]}]
  /\ writer' = [writer EXCEPT ![p] =
                  [pc |-> "asking", cmd |-> c, todo |-> Others(p[1])]]
  /\ UNCHANGED <<role, known, table, comm, greet, data, failed, calls, done,
                 dropped, torn, failVars>>

Inside(p) == writer[p].pc \in {"saved", "sending"}

\* Mutant: requestLock has returned; data.dat is left to others.
SaveNoData(p) ==
  /\ writer[p].pc = "asking"
  /\ \A q \in Proc : ~Inside(q)
  /\ backup' = [backup EXCEPT ![p[1]] = {}]
  /\ writer' = [writer EXCEPT ![p].pc = "saved"]
  /\ UNCHANGED <<role, known, table, comm, mem, greet, data, failed, calls,
                 histVars, failVars>>

\* requestLock has returned: the backup is removed, and data.dat written.  That
\* the lock admits one at a time is taken for granted here (P2PLock shows when
\* it does not).
Save(p) ==
  /\ writer[p].pc = "asking"
  /\ \A q \in Proc : ~Inside(q)
  /\ backup' = [backup EXCEPT ![p[1]] = {}]
  /\ data' = [data EXCEPT ![p[1]] = mem[p]]
  /\ writer' = [writer EXCEPT ![p].pc = "saved"]
  /\ UNCHANGED <<role, known, table, comm, mem, greet, failed, calls,
                 histVars, failVars>>

StartSending(p) ==
  /\ writer[p].pc = "saved"
  /\ comm[p] = "free"
  /\ comm' = [comm EXCEPT ![p] = "chat"]
  /\ writer' = [writer EXCEPT ![p].pc = "sending"]
  /\ UNCHANGED <<role, known, table, mem, greet, fileVars, calls, histVars,
                 failVars>>

\* Mutant: the machine is written in the place of the command.
SaveMachine(p, q) ==
  /\ failed' = [failed EXCEPT ![p[1]][q] = Append(@, q[1])]
  /\ writer' = [writer EXCEPT ![p].todo = @ \ {q[1]}]

\* Mutant: the command is forgotten.
SaveNothing(p, q) ==
  /\ writer' = [writer EXCEPT ![p].todo = @ \ {q[1]}]
  /\ UNCHANGED failed

\* The command could not be sent to q: "save it and try later".
SaveCmd(p, q) ==
  /\ failed' = [failed EXCEPT ![p[1]][q] = Append(@, writer[p].cmd)]
  /\ writer' = [writer EXCEPT ![p].todo = @ \ {q[1]}]

\* OnDataUpdated is called.
Send(p, n) ==
  LET q == Peer(p, n) IN
  /\ writer[p].pc = "sending"
  /\ Pending(p, "update") = {}
  /\ n \in writer[p].todo
  /\ IF Alive(q)
     THEN /\ calls' = calls \cup {Called(p, q, "update", writer[p].cmd, 0)}
          /\ UNCHANGED <<failed, writer>>
     ELSE SaveCmd(p, q) /\ UNCHANGED calls
  /\ UNCHANGED <<role, known, table, comm, mem, greet, data, backup, histVars,
                 failVars>>

\* Mutant: the command is saved although it has been sent.
SentAndSaved(p) ==
  \E c \in Pending(p, "update") :
    /\ c.pc = "done"
    /\ RunAll(p, c.cmds)
    /\ SaveCmd(p, c.to)
    /\ calls' = calls \ {c}
    /\ UNCHANGED <<role, known, table, comm, greet, backup, histVars, failVars>>

\* It has returned, with the commands that its callee had for p.
Sent(p) ==
  \E c \in Pending(p, "update") :
    /\ c.pc = "done"
    /\ RunAll(p, c.cmds)
    /\ writer' = [writer EXCEPT ![p].todo = @ \ {c.to[1]}]
    /\ calls' = calls \ {c}
    /\ UNCHANGED <<role, known, table, comm, greet, backup, failed, histVars,
                   failVars>>

\* Its callee has died.
NotSent(p) ==
  \E c \in Pending(p, "update") :
    /\ c.pc = "failed"
    /\ SaveCmd(p, c.to)
    /\ calls' = calls \ {c}
    /\ UNCHANGED <<role, known, table, comm, mem, greet, data, backup,
                   histVars, failVars>>

\* releaseLock, and the client is answered.
Answer(p) ==
  /\ writer[p].pc = "sending"
  /\ writer[p].todo = {}
  /\ comm' = [comm EXCEPT ![p] = "free"]
  /\ done' = done \cup {writer[p].cmd}
  /\ writer' = [writer EXCEPT ![p] = Idle]
  /\ UNCHANGED <<role, known, table, mem, greet, fileVars, calls, origin,
                 dropped, torn, failVars>>

-----------------------------------------------------------------------------
(***************************************************************************)
(* FailureDetector::takeOverMaster                                         *)
(***************************************************************************)

\* A slave of a machine without a master takes over: the other processes of
\* the machine are told, and the rooms are read.  That reads data.dat, and then
\* puts the backup in its place.
TakeOver(p) ==
  LET m == p[1] IN
  /\ role[p] = "slave"
  /\ \A i \in Index : ~Rules(<<m, i>>)
  /\ role' = [role EXCEPT ![p] = "greeting"]
  /\ mem' = [mem EXCEPT ![p] = data[m]]
  /\ data' = IF backup[m] = {} THEN data
             ELSE [data EXCEPT ![m] = CHOOSE b \in backup[m] : TRUE]
  /\ backup' = [backup EXCEPT ![m] = {}]
  /\ greet' = [greet EXCEPT ![p] = [dead |-> known[p], todo |-> Others(m)]]
  /\ known' = [q \in Proc |->
                 IF q[1] = m /\ Alive(q) THEN p[2] ELSE known[q]]
  /\ UNCHANGED <<table, comm, writer, failed, calls, histVars, failVars>>

StartGreeting(p) ==
  /\ role[p] = "greeting"
  /\ comm[p] = "free"
  /\ comm' = [comm EXCEPT ![p] = "greet"]
  /\ UNCHANGED <<role, known, table, mem, writer, greet, fileVars, calls,
                 histVars, failVars>>

\* NotifyNewNetMaster is called; that it fails is not noticed.
Greet(p, n) ==
  LET q == Peer(p, n) IN
  /\ comm[p] = "greet"
  /\ Pending(p, "greet") = {}
  /\ n \in greet[p].todo
  /\ IF Alive(q)
     THEN /\ calls' = calls \cup
                        {Called(p, q, "greet", p[2], greet[p].dead)}
          /\ UNCHANGED greet
     ELSE /\ greet' = [greet EXCEPT ![p].todo = @ \ {n}]
          /\ UNCHANGED calls
  /\ UNCHANGED <<role, known, table, comm, mem, writer, fileVars, histVars,
                 failVars>>

\* Mutant: the commands that it returns are not run.
GreetedIgnored(p) ==
  \E c \in Pending(p, "greet") :
    /\ c.pc \in {"done", "failed"}
    /\ greet' = [greet EXCEPT ![p].todo = @ \ {c.to[1]}]
    /\ calls' = calls \ {c}
    /\ UNCHANGED <<role, known, table, comm, mem, writer, fileVars, histVars,
                   failVars>>

\* It has returned, with the commands that were saved for the dead master.
Greeted(p) ==
  \E c \in Pending(p, "greet") :
    /\ c.pc \in {"done", "failed"}
    /\ RunAll(p, c.cmds)
    /\ greet' = [greet EXCEPT ![p].todo = @ \ {c.to[1]}]
    /\ calls' = calls \ {c}
    /\ UNCHANGED <<role, known, table, comm, writer, backup, failed, histVars,
                   failVars>>

EndGreeting(p) ==
  /\ comm[p] = "greet"
  /\ greet[p].todo = {}
  /\ comm' = [comm EXCEPT ![p] = "free"]
  /\ role' = [role EXCEPT ![p] = "master"]
  /\ greet' = [greet EXCEPT ![p] = NoGreet]
  /\ UNCHANGED <<known, table, mem, writer, fileVars, calls, histVars,
                 failVars>>

-----------------------------------------------------------------------------
(***************************************************************************)
(* The handlers, in process c.to                                           *)
(***************************************************************************)

Goes(c, pc, cmds) ==
  LET unheard == pc = "done" /\ ~c.heard IN
  /\ calls' = (calls \ {c}) \cup
                IF unheard THEN {} ELSE {[c EXCEPT !.pc = pc, !.cmds = cmds]}
  /\ dropped' = dropped \cup
                  IF unheard THEN ToSet(cmds) \X {c.from[1]} ELSE {}

\* OnDataUpdated: the command is run and all rooms are written, whatever the
\* process is.
Update(c) ==
  /\ c.op = "update" /\ c.pc = "run"
  /\ RunAll(c.to, <<c.cmd>>)
  /\ Goes(c, "fetch", <<>>)
  /\ UNCHANGED <<role, known, table, comm, writer, greet, backup, failed,
                 origin, done, torn, failVars>>

\* Mutant: the table keeps the old master.
ResetNothing(c) ==
  /\ c.op = "greet" /\ c.pc = "run"
  /\ comm[c.to] = "free"
  /\ Goes(c, IF known[c.to] = c.to[2] THEN "fetch" ELSE "done", <<>>)
  /\ UNCHANGED <<procVars, fileVars, origin, done, torn, failVars>>

\* NotifyNewNetMaster: the new master replaces the old one in the table; a
\* master tells its slaves.
Reset(c) ==
  LET q == c.to
      m == c.from[1]
      tells == known[q] = q[2]
  IN /\ c.op = "greet" /\ c.pc = "run"
     /\ comm[q] = "free"
     /\ table' = [r \in Proc |->
                    IF r = q \/ (tells /\ r[1] = q[1] /\ Alive(r))
                    THEN [table[r] EXCEPT ![m] = c.cmd] ELSE table[r]]
     /\ Goes(c, IF tells THEN "fetch" ELSE "done", <<>>)
     /\ UNCHANGED <<role, known, comm, mem, writer, greet, fileVars, origin,
                    done, torn, failVars>>

\* Mutant: a new master gets what is saved under its own id.
FetchForCaller(c) ==
  LET m == c.to[1] IN
  /\ c.pc = "fetch"
  /\ failed' = [failed EXCEPT ![m] = Remaining(m, c.from)]
  /\ Goes(c, "done", CmdsFor(m, c.from))
  /\ UNCHANGED <<procVars, data, backup, origin, done, torn, failVars>>

\* Both: the commands saved for the caller, or for the master it replaces, are
\* taken out of cmd.txt and returned.
Fetch(c) ==
  LET m  == c.to[1]
      id == IF c.op = "update" THEN c.from ELSE <<c.from[1], c.dead>>
  IN /\ c.pc = "fetch"
     /\ failed' = [failed EXCEPT ![m] = Remaining(m, id)]
     /\ Goes(c, "done", CmdsFor(m, id))
     /\ UNCHANGED <<procVars, data, backup, origin, done, torn, failVars>>

-----------------------------------------------------------------------------
\* A call misses its deadline: its caller goes on as if it had failed, and its
\* handler goes on too.
Timeout(c) ==
  LET p == c.from IN
  /\ c.heard
  /\ c.pc \in {"run", "fetch"}
  /\ crashes + timeouts < MaxFailures
  /\ timeouts' = timeouts + 1
  /\ calls' = (calls \ {c}) \cup {[c EXCEPT !.heard = FALSE]}
  /\ IF c.op = "update"
     THEN SaveCmd(p, c.to) /\ UNCHANGED greet
     ELSE /\ greet' = [greet EXCEPT ![p].todo = @ \ {c.to[1]}]
          /\ UNCHANGED <<failed, writer>>
  /\ UNCHANGED <<role, known, table, comm, mem, data, backup, histVars,
                 crashes>>

\* It is killed while it writes a file, which is left empty, or cut short: an
\* empty one stands for both.  That is the backup; or data.dat after requestLock,
\* when the backup has been removed, and data.dat perhaps not yet touched; or
\* data.dat for commands of others, which are written without a backup.
Tear(p) ==
  LET m == p[1] IN
  /\ torn' = torn \cup {m}
  /\ \/ /\ writer[p].pc = "asking"
        /\ backup' = [backup EXCEPT ![m] = {<<>>}]
        /\ UNCHANGED data
     \/ /\ writer[p].pc = "asking"
        /\ \A q \in Proc : ~Inside(q)
        /\ backup' = [backup EXCEPT ![m] = {}]
        /\ \E d \in {<<>>, data[m]} : data' = [data EXCEPT ![m] = d]
     \/ /\ \E c \in calls :
             \/ c.to = p /\ c.op = "update" /\ c.pc = "run"
             \/ c.from = p /\ c.heard /\ c.pc = "done" /\ c.cmds # <<>>
        /\ data' = [data EXCEPT ![m] = <<>>]
        /\ UNCHANGED backup

\* Process p is killed.
Crash(p) ==
  /\ Alive(p)
  /\ crashes + timeouts < MaxFailures
  /\ crashes' = crashes + 1
  /\ role' = [role EXCEPT ![p] = "down"]
  /\ comm' = [comm EXCEPT ![p] = "free"]
  /\ mem' = [mem EXCEPT ![p] = <<>>]
  /\ writer' = [writer EXCEPT ![p] = Idle]
  /\ greet' = [greet EXCEPT ![p] = NoGreet]
  /\ calls' =
       {IF c.to = p THEN [c EXCEPT !.pc = "failed"] ELSE c :
          c \in {d \in calls : d.from # p /\ (d.to = p /\ d.pc # "done"
                                                => d.heard)}}
       \cup {[c EXCEPT !.heard = FALSE] :
               c \in {d \in calls : d.from = p /\ d.to # p
                                    /\ d.pc \in {"run", "fetch"}}}
  /\ dropped' = dropped \cup
                  UNION {ToSet(c.cmds) \X {p[1]} : c \in {d \in calls : d.from = p}}
  /\ UNCHANGED <<data, backup, torn>> \/ Tear(p)
  /\ UNCHANGED <<known, table, failed, origin, done, timeouts>>

\* slaveWatchdog of the machine's master starts p again, as a slave with the
\* peer table of the configuration.  The watchdog sleeps five seconds before
\* it looks, when the takeover is over, and needs _comm._lock.
Restart(p) ==
  \E i \in Index :
    LET r == <<p[1], i>> IN
    /\ role[p] = "down"
    /\ role[r] = "master" /\ comm[r] = "free"
    /\ role' = [role EXCEPT ![p] = "slave"]
    /\ known' = [known EXCEPT ![p] = known[r]]
    /\ table' = [table EXCEPT ![p] = [m \in Machine |-> Size]]
    /\ UNCHANGED <<comm, mem, writer, greet, fileVars, calls, histVars,
                   failVars>>

-----------------------------------------------------------------------------
Write(p) ==
  \/ Save(p)
  \/ StartSending(p)
  \/ \E n \in Machine : Send(p, n)
  \/ Sent(p)
  \/ NotSent(p)
  \/ Answer(p)

Rule(p) ==
  \/ StartGreeting(p)
  \/ \E n \in Machine : Greet(p, n)
  \/ Greeted(p)
  \/ EndGreeting(p)

Handle(q) == \E c \in calls : c.to = q /\ (Update(c) \/ Reset(c) \/ Fetch(c))

Next ==
  \/ \E p \in Proc : \E c \in Command : Submit(p, c)
  \/ \E p \in Proc : Write(p) \/ TakeOver(p) \/ Rule(p) \/ Handle(p)
  \/ \E c \in calls : Timeout(c)
  \/ \E p \in Proc : Crash(p)
  \/ \E p \in Proc : Restart(p)

Spec == Init /\ [][Next]_vars

\* The threads of a live process are scheduled, an RPC returns or fails, and
\* a machine without a master elects one.
FairSpec ==
  /\ Spec
  /\ \A p \in Proc : /\ WF_vars(Write(p))
                     /\ WF_vars(Rule(p))
                     /\ WF_vars(Handle(p))
  /\ \A m \in Machine : WF_vars(\E i \in Index : TakeOver(<<m, i>>))

-----------------------------------------------------------------------------
(***************************************************************************)
(* Properties                                                              *)
(***************************************************************************)

\* cmd.txt of some machine has command c for a process of machine n.
SavedFor(c, n) ==
  \E m \in Machine, i \in Index : c \in ToSet(failed[m][<<n, i>>])

\* c is on its way back to a process of machine n.
Returning(c, n) ==
  \E d \in calls : d.from[1] = n /\ d.heard /\ c \in ToSet(d.cmds)

OneFailure == crashes + timeouts <= 1
InTime == timeouts = 0

\* c is in the data of machine n, or in the rooms of its master.
Kept(c, n) ==
  \/ c \in ToSet(data[n])
  \/ \E i \in Index : Rules(<<n, i>>) /\ c \in ToSet(mem[<<n, i>>])

\* Until the second failure, a command whose client has been answered is kept
\* by every machine, or saved for it: it is lost only in a reply whose receiver
\* has been killed or has given up, and on a machine with a process that was
\* killed while it wrote the files.
NothingLost ==
  OneFailure =>
    \A c \in done, n \in Machine \ torn :
      \/ Kept(c, n)
      \/ SavedFor(c, n)
      \/ Returning(c, n)
      \/ <<c, n>> \in dropped

\* Until the second failure, what another machine knows of a command, the data
\* of its origin have, unless a process of the origin was killed while it wrote
\* them.
SavedBeforeShared ==
  OneFailure =>
    \A c \in Command, n \in Machine :
      /\ origin[c] \notin {n, NoMachine} \cup torn
      /\ c \in ToSet(data[n]) \/ SavedFor(c, n)
      => c \in ToSet(data[origin[c]])

\* Until the second failure, commands are run by masters only: a slave has no
\* rooms, and would overwrite the data of its machine with nothing.
UpdatesReachRulers ==
  OneFailure => \A d \in calls : d.op = "update" /\ d.pc = "run" => Rules(d.to)

\* The places of a command in a log.
Runs(log, c) == {k \in DOMAIN log : log[k] = c}

\* Every failure makes a machine run a command at most once more.
RunsBounded ==
  \A c \in Command, n \in Machine :
    Cardinality(Runs(data[n], c)) <= 1 + crashes + timeouts

NothingSaved == \A m \in Machine, p \in Proc : failed[m][p] = <<>>

\* While no RPC misses its deadline, the commands that are kept in cmd.txt are
\* all handed out, again and again.
Delivered == []<>(InTime => NothingSaved)

Quiet ==
  /\ calls = {}
  /\ \A p \in Proc : writer[p] = Idle /\ role[p] # "greeting"
  /\ NothingSaved
  /\ \A c \in Command : origin[c] # NoMachine => c \in done

\* Whom the owner of each room of a machine follows.
Following(m) == LET rooms == RoomsOf(data[m])
                IN [u \in DOMAIN rooms |-> rooms[u].participants]

\* No user leaves a room that he also joins: these may be run in any order.
OrderFree ==
  \A c, d \in Command :
    c.op = "join" /\ d.op = "leave" => c.user # d.user \/ c.arg # d.arg

\* Until the second failure, when everything has been sent and run, the machines
\* have the same commands, although the order may differ: all but one with a
\* process that was killed while it wrote the files.
SameSets ==
  OneFailure /\ Quiet /\ dropped = {} =>
    \A m, n \in Machine \ torn : ToSet(data[m]) = ToSet(data[n])

\* Then their users follow the same rooms, too.
SameCommands ==
  /\ SameSets
  /\ OneFailure /\ Quiet /\ dropped = {} /\ OrderFree =>
       \A m, n \in Machine \ torn : Following(m) = Following(n)
=============================================================================
