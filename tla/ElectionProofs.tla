--------------------------- MODULE ElectionProofs ---------------------------
(***************************************************************************)
(* What is proved about Election, for any ids First .. Last, any number of *)
(* deaths and any detectors that start elections.  That there is one       *)
(* master, and that it is the largest, is so until two elections cross:    *)
(* the chain is then alone on the ring and nobody shares a _vote with it.  *)
(*                                                                         *)
(* The invariant Apart has two halves.  One counts: a chain under way, a   *)
(* takeover and a master exclude each other, and a detector that may still *)
(* start an election has none of them beside it.  The other follows the    *)
(* chain round the ring: whom it has visited (Laps), and that its id is    *)
(* not smaller than theirs (Largest).                                      *)
(***************************************************************************)
EXTENDS Election, TLAPS

-----------------------------------------------------------------------------
(***************************************************************************)
(* Types                                                                   *)
(***************************************************************************)

LEMMA ProcIsInt == Proc \subseteq Int /\ None \in Int /\ None \notin Proc
BY ProcAssumption DEF Proc, None

\* The ring never leads out of the ids of the machine, nor back to the start.
LEMMA NextIdType ==
  ASSUME NEW n \in Proc, NEW id \in Proc
  PROVE  NextId(n, id) \in Proc
BY ProcAssumption DEF NextId, MaxClient, MinClient, Proc

LEMMA NextIdOther ==
  ASSUME NEW n \in Proc
  PROVE  NextId(n, n) # n
BY ProcAssumption DEF NextId, MaxClient, MinClient, Proc

LEMMA NoChainType ==
  ASSUME NEW n \in Proc
  PROVE  NoChain(n) \in Chain
BY DEF NoChain, Chain, None

\* The fields of a chain.
LEMMA ChainFields ==
  ASSUME NEW c \in Chain
  PROVE  /\ c.pc \in {"none", "read", "call"} \cup Serving
         /\ c.at \in Proc
         /\ c.to \in Proc
         /\ c.v \in Proc \cup {None}
         /\ c.byDetector \in BOOLEAN
BY DEF Chain

LEMMA ChainTyped ==
  ASSUME TypeOK, NEW k \in Proc
  PROVE  /\ chain[k] \in Chain
         /\ chain[k].pc \in {"none", "read", "call"} \cup Serving
         /\ chain[k].at \in Proc
         /\ chain[k].to \in Proc
         /\ chain[k].v \in Proc \cup {None}
         /\ chain[k].byDetector \in BOOLEAN
<1>1. chain[k] \in Chain
  BY DEF TypeOK
<1> QED BY <1>1, ChainFields

LEMMA TypeInit == Init => TypeOK
<1> SUFFICES ASSUME Init PROVE TypeOK
  OBVIOUS
<1>1. Last \in Proc
  BY ProcAssumption DEF Proc
<1>2. chain \in [Proc -> Chain]
  BY NoChainType DEF Init
<1>3. crashes \in 0 .. MaxCrashes
  BY CrashAssumption DEF Init
<1> QED BY <1>1, <1>2, <1>3 DEF Init, TypeOK, None

LEMMA TypeSuspect ==
  ASSUME TypeOK, NEW n \in Proc, Suspect(n)
  PROVE  TypeOK'
<1> DEFINE c == [chain[n] EXCEPT !.pc = "read", !.at = n, !.byDetector = TRUE]
<1>1. c \in Chain
  <2>1. chain[n] \in Chain
    BY ChainTyped
  <2> QED BY <2>1 DEF Chain
<1>2. chain' = [chain EXCEPT ![n] = c]
  BY DEF Suspect
<1> HIDE DEF c
<1>3. chain' \in [Proc -> Chain]
  BY <1>1, <1>2 DEF TypeOK
<1> QED BY <1>3 DEF Suspect, TypeOK, takeVars

LEMMA TypeFinish ==
  ASSUME TypeOK, NEW n \in Proc, Finish(n)
  PROVE  TypeOK'
BY DEF Finish, TypeOK, electVars, takeVars, counted

LEMMA TypeQuit ==
  ASSUME TypeOK, NEW n \in Proc, Quit(n)
  PROVE  TypeOK'
BY DEF Quit, TypeOK, electVars, takeVars, counted

LEMMA TypeRead ==
  ASSUME TypeOK, NEW k \in Proc, Read(k)
  PROVE  TypeOK'
<1> DEFINE n == chain[k].at
           w == IF vote[n] = None THEN n ELSE vote[n]
           c == [chain[k] EXCEPT !.pc = "call", !.to = NextId(n, n), !.v = w]
<1>1. n \in Proc
  BY ChainTyped
<1>2. NextId(n, n) \in Proc
  BY <1>1, NextIdType
<1>3. w \in Proc
  BY <1>1 DEF TypeOK
<1>4. c \in Chain
  <2>1. chain[k] \in Chain
    BY ChainTyped
  <2> HIDE DEF w, n
  <2> QED BY <1>2, <1>3, <2>1 DEF Chain
<1>5. chain' = [chain EXCEPT ![k] = c]
  BY DEF Read
<1> HIDE DEF c
<1>6. chain' \in [Proc -> Chain]
  BY <1>4, <1>5 DEF TypeOK
<1> QED BY <1>6 DEF Read, TypeOK, takeVars, detectVars, counted

LEMMA TypeCall ==
  ASSUME TypeOK, NEW k \in Proc, Call(k)
  PROVE  TypeOK'
<1> DEFINE c == [chain[k] EXCEPT !.pc = "set"]
<1>1. c \in Chain
  BY ChainTyped DEF Chain, Serving
<1>2. chain' = [chain EXCEPT ![k] = c]
  BY DEF Call
<1> HIDE DEF c
<1>3. chain' \in [Proc -> Chain]
  BY <1>1, <1>2 DEF TypeOK
<1> QED BY <1>3 DEF Call, TypeOK, takeVars, detectVars, counted

LEMMA TypeSkip ==
  ASSUME TypeOK, NEW k \in Proc, Skip(k)
  PROVE  TypeOK'
<1> DEFINE n    == chain[k].at
           next == NextId(n, chain[k].to)
           c    == [chain[k] EXCEPT !.to = next]
<1>1. n \in Proc /\ next \in Proc
  BY ChainTyped, NextIdType
<1>2. c \in Chain
  BY <1>1, ChainTyped DEF Chain
<1>3. stuck' \in [Proc -> BOOLEAN]
  BY DEF Skip, TypeOK
<1>4. \/ chain' = [chain EXCEPT ![k] = NoChain(k)]
      \/ chain' = [chain EXCEPT ![k] = c]
  BY DEF Skip
<1> HIDE DEF c
<1>5. chain' \in [Proc -> Chain]
  BY <1>2, <1>4, NoChainType DEF TypeOK
<1> QED BY <1>3, <1>5 DEF Skip, TypeOK, takeVars, detectVars, counted

LEMMA TypeSetVote ==
  ASSUME TypeOK, NEW k \in Proc, SetVote(k)
  PROVE  TypeOK'
<1> DEFINE c == [chain[k] EXCEPT !.pc = "own"]
<1>1. c \in Chain
  BY ChainTyped DEF Chain, Serving
<1>2. chain' = [chain EXCEPT ![k] = c]
  BY DEF SetVote
<1> HIDE DEF c
<1>3. chain' \in [Proc -> Chain]
  BY <1>1, <1>2 DEF TypeOK
<1>4. vote' \in [Proc -> Proc \cup {None}]
  BY ChainTyped DEF SetVote, TypeOK
<1> QED BY <1>3, <1>4 DEF SetVote, TypeOK, takeVars, detectVars, counted

LEMMA TypeReturned ==
  ASSUME TypeOK, NEW k \in Proc, Returned(k)
  PROVE  detector' \in [Proc -> {"off", "watching", "forwarding", "forwarded"}]
BY DEF Returned, TypeOK

LEMMA TypeWon ==
  ASSUME TypeOK, NEW k \in Proc, Won(k)
  PROVE  /\ taking' \in [Proc -> Nat]
         /\ chain' \in [Proc -> Chain]
<1>1. chain' \in [Proc -> Chain]
  BY NoChainType DEF Won, TypeOK
<1>2. taking' \in [Proc -> Nat]
  <2> DEFINE p == chain[k].to
             t == IF master[p] # p THEN taking[p] + 1 ELSE taking[p]
  <2>1. p \in Proc
    BY ChainTyped
  <2>2. t \in Nat
    BY <2>1 DEF TypeOK
  <2>3. taking' = [taking EXCEPT ![p] = t]
    BY DEF Won
  <2> HIDE DEF t, p
  <2> QED BY <2>2, <2>3 DEF TypeOK
<1> QED BY <1>1, <1>2

LEMMA TypeOwnVote ==
  ASSUME TypeOK, NEW k \in Proc, OwnVote(k)
  PROVE  TypeOK'
<1>1. Won(k) /\ Returned(k)
  BY DEF OwnVote
<1>2. vote' \in [Proc -> Proc \cup {None}]
  BY DEF OwnVote, TypeOK
<1> QED BY <1>1, <1>2, TypeWon, TypeReturned DEF OwnVote, TypeOK, counted

LEMMA TypeOtherVote ==
  ASSUME TypeOK, NEW k \in Proc, OtherVote(k)
  PROVE  TypeOK'
<1> DEFINE c == [chain[k] EXCEPT !.pc = "fold"]
<1>1. c \in Chain
  BY ChainTyped DEF Chain, Serving
<1>2. chain' = [chain EXCEPT ![k] = c]
  BY DEF OtherVote
<1> HIDE DEF c
<1>3. chain' \in [Proc -> Chain]
  BY <1>1, <1>2 DEF TypeOK
<1> QED BY <1>3 DEF OtherVote, TypeOK, takeVars, detectVars, counted

LEMMA TypeFold ==
  ASSUME TypeOK, NEW k \in Proc, Fold(k)
  PROVE  TypeOK'
<1> DEFINE c == [chain[k] EXCEPT !.pc = "mark"]
<1>1. c \in Chain
  BY ChainTyped DEF Chain, Serving
<1>2. chain' = [chain EXCEPT ![k] = c]
  BY DEF Fold
<1> HIDE DEF c
<1>3. chain' \in [Proc -> Chain]
  BY <1>1, <1>2 DEF TypeOK
<1>4. vote' \in [Proc -> Proc \cup {None}]
  BY ChainTyped DEF Fold, TypeOK
<1> QED BY <1>3, <1>4 DEF Fold, TypeOK, takeVars, detectVars, counted

LEMMA TypeMark ==
  ASSUME TypeOK, NEW k \in Proc, Mark(k)
  PROVE  TypeOK'
<1> DEFINE p == chain[k].to
           c == [NoChain(k) EXCEPT !.pc = "read", !.at = p]
<1>1. p \in Proc
  BY ChainTyped
<1>2. c \in Chain
  BY <1>1 DEF Chain, NoChain
<1>3. \/ Won(k)
      \/ /\ chain' = [chain EXCEPT ![k] = c]
         /\ UNCHANGED taking
  BY DEF Mark
<1> HIDE DEF c
<1>4. taking' \in [Proc -> Nat] /\ chain' \in [Proc -> Chain]
  BY <1>2, <1>3, TypeWon DEF TypeOK
<1>5. Returned(k)
  BY DEF Mark
<1>6. participated' \in [Proc -> BOOLEAN]
  BY DEF Mark, TypeOK
<1> QED BY <1>4, <1>5, <1>6, TypeReturned DEF Mark, TypeOK, counted

LEMMA TypeTakeOver ==
  ASSUME TypeOK, NEW n \in Proc, TakeOver(n)
  PROVE  TypeOK'
<1>1. taking' \in [Proc -> Nat]
  BY DEF TakeOver, TypeOK
<1>2. telling' \in [Proc -> Nat]
  BY DEF TakeOver, TypeOK
<1> QED BY <1>1, <1>2 DEF TakeOver, TypeOK, electVars, counted

LEMMA TypeStartTelling ==
  ASSUME TypeOK, NEW n \in Proc, StartTelling(n)
  PROVE  TypeOK'
<1>1. telling' \in [Proc -> Nat]
  BY DEF StartTelling, TypeOK
<1>2. todo' \in [Proc -> SUBSET Proc]
  BY DEF StartTelling, TypeOK, Clients
<1> QED BY <1>1, <1>2 DEF StartTelling, TypeOK, electVars, detectVars, counted

LEMMA TypeTell ==
  ASSUME TypeOK, NEW n \in Proc, NEW q \in Proc, Tell(n, q)
  PROVE  TypeOK'
<1>1. todo' \in [Proc -> SUBSET Proc]
  BY DEF Tell, TypeOK
<1>2. CASE NewLocalMaster(n, q)
  <2>1. /\ master' \in [Proc -> Proc]
        /\ vote' \in [Proc -> Proc \cup {None}]
        /\ participated' \in [Proc -> BOOLEAN]
        /\ finished' \in [Proc -> BOOLEAN]
    BY <1>2 DEF NewLocalMaster, TypeOK
  <2>2. detector' \in [Proc -> {"off", "watching", "forwarding", "forwarded"}]
    BY <1>2 DEF NewLocalMaster, TypeOK
  <2> QED BY <1>1, <2>1, <2>2 DEF Tell, TypeOK, counted
<1>3. CASE UNCHANGED <<master, vote, participated, detectVars>>
  BY <1>1, <1>3 DEF Tell, TypeOK, detectVars, counted
<1> QED BY <1>2, <1>3 DEF Tell

LEMMA TypeRestart ==
  ASSUME TypeOK, NEW n \in Proc, NEW q \in Proc, Restart(n, q)
  PROVE  TypeOK'
<1>1. taking' \in [Proc -> Nat]
  BY DEF Restart, TypeOK
<1>2. detector' \in [Proc -> {"off", "watching", "forwarding", "forwarded"}]
  BY DEF Restart, TypeOK
<1> QED BY <1>1, <1>2 DEF Restart, TypeOK, electVars, counted

LEMMA AfterCrashType ==
  ASSUME TypeOK, NEW n \in Proc, NEW k \in Proc
  PROVE  AfterCrash(n, k) \in Chain
<1>1. [chain[k] EXCEPT !.pc = "call"] \in Chain
  BY ChainTyped DEF Chain
<1>2. [chain[k] EXCEPT !.byDetector = FALSE] \in Chain
  <2>1. chain[k] \in Chain
    BY ChainTyped
  <2> QED BY <2>1 DEF Chain
<1> QED BY <1>1, <1>2, ChainTyped, NoChainType DEF AfterCrash

LEMMA TypeCrash ==
  ASSUME TypeOK, NEW n \in Proc, Crash(n)
  PROVE  TypeOK'
<1>1. chain' \in [Proc -> Chain]
  BY AfterCrashType DEF Crash
<1>2. crashes' \in 0 .. MaxCrashes
  BY CrashAssumption DEF Crash, TypeOK
<1> QED BY <1>1, <1>2 DEF Crash, TypeOK

LEMMA TypeNext == TypeOK /\ [Next]_vars => TypeOK'
<1> SUFFICES ASSUME TypeOK, [Next]_vars PROVE TypeOK'
  OBVIOUS
<1>1. CASE Next
  <2>1. ASSUME NEW n \in Proc, Detect(n) PROVE TypeOK'
    BY <2>1, TypeSuspect, TypeFinish, TypeQuit DEF Detect
  <2>2. ASSUME NEW k \in Proc, Forward(k) PROVE TypeOK'
    BY <2>2, TypeRead, TypeCall, TypeSkip DEF Forward
  <2>3. ASSUME NEW k \in Proc, Vote(k) PROVE TypeOK'
    BY <2>3, TypeSetVote, TypeOwnVote, TypeOtherVote, TypeFold, TypeMark
    DEF Vote
  <2>4. ASSUME NEW n \in Proc, Rule(n) PROVE TypeOK'
    BY <2>4, TypeTakeOver, TypeStartTelling, TypeTell DEF Rule
  <2> QED BY <1>1, <2>1, <2>2, <2>3, <2>4, TypeRestart, TypeCrash
          DEF Next, Work
<1>2. CASE UNCHANGED vars
  BY <1>2 DEF TypeOK, vars, electVars, detectVars, takeVars, counted
<1> QED BY <1>1, <1>2

\* In every reachable state each variable has a value of its type: an id is
\* that of a process of the machine, whatever chains meet in _vote
\* (election.cc:28), and no takeover is counted down that nobody has started.
THEOREM TypeCorrect == Spec => []TypeOK
BY TypeInit, TypeNext, PTL DEF Spec

-----------------------------------------------------------------------------
(***************************************************************************)
(* The inductive invariant, for one election at a time                     *)
(***************************************************************************)

\* Nobody rules, and nobody is about to.
NoTakeOver == \A n \in Proc : ~heart[n] /\ taking[n] = 0

\* The ids strictly between a and b on the way up the ring; from a to itself,
\* all the others.
Arc(a, b) ==
  {q \in Proc : IF a < b THEN a < q /\ q < b
                         ELSE q # a /\ q # b /\ (a < q \/ q < b)}

Idle(k)   == chain[k].pc = "none"
Moving(k) == chain[k].pc \in {"call"} \cup Serving

\* The id that the chain of k takes to the next process.
Carried(k) ==
  LET c == chain[k] IN
  IF c.pc = "read"
  THEN IF vote[c.at] = None THEN c.at ELSE vote[c.at]
  ELSE c.v

\* Threads run in live processes only.
Alive ==
  /\ \A n \in Proc : detector[n] # "off" => up[n]
  /\ \A n \in Proc : heart[n] \/ taking[n] > 0 => up[n]
  /\ \A k \in Proc : chain[k].pc \in {"read", "call"} => up[chain[k].at]
  /\ \A k \in Proc : chain[k].pc \in Serving => up[chain[k].to]
  /\ \A k \in Proc : chain[k].byDetector => up[k] /\ chain[k].at = k

\* forward() passes over the dead only.
Rounds ==
  \A k \in Proc : Moving(k) =>
    /\ chain[k].to # chain[k].at
    /\ chain[k].v \in Proc
    /\ \A q \in Arc(chain[k].at, chain[k].to) : ~up[q]

\* There is one chain, or one takeover, or one master, and no two of them.
OneChain ==
  /\ \A j, k \in Proc : ~Idle(j) /\ ~Idle(k) => j = k
  /\ \A k \in Proc : ~Idle(k) => NoTakeOver

OneTakeOver ==
  /\ \A m, n \in Proc :
       (heart[m] \/ taking[m] > 0) /\ (heart[n] \/ taking[n] > 0) => m = n
  /\ \A n \in Proc : taking[n] > 0 => taking[n] = 1 /\ ~heart[n]

OneRuler ==
  /\ \A n \in Proc : heart[n] => master[n] = n
  /\ \A n \in Proc : telling[n] > 0 \/ todo[n] # {} => heart[n]
  /\ \A n \in Proc : todo[n] \subseteq Clients(n)

\* A detector that still watches has not started the election under way, and
\* does not start one in a process that is or will be the master.
Watching ==
  \A n \in Proc : detector[n] = "watching" =>
    /\ Idle(n)
    /\ heart[n] \/ taking[n] > 0 => participated[n]

\* Who has come round to itself is alone, and nobody restarts the others.
Hung ==
  \A n \in Proc : stuck[n] =>
    /\ NoTakeOver
    /\ \A m \in Proc : up[m] => m = n
    /\ \A k \in Proc : chain[k].pc \in {"none", "read"}

\* Who has a vote has participated, unless the chain is with it.
Voted ==
  \A p \in Proc : vote[p] # None =>
    \/ participated[p]
    \/ \E k \in Proc : chain[k].pc \in Serving /\ chain[k].to = p

\* What vote() has put into _vote.
Votes ==
  \A k \in Proc :
    LET p == chain[k].to
        v == chain[k].v
    IN /\ chain[k].pc \in {"own", "fold"} => vote[p] = v
       /\ chain[k].pc = "mark" =>
            vote[p] = IF participated[p] \/ p < v THEN v ELSE p

Visited(p) == up[p] => participated[p]

\* Before the chain of s has come round, it has visited all from s to where it
\* is, and the id it carries is one of theirs.
AtStart(s) ==
  /\ chain[s].pc = "read"
  /\ chain[s].at = s
  /\ vote[s] = None

Reading(s) ==
  LET c == chain[s] IN
  /\ c.pc = "read"
  /\ c.at # s
  /\ Carried(s) \in {s, c.at} \cup Arc(s, c.at)
  /\ \A p \in {c.at} \cup Arc(s, c.at) : Visited(p)

Passing(s) ==
  LET c == chain[s] IN
  /\ c.pc # "read"
  /\ c.at \in {s} \cup Arc(s, c.to)
  /\ c.at = s => c.v = s
  /\ c.v \in {s} \cup Arc(s, c.to)
  /\ \A p \in Arc(s, c.to) : Visited(p)

AllVisited == \A p \in Proc : Visited(p)

Laps ==
  \A s \in Proc : ~Idle(s) =>
    AtStart(s) \/ Reading(s) \/ Passing(s) \/ AllVisited

\* The id is not smaller than that of anybody it has come by.
Largest ==
  \A s \in Proc : ~Idle(s) =>
    \A p \in Proc :
      up[p] /\ participated[p] /\ p \notin untold => p <= Carried(s)

Apart ==
  /\ TypeOK
  /\ Alive /\ Rounds
  /\ OneChain /\ OneTakeOver /\ OneRuler /\ Watching /\ Hung
  /\ Voted /\ Votes
  /\ Laps /\ Largest

IInv == crossed \/ Apart

-----------------------------------------------------------------------------
(***************************************************************************)
(* The ring                                                                *)
(***************************************************************************)

LEMMA ArcWhole ==
  ASSUME NEW s \in Proc, NEW q \in Proc, q # s
  PROVE  q \in Arc(s, s)
BY ProcAssumption DEF Arc, Proc

LEMMA ArcType ==
  ASSUME NEW a, NEW b, NEW q \in Arc(a, b)
  PROVE  q \in Proc
BY DEF Arc

LEMMA ArcNotEnd ==
  ASSUME NEW a \in Proc, NEW b \in Proc
  PROVE  b \notin Arc(a, b)
BY ProcAssumption DEF Arc, Proc

LEMMA ArcFirst ==
  ASSUME NEW n \in Proc
  PROVE  Arc(n, NextId(n, n)) = {}
BY ProcAssumption DEF Arc, Proc, NextId, MaxClient, MinClient

LEMMA ArcSkipped ==
  ASSUME NEW n \in Proc, NEW t \in Proc, t # n, NextId(n, t) # n,
         NEW q \in Arc(n, NextId(n, t))
  PROVE  q \in Arc(n, t) \/ q = t
BY ProcAssumption DEF Arc, Proc, NextId, MaxClient, MinClient

LEMMA ArcClosed ==
  ASSUME NEW n \in Proc, NEW t \in Proc, t # n, NextId(n, t) = n, NEW q \in Proc
  PROVE  q \in Arc(n, t) \/ q = t \/ q = n
BY ProcAssumption DEF Arc, Proc, NextId, MaxClient, MinClient

LEMMA ArcRead ==
  ASSUME NEW s \in Proc, NEW n \in Proc, n # s
  PROVE  Arc(s, NextId(n, n)) = Arc(s, n) \cup {n}
BY ProcAssumption DEF Arc, Proc, NextId, MaxClient, MinClient

LEMMA ArcOwnSkip ==
  ASSUME NEW s \in Proc, NEW t \in Proc, t # s, NextId(s, t) # s
  PROVE  Arc(s, NextId(s, t)) \subseteq Arc(s, t) \cup {t}
BY ProcAssumption DEF Arc, Proc, NextId, MaxClient, MinClient

LEMMA ArcOtherSkip ==
  ASSUME NEW s \in Proc, NEW n \in Proc, NEW t \in Proc, n \in Arc(s, t),
         t # s, t # n, NextId(n, t) # n
  PROVE  Arc(s, NextId(n, t)) = Arc(s, t) \cup {t}
BY ProcAssumption DEF Arc, Proc, NextId, MaxClient, MinClient

-----------------------------------------------------------------------------
(***************************************************************************)
(* The chain                                                               *)
(***************************************************************************)

LEMMA OnlyChain ==
  ASSUME Apart, NEW k \in Proc, ~Idle(k)
  PROVE  /\ \A j \in Proc : j # k => Idle(j)
         /\ NoTakeOver
         /\ detector[k] # "watching"
BY DEF Apart, OneChain, Watching

\* A step of the chain that stays between the same two processes.
LEMMA StepInv ==
  ASSUME Apart, NEW k \in Proc, Moving(k), up[chain[k].to],
         chain'[k].pc \in Serving,
         chain'[k].at = chain[k].at,
         chain'[k].to = chain[k].to,
         chain'[k].v = chain[k].v,
         chain'[k].byDetector = chain[k].byDetector,
         \A j \in Proc : j # k => chain'[j] = chain[j],
         UNCHANGED <<up, master, participated, detectVars, takeVars, stuck,
                     counted>>
  PROVE  /\ Alive' /\ Rounds'
         /\ OneChain' /\ OneTakeOver' /\ OneRuler' /\ Watching' /\ Hung'
         /\ Laps' /\ Largest'
<1>1. /\ Alive /\ Rounds
      /\ OneChain /\ OneTakeOver /\ OneRuler /\ Watching /\ Hung
      /\ Laps /\ Largest
  BY DEF Apart
<1>2. /\ ~Idle(k)
      /\ Moving(k)'
      /\ ~Idle(k)'
      /\ chain[k].pc # "read" /\ chain'[k].pc # "read"
  BY DEF Moving, Idle, Serving
<1>3. /\ UNCHANGED <<up, master, participated, detector, heart, taking,
                     telling, todo, stuck, untold>>
  BY DEF detectVars, takeVars, counted
<1>4. /\ \A j \in Proc : j # k => Idle(j)
      /\ NoTakeOver
      /\ detector[k] # "watching"
  BY <1>2, OnlyChain
<1>5. \A j \in Proc : j # k => Idle(j)'
  BY <1>4 DEF Idle
<1>6. Alive'
  BY <1>1, <1>3, <1>5 DEF Alive, Idle, Serving
<1>7. Rounds'
  BY <1>1, <1>3, <1>5 DEF Rounds, Moving, Idle, Serving
<1>8. NoTakeOver'
  BY <1>3, <1>4 DEF NoTakeOver
<1>9. OneChain'
  BY <1>5, <1>8 DEF OneChain
<1>10. OneTakeOver' /\ OneRuler'
  BY <1>1, <1>3 DEF OneTakeOver, OneRuler, Clients
<1>11. Watching'
  BY <1>3, <1>4, <1>5 DEF Watching, NoTakeOver
<1>12. Hung'
  <2>1. chain[k].pc \notin {"none", "read"}
    BY <1>2 DEF Idle
  <2> QED BY <1>1, <1>3, <2>1 DEF Hung
<1>13. Carried(k)' = Carried(k)
  BY <1>2 DEF Carried
<1>14. Laps'
  <2>1. Passing(k) \/ AllVisited
    BY <1>1, <1>2, <1>4 DEF Laps, AtStart, Reading
  <2>2. AllVisited => AllVisited'
    BY <1>3 DEF AllVisited, Visited
  <2>3. Passing(k) => Passing(k)'
    BY <1>2, <1>3 DEF Passing, Visited
  <2> QED BY <1>5, <2>1, <2>2, <2>3 DEF Laps
<1>15. Largest'
  BY <1>1, <1>2, <1>3, <1>5, <1>13 DEF Largest
<1> QED BY <1>6, <1>7, <1>9, <1>10, <1>11, <1>12, <1>14, <1>15

\* Only the vote of the process that the chain is with has changed.
LEMMA VotedStep ==
  ASSUME Voted, NEW k \in Proc,
         chain'[k].pc \in Serving,
         chain'[k].to = chain[k].to,
         \A j \in Proc : j # k => chain'[j] = chain[j],
         participated' = participated,
         \A q \in Proc : q # chain[k].to => vote'[q] = vote[q]
  PROVE  Voted'
<1> SUFFICES ASSUME NEW q \in Proc, vote'[q] # None, ~participated[q]
             PROVE  \E j \in Proc : chain'[j].pc \in Serving /\ chain'[j].to = q
  BY DEF Voted
<1>1. CASE q = chain[k].to
  BY <1>1
<1>2. CASE q # chain[k].to
  <2>1. PICK j \in Proc : chain[j].pc \in Serving /\ chain[j].to = q
    BY <1>2 DEF Voted
  <2>2. j # k
    BY <1>2, <2>1
  <2> QED BY <2>1, <2>2
<1> QED BY <1>1, <1>2

LEMMA CallInv ==
  ASSUME Apart, NEW k \in Proc, Call(k)
  PROVE  Apart'
<1>1. TypeOK /\ Voted /\ Votes
  BY DEF Apart
<1>2. TypeOK'
  BY <1>1, TypeCall
<1>3. /\ chain[k].pc = "call"
      /\ up[chain[k].to]
      /\ chain'[k] = [chain[k] EXCEPT !.pc = "set"]
      /\ \A j \in Proc : j # k => chain'[j] = chain[j]
      /\ UNCHANGED <<up, master, vote, participated, detectVars, takeVars,
                     stuck, counted>>
  BY <1>1 DEF Call, TypeOK
<1>4. chain[k] \in Chain
  BY <1>1, ChainTyped
<1>5. /\ chain'[k].pc = "set"
      /\ chain'[k].at = chain[k].at
      /\ chain'[k].to = chain[k].to
      /\ chain'[k].v = chain[k].v
      /\ chain'[k].byDetector = chain[k].byDetector
  BY <1>3, <1>4 DEF Chain
<1>6. /\ Alive' /\ Rounds'
      /\ OneChain' /\ OneTakeOver' /\ OneRuler' /\ Watching' /\ Hung'
      /\ Laps' /\ Largest'
  BY <1>3, <1>5, StepInv DEF Moving, Serving
<1>7. Voted'
  BY <1>1, <1>3, <1>5 DEF Voted, Serving
<1>8. Votes'
  BY <1>1, <1>3, <1>5 DEF Votes
<1> QED BY <1>1, <1>2, <1>6, <1>7, <1>8 DEF Apart

LEMMA SetVoteInv ==
  ASSUME Apart, NEW k \in Proc, SetVote(k)
  PROVE  Apart'
<1> DEFINE p == chain[k].to
<1>1. TypeOK /\ Voted /\ Votes /\ Alive
  BY DEF Apart
<1>2. TypeOK'
  BY <1>1, TypeSetVote
<1>3. /\ chain[k].pc = "set"
      /\ vote' = [vote EXCEPT ![p] = chain[k].v]
      /\ chain'[k] = [chain[k] EXCEPT !.pc = "own"]
      /\ \A j \in Proc : j # k => chain'[j] = chain[j]
      /\ UNCHANGED <<up, master, participated, detectVars, takeVars, stuck,
                     counted>>
  BY <1>1 DEF SetVote, TypeOK
<1>4. chain[k] \in Chain /\ p \in Proc
  BY <1>1, ChainTyped
<1>5. /\ chain'[k].pc = "own"
      /\ chain'[k].at = chain[k].at
      /\ chain'[k].to = chain[k].to
      /\ chain'[k].v = chain[k].v
      /\ chain'[k].byDetector = chain[k].byDetector
  BY <1>3, <1>4 DEF Chain
<1>6. up[p]
  BY <1>1, <1>3 DEF Alive, Serving
<1>7. /\ Alive' /\ Rounds'
      /\ OneChain' /\ OneTakeOver' /\ OneRuler' /\ Watching' /\ Hung'
      /\ Laps' /\ Largest'
  BY <1>3, <1>5, <1>6, StepInv DEF Moving, Serving
<1>8. vote'[p] = chain[k].v /\ \A q \in Proc : q # p => vote'[q] = vote[q]
  BY <1>1, <1>3, <1>4 DEF TypeOK
<1>9. Voted'
  BY <1>1, <1>3, <1>5, <1>8, VotedStep DEF Serving
<1>10. \A j \in Proc : j # k => chain'[j].pc = "none"
  <2>1. ~Idle(k)
    BY <1>3 DEF Idle
  <2> QED BY <1>3, <2>1, OnlyChain DEF Idle
<1>11. Votes'
  BY <1>5, <1>8, <1>10 DEF Votes
<1> QED BY <1>1, <1>2, <1>7, <1>9, <1>11 DEF Apart

LEMMA OtherVoteInv ==
  ASSUME Apart, NEW k \in Proc, OtherVote(k)
  PROVE  Apart'
<1>1. TypeOK /\ Voted /\ Votes /\ Alive
  BY DEF Apart
<1>2. TypeOK'
  BY <1>1, TypeOtherVote
<1>3. /\ chain[k].pc = "own"
      /\ chain'[k] = [chain[k] EXCEPT !.pc = "fold"]
      /\ \A j \in Proc : j # k => chain'[j] = chain[j]
      /\ UNCHANGED <<up, master, vote, participated, detectVars, takeVars,
                     stuck, counted>>
  BY <1>1 DEF OtherVote, TypeOK
<1>4. chain[k] \in Chain
  BY <1>1, ChainTyped
<1>5. /\ chain'[k].pc = "fold"
      /\ chain'[k].at = chain[k].at
      /\ chain'[k].to = chain[k].to
      /\ chain'[k].v = chain[k].v
      /\ chain'[k].byDetector = chain[k].byDetector
  BY <1>3, <1>4 DEF Chain
<1>6. up[chain[k].to]
  BY <1>1, <1>3 DEF Alive, Serving
<1>7. /\ Alive' /\ Rounds'
      /\ OneChain' /\ OneTakeOver' /\ OneRuler' /\ Watching' /\ Hung'
      /\ Laps' /\ Largest'
  BY <1>3, <1>5, <1>6, StepInv DEF Moving, Serving
<1>8. Voted'
  BY <1>1, <1>3, <1>5, VotedStep DEF Serving
<1>9. vote[chain[k].to] = chain[k].v
  BY <1>1, <1>3 DEF Votes
<1>10. Votes'
  <2>1. \A j \in Proc : j # k => chain'[j].pc = "none"
    <3>1. ~Idle(k)
      BY <1>3 DEF Idle
    <3> QED BY <1>3, <3>1, OnlyChain DEF Idle
  <2> QED BY <1>3, <1>5, <1>9, <2>1 DEF Votes
<1> QED BY <1>1, <1>2, <1>7, <1>8, <1>10 DEF Apart

LEMMA FoldInv ==
  ASSUME Apart, NEW k \in Proc, Fold(k)
  PROVE  Apart'
<1> DEFINE p == chain[k].to
           v == chain[k].v
<1>1. TypeOK /\ Voted /\ Votes /\ Alive /\ Rounds
  BY DEF Apart
<1>2. TypeOK'
  BY <1>1, TypeFold
<1>3. /\ chain[k].pc = "fold"
      /\ vote' = [vote EXCEPT ![p] = IF participated[p] THEN @
                                     ELSE IF v < p THEN p ELSE v]
      /\ chain'[k] = [chain[k] EXCEPT !.pc = "mark"]
      /\ \A j \in Proc : j # k => chain'[j] = chain[j]
      /\ UNCHANGED <<up, master, participated, detectVars, takeVars, stuck,
                     counted>>
  BY <1>1 DEF Fold, TypeOK
<1>4. chain[k] \in Chain /\ p \in Proc
  BY <1>1, ChainTyped
<1>5. /\ chain'[k].pc = "mark"
      /\ chain'[k].at = chain[k].at
      /\ chain'[k].to = chain[k].to
      /\ chain'[k].v = chain[k].v
      /\ chain'[k].byDetector = chain[k].byDetector
  BY <1>3, <1>4 DEF Chain
<1>6. up[p]
  BY <1>1, <1>3 DEF Alive, Serving
<1>7. /\ Alive' /\ Rounds'
      /\ OneChain' /\ OneTakeOver' /\ OneRuler' /\ Watching' /\ Hung'
      /\ Laps' /\ Largest'
  BY <1>3, <1>5, <1>6, StepInv DEF Moving, Serving
<1>8. /\ vote'[p] = IF participated[p] THEN vote[p] ELSE IF v < p THEN p ELSE v
      /\ \A q \in Proc : q # p => vote'[q] = vote[q]
  BY <1>1, <1>3, <1>4 DEF TypeOK
<1>9. Voted'
  BY <1>1, <1>3, <1>5, <1>8, VotedStep DEF Serving
<1>10. \A j \in Proc : j # k => chain'[j].pc = "none"
  <2>1. ~Idle(k)
    BY <1>3 DEF Idle
  <2> QED BY <1>3, <2>1, OnlyChain DEF Idle
<1>11. vote[p] = v /\ v \in Proc
  BY <1>1, <1>3 DEF Votes, Rounds, Moving, Serving
<1>12. vote'[p] = IF participated[p] \/ p < v THEN v ELSE p
  <2>1. p \in Int /\ v \in Int
    BY <1>4, <1>11, ProcIsInt
  <2> HIDE DEF p, v
  <2> QED BY <1>8, <1>11, <2>1
<1>13. Votes'
  BY <1>3, <1>5, <1>10, <1>12 DEF Votes
<1> QED BY <1>1, <1>2, <1>7, <1>9, <1>13 DEF Apart

LEMMA SuspectInv ==
  ASSUME Apart, ~crossed', NEW n \in Proc, Suspect(n)
  PROVE  Apart'
<1>1. /\ TypeOK
      /\ Alive /\ Rounds
      /\ OneChain /\ OneTakeOver /\ OneRuler /\ Watching /\ Hung
      /\ Voted /\ Votes
  BY DEF Apart
<1>2. TypeOK'
  BY <1>1, TypeSuspect
<1>3. /\ detector[n] = "watching"
      /\ ~HearsMaster(n)
      /\ ~participated[n]
      /\ chain'[n] = [chain[n] EXCEPT !.pc = "read", !.at = n,
                                      !.byDetector = TRUE]
      /\ \A j \in Proc : j # n => chain'[j] = chain[j]
      /\ detector'[n] = "forwarding"
      /\ \A j \in Proc : j # n => detector'[j] = detector[j]
      /\ untold' = {p \in Proc : participated[p]}
      /\ UNCHANGED <<up, master, vote, participated, takeVars, stuck>>
  BY <1>1 DEF Suspect, TypeOK
<1>4. chain[n] \in Chain
  BY <1>1, ChainTyped
<1>5. /\ chain'[n].pc = "read"
      /\ chain'[n].at = n
      /\ chain'[n].byDetector = TRUE
  BY <1>3, <1>4 DEF Chain
<1>6. /\ UNCHANGED <<up, master, vote, participated, heart, taking, telling,
                     todo, stuck>>
  BY <1>3 DEF takeVars
<1>u. ~UnderWay
  BY DEF Suspect
<1>7. /\ \A j \in Proc : j # n => chain[j].pc = "none" /\ chain'[j].pc = "none"
      /\ chain[n].pc = "none"
  BY <1>3, <1>u DEF UnderWay
<1>8. NoTakeOver
  <2>1. ~heart[n] /\ \A m \in Proc : taking[m] = 0
    BY <1>1, <1>3, <1>u DEF Watching, UnderWay, TypeOK
  <2>2. ASSUME NEW m \in Proc, heart[m] PROVE FALSE
    <3>1. up[m] /\ m # n
      BY <1>1, <2>1, <2>2 DEF Alive
    <3>2. ~stuck[m]
      BY <1>1, <2>2 DEF Hung, NoTakeOver
    <3> QED BY <1>3, <2>2, <3>1, <3>2 DEF HearsMaster, Beats, Clients
  <2> QED BY <2>1, <2>2 DEF NoTakeOver
<1>9. Alive'
  <2>1. up[n]
    BY <1>1, <1>3 DEF Alive
  <2>2. \A j \in Proc : j # n => (chain'[j].byDetector => up[j] /\ chain'[j].at = j)
    BY <1>1, <1>3 DEF Alive
  <2>3. \A j \in Proc : detector'[j] # "off" => up[j]
    BY <1>1, <1>3, <2>1 DEF Alive
  <2>4. \A j \in Proc : heart[j] \/ taking[j] > 0 => up[j]
    BY <1>1 DEF Alive
  <2> QED BY <1>5, <1>6, <1>7, <2>1, <2>2, <2>3, <2>4 DEF Alive, Serving
<1>10. Rounds'
  BY <1>5, <1>7 DEF Rounds, Moving, Serving
<1>11. OneChain'
  BY <1>3, <1>6, <1>7, <1>8 DEF OneChain, Idle, NoTakeOver
<1>12. OneTakeOver' /\ OneRuler'
  BY <1>1, <1>6 DEF OneTakeOver, OneRuler, Clients
<1>13. Watching'
  BY <1>3, <1>6, <1>7, <1>8 DEF Watching, NoTakeOver, Idle
<1>14. Hung'
  BY <1>1, <1>5, <1>6, <1>7 DEF Hung, NoTakeOver
<1>15. Voted' /\ vote[n] = None
  BY <1>1, <1>3, <1>6, <1>7 DEF Voted, Serving
<1>16. Votes'
  BY <1>5, <1>7 DEF Votes
<1>17. Laps'
  BY <1>5, <1>6, <1>7, <1>15 DEF Laps, AtStart, Idle
<1>18. Largest'
  BY <1>3, <1>6 DEF Largest
<1> QED BY <1>1, <1>2, <1>9, <1>10, <1>11, <1>12, <1>13, <1>14, <1>15, <1>16,
           <1>17, <1>18 DEF Apart

\* A detector ends.
LEMMA OffInv ==
  ASSUME Apart, TypeOK', NEW n \in Proc,
         detector' = [detector EXCEPT ![n] = "off"],
         UNCHANGED <<up, master, electVars, takeVars, stuck, counted>>
  PROVE  Apart'
<1>1. /\ TypeOK
      /\ Alive /\ Rounds
      /\ OneChain /\ OneTakeOver /\ OneRuler /\ Watching /\ Hung
      /\ Voted /\ Votes
      /\ Laps /\ Largest
  BY DEF Apart
<1>3. /\ detector'[n] = "off"
      /\ \A j \in Proc : j # n => detector'[j] = detector[j]
      /\ UNCHANGED <<up, master, vote, participated, chain, heart, taking,
                     telling, todo, stuck, untold>>
  BY <1>1 DEF TypeOK, electVars, takeVars, counted
<1>4. Alive'
  BY <1>1, <1>3 DEF Alive
<1>5. Rounds' /\ Votes' /\ Voted'
  BY <1>1, <1>3 DEF Rounds, Votes, Voted, Moving
<1>6. OneChain' /\ OneTakeOver' /\ OneRuler' /\ Hung'
  BY <1>1, <1>3 DEF OneChain, OneTakeOver, OneRuler, Hung, NoTakeOver, Idle,
                    Clients
<1>7. Watching'
  BY <1>1, <1>3 DEF Watching, Idle
<1>8. Laps' /\ Largest'
  BY <1>1, <1>3 DEF Laps, Largest, Idle, AtStart, Reading, Passing, AllVisited,
                    Visited, Carried
<1> QED BY <1>1, <1>4, <1>5, <1>6, <1>7, <1>8 DEF Apart

LEMMA FinishInv ==
  ASSUME Apart, NEW n \in Proc, Finish(n)
  PROVE  Apart'
BY OffInv, TypeFinish DEF Apart, Finish

LEMMA QuitInv ==
  ASSUME Apart, NEW n \in Proc, Quit(n)
  PROVE  Apart'
BY OffInv, TypeQuit DEF Apart, Quit

LEMMA ReadInv ==
  ASSUME Apart, NEW k \in Proc, Read(k)
  PROVE  Apart'
<1> DEFINE n == chain[k].at
           w == IF vote[n] = None THEN n ELSE vote[n]
<1>1. /\ TypeOK
      /\ Alive /\ Rounds
      /\ OneChain /\ OneTakeOver /\ OneRuler /\ Watching /\ Hung
      /\ Voted /\ Votes
      /\ Laps /\ Largest
  BY DEF Apart
<1>2. TypeOK'
  BY <1>1, TypeRead
<1>3. /\ chain[k].pc = "read"
      /\ ~stuck[n]
      /\ chain'[k] = [chain[k] EXCEPT !.pc = "call", !.to = NextId(n, n),
                                      !.v = w]
      /\ \A j \in Proc : j # k => chain'[j] = chain[j]
      /\ UNCHANGED <<up, master, vote, participated, detectVars, takeVars,
                     stuck, counted>>
  BY <1>1 DEF Read, TypeOK
<1>4. chain[k] \in Chain /\ n \in Proc
  BY <1>1, ChainTyped
<1>5. /\ chain'[k].pc = "call"
      /\ chain'[k].at = n
      /\ chain'[k].to = NextId(n, n)
      /\ chain'[k].v = w
      /\ chain'[k].byDetector = chain[k].byDetector
  <2> HIDE DEF n, w
  <2> QED BY <1>3, <1>4 DEF Chain, n
<1>6. UNCHANGED <<up, master, vote, participated, detector, heart, taking,
                  telling, todo, stuck, untold>>
  BY <1>3 DEF detectVars, takeVars, counted
<1>7. /\ \A j \in Proc : j # k => chain[j].pc = "none" /\ chain'[j].pc = "none"
      /\ NoTakeOver
      /\ detector[k] # "watching"
  <2>1. ~Idle(k)
    BY <1>3 DEF Idle
  <2> QED BY <1>3, <2>1, OnlyChain DEF Idle
<1>8. w \in Proc /\ Carried(k) = w /\ Carried(k)' = w
  <2>1. w \in Proc
    BY <1>1, <1>4 DEF TypeOK
  <2> QED BY <1>3, <1>5, <2>1 DEF Carried
<1>9. up[n]
  BY <1>1, <1>3 DEF Alive
<1>10. Alive'
  <2>1. \A j \in Proc : chain'[j].byDetector => up[j] /\ chain'[j].at = j
    BY <1>1, <1>3, <1>5 DEF Alive
  <2>2. /\ \A j \in Proc : detector[j] # "off" => up[j]
        /\ \A j \in Proc : heart[j] \/ taking[j] > 0 => up[j]
    BY <1>1 DEF Alive
  <2> QED BY <1>5, <1>6, <1>7, <1>9, <2>1, <2>2 DEF Alive, Serving
<1>11. Rounds'
  BY <1>4, <1>5, <1>7, <1>8, NextIdOther, ArcFirst DEF Rounds, Moving, Serving
<1>12. OneChain'
  BY <1>6, <1>7 DEF OneChain, Idle, NoTakeOver
<1>13. OneTakeOver' /\ OneRuler'
  BY <1>1, <1>6 DEF OneTakeOver, OneRuler, Clients
<1>14. Watching'
  BY <1>6, <1>7 DEF Watching, NoTakeOver, Idle
<1>15. Hung'
  BY <1>1, <1>3, <1>4, <1>6, <1>9 DEF Hung
<1>16. Voted'
  BY <1>1, <1>3, <1>6, <1>7 DEF Voted, Serving
<1>17. Votes'
  BY <1>5, <1>7 DEF Votes
<1>18. Laps'
  <2>1. AtStart(k) \/ Reading(k) \/ AllVisited
    BY <1>1, <1>3, <1>7 DEF Laps, Idle, Passing
  <2>2. CASE AtStart(k)
    <3>1. n = k /\ w = k
      BY <2>2 DEF AtStart
    <3>2. Arc(k, NextId(n, n)) = {}
      BY <3>1, ArcFirst
    <3>3. Passing(k)'
      BY <1>5, <3>1, <3>2 DEF Passing
    <3> QED BY <1>7, <3>3 DEF Laps, Idle
  <2>3. CASE Reading(k)
    <3>1. /\ n # k
          /\ w \in {k, n} \cup Arc(k, n)
          /\ \A p \in {n} \cup Arc(k, n) : Visited(p)
      BY <1>8, <2>3 DEF Reading
    <3>2. Arc(k, NextId(n, n)) = Arc(k, n) \cup {n}
      BY <1>4, <3>1, ArcRead
    <3>3. \A p \in Arc(k, NextId(n, n)) : Visited(p)'
      BY <1>6, <3>1, <3>2 DEF Visited
    <3>4. Passing(k)'
      BY <1>5, <3>1, <3>2, <3>3 DEF Passing
    <3> QED BY <1>7, <3>4 DEF Laps, Idle
  <2>4. CASE AllVisited
    BY <1>6, <2>4 DEF Laps, AllVisited, Visited
  <2> QED BY <2>1, <2>2, <2>3, <2>4
<1>19. Largest'
  BY <1>1, <1>3, <1>6, <1>7, <1>8 DEF Largest, Idle
<1> QED BY <1>1, <1>2, <1>10, <1>11, <1>12, <1>13, <1>14, <1>15, <1>16, <1>17,
           <1>18, <1>19 DEF Apart

\* The own id comes next: all the other processes are dead.
LEMMA HangInv ==
  ASSUME Apart, TypeOK', NEW k \in Proc,
         chain[k].pc = "call",
         ~up[chain[k].to],
         NextId(chain[k].at, chain[k].to) = chain[k].at,
         stuck' = [stuck EXCEPT ![chain[k].at] = TRUE],
         chain' = [chain EXCEPT ![k] = NoChain(k)],
         UNCHANGED <<up, master, vote, participated, detectVars, takeVars,
                     counted>>
  PROVE  Apart'
<1> DEFINE n == chain[k].at
<1>1. /\ TypeOK
      /\ Alive /\ Rounds
      /\ OneChain /\ OneTakeOver /\ OneRuler /\ Watching /\ Hung
      /\ Voted
  BY DEF Apart
<1>2. n \in Proc /\ chain[k].to \in Proc
  BY <1>1, ChainTyped
<1>3. /\ chain'[k] = NoChain(k)
      /\ \A j \in Proc : j # k => chain'[j] = chain[j]
      /\ \A m \in Proc : m # n => stuck'[m] = stuck[m]
  BY <1>1, <1>2 DEF TypeOK
<1>4. UNCHANGED <<up, master, vote, participated, detector, heart, taking,
                  telling, todo, untold>>
  BY DEF detectVars, takeVars, counted
<1>5. /\ \A j \in Proc : j # k => chain[j].pc = "none"
      /\ \A j \in Proc : chain'[j].pc = "none"
      /\ NoTakeOver
  <2>1. ~Idle(k)
    BY DEF Idle
  <2> QED BY <1>3, <2>1, OnlyChain DEF Idle, NoChain
<1>6. \A m \in Proc : up[m] => m = n
  <2>1. chain[k].to # n /\ \A q \in Arc(n, chain[k].to) : ~up[q]
    BY <1>1 DEF Rounds, Moving
  <2> QED BY <1>2, <2>1, ArcClosed
<1>7. Alive'
  <2>1. \A j \in Proc : chain'[j].byDetector => up[j] /\ chain'[j].at = j
    BY <1>1, <1>3 DEF Alive, NoChain
  <2>2. /\ \A j \in Proc : detector[j] # "off" => up[j]
        /\ \A j \in Proc : heart[j] \/ taking[j] > 0 => up[j]
    BY <1>1 DEF Alive
  <2> QED BY <1>4, <1>5, <2>1, <2>2 DEF Alive, Serving
<1>8. Rounds' /\ Votes' /\ Laps' /\ Largest' /\ OneChain'
  BY <1>5 DEF Rounds, Votes, Laps, Largest, OneChain, Moving,
                                 Serving, Idle
<1>9. OneTakeOver' /\ OneRuler'
  BY <1>1, <1>4 DEF OneTakeOver, OneRuler, Clients
<1>10. Watching'
  BY <1>1, <1>4, <1>5 DEF Watching, NoTakeOver, Idle
<1>11. Hung'
  <2>1. NoTakeOver'
    BY <1>4, <1>5 DEF NoTakeOver
  <2>2. \A m \in Proc : stuck'[m] => \A q \in Proc : up[q] => q = m
    BY <1>1, <1>3, <1>6 DEF Hung
  <2> QED BY <1>4, <1>5, <2>1, <2>2 DEF Hung
<1>12. Voted'
  BY <1>1, <1>4, <1>5 DEF Voted, Serving
<1> QED BY <1>1, <1>7, <1>8, <1>9, <1>10, <1>11, <1>12 DEF Apart

\* The next client is called.
LEMMA NextClientInv ==
  ASSUME Apart, TypeOK', NEW k \in Proc, NEW next,
         chain[k].pc = "call",
         ~up[chain[k].to],
         next = NextId(chain[k].at, chain[k].to),
         next # chain[k].at,
         chain' = [chain EXCEPT ![k].to = next],
         UNCHANGED <<up, master, vote, participated, detectVars, takeVars,
                     stuck, counted>>
  PROVE  Apart'
<1> DEFINE n == chain[k].at
           t == chain[k].to
           v == chain[k].v
<1>1. /\ TypeOK
      /\ Alive /\ Rounds
      /\ OneChain /\ OneTakeOver /\ OneRuler /\ Watching /\ Hung
      /\ Voted
      /\ Laps /\ Largest
  BY DEF Apart
<1>2. chain[k] \in Chain /\ n \in Proc /\ t \in Proc
  BY <1>1, ChainTyped
<1>3. /\ chain'[k] = [chain[k] EXCEPT !.to = next]
      /\ \A j \in Proc : j # k => chain'[j] = chain[j]
  BY <1>1 DEF TypeOK
<1>4. /\ chain'[k].pc = "call"
      /\ chain'[k].at = n
      /\ chain'[k].to = next
      /\ chain'[k].v = v
      /\ chain'[k].byDetector = chain[k].byDetector
  BY <1>2, <1>3 DEF Chain
<1>5. UNCHANGED <<up, master, vote, participated, detector, heart, taking,
                  telling, todo, stuck, untold>>
  BY DEF detectVars, takeVars, counted
<1>6. /\ \A j \in Proc : j # k => chain[j].pc = "none" /\ chain'[j].pc = "none"
      /\ NoTakeOver
      /\ detector[k] # "watching"
  <2>1. ~Idle(k)
    BY DEF Idle
  <2> QED BY <1>3, <2>1, OnlyChain DEF Idle
<1>7. t # n /\ v \in Proc /\ \A q \in Arc(n, t) : ~up[q]
  BY <1>1 DEF Rounds, Moving
<1>8. up[n]
  BY <1>1 DEF Alive
<1>9. Alive'
  <2>1. \A j \in Proc : chain'[j].byDetector => up[j] /\ chain'[j].at = j
    BY <1>1, <1>3, <1>4 DEF Alive
  <2>2. /\ \A j \in Proc : detector[j] # "off" => up[j]
        /\ \A j \in Proc : heart[j] \/ taking[j] > 0 => up[j]
    BY <1>1 DEF Alive
  <2> QED BY <1>4, <1>5, <1>6, <1>8, <2>1, <2>2 DEF Alive, Serving
<1>10. Rounds'
  <2>1. ASSUME NEW q \in Arc(n, next) PROVE ~up[q]
    <3>1. q \in Arc(n, t) \/ q = t
      BY <1>2, <1>7, <2>1, ArcSkipped
    <3> QED BY <1>7, <3>1
  <2> QED BY <1>4, <1>5, <1>6, <1>7, <2>1 DEF Rounds, Moving, Serving
<1>11. OneChain'
  BY <1>5, <1>6 DEF OneChain, Idle, NoTakeOver
<1>12. OneTakeOver' /\ OneRuler'
  BY <1>1, <1>5 DEF OneTakeOver, OneRuler, Clients
<1>13. Watching'
  BY <1>5, <1>6 DEF Watching, NoTakeOver, Idle
<1>14. Hung'
  BY <1>1, <1>5 DEF Hung
<1>15. Voted'
  BY <1>1, <1>4, <1>5, <1>6 DEF Voted, Serving
<1>16. Votes'
  BY <1>4, <1>6 DEF Votes
<1>17. Laps'
  <2>1. Passing(k) \/ AllVisited
    BY <1>1, <1>6 DEF Laps, Idle, AtStart, Reading
  <2>2. CASE AllVisited
    BY <1>5, <2>2 DEF Laps, AllVisited, Visited
  <2>3. CASE Passing(k)
    <3>1. /\ n \in {k} \cup Arc(k, t)
          /\ n = k => v = k
          /\ v \in {k} \cup Arc(k, t)
          /\ \A p \in Arc(k, t) : Visited(p)
      BY <2>3 DEF Passing
    <3>2. CASE t = k
      <4>1. \A p \in Proc : Visited(p)
        BY <3>1, <3>2, ArcWhole DEF Visited
      <4> QED BY <1>5, <4>1 DEF Laps, AllVisited, Visited
    <3>3. CASE t # k /\ n = k
      <4>1. Arc(k, next) \subseteq Arc(k, t) \cup {t}
        BY <1>2, <3>3, ArcOwnSkip
      <4>2. \A p \in Arc(k, next) : Visited(p)'
        BY <1>5, <3>1, <4>1 DEF Visited
      <4>3. Passing(k)'
        BY <1>4, <3>1, <3>3, <4>2 DEF Passing
      <4> QED BY <1>6, <4>3 DEF Laps, Idle
    <3>4. CASE t # k /\ n # k
      <4>1. Arc(k, next) = Arc(k, t) \cup {t}
        BY <1>2, <1>7, <3>1, <3>4, ArcOtherSkip
      <4>2. \A p \in Arc(k, next) : Visited(p)'
        BY <1>5, <3>1, <4>1 DEF Visited
      <4>3. Passing(k)'
        BY <1>4, <3>1, <3>4, <4>1, <4>2 DEF Passing
      <4> QED BY <1>6, <4>3 DEF Laps, Idle
    <3> QED BY <3>2, <3>3, <3>4
  <2> QED BY <2>1, <2>2, <2>3
<1>18. Largest'
  <2>1. Carried(k)' = Carried(k)
    BY <1>4 DEF Carried
  <2> QED BY <1>1, <1>5, <1>6, <2>1 DEF Largest, Idle
<1> QED BY <1>1, <1>9, <1>10, <1>11, <1>12, <1>13, <1>14, <1>15, <1>16, <1>17,
           <1>18 DEF Apart

LEMMA SkipInv ==
  ASSUME Apart, NEW k \in Proc, Skip(k)
  PROVE  Apart'
<1> DEFINE n    == chain[k].at
           next == NextId(n, chain[k].to)
<1>1. TypeOK'
  BY TypeSkip DEF Apart
<1>2. /\ chain[k].pc = "call"
      /\ ~up[chain[k].to]
      /\ UNCHANGED <<up, master, vote, participated, detectVars, takeVars,
                     counted>>
  BY DEF Skip
<1>3. CASE next = n
  <2>1. /\ stuck' = [stuck EXCEPT ![n] = TRUE]
        /\ chain' = [chain EXCEPT ![k] = NoChain(k)]
    BY <1>3 DEF Skip
  <2> QED BY <1>1, <1>2, <1>3, <2>1, HangInv
<1>4. CASE next # n
  <2>1. /\ chain' = [chain EXCEPT ![k].to = next]
        /\ UNCHANGED stuck
    BY <1>4 DEF Skip
  <2> QED BY <1>1, <1>2, <1>4, <2>1, NextClientInv
<1> QED BY <1>3, <1>4

\* What the detector that started the chain may do next.
LEMMA ReturnedDetector ==
  ASSUME Apart, NEW k \in Proc, ~Idle(k), Returned(k)
  PROVE  /\ detector'[k] # "watching"
         /\ \A n \in Proc : detector'[n] # "off" => up[n]
<1>1. detector[k] # "watching"
  BY OnlyChain
<1>2. TypeOK /\ Alive
  BY DEF Apart
<1>3. CASE chain[k].byDetector
  <2>1. /\ detector'[k] = "forwarded"
        /\ \A n \in Proc : n # k => detector'[n] = detector[n]
    BY <1>2, <1>3 DEF Returned, TypeOK
  <2>2. up[k]
    BY <1>2, <1>3 DEF Alive
  <2> QED BY <1>2, <2>1, <2>2 DEF Alive
<1>4. CASE ~chain[k].byDetector
  BY <1>1, <1>2, <1>4 DEF Returned, Alive
<1> QED BY <1>3, <1>4

LEMMA OwnVoteInv ==
  ASSUME Apart, NEW k \in Proc, OwnVote(k)
  PROVE  Apart'
<1> DEFINE p == chain[k].to
<1>1. /\ TypeOK
      /\ Alive /\ Rounds
      /\ OneChain /\ OneTakeOver /\ OneRuler /\ Watching /\ Hung
      /\ Voted /\ Votes
      /\ Laps
  BY DEF Apart
<1>2. TypeOK'
  BY <1>1, TypeOwnVote
<1>3. p \in Proc
  BY <1>1, ChainTyped
<1>4. /\ chain[k].pc = "own"
      /\ vote' = [vote EXCEPT ![p] = None]
      /\ taking' = [taking EXCEPT ![p] = IF master[p] # p THEN @ + 1 ELSE @]
      /\ chain' = [chain EXCEPT ![k] = NoChain(k)]
      /\ Returned(k)
      /\ UNCHANGED <<up, master, participated, heart, telling, todo, stuck,
                     untold>>
  BY DEF OwnVote, Won, counted
<1>5. /\ vote'[p] = None
      /\ \A q \in Proc : q # p => vote'[q] = vote[q]
      /\ chain'[k] = NoChain(k)
      /\ \A j \in Proc : j # k => chain'[j] = chain[j]
  BY <1>1, <1>3, <1>4 DEF TypeOK
<1>6. ~Idle(k)
  BY <1>4 DEF Idle
<1>7. /\ \A j \in Proc : j # k => chain[j].pc = "none"
      /\ \A j \in Proc : chain'[j].pc = "none"
      /\ NoTakeOver
  BY <1>5, <1>6, OnlyChain DEF Idle, NoChain
<1>8. /\ taking'[p] \in {0, 1}
      /\ \A q \in Proc : q # p => taking'[q] = 0
      /\ \A q \in Proc : ~heart[q]
  BY <1>1, <1>3, <1>4, <1>7 DEF NoTakeOver, TypeOK
<1>9. up[p]
  BY <1>1, <1>4 DEF Alive, Serving
<1>10. Alive'
  <2>1. \A j \in Proc : chain'[j].byDetector => up[j] /\ chain'[j].at = j
    BY <1>1, <1>5 DEF Alive, NoChain
  <2>2. \A n \in Proc : detector'[n] # "off" => up[n]
    BY <1>4, <1>6, ReturnedDetector
  <2>3. \A n \in Proc : heart[n] \/ taking'[n] > 0 => up[n]
    BY <1>8, <1>9
  <2> QED BY <1>4, <1>7, <2>1, <2>2, <2>3 DEF Alive, Serving
<1>11. Rounds' /\ Votes' /\ Laps' /\ Largest' /\ OneChain'
  BY <1>7 DEF Rounds, Votes, Laps, Largest, OneChain, Moving,
                                 Serving, Idle
<1>12. OneTakeOver'
  BY <1>4, <1>8 DEF OneTakeOver
<1>13. OneRuler'
  BY <1>1, <1>4 DEF OneRuler, Clients
\* The chain is back where it began, or has been everywhere.
<1>17. p = k \/ participated[p]
  <2>1. vote[p] = p /\ chain[k].v = p
    BY <1>1, <1>4 DEF OwnVote, Votes
  <2>2. Passing(k) \/ AllVisited
    BY <1>1, <1>4, <1>6 DEF Laps, AtStart, Reading
  <2>3. CASE AllVisited
    BY <1>3, <1>9, <2>3 DEF AllVisited, Visited
  <2>4. CASE Passing(k)
    BY <1>3, <2>1, <2>4, ArcNotEnd DEF Passing
  <2> QED BY <2>2, <2>3, <2>4
<1>14. Watching'
  <2>1. \A j \in Proc : j # k => detector'[j] = detector[j]
    BY <1>1, <1>4 DEF Returned, TypeOK
  <2>2. detector'[k] # "watching"
    BY <1>4, <1>6, ReturnedDetector
  <2>3. \A j \in Proc : j # k /\ (heart'[j] \/ taking'[j] > 0) => participated'[j]
    BY <1>4, <1>8, <1>17
  <2> QED BY <1>7, <2>2, <2>3 DEF Watching, Idle
<1>15. Hung'
  BY <1>1, <1>4 DEF Hung
<1>16. Voted'
  BY <1>1, <1>4, <1>5, <1>7 DEF Voted
<1> QED BY <1>1, <1>2, <1>10, <1>11, <1>12, <1>13, <1>14, <1>15, <1>16
        DEF Apart

LEMMA MarkInv ==
  ASSUME Apart, NEW k \in Proc, Mark(k)
  PROVE  Apart'
<1> DEFINE p == chain[k].to
           v == chain[k].v
<1>1. /\ TypeOK
      /\ Alive /\ Rounds
      /\ OneChain /\ OneTakeOver /\ OneRuler /\ Watching /\ Hung
      /\ Voted /\ Votes
      /\ Laps /\ Largest
  BY DEF Apart
<1>2. TypeOK'
  BY <1>1, TypeMark
<1>3. p \in Proc
  BY <1>1, ChainTyped
<1>4. chain[k].pc = "mark" /\ Returned(k) /\ ~Idle(k)
  BY DEF Mark, Idle
<1>5. /\ v \in Proc
      /\ vote[p] = IF participated[p] \/ p < v THEN v ELSE p
  BY <1>1, <1>4 DEF Votes, Rounds, Moving, Serving
<1>6. vote[p] \in Proc /\ vote[p] # None
  BY <1>3, <1>5, ProcIsInt
<1>7. /\ participated' = [participated EXCEPT ![p] = TRUE]
      /\ chain' = [chain EXCEPT ![k] = [NoChain(k) EXCEPT !.pc = "read",
                                                          !.at = p]]
      /\ UNCHANGED <<up, master, vote, heart, taking, telling, todo, stuck,
                     untold>>
  BY <1>6 DEF Mark, counted
<1>8. /\ participated'[p] = TRUE
      /\ \A q \in Proc : q # p => participated'[q] = participated[q]
      /\ chain'[k] = [NoChain(k) EXCEPT !.pc = "read", !.at = p]
      /\ \A j \in Proc : j # k => chain'[j] = chain[j]
  BY <1>1, <1>3, <1>7 DEF TypeOK
<1>9. /\ chain'[k].pc = "read"
      /\ chain'[k].at = p
      /\ chain'[k].byDetector = FALSE
  BY <1>8 DEF NoChain
<1>10. /\ \A j \in Proc : j # k => chain[j].pc = "none" /\ chain'[j].pc = "none"
       /\ NoTakeOver
  BY <1>4, <1>8, OnlyChain DEF Idle
<1>11. up[p]
  BY <1>1, <1>4 DEF Alive, Serving
<1>12. Carried(k) = v /\ Carried(k)' = vote[p]
  BY <1>4, <1>6, <1>7, <1>9 DEF Carried
<1>13. Alive'
  <2>1. \A j \in Proc : chain'[j].byDetector => up[j] /\ chain'[j].at = j
    BY <1>1, <1>8, <1>9 DEF Alive
  <2>2. \A n \in Proc : detector'[n] # "off" => up[n]
    BY <1>4, ReturnedDetector
  <2>3. \A n \in Proc : heart[n] \/ taking[n] > 0 => up[n]
    BY <1>1 DEF Alive
  <2> QED BY <1>7, <1>9, <1>10, <1>11, <2>1, <2>2, <2>3 DEF Alive, Serving
<1>14. Rounds' /\ Votes'
  BY <1>9, <1>10 DEF Rounds, Votes, Moving, Serving
<1>15. OneChain'
  BY <1>7, <1>10 DEF OneChain, Idle, NoTakeOver
<1>16. OneTakeOver' /\ OneRuler'
  BY <1>1, <1>7 DEF OneTakeOver, OneRuler, Clients
<1>17. Watching'
  BY <1>4, <1>7, <1>10, ReturnedDetector DEF Watching, NoTakeOver, Idle
<1>18. Hung'
  BY <1>1, <1>4, <1>7 DEF Hung
<1>19. Voted'
  BY <1>1, <1>4, <1>7, <1>8, <1>10 DEF Voted, Serving
<1>20. Laps'
  <2>1. Passing(k) \/ AllVisited
    BY <1>1, <1>4, <1>10 DEF Laps, AtStart, Reading
  <2>2. \A q \in Proc : Visited(q) => Visited(q)'
    BY <1>7, <1>8 DEF Visited
  <2>3. \A q \in Proc : q = p => Visited(q)'
    BY <1>8 DEF Visited
  <2>4. CASE AllVisited
    BY <2>2, <2>4 DEF Laps, AllVisited
  <2>5. CASE Passing(k) /\ p = k
    <3>1. \A q \in Arc(k, k) : Visited(q)
      BY <2>5 DEF Passing
    <3>2. \A q \in Proc : Visited(q)'
      BY <2>2, <2>3, <2>5, <3>1, ArcWhole
    <3> QED BY <3>2 DEF Laps, AllVisited
  <2>6. CASE Passing(k) /\ p # k
    <3>1. /\ v \in {k} \cup Arc(k, p)
          /\ \A q \in Arc(k, p) : Visited(q)
      BY <2>6 DEF Passing
    <3>2. vote[p] \in {k, p} \cup Arc(k, p)
      BY <1>5, <3>1
    <3>3. \A q \in {p} \cup Arc(k, p) : Visited(q)'
      BY <1>3, <2>2, <2>3, <3>1, ArcType
    <3>4. Reading(k)'
      BY <1>9, <1>12, <2>6, <3>2, <3>3 DEF Reading
    <3> QED BY <1>10, <3>4 DEF Laps, Idle
  <2> QED BY <2>1, <2>4, <2>5, <2>6
<1>21. Largest'
  <2> SUFFICES ASSUME NEW q \in Proc, up[q], participated'[q], q \notin untold
               PROVE  q <= vote[p]
    BY <1>7, <1>10, <1>12 DEF Largest, Idle
  <2>1. v <= vote[p] /\ (~participated[p] => p <= vote[p])
    <3>1. p \in Int /\ v \in Int
      BY <1>3, <1>5, ProcIsInt
    <3> HIDE DEF p, v
    <3> QED BY <1>5, <3>1
  <2>2. CASE q = p /\ ~participated[p]
    BY <2>1, <2>2
  <2>3. CASE q # p \/ participated[p]
    <3>1. participated[q]
      BY <1>8, <2>3
    <3>2. q <= v
      BY <1>1, <1>4, <1>10, <1>12, <3>1 DEF Largest
    <3>3. q \in Int /\ v \in Int /\ vote[p] \in Int
      BY <1>5, <1>6, ProcIsInt
    <3> QED BY <2>1, <3>2, <3>3
  <2> QED BY <2>2, <2>3
<1> QED BY <1>1, <1>2, <1>13, <1>14, <1>15, <1>16, <1>17, <1>18, <1>19, <1>20,
           <1>21 DEF Apart

-----------------------------------------------------------------------------
(***************************************************************************)
(* The master                                                              *)
(***************************************************************************)

\* While there is a master or a takeover, no chain is under way.
LEMMA NoChains ==
  ASSUME Apart, NEW n \in Proc, heart[n] \/ taking[n] > 0
  PROVE  /\ \A k \in Proc : chain[k].pc = "none"
         /\ \A m \in Proc : ~stuck[m]
<1>1. TypeOK /\ OneChain /\ Hung
  BY DEF Apart
<1>2. ~NoTakeOver
  BY <1>1 DEF NoTakeOver, TypeOK
<1> QED BY <1>1, <1>2 DEF OneChain, Hung, Idle

\* What is left to show when no chain is under way and none is begun.
LEMMA RulerStep ==
  ASSUME Apart, \A k \in Proc : chain[k].pc = "none", \A m \in Proc : ~stuck[m],
         UNCHANGED <<chain, stuck>>
  PROVE  /\ Rounds' /\ OneChain' /\ Hung' /\ Votes' /\ Laps' /\ Largest'
BY DEF Apart, Rounds, OneChain, Hung, Votes, Laps, Largest, Moving,
    Serving, Idle

LEMMA TakeOverInv ==
  ASSUME Apart, NEW n \in Proc, TakeOver(n)
  PROVE  Apart'
<1>1. /\ TypeOK /\ Alive /\ OneTakeOver /\ OneRuler /\ Watching /\ Voted
  BY DEF Apart
<1>2. TypeOK'
  BY <1>1, TypeTakeOver
<1>3. /\ taking[n] > 0
      /\ taking'[n] = taking[n] - 1
      /\ \A m \in Proc : m # n => taking'[m] = taking[m]
      /\ heart'[n] = TRUE
      /\ \A m \in Proc : m # n => heart'[m] = heart[m]
      /\ master'[n] = n
      /\ \A m \in Proc : m # n => master'[m] = master[m]
      /\ \A m \in Proc : m # n => telling'[m] = telling[m]
      /\ UNCHANGED <<up, vote, participated, chain, detector, todo, stuck>>
  BY <1>1 DEF TakeOver, TypeOK, electVars
<1>4. /\ \A k \in Proc : chain[k].pc = "none"
      /\ \A m \in Proc : ~stuck[m]
  BY <1>3, NoChains
<1>5. /\ taking[n] = 1 /\ ~heart[n] /\ taking'[n] = 0
      /\ \A m \in Proc : m # n => ~heart[m] /\ ~(taking[m] > 0)
  BY <1>1, <1>3 DEF OneTakeOver
<1>6. /\ Rounds' /\ OneChain' /\ Hung' /\ Votes' /\ Laps' /\ Largest'
  BY <1>3, <1>4, RulerStep
<1>7. Alive'
  <2>1. up[n]
    BY <1>1, <1>3 DEF Alive
  <2> QED BY <1>1, <1>3, <1>5, <2>1 DEF Alive
<1>8. OneTakeOver'
  BY <1>3, <1>5 DEF OneTakeOver
<1>9. OneRuler'
  BY <1>1, <1>3 DEF OneRuler, Clients
<1>10. Watching'
  BY <1>1, <1>3, <1>5 DEF Watching, Idle
<1>11. Voted'
  BY <1>1, <1>3 DEF Voted
<1> QED BY <1>2, <1>6, <1>7, <1>8, <1>9, <1>10, <1>11 DEF Apart

LEMMA StartTellingInv ==
  ASSUME Apart, NEW n \in Proc, StartTelling(n)
  PROVE  Apart'
<1>1. /\ TypeOK /\ Alive /\ OneTakeOver /\ OneRuler /\ Watching /\ Voted
  BY DEF Apart
<1>2. TypeOK'
  BY <1>1, TypeStartTelling
<1>3. /\ telling[n] > 0
      /\ \A m \in Proc : m # n => telling'[m] = telling[m]
      /\ todo'[n] = Clients(n)
      /\ \A m \in Proc : m # n => todo'[m] = todo[m]
      /\ UNCHANGED <<up, vote, participated, chain, detector, stuck, master,
                     heart, taking>>
  BY <1>1 DEF StartTelling, TypeOK, electVars, detectVars
<1>4. heart[n]
  BY <1>1, <1>3 DEF OneRuler
<1>5. /\ Rounds' /\ OneChain' /\ Hung' /\ Votes' /\ Laps' /\ Largest'
  BY <1>3, <1>4, NoChains, RulerStep
<1>6. Alive' /\ OneTakeOver' /\ Voted'
  BY <1>1, <1>3 DEF Alive, OneTakeOver, Voted
<1>7. OneRuler'
  BY <1>1, <1>3, <1>4 DEF OneRuler, Clients
<1>8. Watching'
  BY <1>1, <1>3 DEF Watching, Idle
<1> QED BY <1>2, <1>5, <1>6, <1>7, <1>8 DEF Apart

LEMMA TellInv ==
  ASSUME Apart, NEW n \in Proc, NEW q \in Proc, Tell(n, q)
  PROVE  Apart'
<1>1. /\ TypeOK /\ Alive /\ OneTakeOver /\ OneRuler /\ Watching /\ Voted
  BY DEF Apart
<1>2. TypeOK'
  BY <1>1, TypeTell
<1>3. /\ q \in todo[n]
      /\ \A m \in Proc : todo'[m] \subseteq todo[m]
      /\ UNCHANGED <<up, chain, stuck, heart, taking, telling>>
  BY <1>1 DEF Tell, TypeOK
<1>4. heart[n] /\ q # n
  BY <1>1, <1>3 DEF OneRuler, Clients
<1>5. /\ \A k \in Proc : chain[k].pc = "none"
      /\ \A m \in Proc : ~stuck[m]
      /\ \A m \in Proc : taking[m] = 0
      /\ \A m \in Proc : heart[m] => m = n
  <2>1. \A m \in Proc : ~(taking[m] > 0)
    BY <1>1, <1>4 DEF OneTakeOver
  <2>2. \A m \in Proc : taking[m] = 0
    BY <1>1, <2>1 DEF TypeOK
  <2> QED BY <1>1, <1>4, <2>2, NoChains DEF OneTakeOver
<1>6. \/ /\ up[q]
         /\ \A m \in Proc : m # q => /\ master'[m] = master[m]
                                     /\ vote'[m] = vote[m]
                                     /\ participated'[m] = participated[m]
                                     /\ detector'[m] = detector[m]
         /\ vote'[q] = None
      \/ UNCHANGED <<master, vote, participated, detector>>
  BY <1>1 DEF Tell, NewLocalMaster, TypeOK, detectVars
<1>7. /\ Rounds' /\ OneChain' /\ Hung' /\ Votes' /\ Laps' /\ Largest'
  BY <1>3, <1>5, RulerStep
<1>8. Alive'
  BY <1>1, <1>3, <1>6 DEF Alive
<1>9. OneTakeOver'
  BY <1>1, <1>3 DEF OneTakeOver
<1>10. OneRuler'
  BY <1>1, <1>3, <1>4, <1>5, <1>6 DEF OneRuler, Clients
<1>11. Watching'
  BY <1>1, <1>3, <1>4, <1>5, <1>6 DEF Watching, Idle
<1>12. Voted'
  BY <1>1, <1>3, <1>5, <1>6 DEF Voted, Serving
<1> QED BY <1>2, <1>7, <1>8, <1>9, <1>10, <1>11, <1>12 DEF Apart

LEMMA RestartInv ==
  ASSUME Apart, NEW n \in Proc, NEW q \in Proc, Restart(n, q)
  PROVE  Apart'
<1>1. /\ TypeOK /\ Alive /\ OneTakeOver /\ OneRuler /\ Watching /\ Voted
  BY DEF Apart
<1>2. TypeOK'
  BY <1>1, TypeRestart
<1>3. heart[n] /\ q # n /\ ~up[q] /\ master[n] # q
  BY <1>1 DEF Restart, Answers, Clients, OneRuler
<1>4. /\ up'[q] = TRUE
      /\ \A m \in Proc : m # q => up'[m] = up[m]
      /\ \A m \in Proc : m # q => master'[m] = master[m]
      /\ detector'[q] = "watching"
      /\ \A m \in Proc : m # q => detector'[m] = detector[m]
      /\ UNCHANGED <<chain, stuck, heart, taking, telling, todo, vote,
                     participated>>
  BY <1>1, <1>3 DEF Restart, TypeOK, electVars
<1>5. /\ \A k \in Proc : chain[k].pc = "none"
      /\ \A m \in Proc : ~stuck[m]
      /\ \A m \in Proc : taking[m] = 0
      /\ \A m \in Proc : heart[m] => m = n
  <2>1. \A m \in Proc : ~(taking[m] > 0)
    BY <1>1, <1>3 DEF OneTakeOver
  <2>2. \A m \in Proc : taking[m] = 0
    BY <1>1, <2>1 DEF TypeOK
  <2> QED BY <1>1, <1>3, <2>2, NoChains DEF OneTakeOver
<1>6. /\ Rounds' /\ OneChain' /\ Hung' /\ Votes' /\ Laps' /\ Largest'
  BY <1>4, <1>5, RulerStep
<1>7. Alive'
  <2>1. \A m \in Proc : up[m] => up'[m]
    BY <1>4
  <2>2. \A j \in Proc : chain[j].byDetector => up'[j] /\ chain[j].at = j
    BY <1>1, <2>1 DEF Alive
  <2> QED BY <1>1, <1>4, <1>5, <2>1, <2>2 DEF Alive, Serving
<1>8. OneTakeOver' /\ Voted'
  BY <1>1, <1>4 DEF OneTakeOver, Voted
<1>9. OneRuler'
  BY <1>1, <1>3, <1>4, <1>5 DEF OneRuler, Clients
<1>10. Watching'
  BY <1>1, <1>3, <1>4, <1>5 DEF Watching, Idle
<1> QED BY <1>2, <1>6, <1>7, <1>8, <1>9, <1>10 DEF Apart

-----------------------------------------------------------------------------
(***************************************************************************)
(* Deaths                                                                  *)
(***************************************************************************)

\* What becomes of a chain when n dies: it is gone, or it stays where it is, or
\* it falls back from n to its caller.
LEMMA AfterCrashCases ==
  ASSUME TypeOK, Alive, NEW n \in Proc, NEW k \in Proc,
         NEW d, d = AfterCrash(n, k)
  PROVE  /\ \/ d.pc = "none" /\ ~d.byDetector
            \/ /\ d.at = chain[k].at
               /\ d.to = chain[k].to
               /\ d.v = chain[k].v
               /\ d.byDetector => chain[k].byDetector /\ k # n
               /\ \/ /\ d.pc = chain[k].pc
                     /\ d.pc \in {"read", "call"} => d.at # n
                     /\ d.pc \in Serving => d.to # n
                  \/ /\ chain[k].pc \in Serving
                     /\ d.pc = "call"
                     /\ up[d.at]
                     /\ d.at # n
         /\ chain[k].pc \in Serving /\ chain[k].to # n =>
              d.pc = chain[k].pc /\ d.to = chain[k].to
<1> DEFINE c == chain[k]
<1>1. c \in Chain
  BY ChainTyped
<1>2. c.byDetector => c.at = k
  BY DEF Alive
<1>3. CASE c.pc \in {"read", "call"} /\ c.at = n
  <2>1. d = NoChain(k)
    BY <1>3 DEF AfterCrash
  <2> QED BY <1>3, <2>1 DEF NoChain, Serving
<1>4. CASE c.pc \in Serving /\ c.to = n
  <2>1. CASE up[c.at] /\ c.at # n
    <3>1. d = [c EXCEPT !.pc = "call"]
      BY <1>4, <2>1 DEF AfterCrash, Serving
    <3>2. /\ d.pc = "call"
          /\ d.at = c.at
          /\ d.to = c.to
          /\ d.v = c.v
          /\ d.byDetector = c.byDetector
      BY <1>1, <3>1 DEF Chain
    <3> QED BY <1>2, <1>4, <2>1, <3>2
  <2>2. CASE ~(up[c.at] /\ c.at # n)
    <3>1. d = NoChain(k)
      BY <1>4, <2>2 DEF AfterCrash, Serving
    <3> QED BY <1>4, <3>1 DEF NoChain
  <2> QED BY <2>1, <2>2
<1>5. CASE /\ ~(c.pc \in {"read", "call"} /\ c.at = n)
           /\ ~(c.pc \in Serving /\ c.to = n)
  <2>1. d = IF k = n THEN [c EXCEPT !.byDetector = FALSE] ELSE c
    BY <1>5 DEF AfterCrash
  <2>2. /\ d.pc = c.pc
        /\ d.at = c.at
        /\ d.to = c.to
        /\ d.v = c.v
        /\ d.byDetector => c.byDetector /\ k # n
    BY <1>1, <2>1 DEF Chain
  <2> QED BY <1>5, <2>2
<1> QED BY <1>3, <1>4, <1>5

LEMMA CrashInv ==
  ASSUME Apart, NEW n \in Proc, Crash(n)
  PROVE  Apart'
<1>1. /\ TypeOK
      /\ Alive /\ Rounds
      /\ OneChain /\ OneTakeOver /\ OneRuler /\ Watching /\ Hung
      /\ Voted /\ Votes
      /\ Laps /\ Largest
  BY DEF Apart
<1>2. TypeOK'
  BY <1>1, TypeCrash
<1>3. /\ up'[n] = FALSE
      /\ vote'[n] = None
      /\ detector'[n] = "off"
      /\ heart'[n] = FALSE
      /\ taking'[n] = 0
      /\ telling'[n] = 0
      /\ todo'[n] = {}
      /\ stuck'[n] = FALSE
  BY <1>1 DEF Crash, TypeOK
<1>4. \A m \in Proc : m # n =>
        /\ up'[m] = up[m]
        /\ vote'[m] = vote[m]
        /\ participated'[m] = participated[m]
        /\ detector'[m] = detector[m]
        /\ heart'[m] = heart[m]
        /\ taking'[m] = taking[m]
        /\ telling'[m] = telling[m]
        /\ todo'[m] = todo[m]
        /\ stuck'[m] = stuck[m]
  BY <1>1 DEF Crash, TypeOK
<1>5. UNCHANGED <<master, untold>> /\ \A k \in Proc : chain'[k] = AfterCrash(n, k)
  BY DEF Crash
<1>6. \A k \in Proc :
        \/ chain'[k].pc = "none" /\ ~chain'[k].byDetector
        \/ /\ chain'[k].at = chain[k].at
           /\ chain'[k].to = chain[k].to
           /\ chain'[k].v = chain[k].v
           /\ chain'[k].byDetector => chain[k].byDetector /\ k # n
           /\ \/ /\ chain'[k].pc = chain[k].pc
                 /\ chain'[k].pc \in {"read", "call"} => chain'[k].at # n
                 /\ chain'[k].pc \in Serving => chain'[k].to # n
              \/ /\ chain[k].pc \in Serving
                 /\ chain'[k].pc = "call"
                 /\ up[chain'[k].at]
                 /\ chain'[k].at # n
  BY <1>1, <1>5, AfterCrashCases
<1>7. \A k \in Proc : chain[k].pc \in Serving /\ chain[k].to # n =>
        chain'[k].pc = chain[k].pc /\ chain'[k].to = chain[k].to
  BY <1>1, <1>5, AfterCrashCases
<1>8. \A k \in Proc : chain[k].at \in Proc /\ chain[k].to \in Proc
  BY <1>1, ChainTyped
<1>9. \A p \in Proc : up'[p] => p # n /\ up[p]
  BY <1>3, <1>4
<1>10. Alive'
  <2>1. \A m \in Proc : detector'[m] # "off" => up'[m]
    BY <1>1, <1>3, <1>4 DEF Alive
  <2>2. \A m \in Proc : heart'[m] \/ taking'[m] > 0 => up'[m]
    BY <1>1, <1>3, <1>4 DEF Alive
  <2>3. \A k \in Proc : chain'[k].pc \in {"read", "call"} => up'[chain'[k].at]
    BY <1>1, <1>4, <1>6, <1>8 DEF Alive
  <2>4. \A k \in Proc : chain'[k].pc \in Serving => up'[chain'[k].to]
    BY <1>1, <1>4, <1>6, <1>8 DEF Alive, Serving
  <2>5. \A k \in Proc : chain'[k].byDetector => up'[k] /\ chain'[k].at = k
    BY <1>1, <1>4, <1>6 DEF Alive
  <2> QED BY <2>1, <2>2, <2>3, <2>4, <2>5 DEF Alive
<1>11. Rounds'
  <2> SUFFICES ASSUME NEW k \in Proc, Moving(k)'
               PROVE  /\ chain'[k].to # chain'[k].at
                      /\ chain'[k].v \in Proc
                      /\ \A q \in Arc(chain'[k].at, chain'[k].to) : ~up'[q]
    BY DEF Rounds
  <2>1. /\ Moving(k)
        /\ chain'[k].at = chain[k].at
        /\ chain'[k].to = chain[k].to
        /\ chain'[k].v = chain[k].v
    BY <1>6 DEF Moving, Serving
  <2> QED BY <1>1, <1>9, <2>1, ArcType DEF Rounds
<1>12. \A k \in Proc : chain[k].pc = "none" => chain'[k].pc = "none"
  BY <1>6 DEF Serving
<1>13. NoTakeOver => NoTakeOver'
  BY <1>3, <1>4 DEF NoTakeOver
<1>14. OneChain'
  BY <1>1, <1>12, <1>13 DEF OneChain, Idle
<1>15. OneTakeOver'
  BY <1>1, <1>3, <1>4 DEF OneTakeOver
<1>16. OneRuler'
  BY <1>1, <1>3, <1>4, <1>5 DEF OneRuler, Clients
<1>17. Watching'
  BY <1>1, <1>3, <1>4, <1>12 DEF Watching, Idle
<1>18. Hung'
  <2> SUFFICES ASSUME NEW m \in Proc, stuck'[m]
               PROVE  /\ NoTakeOver'
                      /\ \A q \in Proc : up'[q] => q = m
                      /\ \A k \in Proc : chain'[k].pc \in {"none", "read"}
    BY DEF Hung
  <2>1. stuck[m]
    BY <1>3, <1>4
  <2>2. /\ NoTakeOver
        /\ \A q \in Proc : up[q] => q = m
        /\ \A k \in Proc : chain[k].pc \in {"none", "read"}
    BY <1>1, <2>1 DEF Hung
  <2> QED BY <1>6, <1>9, <1>13, <2>2 DEF Serving
<1>19. Voted'
  <2> SUFFICES ASSUME NEW p \in Proc, vote'[p] # None, ~participated'[p]
               PROVE  \E k \in Proc : chain'[k].pc \in Serving /\ chain'[k].to = p
    BY DEF Voted
  <2>1. p # n /\ vote[p] # None /\ ~participated[p]
    BY <1>3, <1>4
  <2>2. PICK k \in Proc : chain[k].pc \in Serving /\ chain[k].to = p
    BY <1>1, <2>1 DEF Voted
  <2> QED BY <1>7, <2>1, <2>2
<1>20. Votes'
  <2> SUFFICES ASSUME NEW k \in Proc, chain'[k].pc \in {"own", "fold", "mark"}
               PROVE  LET p == chain'[k].to
                          v == chain'[k].v
                      IN /\ chain'[k].pc \in {"own", "fold"} => vote'[p] = v
                         /\ chain'[k].pc = "mark" =>
                              vote'[p] = IF participated'[p] \/ p < v
                                         THEN v ELSE p
    BY DEF Votes
  <2>1. /\ chain'[k].pc = chain[k].pc
        /\ chain'[k].to = chain[k].to
        /\ chain'[k].v = chain[k].v
        /\ chain[k].to # n
    BY <1>6 DEF Serving
  <2>2. /\ vote'[chain[k].to] = vote[chain[k].to]
        /\ participated'[chain[k].to] = participated[chain[k].to]
    BY <1>4, <1>8, <2>1
  <2> QED BY <1>1, <2>1, <2>2 DEF Votes
<1>21. \A p \in Proc : Visited(p) => Visited(p)'
  BY <1>4, <1>9 DEF Visited
<1>22. ASSUME NEW k \in Proc, ~Idle(k)'
       PROVE  ~Idle(k) /\ Carried(k)' = Carried(k)
  <2>1. ~Idle(k)
    BY <1>12, <1>22 DEF Idle
  <2>2. CASE chain'[k].pc = "read"
    <3>1. /\ chain[k].pc = "read"
          /\ chain'[k].at = chain[k].at
          /\ chain[k].at # n
      BY <1>6, <2>2 DEF Serving
    <3>2. vote'[chain[k].at] = vote[chain[k].at]
      BY <1>4, <1>8, <3>1
    <3> QED BY <2>1, <2>2, <3>1, <3>2 DEF Carried
  <2>3. CASE chain'[k].pc # "read"
    <3>1. chain[k].pc # "read" /\ chain'[k].v = chain[k].v
      BY <1>6, <1>22, <2>3 DEF Serving, Idle
    <3> QED BY <2>1, <2>3, <3>1 DEF Carried
  <2> QED BY <2>2, <2>3
<1>23. Laps'
  <2> SUFFICES ASSUME NEW k \in Proc, ~Idle(k)'
               PROVE  (AtStart(k) \/ Reading(k) \/ Passing(k) \/ AllVisited)'
    BY DEF Laps
  <2>1. k \in Proc
    OBVIOUS
  <2>2. AtStart(k) \/ Reading(k) \/ Passing(k) \/ AllVisited
    BY <1>1, <1>22, <2>1 DEF Laps
  <2>3. /\ chain'[k].at = chain[k].at
        /\ chain'[k].to = chain[k].to
        /\ chain'[k].v = chain[k].v
        /\ chain'[k].pc = "read" <=> chain[k].pc = "read"
        /\ chain'[k].pc = "read" => chain[k].at # n
    BY <1>6, <2>1 DEF Serving, Idle
  <2>4. CASE AtStart(k)
    BY <1>4, <2>1, <2>3, <2>4 DEF AtStart
  <2>5. CASE Reading(k)
    BY <1>8, <1>21, <1>22, <2>1, <2>3, <2>5, ArcType DEF Reading
  <2>6. CASE Passing(k)
    BY <1>21, <2>1, <2>3, <2>6, ArcType DEF Passing
  <2>7. CASE AllVisited
    BY <1>21, <2>7 DEF AllVisited
  <2> QED BY <2>2, <2>4, <2>5, <2>6, <2>7
<1>24. Largest'
  BY <1>1, <1>4, <1>5, <1>9, <1>22 DEF Largest
<1> QED BY <1>1, <1>2, <1>10, <1>11, <1>14, <1>15, <1>16, <1>17, <1>18, <1>19,
           <1>20, <1>23, <1>24 DEF Apart

-----------------------------------------------------------------------------
(***************************************************************************)
(* The theorems                                                            *)
(***************************************************************************)

LEMMA InitInv == Init => Apart
<1> SUFFICES ASSUME Init PROVE Apart
  OBVIOUS
<1>1. TypeOK
  BY TypeInit
<1>2. /\ \A n \in Proc : chain[n] = NoChain(n)
      /\ \A n \in Proc : /\ up[n] /\ master[n] = Last
                         /\ heart[n] <=> n = Last
                         /\ detector[n] = "watching" => n # Last
                         /\ vote[n] = None
                         /\ taking[n] = 0
                         /\ telling[n] = 0
                         /\ todo[n] = {}
                         /\ ~stuck[n]
  BY DEF Init
<1>3. ASSUME NEW n \in Proc
      PROVE  chain[n].pc = "none" /\ chain[n].byDetector = FALSE
  <2>1. chain[n] = NoChain(n)
    BY <1>2
  <2> QED BY <2>1 DEF NoChain
<1>4. Alive
  BY <1>2, <1>3 DEF Alive, Serving
<1>5. Rounds /\ Votes /\ OneChain /\ Hung
  BY <1>2, <1>3 DEF Rounds, Votes, OneChain, Hung, Moving, Serving, Idle
<1>6. OneTakeOver /\ OneRuler
  BY <1>2 DEF OneTakeOver, OneRuler
<1>7. Watching
  <2> SUFFICES ASSUME NEW n \in Proc, detector[n] = "watching"
               PROVE  Idle(n) /\ ~heart[n] /\ ~(taking[n] > 0)
    BY DEF Watching
  <2>1. ~heart[n] /\ taking[n] = 0
    BY <1>2
  <2>2. ~(taking[n] > 0)
    BY <2>1
  <2>3. Idle(n)
    BY <1>3 DEF Idle
  <2> QED BY <2>1, <2>2, <2>3
<1>8. Voted
  BY <1>2 DEF Voted
<1>9. Laps /\ Largest
  BY <1>3 DEF Laps, Largest, Idle
<1> QED BY <1>1, <1>4, <1>5, <1>6, <1>7, <1>8, <1>9 DEF Apart

LEMMA NextInv == ASSUME Apart, ~crossed', [Next]_vars PROVE Apart'
<1>1. CASE Next
  <2>1. ASSUME NEW n \in Proc, Detect(n) PROVE Apart'
    BY <2>1, SuspectInv, FinishInv, QuitInv DEF Detect
  <2>2. ASSUME NEW k \in Proc, Forward(k) PROVE Apart'
    BY <2>2, ReadInv, CallInv, SkipInv DEF Forward
  <2>3. ASSUME NEW k \in Proc, Vote(k) PROVE Apart'
    BY <2>3, SetVoteInv, OwnVoteInv, OtherVoteInv, FoldInv, MarkInv DEF Vote
  <2>4. ASSUME NEW n \in Proc, Rule(n) PROVE Apart'
    BY <2>4, TakeOverInv, StartTellingInv, TellInv DEF Rule
  <2> QED BY <1>1, <2>1, <2>2, <2>3, <2>4, RestartInv, CrashInv DEF Next, Work
<1>2. CASE UNCHANGED vars
  <2>1. UNCHANGED <<up, master, vote, participated, detector, chain, heart,
                    taking, telling, todo, stuck, untold>>
    BY <1>2 DEF vars, electVars, detectVars, takeVars, counted
  <2>2. /\ TypeOK
        /\ Alive /\ Rounds
        /\ OneChain /\ OneTakeOver /\ OneRuler /\ Watching /\ Hung
        /\ Voted /\ Votes
        /\ Laps /\ Largest
    BY DEF Apart
  <2>3. TypeOK'
    BY <1>2, <2>2, TypeNext
  <2>4. Alive' /\ Rounds' /\ Voted' /\ Votes'
    BY <2>1, <2>2 DEF Alive, Rounds, Voted, Votes, Moving
  <2>5. OneChain' /\ OneTakeOver' /\ OneRuler' /\ Watching' /\ Hung'
    BY <2>1, <2>2 DEF OneChain, OneTakeOver, OneRuler, Watching, Hung,
                      NoTakeOver, Idle, Clients
  <2>6. Laps' /\ Largest'
    BY <2>1, <2>2 DEF Laps, Largest, Idle, AtStart, Reading, Passing,
                      AllVisited, Visited, Carried
  <2> QED BY <2>2, <2>3, <2>4, <2>5, <2>6 DEF Apart
<1> QED BY <1>1, <1>2

\* That two elections have crossed is not forgotten.
LEMMA CrossedStays == ASSUME crossed, [Next]_vars PROVE crossed'
<1>1. ASSUME NEW n \in Proc, Work(n) PROVE crossed'
  <2>1. CASE Detect(n)
    BY <2>1 DEF Detect, Suspect, Finish, Quit, counted
  <2>2. CASE Forward(n)
    BY <2>2 DEF Forward, Read, Call, Skip, counted
  <2>3. CASE Vote(n)
    BY <2>3 DEF Vote, SetVote, OwnVote, OtherVote, Fold, Mark, counted
  <2>4. CASE Rule(n)
    BY <2>4 DEF Rule, TakeOver, StartTelling, Tell, counted
  <2> QED BY <1>1, <2>1, <2>2, <2>3, <2>4 DEF Work
<1>2. ASSUME NEW n \in Proc, NEW q \in Proc, Restart(n, q) PROVE crossed'
  BY <1>2 DEF Restart, counted
<1>3. ASSUME NEW n \in Proc, Crash(n) PROVE crossed'
  BY <1>3 DEF Crash
<1>4. CASE UNCHANGED vars
  BY <1>4 DEF vars, counted
<1> QED BY <1>1, <1>2, <1>3, <1>4 DEF Next

\* The inductive invariant holds: forward(), vote(), takeOverMaster() and
\* slaveWatchdog() keep a chain, a takeover and a master apart, without a lock,
\* until a detector starts an election while another one is under way.
THEOREM Invariant == Spec => []IInv
<1>1. Init => IInv
  BY InitInv DEF IInv
<1>2. IInv /\ [Next]_vars => IInv'
  BY NextInv, CrossedStays DEF IInv
<1> QED BY <1>1, <1>2, PTL DEF Spec

\* Until two elections cross, no two live processes of a machine send heartbeats
\* and restart the others (failure_detector.cc:47-61), whoever is killed, and
\* when, and whichever detectors start the elections.
THEOREM SingleMaster == Spec => []OneMaster
<1>1. IInv => OneMaster
  BY DEF IInv, Apart, OneTakeOver, OneMaster, Rules
<1> QED BY <1>1, Invariant, PTL

\* A takeover is the end of a chain: slaveWatchdog restarts nobody as master.
LEMMA TakeOverOfChain ==
  ASSUME Apart, [Next]_vars, NEW n \in Proc, taking'[n] > taking[n]
  PROVE  \E k \in Proc : OwnVote(k) /\ chain[k].to = n
<1>1. TypeOK /\ OneRuler
  BY DEF Apart
<1>2. taking[n] \in Nat
  BY <1>1 DEF TypeOK
<1>3. taking' # taking
  BY <1>2
<1>4. ASSUME NEW m \in Proc, Detect(m) PROVE FALSE
  BY <1>3, <1>4 DEF Detect, Suspect, Finish, Quit, takeVars
<1>5. ASSUME NEW k \in Proc, Forward(k) PROVE FALSE
  BY <1>3, <1>5 DEF Forward, Read, Call, Skip, takeVars
<1>6. ASSUME NEW k \in Proc, Mark(k) PROVE FALSE
  <2>1. chain[k].pc = "mark"
    BY <1>6 DEF Mark
  <2>2. vote[chain[k].to] \in {chain[k].to, chain[k].v}
    BY <2>1 DEF Apart, Votes
  <2>3. chain[k].v \in Proc /\ chain[k].to \in Proc
    BY <1>1, <2>1, ChainTyped DEF Apart, Rounds, Moving, Serving
  <2>4. vote[chain[k].to] # None
    BY <2>2, <2>3, ProcIsInt
  <2> QED BY <1>3, <1>6, <2>4 DEF Mark
<1>7. ASSUME NEW k \in Proc, Vote(k), ~OwnVote(k) PROVE FALSE
  BY <1>3, <1>6, <1>7 DEF Vote, SetVote, OtherVote, Fold, takeVars
<1>8. ASSUME NEW m \in Proc, Rule(m) PROVE FALSE
  <2>1. CASE TakeOver(m)
    BY <1>1, <1>2, <2>1 DEF TakeOver, TypeOK
  <2>2. CASE StartTelling(m)
    BY <1>3, <2>2 DEF StartTelling
  <2>3. CASE \E q \in Proc : Tell(m, q)
    BY <1>3, <2>3 DEF Tell
  <2> QED BY <1>8, <2>1, <2>2, <2>3 DEF Rule
<1>9. ASSUME NEW m \in Proc, NEW q \in Proc, Restart(m, q) PROVE FALSE
  BY <1>1, <1>3, <1>9 DEF Restart, OneRuler, Clients
<1>10. ASSUME NEW m \in Proc, Crash(m) PROVE FALSE
  BY <1>1, <1>2, <1>10 DEF Crash, TypeOK
<1>11. ASSUME UNCHANGED vars PROVE FALSE
  BY <1>3, <1>11 DEF vars, takeVars
<1>12. PICK k \in Proc : OwnVote(k)
  BY <1>4, <1>5, <1>7, <1>8, <1>9, <1>10, <1>11 DEF Next, Work
<1>13. chain[k].to = n
  <2>1. \A m \in Proc : m # chain[k].to => taking'[m] = taking[m]
    BY <1>1, <1>12 DEF OwnVote, Won, TypeOK
  <2> QED BY <1>2, <2>1
<1> QED BY <1>12, <1>13

\* The chain that ends has visited everybody.
LEMMA ChainOfLargest ==
  ASSUME Apart, NEW k \in Proc, OwnVote(k), NEW p \in Proc, up[p], p \notin untold
  PROVE  p <= chain[k].to
<1> DEFINE n == chain[k].to
<1>1. TypeOK /\ Votes /\ Laps /\ Largest
  BY DEF Apart
<1>2. chain[k].pc = "own" /\ vote[n] = n /\ ~Idle(k)
  BY DEF OwnVote, Idle
<1>3. chain[k].v = n /\ Carried(k) = n
  BY <1>1, <1>2 DEF Votes, Carried
<1>4. n \in Proc
  BY <1>1, ChainTyped
<1>5. Passing(k) \/ AllVisited
  BY <1>1, <1>2 DEF Laps, AtStart, Reading
<1>6. participated[p] \/ p = n
  <2>1. CASE AllVisited
    BY <2>1 DEF AllVisited, Visited
  <2>2. CASE Passing(k)
    <3>1. /\ n \in {k} \cup Arc(k, n)
          /\ \A q \in Arc(k, n) : Visited(q)
      BY <1>3, <2>2 DEF Passing
    <3>2. n = k
      BY <1>4, <3>1, ArcNotEnd
    <3> QED BY <3>1, <3>2, ArcWhole DEF Visited
  <2> QED BY <1>5, <2>1, <2>2
<1>7. p \in Int /\ n \in Int
  BY <1>4, ProcIsInt
<1>8. participated[p] => p <= n
  BY <1>1, <1>2, <1>3, <1>4 DEF Largest
<1>9. p <= n
  <2> HIDE DEF n
  <2> QED BY <1>6, <1>7, <1>8
<1> QED BY <1>9

\* Until two elections cross, the process that gets its own id back
\* (election.cc:34) has the largest of those alive, but for processes whose
\* _participated the last master has not reset.
THEOREM LargestWins == Spec => LargestTakesOver
<1> DEFINE Wins == ~crossed' => \A n \in Proc :
             taking'[n] > taking[n] =>
               \A p \in Proc : up[p] /\ p \notin untold => p <= n
<1>1. IInv /\ [Next]_vars => Wins
  <2> SUFFICES ASSUME IInv, [Next]_vars, ~crossed',
                      NEW n \in Proc, taking'[n] > taking[n],
                      NEW p \in Proc, up[p], p \notin untold
               PROVE  p <= n
    OBVIOUS
  <2>1. Apart
    BY CrossedStays DEF IInv
  <2>2. PICK k \in Proc : OwnVote(k) /\ chain[k].to = n
    BY <2>1, TakeOverOfChain
  <2> QED BY <2>1, <2>2, ChainOfLargest
<1>2. Spec => [][Wins]_vars
  <2> HIDE DEF Wins
  <2> QED BY <1>1, Invariant, PTL DEF Spec
<1> QED BY <1>2 DEF LargestTakesOver
=============================================================================
