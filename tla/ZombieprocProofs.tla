-------------------------- MODULE ZombieprocProofs --------------------------
(* The safety of the programs of zombieproc and of the demonstrations of    *)
(* fork and wait, for every number of children and every other bound.       *)
EXTENDS Zombieproc, FiniteSetTheorems, WellFoundedInduction, TLAPS

\* Programs that fork NUM_CHILDREN children in a loop.
Forkers == Demos \cup {"zombie_reaper", "creator"}

\* A signal is pending or being handled only when there is a handler, and from
\* the set-up on no zombie is left out; nothing is set up before a program
\* gets to it.
Signals ==
  /\ chld_pending \/ handling => disp = "handler"
  /\ disp = "handler" /\ ~Ended => Zombies \subseteq stranded \/ chld_pending \/ handling
  /\ disp = "ignore" /\ ~Ended => Zombies \subseteq stranded
  /\ program = "zombie_reaper" /\ pc \in {"fork", "sleep1", "poll", "reap", "set_up"}
       => disp = "default"
  /\ program \in Demos => disp = "default"

\* The loop of forks leaves no child unborn, and a child is handed over to
\* init only at the end.
Forked ==
  /\ ~Ended => \A c \in Child : proc[c] # "adopted"
  /\ program \in Forkers /\ ~Ended =>
       \A c \in Child : proc[c] = "unborn" <=> pc = "fork" /\ i < c
  /\ program = "zombie_reaper" /\ pc \in {"set_up", "sleep5"} => strategy \in {2, 3}

\* A sleep of the daemon that is over was full or cut by a signal, and a child
\* died for each signal.
B(x) == IF x THEN 1 ELSE 0

Naps ==
  program = "daemon" =>
    /\ pc \in {"start", "daemonize", "loop", "spawn", "nap", "asleep",
              "closing", "end", "failed"}
    /\ cut => pc = "asleep"
    /\ pc \in {"start", "daemonize"} => i = 0
    /\ pc = "nap" => i <= WORKER_INTERVAL
    /\ pc = "asleep" => i < WORKER_INTERVAL
    /\ keep_running /\ pc \in {"nap", "asleep"} =>
         naps + deaths >= i + B(cut) + B(chld_pending)
    /\ keep_running /\ pc = "loop" /\ i > 0 =>
         i = WORKER_INTERVAL /\ naps + deaths >= i + B(chld_pending)

\* The demonstrations have reported what they have collected, one child per
\* pass, and so all of them after the last.
Collecting(n) ==
  /\ Len(reported) = n
  /\ Cardinality({c \in Child : proc[c] = "reaped"}) = n

Reporting ==
  program \in Demos =>
    /\ i \in 0 .. NUM_CHILDREN
    /\ pc = "fork" => Collecting(0)
    /\ pc = "wait" => Collecting(i)
    /\ pc = "end"  => /\ Len(reported) = NUM_CHILDREN
                      /\ \A c \in Child : proc[c] = "reaped"
    /\ \A k \in DOMAIN reported : proc[reported[k]] = "reaped"
    /\ \A j, k \in DOMAIN reported : reported[j] = reported[k] => j = k
    /\ program = "sisops" => \A k \in DOMAIN reported : reported[k] = k

\* The locals of the detector go stale together: a state "Z" that is left over
\* belongs to a pid that is in the list, unless the list is full.
Stale ==
  /\ state = "Z" /\ Len(zombie_list) < MAX_ZOMBIES =>
       pid = Garbage \/ pid \in Range(zombie_list)
  /\ Len(zombie_list) <= MAX_ZOMBIES

\* Of the old zombies, which never come to life again, those the scan has
\* passed are in the list.
OldAreDead ==
  old # {} => program = "creator" /\ \A p \in old : Life(p) \notin {"unborn", "alive"}

Passed ==
  /\ scan = "before" => pos = 0
  /\ scan = "opened" => pos \in Pid
  /\ scan \in {"reading", "opened", "done"} =>
       \A p \in old :
         /\ scan = "done" \/ p < pos \/ (p = pos /\ scan = "reading")
         /\ OneWord(p) /\ Life(p) = "zombie"
         => Len(zombie_list) = MAX_ZOMBIES \/ p \in Range(zombie_list)

IInv ==
  /\ TypeOK /\ Signals /\ Forked /\ WaitedForAll
  /\ Naps /\ Reporting /\ Stale /\ OldAreDead /\ Passed

-----------------------------------------------------------------------------
(* What the kernel's operators do.                                          *)

LEMMA Numbers ==
  /\ NUM_CHILDREN \in Nat \ {0} /\ WORKER_INTERVAL \in Nat /\ MAX_ZOMBIES \in Nat
  /\ Child \subseteq Nat \ {0} /\ Pid \subseteq Nat \ {0} /\ Child \cap Other = {}
  /\ Child \subseteq Pid /\ Other \subseteq Pid
BY KernelAssumption, DaemonAssumption, ScanAssumption DEF Child, Pid

\* The smallest element of a set of numbers.
LEMMA MinOfNats ==
  ASSUME NEW S \in SUBSET Nat, S # {}
  PROVE  Min(S) \in S /\ \A x \in S : Min(S) <= x
<1>1. PICK m \in S : \A y \in S : ~ (<<y, m>> \in OpToRel(<, Nat))
  BY NatLessThanWellFounded, WFMin
<1>2. \A y \in S : m <= y
  <2> TAKE y \in S
  <2>1. ~ (y < m)
    <3>1. y \in Nat /\ m \in Nat
      OBVIOUS
    <3>2. y < m => <<y, m>> \in OpToRel(<, Nat)
      BY <3>1 DEF OpToRel
    <3> QED
      BY <3>2, <1>1
  <2> QED
    BY <2>1
<1> QED
  BY <1>1, <1>2 DEF Min

\* A child is collected.
LEMMA Reaped ==
  ASSUME TypeOK, NEW c \in Child, Reap(c)
  PROVE  /\ proc' \in [Child -> {"unborn", "alive", "zombie", "reaped", "adopted"}]
         /\ proc'[c] = "reaped"
         /\ \A d \in Child : d # c => proc'[d] = proc[d]
BY DEF Reap, TypeOK, KernelTypeOK

\* A child is born.
LEMMA Forks ==
  ASSUME TypeOK, NEW c \in Child, Fork(c)
  PROVE  /\ proc' \in [Child -> {"unborn", "alive", "zombie", "reaped", "adopted"}]
         /\ proc'[c] = "alive"
         /\ \A d \in Child : d # c => proc'[d] = proc[d]
         /\ deaths' = B(chld_pending) /\ deaths' \in Nat
BY DEF Fork, TypeOK, KernelTypeOK, B

\* One child more has been collected.
LEMMA OneMore ==
  ASSUME TypeOK, NEW c \in Child, proc[c] = "zombie", Reap(c)
  PROVE  Cardinality({d \in Child : proc'[d] = "reaped"})
           = Cardinality({d \in Child : proc[d] = "reaped"}) + 1
<1> DEFINE S == {d \in Child : proc[d] = "reaped"}
           T == {d \in Child : proc'[d] = "reaped"}
<1>1. IsFiniteSet(Child) /\ S \in SUBSET Child
  BY FS_Interval, Numbers DEF Child
<1>2. IsFiniteSet(S)
  BY <1>1, FS_Subset
<1>3. T = S \cup {c} /\ c \notin S
  BY Reaped
<1> QED
  BY <1>2, <1>3, FS_AddElement

\* When as many have been collected as there are, all have.
LEMMA AllOfThem ==
  ASSUME Cardinality({d \in Child : proc[d] = "reaped"}) = NUM_CHILDREN
  PROVE  \A c \in Child : proc[c] = "reaped"
<1> DEFINE S == {d \in Child : proc[d] = "reaped"}
<1>1. IsFiniteSet(Child) /\ Cardinality(Child) = NUM_CHILDREN /\ S \in SUBSET Child
  BY FS_Interval, Numbers DEF Child
<1>2. Child = S
  BY <1>1, FS_Subset
<1> QED
  BY <1>2

-----------------------------------------------------------------------------
(* The initial states, and the steps of the kernel and the handler.         *)

LEMMA InitIInv == Init => IInv
<1> SUFFICES ASSUME Init PROVE IInv
  OBVIOUS
<1> USE Numbers DEF Init, KernelInit, ReaperInit, LibInit, WaitInit, DaemonInit, ScanInit
<1>1. program \in DOMAIN First
  OBVIOUS
<1>2. TypeOK
  <2>1. KernelTypeOK
    BY DEF KernelTypeOK
  <2>2. other \in [Other -> {"alive", "zombie", "gone"}]
    OBVIOUS
  <2>3. reported \in Seq(Child) /\ zombie_list \in Seq(Pid \cup {Garbage})
    OBVIOUS
  <2>4. strategy \in 1 .. 4 /\ shown \subseteq Child /\ old \subseteq Pid
    OBVIOUS
  <2> QED
    BY <1>1, <2>1, <2>2, <2>3, <2>4 DEF TypeOK
<1>3. Zombies = {} /\ disp = "default"
  BY DEF Zombies
<1>4. Signals
  BY <1>3 DEF Signals
<1>5. /\ program \in Forkers => pc = "fork"
      /\ program \in Demos => pc = "fork"
      /\ program = "daemon" => pc = "start"
      /\ program = "zombie_reaper" => pc = "fork"
  BY DEF First, Forkers, Demos
<1>6. Forked
  <2>1. \A c \in Child : i < c
    OBVIOUS
  <2> QED
    BY <1>5, <2>1 DEF Forked
<1>7. WaitedForAll
  BY <1>5 DEF WaitedForAll
<1>8. Naps
  BY <1>5 DEF Naps
<1>9. Reporting
  <2>1. {c \in Child : proc[c] = "reaped"} = {}
    OBVIOUS
  <2>2. Cardinality({c \in Child : proc[c] = "reaped"}) = 0
    BY <2>1, FS_EmptySet
  <2> QED
    BY <1>5, <2>2 DEF Reporting, Collecting
<1>10. Stale /\ OldAreDead /\ Passed
  BY DEF Stale, OldAreDead, Passed
<1> QED
  BY <1>2, <1>4, <1>6, <1>7, <1>8, <1>9, <1>10 DEF IInv

\* Steps that neither fork, nor report, nor belong to the detector.
LEMMA DetectorRests ==
  ASSUME IInv, UNCHANGED <<program, scanVars>>,
         \A c \in old : c \in Child /\ proc[c] \notin {"unborn", "alive"} =>
           proc'[c] \notin {"unborn", "alive"} /\ (proc'[c] = "zombie" => proc[c] = "zombie")
  PROVE  (Stale /\ OldAreDead /\ Passed)'
<1> USE DEF scanVars, detectorVars
<1>1. Stale'
  BY DEF IInv, Stale
<1>2. \A p \in old : p \in Pid /\ (OneWord(p)' <=> OneWord(p))
  BY DEF IInv, TypeOK, OneWord
<1>3. \A p \in old : /\ Life(p) \notin {"unborn", "alive"} => Life(p)' \notin {"unborn", "alive"}
                     /\ Life(p) \notin {"unborn", "alive"} /\ Life(p)' = "zombie"
                          => Life(p) = "zombie"
  BY DEF Life
<1>4. OldAreDead'
  BY <1>3 DEF IInv, OldAreDead
<1>5. Passed'
  BY <1>2, <1>3 DEF IInv, OldAreDead, Passed
<1> QED
  BY <1>1, <1>4, <1>5

LEMMA DiesStep ==
  ASSUME IInv, NEW c \in Child, Dies(c), UNCHANGED progVars
  PROVE  IInv'
<1> USE Numbers DEF IInv, Dies, progVars, reaperVars, libVars, waitVars, daemonVars, control, Ended
<1>1. /\ proc' \in [Child -> {"unborn", "alive", "zombie", "reaped", "adopted"}]
      /\ proc'[c] = IF disp = "ignore" THEN "reaped" ELSE "zombie"
      /\ \A d \in Child : d # c => proc'[d] = proc[d]
      /\ proc[c] = "alive"
  BY DEF TypeOK, KernelTypeOK
<1>2. TypeOK'
  BY <1>1 DEF TypeOK, KernelTypeOK, scanVars, detectorVars
<1>3. Signals'
  BY <1>1 DEF Signals, Zombies
<1>4. Forked' /\ WaitedForAll'
  BY <1>1 DEF Forked, WaitedForAll
<1>5. Naps'
  BY DEF Naps, B, TypeOK, KernelTypeOK
<1>6. Reporting'
  <2>1. CASE program \in Demos
    <3>1. disp = "default" /\ pc # "end"
      BY <2>1 DEF Signals
    <3>2. \A d \in Child : proc'[d] = "reaped" <=> proc[d] = "reaped"
      BY <3>1, <1>1
    <3>3. {d \in Child : proc'[d] = "reaped"} = {d \in Child : proc[d] = "reaped"}
      BY <3>2
    <3>4. \A k \in DOMAIN reported : reported[k] \in Child
      BY DEF TypeOK
    <3> QED
      BY <2>1, <3>2, <3>3, <3>4 DEF Reporting, Collecting
  <2> QED
    BY <2>1 DEF Reporting
<1>7. (Stale /\ OldAreDead /\ Passed)'
  BY <1>1, DetectorRests
<1> QED
  BY <1>2, <1>3, <1>4, <1>5, <1>6, <1>7

LEMMA DeliverStep ==
  ASSUME IInv, DeliverSigchld, UNCHANGED progVars
  PROVE  IInv'
<1> USE Numbers DEF IInv, DeliverSigchld, progVars, reaperVars, libVars, waitVars, daemonVars,
                    kids, Ended
<1>1. TypeOK'
  BY DEF TypeOK, KernelTypeOK, scanVars, detectorVars
<1>2. Signals'
  BY DEF Signals, Zombies
<1>3. Forked' /\ WaitedForAll'
  BY DEF Forked, WaitedForAll
<1>4. Naps'
  <2>1. /\ i \in Nat /\ deaths \in Nat /\ naps \in Nat
        /\ cut \in BOOLEAN /\ chld_pending \in BOOLEAN
    BY DEF TypeOK, KernelTypeOK
  <2>2. program = "daemon" => (cut' => pc = "asleep")
    BY DEF Naps, Sleeping
  <2> QED
    BY <2>1, <2>2 DEF Naps, B
<1>5. Reporting'
  BY DEF Reporting, Collecting
<1>6. (Stale /\ OldAreDead /\ Passed)'
  BY DetectorRests
<1> QED
  BY <1>1, <1>2, <1>3, <1>4, <1>5, <1>6

LEMMA HandlerStep ==
  ASSUME IInv, Handler
  PROVE  IInv'
<1> USE Numbers DEF IInv, Handler, sigchld_handler, progVars, reaperVars, libVars, waitVars,
                    daemonVars, control, Ended
<1>1. /\ proc' \in [Child -> {"unborn", "alive", "zombie", "reaped", "adopted"}]
      /\ \A d \in Child : \/ proc'[d] = proc[d]
                          \/ proc[d] = "zombie" /\ proc'[d] = "reaped"
  BY Reaped DEF TypeOK, KernelTypeOK, Zombies
<1>2. TypeOK'
  <2>1. handling' \in BOOLEAN
    OBVIOUS
  <2> QED
    BY <1>1, <2>1 DEF TypeOK, KernelTypeOK, scanVars, detectorVars
<1>3. Signals'
  BY <1>1 DEF Signals, Zombies
<1>4. Forked' /\ WaitedForAll'
  BY <1>1 DEF Forked, WaitedForAll
<1>5. Naps'
  BY DEF Naps
<1>6. Reporting'
  <2>1. program \notin Demos
    BY DEF Signals
  <2> QED
    BY <2>1 DEF Reporting
<1>7. (Stale /\ OldAreDead /\ Passed)'
  BY <1>1, DetectorRests
<1> QED
  BY <1>2, <1>3, <1>4, <1>5, <1>6, <1>7

-----------------------------------------------------------------------------
(* Steps that several programs have.                                        *)

\* An exit; of a demonstration, after its last wait or a fork that failed.
LEMMA ExitStep ==
  ASSUME IInv, NEW how \in {"end", "failed"}, Exit(how), UNCHANGED progVars, ~Ended,
         program \in Demos /\ how = "end" => pc = "wait" /\ i = NUM_CHILDREN,
         program = "daemon" => pc # "asleep"
  PROVE  IInv'
<1> USE Numbers DEF IInv, Exit, progVars, reaperVars, libVars, waitVars, daemonVars, Ended
<1>1. /\ proc' \in [Child -> {"unborn", "alive", "zombie", "reaped", "adopted"}]
      /\ \A c \in Child : \/ proc'[c] = proc[c] /\ proc[c] \notin {"alive", "zombie"}
                          \/ proc'[c] = "adopted" /\ proc[c] \in {"alive", "zombie"}
  BY DEF Children, TypeOK, KernelTypeOK
<1>2. TypeOK'
  <2>1. TypeOK /\ UNCHANGED scanVars /\ UNCHANGED <<reaperVars, libVars, waitVars, daemonVars>>
    OBVIOUS
  <2>2. UNCHANGED <<program, disp, handling, i, cut, deaths, stranded>> /\ chld_pending' = FALSE
    OBVIOUS
  <2> HIDE DEF IInv, Exit, Ended, progVars
  <2>3. KernelTypeOK'
    BY <1>1, <2>1, <2>2 DEF TypeOK, KernelTypeOK
  <2> QED
    BY <2>1, <2>2, <2>3 DEF TypeOK, scanVars, detectorVars
<1>3. Signals' /\ Forked' /\ Naps'
  BY DEF Signals, Forked, Naps
<1>4. Reporting'
  <2>1. CASE program \in Demos
    <3>1. \A k \in DOMAIN reported : reported[k] \in Child
      BY DEF TypeOK
    <3>2. \A k \in DOMAIN reported : proc'[reported[k]] = "reaped"
      BY <2>1, <3>1, <1>1 DEF Reporting
    <3>3. how = "end" => /\ Len(reported) = NUM_CHILDREN
                         /\ \A c \in Child : proc[c] = "reaped"
      BY <2>1, AllOfThem DEF Reporting, Collecting
    <3>4. how = "end" => \A c \in Child : proc'[c] = "reaped"
      BY <3>3, <1>1
    <3> QED
      BY <2>1, <3>2, <3>3, <3>4 DEF Reporting
  <2> QED
    BY <2>1 DEF Reporting
<1>5. WaitedForAll'
  BY <1>4 DEF WaitedForAll, Reporting, Demos
<1>6. (Stale /\ OldAreDead /\ Passed)'
  BY <1>1, DetectorRests
<1> QED
  BY <1>2, <1>3, <1>4, <1>5, <1>6

LEMMA ForkLoopStep ==
  ASSUME IInv, program \in Forkers, pc = "fork", ~handling, UNCHANGED progVars,
         NEW l \in {"sleep1", "wait", "getchar"}, ForkLoop(l)
  PROVE  IInv'
<1> USE Numbers DEF IInv, progVars, reaperVars, libVars, waitVars, daemonVars,
                    kids, signals, Ended, Forkers, Demos
<1>1. ASSUME i < NUM_CHILDREN, Fork(i + 1), i' = i + 1, UNCHANGED <<program, signals, pc, cut>>
      PROVE  IInv'
  <2>1. i \in Nat /\ i + 1 \in Child
    BY <1>1 DEF TypeOK, KernelTypeOK, Child
  <2>2. /\ proc' \in [Child -> {"unborn", "alive", "zombie", "reaped", "adopted"}]
        /\ proc'[i + 1] = "alive" /\ proc[i + 1] = "unborn"
        /\ \A d \in Child : d # i + 1 => proc'[d] = proc[d]
        /\ deaths' \in Nat
    BY <1>1, <2>1, Forks DEF Forked
  <2>3. TypeOK'
    BY <1>1, <2>1, <2>2 DEF TypeOK, KernelTypeOK, scanVars, detectorVars
  <2>4. Signals'
    BY <1>1, <2>1, <2>2 DEF Signals, Zombies
  <2>5. Forked'
    <3>1. \A d \in Child : d # i + 1 => (i < d <=> i + 1 < d)
      BY <2>1
    <3> QED
      BY <1>1, <2>1, <2>2, <3>1 DEF Forked
  <2>6. WaitedForAll' /\ Naps'
    BY <1>1 DEF WaitedForAll, Naps
  <2>7. Reporting'
    <3>1. {d \in Child : proc'[d] = "reaped"} = {d \in Child : proc[d] = "reaped"}
      BY <2>1, <2>2
    <3>2. program \in Demos => /\ reported' = reported /\ pc' = "fork"
                               /\ Len(reported) = 0 /\ DOMAIN reported = {}
                               /\ Cardinality({d \in Child : proc[d] = "reaped"}) = 0
      BY <1>1 DEF Reporting, Collecting, TypeOK
    <3>3. i' \in 0 .. NUM_CHILDREN
      BY <1>1, <2>1 DEF Child
    <3>4. /\ program' = program
          /\ \/ Cardinality({d \in Child : proc'[d] = "reaped"}) = 0
             \/ program \notin Demos
      BY <1>1, <3>1, <3>2
    <3> QED
      BY <3>2, <3>3, <3>4 DEF Reporting, Collecting
  <2>8. (Stale /\ OldAreDead /\ Passed)'
    BY <1>1, <2>1, <2>2, DetectorRests
  <2> QED
    BY <2>3, <2>4, <2>5, <2>6, <2>7, <2>8
<1>2. ASSUME Exit("failed")
      PROVE  IInv'
  BY <1>2, ExitStep
<1>3. ASSUME i = NUM_CHILDREN, pc' = l, i' = 0, UNCHANGED <<program, kids, signals, cut>>
      PROVE  IInv'
  <2>1. TypeOK'
    BY <1>3 DEF TypeOK, KernelTypeOK, scanVars, detectorVars
  <2>2. Signals' /\ WaitedForAll' /\ Naps'
    BY <1>3 DEF Signals, Zombies, WaitedForAll, Naps
  <2>3. Forked'
    <3>1. \A d \in Child : ~ (i < d)
      BY <1>3 DEF Child
    <3> QED
      BY <1>3, <3>1 DEF Forked
  <2>4. Reporting'
    BY <1>3 DEF Reporting, Collecting
  <2>5. (Stale /\ OldAreDead /\ Passed)'
    BY <1>3, DetectorRests
  <2> QED
    BY <2>1, <2>2, <2>3, <2>4, <2>5
<1> QED
  BY <1>1, <1>2, <1>3 DEF ForkLoop

\* A step of the parent that changes neither children nor signals, in a program
\* that is neither a demonstration nor the daemon.
LEMMA GotoStep ==
  ASSUME IInv, program \notin Demos \cup {"daemon"}, ~Ended,
         pc' \notin {"end", "failed"}, cut' \in BOOLEAN, i' \in Nat,
         UNCHANGED <<program, kids, signals, strategy, waitVars, daemonVars, scanVars>>,
         shown' \subseteq Child, created' \in Nat, reaped' \in Nat,
         pc' \in {"fork", "sleep1", "poll", "reap", "set_up"} => disp = "default",
         program = "zombie_reaper" =>
            /\ pc # "fork" /\ pc' # "fork"
            /\ pc' \in {"set_up", "sleep5"} => strategy \in {2, 3},
         program = "creator" => pc' = pc /\ i' = i,
         WaitedForAll'
  PROVE  IInv'
<1> USE Numbers DEF IInv, waitVars, daemonVars, kids, signals, Ended
<1>1. TypeOK'
  BY DEF TypeOK, KernelTypeOK, scanVars, detectorVars
<1>2. Signals' /\ Naps'
  BY DEF Signals, Zombies, Naps
<1>3. Forked' /\ Reporting'
  BY DEF Forked, Reporting, Forkers
<1>4. (Stale /\ OldAreDead /\ Passed)'
  BY DetectorRests
<1> QED
  BY <1>1, <1>2, <1>3, <1>4

\* The set-up of a handler, or of SIG_IGN.
LEMMA SetUpStep ==
  ASSUME IInv, NEW how \in {"handler", "ignore"}, NEW l \in {"sleep5", "call", "daemonize"},
         SetUp(how, l), UNCHANGED progVars, ~handling, ~Ended, pc # "fork",
         program \notin Demos, how = "ignore" => disp = "default",
         program = "zombie_reaper" => strategy \in {2, 3},
         program = "daemon" => pc = "start" /\ l = "daemonize"
  PROVE  IInv'
<1> USE Numbers DEF IInv, SetUp, progVars, reaperVars, libVars, waitVars, daemonVars, kids, Ended
<1>1. TypeOK'
  BY DEF TypeOK, KernelTypeOK, scanVars, detectorVars, Zombies
<1>2. Signals'
  BY DEF Signals, Zombies
<1>3. Forked' /\ WaitedForAll' /\ Naps' /\ Reporting'
  BY DEF Forked, WaitedForAll, Naps, Reporting
<1>4. (Stale /\ OldAreDead /\ Passed)'
  BY DetectorRests
<1> QED
  BY <1>1, <1>2, <1>3, <1>4

-----------------------------------------------------------------------------
(* The steps of the programs.                                               *)

LEMMA ReaperStep ==
  ASSUME IInv, Reaper
  PROVE  IInv'
<1> USE DEF IInv, Reaper, At, Goto, Wake, kids, signals, reaperVars
<1>0. program = "zombie_reaper" /\ program \notin Demos \cup {"daemon", "creator"}
  BY DEF ReaperNext, reaper_fork, choose_strategy, poll_zombies, reap_explicit, setup_auto_reaper,
         setup_ignore_reaper, let_children_exit, final_check, reaper_return, Demos
<1>1. /\ cut \in BOOLEAN /\ i \in Nat /\ i + 1 \in Nat /\ shown \subseteq Child
      /\ created \in Nat /\ reaped \in Nat /\ strategy \in 1 .. 4
  BY DEF TypeOK, KernelTypeOK
<1>2. CASE reaper_fork
  BY <1>2, ForkLoopStep DEF reaper_fork, progVars, Forkers
<1>3. CASE choose_strategy
  <2>1. CASE Exit("failed")
    BY <1>0, <1>3, <2>1, ExitStep DEF choose_strategy, progVars, Ended
  <2>2. CASE ~Exit("failed")
    <3>1. /\ pc = "sleep1" /\ pc' \in {"poll", "set_up"} /\ cut' = FALSE
          /\ pc' = "set_up" => strategy \in {2, 3}
          /\ UNCHANGED <<program, kids, signals, i, reaperVars>>
      BY <1>3, <2>2 DEF choose_strategy
    <3>2. disp = "default"
      BY <1>0, <3>1 DEF Signals
    <3>3. WaitedForAll'
      BY <1>0, <3>1 DEF WaitedForAll
    <3> QED
      BY <1>0, <1>1, <3>1, <3>2, <3>3, GotoStep DEF libVars, Ended
  <2> QED
    BY <2>1, <2>2
<1>4. CASE poll_zombies
  <2>1. /\ pc = "poll" /\ pc' \in {"poll", "reap"} /\ i' \in Nat
        /\ UNCHANGED <<program, kids, signals, cut, reaperVars>>
    BY <1>1, <1>4 DEF poll_zombies
  <2>2. disp = "default"
    BY <1>0, <2>1 DEF Signals
  <2>3. WaitedForAll'
    BY <1>0, <2>1 DEF WaitedForAll
  <2> QED
    BY <1>0, <1>1, <2>1, <2>2, <2>3, GotoStep DEF libVars, Ended
<1>5. CASE reap_explicit
  <2>1. ASSUME NEW c \in Zombies, Reap(c), UNCHANGED <<program, deaths, signals, control>>
        PROVE  IInv'
    <3>1. /\ proc' \in [Child -> {"unborn", "alive", "zombie", "reaped", "adopted"}]
          /\ \A d \in Child : \/ proc'[d] = proc[d]
                              \/ proc[d] = "zombie" /\ proc'[d] = "reaped"
      BY <2>1, Reaped DEF Zombies
    <3> USE <1>5, <2>1 DEF reap_explicit, control, libVars, waitVars, daemonVars
    <3>2. TypeOK'
      BY <3>1 DEF TypeOK, KernelTypeOK, scanVars, detectorVars
    <3>3. Signals'
      BY <1>0, <3>1 DEF Signals, Zombies, Ended
    <3>4. Forked' /\ WaitedForAll'
      BY <1>0, <3>1 DEF Forked, WaitedForAll, Ended
    <3>5. Naps' /\ Reporting'
      BY <1>0 DEF Naps, Reporting
    <3>6. (Stale /\ OldAreDead /\ Passed)'
      BY <3>1, DetectorRests
    <3> QED
      BY <3>2, <3>3, <3>4, <3>5, <3>6
  <2>2. ASSUME Children = {}, Goto("final"), UNCHANGED <<cut, reaperVars>>
        PROVE  IInv'
    <3>1. pc = "reap"
      BY <1>5 DEF reap_explicit
    <3>2. \A c \in Child : proc[c] = "reaped"
      BY <1>0, <2>2, <3>1 DEF Children, Forked, TypeOK, KernelTypeOK, Forkers, Ended
    <3>3. WaitedForAll'
      BY <2>2, <3>2 DEF WaitedForAll
    <3> QED
      BY <1>0, <1>1, <2>2, <3>1, <3>3, GotoStep DEF libVars, Ended
  <2> QED
    BY <1>5, <2>1, <2>2 DEF reap_explicit
<1>6. CASE setup_auto_reaper
  BY <1>0, <1>6, SetUpStep DEF setup_auto_reaper, progVars, Ended
<1>7. CASE setup_ignore_reaper
  <2>1. disp = "default"
    BY <1>0, <1>7 DEF setup_ignore_reaper, Signals
  <2> QED
    BY <1>0, <1>7, <2>1, SetUpStep DEF setup_ignore_reaper, progVars, Ended
<1>8. CASE let_children_exit
  <2>1. /\ pc = "sleep5" /\ pc' = "final" /\ cut' = FALSE
        /\ UNCHANGED <<program, kids, signals, i, reaperVars>>
    BY <1>8 DEF let_children_exit
  <2>2. WaitedForAll'
    BY <1>0, <2>1 DEF WaitedForAll, Forked
  <2> QED
    BY <1>0, <1>1, <2>1, <2>2, GotoStep DEF libVars, Ended
<1>9. CASE final_check
  <2>1. CASE pc = "final"
    <3>1. pc' = "check" /\ UNCHANGED <<program, kids, signals, i, cut, reaperVars>>
      BY <1>9, <2>1 DEF final_check
    <3>2. WaitedForAll'
      BY <1>0, <2>1, <3>1 DEF WaitedForAll
    <3> QED
      BY <1>0, <1>1, <2>1, <3>1, <3>2, GotoStep DEF libVars, Ended
  <2>2. CASE pc = "check"
    <3>1. /\ pc' = "return" /\ shown' \subseteq Child /\ chld_pending' = (disp = "handler")
          /\ UNCHANGED <<program, kids, disp, handling, stranded, i, cut, strategy>>
      BY <1>9, <2>2 DEF final_check, PsOutput, Zombies
    <3> USE <2>2, <3>1 DEF libVars, waitVars, daemonVars
    <3>2. TypeOK'
      BY DEF TypeOK, KernelTypeOK, scanVars, detectorVars
    <3>3. Signals' /\ Forked' /\ WaitedForAll'
      BY <1>0 DEF Signals, Forked, WaitedForAll, Zombies, Ended
    <3>4. Naps' /\ Reporting'
      BY <1>0 DEF Naps, Reporting
    <3>5. (Stale /\ OldAreDead /\ Passed)'
      BY DetectorRests
    <3> QED
      BY <3>2, <3>3, <3>4, <3>5
  <2> QED
    BY <1>9, <2>1, <2>2 DEF final_check
<1>10. CASE reaper_return
  BY <1>0, <1>10, ExitStep DEF reaper_return, progVars, Ended
<1> HIDE DEF IInv
<1> QED
  BY <1>2, <1>3, <1>4, <1>5, <1>6, <1>7, <1>8, <1>9, <1>10 DEF ReaperNext

LEMMA LibStep ==
  ASSUME IInv, Lib
  PROVE  IInv'
<1> USE Numbers DEF IInv, Lib, At, Goto, kids, signals, libVars
<1>0. program = "libzombie" /\ program \notin Demos \cup {"zombie_reaper", "daemon", "creator"}
  BY DEF LibNext, zombie_init, zombie_safe_fork, count_child, zombie_get_stats, caller_returns, Demos
<1>1. /\ cut \in BOOLEAN /\ i \in Nat /\ shown \subseteq Child
      /\ created \in Nat /\ created + 1 \in Nat /\ reaped \in Nat
  BY DEF TypeOK, KernelTypeOK
<1>2. CASE zombie_init
  BY <1>0, <1>2, SetUpStep DEF zombie_init, progVars, Ended
<1>3. CASE zombie_safe_fork
  <2> USE <1>3 DEF zombie_safe_fork, reaperVars, waitVars, daemonVars
  <2>1. i + 1 \in Child
    BY <1>1 DEF Child
  <2>2. /\ proc' \in [Child -> {"unborn", "alive", "zombie", "reaped", "adopted"}]
        /\ proc'[i + 1] = "alive" /\ deaths' \in Nat
        /\ \A d \in Child : d # i + 1 => proc'[d] = proc[d]
    BY <2>1, Forks
  <2>3. TypeOK'
    BY <1>1, <2>2 DEF TypeOK, KernelTypeOK, scanVars, detectorVars
  <2>4. Signals' /\ Forked' /\ WaitedForAll'
    BY <1>0, <2>1, <2>2 DEF Signals, Forked, WaitedForAll, Zombies, Ended, Forkers
  <2>5. Naps' /\ Reporting'
    BY <1>0 DEF Naps, Reporting
  <2>6. (Stale /\ OldAreDead /\ Passed)'
    <3>1. old = {}
      BY <1>0 DEF OldAreDead
    <3> QED
      BY <3>1, DetectorRests
  <2> QED
    BY <2>3, <2>4, <2>5, <2>6
<1>4. CASE count_child
  <2>1. /\ pc = "count" /\ pc' = "call" /\ created' = created + 1
        /\ UNCHANGED <<program, kids, signals, i, cut, reaped>>
    BY <1>4 DEF count_child
  <2>2. WaitedForAll'
    BY <1>0, <2>1 DEF WaitedForAll
  <2> QED
    BY <1>0, <1>1, <2>1, <2>2, GotoStep DEF reaperVars, Ended
<1>5. CASE zombie_get_stats
  <2>1. pc = "call" /\ reaped' = created /\ UNCHANGED <<kernelVars, created>>
    BY <1>5 DEF zombie_get_stats
  <2>2. WaitedForAll'
    BY <1>0, <2>1 DEF WaitedForAll, kernelVars
  <2> QED
    BY <1>0, <1>1, <2>1, <2>2, GotoStep DEF reaperVars, kernelVars, control, Ended
<1>6. CASE caller_returns
  BY <1>0, <1>6, ExitStep DEF caller_returns, progVars, Ended
<1> HIDE DEF IInv
<1> QED
  BY <1>2, <1>3, <1>4, <1>5, <1>6 DEF LibNext

\* A wait that returns with child c.
LEMMA CollectedStep ==
  ASSUME IInv, program \in Demos, pc = "wait", i < NUM_CHILDREN,
         NEW c \in Zombies, Collected(c), program = "sisops" => c = i + 1,
         UNCHANGED <<reaperVars, libVars, daemonVars, scanVars>>
  PROVE  IInv'
<1> USE Numbers DEF IInv, Collected, signals, reaperVars, libVars, daemonVars, Ended
<1>1. /\ c \in Child /\ proc[c] = "zombie" /\ proc'[c] = "reaped"
      /\ proc' \in [Child -> {"unborn", "alive", "zombie", "reaped", "adopted"}]
      /\ \A d \in Child : d # c => proc'[d] = proc[d]
  BY Reaped DEF Zombies
<1>2. /\ i \in Nat /\ reported \in Seq(Child) /\ reported' = Append(reported, c)
      /\ Len(reported) = i /\ Cardinality({d \in Child : proc[d] = "reaped"}) = i
  BY DEF TypeOK, KernelTypeOK, Reporting, Collecting
<1>3. /\ reported' \in Seq(Child) /\ Len(reported') = i + 1
      /\ DOMAIN reported' = 1 .. i + 1 /\ reported'[i + 1] = c
      /\ \A k \in 1 .. i : reported'[k] = reported[k] /\ reported[k] \in Child
  BY <1>1, <1>2
<1>4. TypeOK'
  BY <1>1, <1>2, <1>3 DEF TypeOK, KernelTypeOK, scanVars, detectorVars
<1>5. Signals' /\ Forked' /\ WaitedForAll' /\ Naps'
  BY <1>1 DEF Signals, Forked, WaitedForAll, Naps, Zombies, Demos
<1>6. Reporting'
  <2>1. Cardinality({d \in Child : proc'[d] = "reaped"}) = i + 1
    BY <1>1, <1>2, OneMore
  <2>2. \A k \in 1 .. i : proc[reported[k]] = "reaped" /\ proc'[reported[k]] = "reaped"
    <3>1. DOMAIN reported = 1 .. i
      BY <1>2
    <3>2. \A k \in DOMAIN reported : proc[reported[k]] = "reaped"
      BY DEF Reporting
    <3> QED
      BY <1>1, <1>3, <3>1, <3>2
  <2>3. \A k \in DOMAIN reported' : proc'[reported'[k]] = "reaped"
    BY <1>1, <1>2, <1>3, <2>2
  <2>4. \A j, k \in DOMAIN reported' : reported'[j] = reported'[k] => j = k
    <3>1. \A k \in 1 .. i : reported[k] # c
      BY <1>1, <2>2
    <3>2. \A j, k \in 1 .. i : reported[j] = reported[k] => j = k
      BY <1>2 DEF Reporting
    <3> QED
      BY <1>2, <1>3, <3>1, <3>2
  <2>5. program = "sisops" => \A k \in DOMAIN reported' : reported'[k] = k
    <3>1. program = "sisops" => \A k \in 1 .. i : reported[k] = k
      BY <1>2 DEF Reporting
    <3> QED
      BY <1>2, <1>3, <3>1
  <2>6. i' \in 0 .. NUM_CHILDREN /\ i' = i + 1 /\ pc' = "wait" /\ program' = program
    BY <1>2
  <2> QED
    BY <1>3, <2>1, <2>3, <2>4, <2>5, <2>6 DEF Reporting, Collecting
<1>7. (Stale /\ OldAreDead /\ Passed)'
  BY <1>1, DetectorRests
<1> QED
  BY <1>4, <1>5, <1>6, <1>7

LEMMA WaitStep ==
  ASSUME IInv, Waiter
  PROVE  IInv'
<1> USE DEF Waiter, At
<1>1. CASE demo_fork
  BY <1>1, ForkLoopStep DEF demo_fork, progVars, Forkers
<1>2. CASE wait_in_order
  BY <1>2, CollectedStep DEF wait_in_order, Demos
<1>3. CASE wait_any
  BY <1>3, CollectedStep DEF wait_any, Demos
<1>4. CASE demo_return
  BY <1>4, ExitStep DEF demo_return, progVars, Ended, Demos
<1> QED
  BY <1>1, <1>2, <1>3, <1>4 DEF WaitNext

LEMMA DaemonStep ==
  ASSUME IInv, Daemon
  PROVE  IInv'
<1> USE Numbers DEF IInv, Daemon, At, Goto, kids, signals, daemonVars
<1>0. program = "daemon" /\ program \notin Demos \cup Forkers
  BY DEF DaemonNext, setup_signals, daemonize, main_while, spawn_workers, nap_for, nap_over,
         shut_down, Kill, sigterm_handler, Demos, Forkers, Naps, TypeOK
<1>1. /\ i \in Nat /\ i + 1 \in Nat /\ naps \in Nat /\ naps + 1 \in Nat /\ deaths \in Nat
      /\ cut \in BOOLEAN /\ chld_pending \in BOOLEAN /\ keep_running \in BOOLEAN
  BY DEF TypeOK, KernelTypeOK
<1>2. ASSUME UNCHANGED <<program, kids, signals, reaperVars, libVars, waitVars, scanVars>>,
             ~Ended, pc' \notin {"end", "failed"}, Naps',
             i' \in Nat /\ naps' \in Nat /\ cut' \in BOOLEAN,
             keep_running' \in BOOLEAN /\ term' \in BOOLEAN /\ terminated' \in BOOLEAN
      PROVE  IInv'
  <2> USE <1>2 DEF reaperVars, libVars, waitVars, Ended
  <2>1. TypeOK'
    BY DEF TypeOK, KernelTypeOK, scanVars, detectorVars
  <2>2. Signals' /\ Forked' /\ WaitedForAll' /\ Reporting'
    BY <1>0 DEF Signals, Forked, WaitedForAll, Reporting, Zombies
  <2>3. (Stale /\ OldAreDead /\ Passed)'
    BY DetectorRests
  <2> QED
    BY <2>1, <2>2, <2>3
<1>3. term \in BOOLEAN /\ terminated \in BOOLEAN
  BY DEF TypeOK
<1>4. CASE setup_signals
  BY <1>0, <1>4, SetUpStep DEF setup_signals, progVars, Ended
<1>5. CASE daemonize
  <2>1. CASE Exit("failed")
    BY <1>0, <1>5, <2>1, ExitStep DEF daemonize, progVars, Ended
  <2>2. CASE Goto("loop") /\ UNCHANGED cut
    <3>1. Naps'
      BY <1>5, <2>2 DEF daemonize, Naps
    <3> QED
      BY <1>1, <1>2, <1>3, <1>5, <2>2, <3>1 DEF daemonize, Ended
  <2> QED
    BY <1>5, <2>1, <2>2 DEF daemonize
<1>6. CASE main_while
  <2>1. Naps'
    BY <1>0, <1>6 DEF main_while, Naps
  <2> QED
    BY <1>1, <1>2, <1>3, <1>6, <2>1 DEF main_while, Ended
<1>7. CASE spawn_workers
  <2> USE <1>7 DEF spawn_workers, reaperVars, libVars, waitVars
  <2>1. /\ proc' \in [Child -> {"unborn", "alive", "zombie", "reaped", "adopted"}]
        /\ \A d \in Child : \/ proc'[d] = proc[d]
                            \/ proc[d] # "adopted" /\ proc'[d] = "alive"
        /\ deaths' = B(chld_pending) /\ deaths' \in Nat
    <3>1. ASSUME NEW c \in Child, proc[c] \in {"unborn", "reaped"}, Fork(c)
          PROVE  /\ proc' \in [Child -> {"unborn", "alive", "zombie", "reaped", "adopted"}]
                 /\ \A d \in Child : \/ proc'[d] = proc[d]
                                     \/ proc[d] # "adopted" /\ proc'[d] = "alive"
                 /\ deaths' = B(chld_pending) /\ deaths' \in Nat
      BY <3>1, Forks
    <3>2. CASE UNCHANGED proc /\ deaths' = IF chld_pending THEN 1 ELSE 0
      BY <3>2 DEF B, TypeOK, KernelTypeOK
    <3> QED
      BY <3>1, <3>2
  <2>2. TypeOK'
    BY <2>1 DEF TypeOK, KernelTypeOK, scanVars, detectorVars
  <2>3. Signals' /\ Forked' /\ WaitedForAll' /\ Reporting'
    BY <1>0, <2>1 DEF Signals, Forked, WaitedForAll, Reporting, Zombies, Ended
  <2>4. Naps'
    BY <1>0, <1>1, <2>1 DEF Naps, B
  <2>5. (Stale /\ OldAreDead /\ Passed)'
    <3>1. old = {}
      BY <1>0 DEF OldAreDead
    <3> QED
      BY <3>1, DetectorRests
  <2> QED
    BY <2>2, <2>3, <2>4, <2>5
<1>8. CASE nap_for
  <2>1. Naps'
    BY <1>0, <1>1, <1>8 DEF nap_for, Naps, B
  <2> QED
    BY <1>1, <1>2, <1>3, <1>8, <2>1 DEF nap_for, Ended
<1>9. CASE nap_over
  <2>1. Naps'
    BY <1>0, <1>1, <1>9 DEF nap_over, Naps, B
  <2> QED
    BY <1>1, <1>2, <1>3, <1>9, <2>1 DEF nap_over, Ended
<1>10. CASE shut_down
  BY <1>0, <1>10, ExitStep DEF shut_down, progVars, Ended
<1>11. CASE Kill
  <2>1. Naps'
    BY <1>11 DEF Kill, kernelVars, control, Naps
  <2> QED
    BY <1>1, <1>2, <1>3, <1>11, <2>1 DEF Kill, kernelVars, control, Ended
<1>12. CASE sigterm_handler
  <2>1. Naps'
    BY <1>0, <1>1, <1>12 DEF sigterm_handler, Naps, Sleeping
  <2> QED
    BY <1>1, <1>2, <1>3, <1>12, <2>1 DEF sigterm_handler, Ended
<1> HIDE DEF IInv
<1> QED
  BY <1>4, <1>5, <1>6, <1>7, <1>8, <1>9, <1>10, <1>11, <1>12 DEF DaemonNext

LEMMA ScanStep ==
  ASSUME IInv, Scan
  PROVE  IInv'
<1> USE Numbers DEF IInv, Scan, At, Detecting, scanVars
<1>0. program = "creator" /\ program \notin Demos \cup {"zombie_reaper", "daemon"}
  BY DEF ScanNext, create_zombies, creator_enter, OtherMoves, open_proc, open_stat, find_zombies,
         Demos
<1>1. CASE create_zombies
  BY <1>1, ForkLoopStep DEF create_zombies, progVars, Forkers
<1>2. CASE creator_enter
  BY <1>0, <1>2, ExitStep DEF create_zombies, creator_enter, progVars, Ended
<1>3. ASSUME UNCHANGED <<kernelVars, name, reaperVars, libVars, waitVars, daemonVars>>,
             other' \in [Other -> {"alive", "zombie", "gone"}],
             scan' \in {"before", "reading", "opened", "done"},
             pos' \in Pid \cup {0}, state' \in {"Z", "S"}, pid' \in Pid \cup {Garbage},
             zombie_list' \in Seq(Pid \cup {Garbage}), old' \subseteq Pid,
             Stale', OldAreDead', Passed'
      PROVE  IInv'
  <2> USE <1>3 DEF kernelVars, kids, signals, control, reaperVars, libVars, waitVars, daemonVars
  <2>1. TypeOK'
    BY DEF TypeOK, KernelTypeOK
  <2>2. Signals' /\ Forked' /\ WaitedForAll' /\ Naps' /\ Reporting'
    BY <1>0 DEF Signals, Forked, WaitedForAll, Naps, Reporting, Zombies, Ended
  <2> QED
    BY <2>1, <2>2
<1>4. /\ other \in [Other -> {"alive", "zombie", "gone"}]
      /\ scan \in {"before", "reading", "opened", "done"}
      /\ pos \in Pid \cup {0} /\ state \in {"Z", "S"} /\ pid \in Pid \cup {Garbage}
      /\ zombie_list \in Seq(Pid \cup {Garbage}) /\ old \subseteq Pid
      /\ Len(zombie_list) \in Nat
  BY DEF TypeOK
<1>5. CASE OtherMoves
  <2> USE <1>5 DEF OtherMoves, detectorVars
  <2>1. /\ other' \in [Other -> {"alive", "zombie", "gone"}]
        /\ \A p \in Other : \/ other'[p] = other[p]
                            \/ other[p] = "alive" /\ other'[p] = "zombie"
                            \/ other[p] = "zombie" /\ other'[p] = "gone"
    BY <1>4
  <2>2. proc' = proc
    BY DEF kernelVars, kids
  <2>3. \A p \in Pid : \/ Life(p)' = Life(p)
                       \/ Life(p) = "alive"
                       \/ Life(p)' = "gone"
    BY <2>1, <2>2 DEF Life, Pid
  <2>4. \A p \in Pid : OneWord(p)' <=> OneWord(p)
    BY DEF OneWord
  <2>5. Stale' /\ OldAreDead' /\ Passed'
    <3>1. program' = program
      BY DEF kernelVars
    <3>2. Stale'
      BY DEF Stale
    <3>3. OldAreDead'
      BY <1>4, <2>3, <3>1 DEF OldAreDead
    <3>4. Passed'
      BY <1>4, <2>3, <2>4 DEF OldAreDead, Passed
    <3> QED
      BY <3>2, <3>3, <3>4
  <2> QED
    BY <1>3, <1>4, <2>1, <2>5
<1>6. CASE open_proc
  <2> USE <1>6 DEF open_proc
  <2>1. proc' = proc /\ program' = program
    BY DEF kernelVars, kids
  <2>2. old' \subseteq Pid /\ \A p \in old' : Life(p) = "zombie" /\ Life(p)' = "zombie"
    BY <2>1 DEF Life
  <2>3. Stale' /\ OldAreDead'
    BY <1>0, <2>1, <2>2 DEF Stale, OldAreDead
  <2>4. Passed'
    <3>1. pos = 0
      BY DEF Passed
    <3>2. \A p \in old' : p \in Nat \ {0} /\ ~ (p < pos) /\ p # pos
      BY <2>2, <3>1
    <3> QED
      BY <3>2 DEF Passed
  <2> QED
    BY <1>3, <1>4, <2>2, <2>3, <2>4
<1>7. CASE open_stat
  <2> DEFINE left == {p \in Pid : p > pos /\ Exists(p)}
  <2> USE <1>7 DEF open_stat
  <2>1. proc' = proc /\ program' = program /\ (\A p \in Pid : Life(p)' = Life(p))
    BY DEF kernelVars, kids, Life
  <2>2. \A p \in Pid : OneWord(p)' <=> OneWord(p)
    BY DEF OneWord
  <2>3. left \in SUBSET Nat /\ left \subseteq Pid /\ pos \in Nat
    <3>1. Pid \subseteq Nat
      BY Numbers
    <3>2. pos \in Pid \cup {0}
      BY DEF IInv, TypeOK
    <3>3. left \subseteq Pid
      OBVIOUS
    <3>4. left \in SUBSET Nat
      BY <3>1, <3>3
    <3>5. pos \in Nat
      BY <3>1, <3>2
    <3> QED
      BY <3>3, <3>4, <3>5
  <2>4. \/ pos' \in left /\ scan' = "opened" /\ \A p \in left : pos' <= p
        \/ left = {} /\ pos' = pos /\ scan' = "done"
    <3>1. CASE left # {}
      <4>1. pos' = Min(left) /\ scan' = "opened"
        BY <3>1
      <4> HIDE DEF left
      <4> QED
        BY <2>3, <3>1, <4>1, MinOfNats
    <3>2. CASE left = {}
      BY <3>2
    <3> QED
      BY <3>1, <3>2
  <2>5. Stale' /\ OldAreDead'
    BY <1>4, <2>1 DEF Stale, OldAreDead
  <2>6. \A p \in old : Life(p) = "zombie" =>
          \/ p \in left
          \/ p < pos \/ p = pos
    BY <1>4, <2>3 DEF Exists
  <2>7. Passed'
    <3> SUFFICES ASSUME NEW p \in old, scan' = "done" \/ p < pos',
                        OneWord(p), Life(p) = "zombie"
                 PROVE  Len(zombie_list) = MAX_ZOMBIES \/ p \in Range(zombie_list)
      BY <1>4, <2>1, <2>2, <2>4 DEF Passed
    <3>1. p \notin left
      BY <1>4, <2>3, <2>4
    <3>2. p < pos \/ p = pos
      BY <2>6, <3>1
    <3> QED
      BY <3>2 DEF Passed
  <2>8. pos' \in Pid \cup {0}
    BY <1>4, <2>3, <2>4
  <2> QED
    BY <1>3, <1>4, <2>5, <2>7, <2>8
<1>8. CASE find_zombies
  <2> USE <1>8 DEF find_zombies
  <2>1. proc' = proc /\ program' = program /\ (\A p \in Pid : Life(p)' = Life(p))
    BY DEF kernelVars, kids, Life
  <2>2. \A p \in Pid : OneWord(p)' <=> OneWord(p)
    BY DEF OneWord
  <2>3. pos \in Pid
    BY DEF Passed
  <2>4. state' \in {"Z", "S"} /\ pid' \in Pid \cup {Garbage}
    BY <1>4, <2>3 DEF Letter
  <2>5. CASE state' = "Z" /\ Len(zombie_list) < MAX_ZOMBIES
    <3>1. zombie_list' = Append(zombie_list, pid')
      BY <2>5
    <3>2. /\ zombie_list' \in Seq(Pid \cup {Garbage}) /\ Len(zombie_list') = Len(zombie_list) + 1
          /\ DOMAIN zombie_list' = 1 .. Len(zombie_list) + 1
          /\ zombie_list'[Len(zombie_list) + 1] = pid'
          /\ \A k \in 1 .. Len(zombie_list) : zombie_list'[k] = zombie_list[k]
      BY <1>4, <2>4, <3>1
    <3>3. pid' \in Range(zombie_list') /\ Range(zombie_list) \subseteq Range(zombie_list')
      <4>1. DOMAIN zombie_list = 1 .. Len(zombie_list)
        BY <1>4
      <4> QED
        BY <1>4, <3>2, <4>1 DEF Range
    <3>4. Stale'
      BY <1>4, <2>5, <3>2, <3>3 DEF Stale
    <3>5. OldAreDead'
      BY <1>4, <2>1 DEF OldAreDead
    <3>6. Exists(pos) => pid' = pos
      OBVIOUS
    <3>7. Passed'
      <4> SUFFICES ASSUME NEW p \in old, p < pos \/ p = pos, OneWord(p), Life(p) = "zombie"
                   PROVE  Len(zombie_list') = MAX_ZOMBIES \/ p \in Range(zombie_list')
        BY <1>4, <2>1, <2>2 DEF Passed
      <4>1. CASE p < pos
        BY <2>5, <3>3, <4>1 DEF Passed
      <4>2. CASE p = pos
        BY <3>3, <3>6, <4>2 DEF Exists
      <4> QED
        BY <4>1, <4>2
    <3> QED
      BY <1>3, <1>4, <2>4, <3>2, <3>4, <3>5, <3>7
  <2>6. CASE ~ (state' = "Z" /\ Len(zombie_list) < MAX_ZOMBIES)
    <3>1. zombie_list' = zombie_list
      BY <2>6
    <3>2. Stale'
      BY <2>6, <3>1 DEF Stale
    <3>3. OldAreDead'
      BY <1>4, <2>1 DEF OldAreDead
    <3>4. Passed'
      <4> SUFFICES ASSUME NEW p \in old, p < pos \/ p = pos, OneWord(p), Life(p) = "zombie"
                   PROVE  Len(zombie_list) = MAX_ZOMBIES \/ p \in Range(zombie_list)
        BY <1>4, <2>1, <2>2, <3>1 DEF Passed
      <4>1. CASE p < pos
        BY <4>1 DEF Passed
      <4>2. CASE p = pos
        <5>1. state' = "Z"
          BY <4>2 DEF Exists, Letter
        <5> QED
          BY <1>4, <2>6, <5>1 DEF Stale
      <4> QED
        BY <4>1, <4>2
    <3> QED
      BY <1>3, <1>4, <2>4, <3>1, <3>2, <3>3, <3>4
  <2> QED
    BY <2>5, <2>6
<1> HIDE DEF IInv
<1> QED
  BY <1>1, <1>2, <1>5, <1>6, <1>7, <1>8 DEF ScanNext

LEMMA StepIInv == IInv /\ [Next]_vars => IInv'
<1> SUFFICES ASSUME IInv, [Next]_vars PROVE IInv'
  OBVIOUS
<1>1. CASE Kernel
  <2>1. CASE DeliverSigchld
    BY <1>1, <2>1, DeliverStep DEF Kernel
  <2>2. ASSUME NEW c \in Child, Dies(c)
        PROVE  IInv'
    BY <1>1, <2>2, DiesStep DEF Kernel
  <2> QED
    BY <1>1, <2>1, <2>2 DEF Kernel
<1>2. CASE UNCHANGED vars
  <2> USE <1>2 DEF vars, kernelVars, kids, signals, control, progVars, reaperVars, libVars,
                   waitVars, daemonVars, scanVars, detectorVars
  <2>1. TypeOK'
    BY DEF IInv, TypeOK, KernelTypeOK
  <2>2. Signals' /\ Forked' /\ WaitedForAll'
    BY DEF IInv, Signals, Forked, WaitedForAll, Zombies, Ended
  <2>3. Naps' /\ Reporting'
    BY DEF IInv, Naps, Reporting, Collecting
  <2>4. (Stale /\ OldAreDead /\ Passed)'
    BY DetectorRests
  <2> QED
    BY <2>1, <2>2, <2>3, <2>4 DEF IInv
<1> QED
  BY <1>1, <1>2, HandlerStep, ReaperStep, LibStep, WaitStep, DaemonStep, ScanStep DEF Next

-----------------------------------------------------------------------------
(* The theorems.                                                            *)

\* The invariant holds in every reachable state, for every number of children,
\* of checks, of naps, of other processes and of slots in the list.
THEOREM ZombieprocInvariance == Spec => []IInv
BY InitIInv, StepIInv, PTL DEF Spec

\* Every variable keeps its type, in all six programs.
THEOREM ZombieprocTypeCorrect == Spec => []TypeOK
<1>1. IInv => TypeOK
  BY DEF IInv
<1> QED
  BY <1>1, ZombieprocInvariance, PTL

\* However the signals merge, one loop of waitpid per handler leaves no zombie
\* of after the set-up without a handler at work or about to be called
\* (zombie_reaper.c:38, process_daemon.c:38, zombie.c:24).
THEOREM ZombiesAreCovered == Spec => []CoveredAfterSetUp
<1>1. IInv => CoveredAfterSetUp
  BY DEF IInv, Signals, CoveredAfterSetUp, TypeOK, KernelTypeOK
<1> QED
  BY <1>1, ZombieprocInvariance, PTL

\* The loops of wait() and waitpid() leave no child behind (zombie_reaper.c:21,
\* sisops/procman.c:71, procman.c:36).
THEOREM LoopsWaitForAll == Spec => []WaitedForAll
<1>1. IInv => WaitedForAll
  BY DEF IInv
<1> QED
  BY <1>1, ZombieprocInvariance, PTL

\* The demonstrations print each child once, the first in the order of creation.
THEOREM EachReportedOnce == Spec => []ReportedOnce
<1>1. IInv => ReportedOnce
  BY DEF IInv, Reporting, ReportedOnce
<1> QED
  BY <1>1, ZombieprocInvariance, PTL

\* Between two workers the daemon sleeps WORKER_INTERVAL seconds, less one for
\* each worker that has died meanwhile (process_daemon.c:160).
THEOREM NapsAreKept == Spec => []IntervalKept
<1>1. IInv => IntervalKept
  <2> SUFFICES ASSUME IInv, program = "daemon", pc = "loop", keep_running, i > 0
               PROVE  naps + deaths >= WORKER_INTERVAL
    BY DEF IntervalKept
  <2>1. naps \in Nat /\ deaths \in Nat /\ i \in Nat /\ B(chld_pending) \in {0, 1}
    BY DEF IInv, TypeOK, KernelTypeOK, B
  <2>2. i = WORKER_INTERVAL /\ naps + deaths >= i + B(chld_pending)
    BY DEF IInv, Naps
  <2> QED
    BY <2>1, <2>2
<1> QED
  BY <1>1, ZombieprocInvariance, PTL

\* A scan finds the zombies that there were before it and still are after it.
THEOREM OldZombiesAreFound == Spec => []ScanFindsOld
<1>1. IInv => ScanFindsOld
  BY DEF IInv, Passed, ScanFindsOld
<1> QED
  BY <1>1, ZombieprocInvariance, PTL

\* No step of the detector adds a process that is no zombie and has not been
\* added before, names with a space aside, although pid and state may be those
\* of an earlier process or of none (zombie_detector.c:59-72).
THEOREM OnlyZombiesAreAdded == Spec => ScanAddsZombies
<1> DEFINE Added == \A k \in DOMAIN zombie_list' \ DOMAIN zombie_list :
                      LET p == zombie_list'[k] IN
                        \/ p = Garbage
                        \/ p \in Range(zombie_list)
                        \/ OneWord(p) => Life(p) = "zombie"
<1>1. IInv /\ [Next]_vars => [Added]_vars
  <2> SUFFICES ASSUME IInv, Next PROVE Added
    OBVIOUS
  <2>1. CASE find_zombies
    <3> SUFFICES ASSUME NEW k \in DOMAIN zombie_list' \ DOMAIN zombie_list
                 PROVE  \/ zombie_list'[k] = Garbage
                        \/ zombie_list'[k] \in Range(zombie_list)
                        \/ OneWord(zombie_list'[k]) => Life(zombie_list'[k]) = "zombie"
      OBVIOUS
    <3>1. state' = "Z" /\ Len(zombie_list) < MAX_ZOMBIES
          /\ zombie_list' = Append(zombie_list, pid')
      BY <2>1 DEF find_zombies
    <3>2. zombie_list \in Seq(Pid \cup {Garbage}) /\ pid' \in Pid \cup {Garbage}
      <4>1. scan = "opened"
        BY <2>1 DEF find_zombies, Detecting
      <4>2. pid' = pos \/ pid' = pid
        BY <2>1 DEF find_zombies
      <4> QED
        BY <4>1, <4>2 DEF IInv, TypeOK, Passed
    <3>3. zombie_list'[k] = pid'
      BY <3>1, <3>2
    <3>4. CASE Exists(pos)
      BY <2>1, <3>1, <3>3, <3>4 DEF find_zombies, Letter
    <3>5. CASE ~Exists(pos)
      BY <2>1, <3>1, <3>3, <3>5 DEF find_zombies, IInv, Stale
    <3> QED
      BY <3>4, <3>5
  <2>2. CASE ~find_zombies
    <3>1. zombie_list' = zombie_list
      BY <2>2 DEF Next, Kernel, Handler, Reaper, Lib, Waiter, Daemon, Scan, ScanNext, progVars,
                  scanVars, detectorVars, create_zombies, creator_enter, OtherMoves, open_proc,
                  open_stat
    <3> QED
      BY <3>1
  <2> QED
    BY <2>1, <2>2
<1> QED
  BY <1>1, ZombieprocInvariance, PTL DEF Spec, ScanAddsZombies

=============================================================================
