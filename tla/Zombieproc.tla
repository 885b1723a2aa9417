----------------------------- MODULE Zombieproc -----------------------------
(***************************************************************************)
(* One of the programs of zombieproc, or of the demonstrations of fork and *)
(* wait, with the kernel: the composition of the modules it extends.       *)
(***************************************************************************)
EXTENDS ZombieReaper, ZombieLib, ForkWait, ProcessDaemon, ZombieScan, Functions

\* Where each program begins.
First == [zombie_reaper |-> "fork", libzombie |-> "call", sisops |-> "fork",
          demo |-> "fork", daemon |-> "start", creator |-> "fork"]

progVars == <<reaperVars, libVars, waitVars, daemonVars, scanVars>>
vars     == <<kernelVars, progVars>>

Init ==
  /\ program \in DOMAIN First /\ pc = First[program]
  /\ KernelInit
  /\ ReaperInit /\ LibInit /\ WaitInit /\ DaemonInit /\ ScanInit
  /\ program # "zombie_reaper" => strategy = 1
  /\ program # "creator" => /\ \A p \in Other : other[p] = "alive" /\ name[p] = "one"
                            /\ state = "S"

Kernel ==
  /\ DeliverSigchld \/ \E c \in Child : Dies(c)
  /\ UNCHANGED progVars

Handler == sigchld_handler /\ UNCHANGED progVars

\* The steps of the program that runs.
Reaper == ReaperNext /\ UNCHANGED <<libVars, waitVars, daemonVars, scanVars>>
Lib    == LibNext    /\ UNCHANGED <<reaperVars, waitVars, daemonVars, scanVars>>
Waiter == WaitNext   /\ UNCHANGED <<reaperVars, libVars, daemonVars, scanVars>>
Daemon == DaemonNext /\ UNCHANGED <<reaperVars, libVars, waitVars, scanVars>>
Scan   == ScanNext   /\ UNCHANGED <<reaperVars, libVars, waitVars, daemonVars>>

Next == Kernel \/ Handler \/ Reaper \/ Lib \/ Waiter \/ Daemon \/ Scan

Spec == Init /\ [][Next]_vars

\* Every process gets the processor: children end, pending signals are
\* delivered, sleeps end.  Nothing makes a user press Enter or call the
\* library, or someone stop the daemon.
FairSpec ==
  /\ Spec
  /\ \A c \in Child : WF_vars(Dies(c) /\ UNCHANGED progVars)
  /\ WF_vars(DeliverSigchld /\ UNCHANGED progVars)
  /\ WF_vars(Handler)
  /\ WF_vars(Reaper) /\ WF_vars(Waiter)
  /\ WF_vars(Lib /\ count_child)
  /\ WF_vars(Daemon /\ ~Kill /\ ~sigterm_handler)
  /\ WF_vars(Daemon /\ sigterm_handler)

-----------------------------------------------------------------------------
(* Safety.                                                                 *)

TypeOK ==
  /\ program \in DOMAIN First
  /\ KernelTypeOK
  /\ strategy \in 1 .. 4 /\ shown \subseteq Child
  /\ created \in Nat /\ reaped \in Nat
  /\ reported \in Seq(Child)
  /\ keep_running \in BOOLEAN /\ term \in BOOLEAN /\ terminated \in BOOLEAN
  /\ naps \in Nat
  /\ other \in [Other -> {"alive", "zombie", "gone"}]
  /\ name \in [Other -> {"one", "two", "twoZ"}]
  /\ scan \in {"before", "reading", "opened", "done"}
  /\ pos \in Pid \cup {0} /\ state \in {"Z", "S"}
  /\ pid \in Pid \cup {Garbage} /\ zombie_list \in Seq(Pid \cup {Garbage})
  /\ old \subseteq Pid

\* From the set-up on, a zombie is one of those that were there before it, or
\* a handler is at work or about to be called; when SIGCHLD is ignored no new
\* zombie appears (zombie_reaper.c:38, process_daemon.c:38, zombie.c:24: one
\* loop must serve any number of merged signals).
CoveredAfterSetUp ==
  disp # "default" /\ ~Ended =>
     Zombies \subseteq stranded \/ chld_pending \/ handling

\* Whoever waits in a loop leaves no child behind, zombie or alive, when the
\* loop ends: strategy 1 of the reaper, and the two demonstrations.
WaitedForAll ==
  \/ program = "zombie_reaper" /\ strategy = 1 /\ pc \in {"final", "check", "return"}
  \/ program \in Demos /\ pc = "end"
  => \A c \in Child : proc[c] = "reaped"

\* The demonstrations print each child once, and sisops/procman.c in the order
\* of creation, whatever the order they die in (the i-th name and start time
\* are printed with the i-th wait, sisops/procman.c:69-82).
ReportedOnce ==
  program \in Demos =>
     /\ \A j, k \in DOMAIN reported : reported[j] = reported[k] => j = k
     /\ program = "sisops" => \A k \in DOMAIN reported : reported[k] = k
     /\ pc = "end" => Len(reported) = NUM_CHILDREN

\* Signals cut the naps between two workers short, but only as many as workers
\* have died: the rest of the interval passes (process_daemon.c:160).
IntervalKept ==
  program = "daemon" /\ pc = "loop" /\ keep_running /\ i > 0 =>
     naps + deaths >= WORKER_INTERVAL

\* A process that was a zombie when the scan of /proc began, and still is when
\* it ends, is in the list unless the list is full; names with a space aside
\* (zombie_detector.c:59: %s stops there).
ScanFindsOld ==
  scan = "done" =>
     \A p \in old : OneWord(p) /\ Life(p) = "zombie" =>
        Len(zombie_list) = MAX_ZOMBIES \/ p \in Range(zombie_list)

\* What the detector adds to its list is a zombie now or, when the process has
\* gone before it was read, what is in the list already or was never read:
\* the pid and the state go stale together (zombie_detector.c:59-72).
ScanAddsZombies ==
  [][\A k \in DOMAIN zombie_list' \ DOMAIN zombie_list :
       LET p == zombie_list'[k] IN
         \/ p = Garbage
         \/ p \in Range(zombie_list)
         \/ OneWord(p) => Life(p) = "zombie"]_vars

-----------------------------------------------------------------------------
(* Liveness.                                                               *)

\* A child that dies after the set-up is collected, for as long as the program
\* runs (the daemon and the library may run for ever).
LateReaped ==
  \A c \in Child :
     disp # "default" /\ c \in Zombies \ stranded ~> c \notin Zombies

\* The reaper and the demonstrations end.
ProgramEnds == program \in Demos \cup {"zombie_reaper"} ~> Ended

\* What zombie_get_stats says has been reaped is reaped in the end, except for
\* the children that died before zombie_init (zombie.c:117: "all created are
\* eventually reaped").
StatsComeTrue ==
  \A c \in Child :
     program = "libzombie" /\ c <= reaped /\ disp = "handler" /\ c \notin stranded
       ~> proc[c] = "reaped" \/ Ended

\* After SIGTERM the daemon ends (process_daemon.c:47: graceful shutdown).
TermEnds == terminated ~> Ended

-----------------------------------------------------------------------------
(* What the repository says of these programs, and they do not do.         *)

\* "Verify no zombies" (zombie_reaper.c:138, tests/test_reaper.sh): the final
\* check shows none.
NoZombieShown == shown = {}

=============================================================================
