---------------------------- MODULE ZombieReaper ----------------------------
(***************************************************************************)
(* zombie_reaper.c: ten children, and one of three strategies to collect   *)
(* them, which is set up only after they have been forked and the parent   *)
(* has slept; then `ps` shows the zombies that are left.                   *)
(***************************************************************************)
EXTENDS ForkKernel

CONSTANT MAX_POLLS  \* checks for zombies before reap_explicit (5 in the code)

ASSUME ReaperAssumption == MAX_POLLS \in Nat

VARIABLES
  strategy,  \* the argument: 1, 2, 3 or something else
  shown      \* the zombies the final check prints

reaperVars == <<strategy, shown>>

ReaperInit == strategy \in 1 .. 4 /\ shown = {}

reaper_fork ==
  At("zombie_reaper", "fork") /\ ForkLoop("sleep1") /\ UNCHANGED reaperVars

\* sleep(1), then the switch; an unknown strategy leaves the children behind.
choose_strategy ==
  /\ At("zombie_reaper", "sleep1")
  /\ \/ strategy = 1 /\ Wake("poll")
     \/ strategy = 2 /\ Wake("set_up")
     \/ strategy = 3 /\ Wake("set_up")
     \/ strategy = 4 /\ Exit("failed")
  /\ UNCHANGED reaperVars

\* What `ps aux | awk '$8 == "Z"'` may print: zombies have state Z, but Z+, and
\* are not matched, when the program runs in the foreground of a terminal.
PsOutput == {Zombies, {}}

\* Fault: no limit to the number of checks.
poll_until_none ==
  /\ At("zombie_reaper", "poll")
  /\ \E seen \in PsOutput :
       \/ seen # {} /\ UNCHANGED kernelVars
       \/ seen = {} /\ Zombies = {} /\ Goto("reap") /\ UNCHANGED cut
  /\ UNCHANGED reaperVars

\* Strategy 1 looks for zombies, and goes on when it sees none or has looked
\* often enough.
poll_zombies ==
  /\ At("zombie_reaper", "poll")
  /\ \E seen \in PsOutput :
       \/ /\ i < MAX_POLLS /\ seen # {}
          /\ i' = i + 1
          /\ UNCHANGED <<program, kids, signals, pc, cut>>
       \/ /\ i = MAX_POLLS \/ seen = {}
          /\ Goto("reap") /\ UNCHANGED cut
  /\ UNCHANGED reaperVars

\* Fault: the loop ends when no child is dead yet.
reap_nohang ==
  /\ At("zombie_reaper", "reap")
  /\ \/ /\ \E c \in Zombies : Reap(c)
        /\ UNCHANGED <<program, deaths, signals, control>>
     \/ Zombies = {} /\ Goto("final") /\ UNCHANGED cut
  /\ UNCHANGED reaperVars

\* reap_explicit: wait() blocks while a child is alive; -1 ends the loop.
reap_explicit ==
  /\ At("zombie_reaper", "reap")
  /\ \/ /\ \E c \in Zombies : Reap(c)
        /\ UNCHANGED <<program, deaths, signals, control>>
     \/ Children = {} /\ Goto("final") /\ UNCHANGED cut
  /\ UNCHANGED reaperVars

setup_auto_reaper == At("zombie_reaper", "set_up") /\ strategy = 2
                     /\ SetUp("handler", "sleep5") /\ UNCHANGED reaperVars

setup_ignore_reaper == At("zombie_reaper", "set_up") /\ strategy = 3
                       /\ SetUp("ignore", "sleep5") /\ UNCHANGED reaperVars

let_children_exit ==
  At("zombie_reaper", "sleep5") /\ Wake("final") /\ UNCHANGED reaperVars

\* system("ps ..."): it blocks SIGCHLD, prints the zombies, and unblocks it;
\* the death of its own shell has made SIGCHLD pending by then.
final_check ==
  \/ /\ At("zombie_reaper", "final") /\ Goto("check")
     /\ UNCHANGED <<cut, reaperVars>>
  \/ /\ At("zombie_reaper", "check")
     /\ shown' \in PsOutput
     /\ pc' = "return"
     /\ chld_pending' = (disp = "handler")
     /\ UNCHANGED <<program, kids, disp, handling, stranded, i, cut, strategy>>

reaper_return ==
  At("zombie_reaper", "return") /\ Exit("end") /\ UNCHANGED reaperVars

ReaperNext ==
  \/ reaper_fork \/ choose_strategy \/ poll_zombies \/ reap_explicit
  \/ setup_auto_reaper \/ setup_ignore_reaper \/ let_children_exit
  \/ final_check \/ reaper_return

=============================================================================
