----------------------------- MODULE ForkKernel -----------------------------
(***************************************************************************)
(* What the programs of zombieproc and the fork demonstrations have in     *)
(* common: a parent that forks children, the kernel's side of fork, exit,  *)
(* wait and SIGCHLD, and the SIGCHLD handler that three of them install.   *)
(* The modules of the programs extend this one with their own steps.       *)
(*                                                                         *)
(* Time is left out: a child may die, and a sleep may end, at any moment,  *)
(* as with any scheduling of processes that sleep.                         *)
(***************************************************************************)
EXTENDS Integers, FiniteSets

CONSTANT NUM_CHILDREN  \* children a program forks (of the daemon: at a time)

ASSUME KernelAssumption == NUM_CHILDREN \in Nat \ {0}

Child == 1 .. NUM_CHILDREN  \* numbered in the order of the forks

VARIABLES
  program,       \* which program runs
  proc,          \* each child: unborn, alive, zombie, reaped or adopted by init
  disp,          \* what SIGCHLD does in the parent: default, handler or ignore
  chld_pending,  \* SIGCHLD pending (one bit)
  handling,      \* the SIGCHLD handler is running
  pc, i,         \* the parent's next step, and the index of its loop
  cut,           \* a signal has interrupted the sleep under way
  deaths,        \* history: children dead since the last fork, or signalled since
  stranded       \* history: zombies of before the set-up, no signal since

kids    == <<proc, deaths>>
signals == <<disp, chld_pending, handling, stranded>>
control == <<pc, i, cut>>
kernelVars == <<program, kids, signals, control>>

Ended    == pc \in {"end", "failed"}
Sleeping == pc \in {"sleep1", "sleep5", "asleep"}
Blocked  == pc = "check"  \* system() blocks SIGCHLD while its command runs

Zombies  == {c \in Child : proc[c] = "zombie"}
Children == {c \in Child : proc[c] \in {"alive", "zombie"}}

KernelInit ==
  /\ proc = [c \in Child |-> "unborn"]
  /\ disp = "default" /\ chld_pending = FALSE /\ handling = FALSE
  /\ i = 0 /\ cut = FALSE /\ deaths = 0 /\ stranded = {}

-----------------------------------------------------------------------------
(* The kernel.                                                             *)

\* A child exits.  It leaves a zombie unless its parent ignores SIGCHLD; the
\* default action of SIGCHLD is to do nothing.
Dies(c) ==
  /\ ~Ended /\ proc[c] = "alive"
  /\ proc' = [proc EXCEPT ![c] = IF disp = "ignore" THEN "reaped" ELSE "zombie"]
  /\ deaths' = deaths + 1
  /\ chld_pending' = (chld_pending \/ disp = "handler")
  /\ UNCHANGED <<program, disp, handling, stranded, control>>

\* The handler preempts the parent, and cuts a sleep short.
DeliverSigchld ==
  /\ ~Ended /\ ~Blocked /\ chld_pending /\ ~handling
  /\ chld_pending' = FALSE /\ handling' = TRUE /\ stranded' = {}
  /\ cut' = (cut \/ Sleeping)
  /\ UNCHANGED <<program, kids, disp, pc, i>>

Reap(c) == proc' = [proc EXCEPT ![c] = "reaped"]

Fork(c) == /\ proc' = [proc EXCEPT ![c] = "alive"]
           /\ deaths' = IF chld_pending THEN 1 ELSE 0

\* The parent exits: what it has not collected is left to init, which collects
\* it.
Exit(how) ==
  /\ pc' = how
  /\ proc' = [c \in Child |-> IF c \in Children THEN "adopted" ELSE proc[c]]
  /\ chld_pending' = FALSE
  /\ UNCHANGED <<program, deaths, disp, handling, stranded, i, cut>>

-----------------------------------------------------------------------------
(* Shared code.                                                            *)

\* Fault: one waitpid call per signal instead of a loop.
reap_once ==
  /\ ~Ended /\ handling
  /\ handling' = FALSE
  /\ \/ \E c \in Zombies : Reap(c)
     \/ Zombies = {} /\ UNCHANGED proc
  /\ UNCHANGED <<program, deaths, disp, chld_pending, stranded, control>>

\* sigchld_handler: an iteration of its waitpid(-1, WNOHANG) loop.
sigchld_handler ==
  /\ ~Ended /\ handling
  /\ \/ \E c \in Zombies : Reap(c) /\ UNCHANGED handling
     \/ Zombies = {} /\ handling' = FALSE /\ UNCHANGED proc
  /\ UNCHANGED <<program, deaths, disp, chld_pending, stranded, control>>

At(p, l) == program = p /\ pc = l /\ ~handling

\* A step of the parent that goes from one label to another.
Goto(l) == pc' = l /\ UNCHANGED <<program, kids, signals, i>>

\* sleep() returns, after its time or after a signal.
Wake(l) == Goto(l) /\ cut' = FALSE

\* SIGCHLD gets a handler, or is ignored, from here on.
SetUp(how, l) ==
  /\ disp' = how /\ stranded' = Zombies
  /\ pc' = l
  /\ UNCHANGED <<program, kids, chld_pending, handling, i, cut>>

\* for (i = 0; i < NUM_CHILDREN; i++) fork(): a fork that fails ends it all.
ForkLoop(l) ==
  \/ /\ i < NUM_CHILDREN
     /\ Fork(i + 1) /\ i' = i + 1
     /\ UNCHANGED <<program, signals, pc, cut>>
  \/ /\ i < NUM_CHILDREN
     /\ Exit("failed")
  \/ /\ i = NUM_CHILDREN
     /\ pc' = l /\ i' = 0
     /\ UNCHANGED <<program, kids, signals, cut>>

KernelTypeOK ==
  /\ proc \in [Child -> {"unborn", "alive", "zombie", "reaped", "adopted"}]
  /\ disp \in {"default", "handler", "ignore"}
  /\ chld_pending \in BOOLEAN /\ handling \in BOOLEAN
  /\ i \in Nat /\ cut \in BOOLEAN /\ deaths \in Nat
  /\ stranded \subseteq Child

=============================================================================
