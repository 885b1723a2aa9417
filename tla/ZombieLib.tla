----------------------------- MODULE ZombieLib ------------------------------
(***************************************************************************)
(* zombie.c, the library, used by a program that makes its calls in any    *)
(* order: test_lib.c makes them in one of these orders.                    *)
(***************************************************************************)
EXTENDS ForkKernel

VARIABLES
  created,  \* stats.zombies_created (stats.zombies_active is always the same)
  reaped    \* the zombies_reaped that zombie_get_stats last gave its caller

libVars == <<created, reaped>>

LibInit == created = 0 /\ reaped = 0

\* is_initialized is set with the handler, and makes a second call do nothing.
zombie_init ==
  /\ At("libzombie", "call") /\ disp # "handler"
  /\ SetUp("handler", "call")
  /\ UNCHANGED libVars

\* zombie_safe_fork, and zombie_safe_spawn, whose parent only calls it.  When
\* fork fails nothing changes.
zombie_safe_fork ==
  /\ At("libzombie", "call") /\ i < NUM_CHILDREN
  /\ Fork(i + 1) /\ i' = i + 1
  /\ pc' = "count"
  /\ UNCHANGED <<program, signals, cut, libVars>>

\* Fault: a fork that failed is counted too.
count_failed_fork ==
  \/ /\ At("libzombie", "count") /\ Goto("call")
     /\ created' = created + 1 /\ UNCHANGED <<cut, reaped>>
  \/ /\ At("libzombie", "call") /\ created < NUM_CHILDREN
     /\ created' = created + 1
     /\ UNCHANGED <<kernelVars, reaped>>

count_child ==
  /\ At("libzombie", "count")
  /\ Goto("call")
  /\ created' = created + 1
  /\ UNCHANGED <<cut, reaped>>

zombie_get_stats ==
  /\ At("libzombie", "call")
  /\ reaped' = created
  /\ UNCHANGED <<kernelVars, created>>

caller_returns == At("libzombie", "call") /\ Exit("end") /\ UNCHANGED libVars

LibNext ==
  \/ zombie_init \/ zombie_safe_fork \/ count_child
  \/ zombie_get_stats \/ caller_returns

=============================================================================
