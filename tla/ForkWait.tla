------------------------------ MODULE ForkWait ------------------------------
(***************************************************************************)
(* The two demonstrations of fork and wait: sisops/procman.c waits for its *)
(* children in the order of their creation, procman.c for any of them.     *)
(***************************************************************************)
EXTENDS ForkKernel, Sequences

VARIABLE reported  \* the children printed, by the number of the wait

waitVars == <<reported>>

WaitInit == reported = <<>>

Demos == {"sisops", "demo"}

demo_fork ==
  /\ \E p \in Demos : At(p, "fork")
  /\ ForkLoop("wait")
  /\ UNCHANGED waitVars

Collected(c) ==
  /\ Reap(c) /\ i' = i + 1
  /\ reported' = Append(reported, c)
  /\ UNCHANGED <<program, deaths, signals, pc, cut>>

\* Fault: the first demonstration calls wait() too.
wait_unordered ==
  /\ At("sisops", "wait") /\ i < NUM_CHILDREN
  /\ \E c \in Zombies : Collected(c)

\* waitpid(pids[i]) returns when that child is dead.
wait_in_order ==
  /\ At("sisops", "wait") /\ i < NUM_CHILDREN
  /\ i + 1 \in Zombies /\ Collected(i + 1)

\* Fault: wait() does not wait, and what it returns is recorded all the same.
wait_nohang ==
  /\ At("demo", "wait") /\ i < NUM_CHILDREN
  /\ \/ \E c \in Zombies : Collected(c)
     \/ /\ Zombies = {}
        /\ i' = i + 1 /\ reported' = Append(reported, 0)
        /\ UNCHANGED <<program, kids, signals, pc, cut>>

\* wait() returns with any dead child.
wait_any ==
  /\ At("demo", "wait") /\ i < NUM_CHILDREN
  /\ \E c \in Zombies : Collected(c)

demo_return ==
  /\ \E p \in Demos : At(p, "wait")
  /\ i = NUM_CHILDREN
  /\ Exit("end") /\ UNCHANGED waitVars

WaitNext == demo_fork \/ wait_in_order \/ wait_any \/ demo_return

=============================================================================
