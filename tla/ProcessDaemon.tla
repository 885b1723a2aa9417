--------------------------- MODULE ProcessDaemon ----------------------------
(***************************************************************************)
(* process_daemon.c: a daemon that starts a worker, naps for               *)
(* WORKER_INTERVAL seconds in sleeps of one second, and so on until        *)
(* SIGTERM; SIGCHLD and SIGTERM cut the sleep under way.                   *)
(***************************************************************************)
EXTENDS ForkKernel

CONSTANT WORKER_INTERVAL  \* 5 in the code

ASSUME DaemonAssumption == WORKER_INTERVAL \in Nat

VARIABLES
  keep_running,  \* the flag of that name
  term,          \* SIGTERM pending
  terminated,    \* history: SIGTERM has been sent
  naps           \* history: seconds slept in full since the last worker

daemonVars == <<keep_running, term, terminated, naps>>

DaemonInit == keep_running = TRUE /\ term = FALSE /\ terminated = FALSE /\ naps = 0

setup_signals ==
  /\ At("daemon", "start")
  /\ SetUp("handler", "daemonize")
  /\ UNCHANGED daemonVars

\* Two forks, whose parents exit: the daemon starts with no child.  It fails
\* when a fork or setsid does.
daemonize ==
  /\ At("daemon", "daemonize")
  /\ \/ Goto("loop") /\ UNCHANGED cut
     \/ Exit("failed")
  /\ UNCHANGED daemonVars

main_while ==
  /\ At("daemon", "loop")
  /\ \/ keep_running /\ Goto("spawn")
     \/ ~keep_running /\ Goto("closing")
  /\ UNCHANGED <<cut, daemonVars>>

\* A fork that fails is logged, and the loop goes on.  A worker's pid is that
\* of a child collected before, or a new one.
spawn_workers ==
  /\ At("daemon", "spawn")
  /\ \/ \E c \in Child : proc[c] \in {"unborn", "reaped"} /\ Fork(c)
     \/ UNCHANGED proc /\ deaths' = IF chld_pending THEN 1 ELSE 0
  /\ pc' = "nap" /\ i' = 0 /\ naps' = 0
  /\ UNCHANGED <<program, signals, cut, keep_running, term, terminated>>

\* Fault: the counter of the loop starts at 1.
nap_from_one ==
  /\ At("daemon", "nap")
  /\ \/ i + 1 < WORKER_INTERVAL /\ keep_running /\ Goto("asleep") /\ UNCHANGED i
     \/ (i + 1 >= WORKER_INTERVAL \/ ~keep_running) /\ pc' = "loop"
        /\ i' = WORKER_INTERVAL /\ UNCHANGED <<program, kids, signals>>
  /\ UNCHANGED <<cut, daemonVars>>

nap_for ==
  /\ At("daemon", "nap")
  /\ \/ i < WORKER_INTERVAL /\ keep_running /\ Goto("asleep")
     \/ (i = WORKER_INTERVAL \/ ~keep_running) /\ Goto("loop")
  /\ UNCHANGED <<cut, daemonVars>>

\* sleep(1) returns, and the loop counts a sleep that was cut like any other.
nap_over ==
  /\ At("daemon", "asleep")
  /\ pc' = "nap" /\ i' = i + 1 /\ cut' = FALSE
  /\ naps' = IF cut THEN naps ELSE naps + 1
  /\ UNCHANGED <<program, kids, signals, keep_running, term, terminated>>

shut_down == At("daemon", "closing") /\ Exit("end") /\ UNCHANGED daemonVars

\* Someone stops the daemon, whose pid exists once it has daemonized.
Kill ==
  /\ program = "daemon" /\ ~Ended /\ pc \notin {"start", "daemonize"}
  /\ term' = TRUE /\ terminated' = TRUE
  /\ UNCHANGED <<kernelVars, keep_running, naps>>

\* Fault: the handler only logs.
sigterm_logs ==
  /\ program = "daemon" /\ term /\ ~Ended
  /\ term' = FALSE
  /\ cut' = (cut \/ Sleeping)
  /\ UNCHANGED <<program, kids, signals, pc, i, keep_running, terminated, naps>>

\* It may run in the middle of anything, the SIGCHLD handler included.
sigterm_handler ==
  /\ program = "daemon" /\ term /\ ~Ended
  /\ term' = FALSE /\ keep_running' = FALSE
  /\ cut' = (cut \/ Sleeping)
  /\ UNCHANGED <<program, kids, signals, pc, i, terminated, naps>>

DaemonNext ==
  \/ setup_signals \/ daemonize \/ main_while \/ spawn_workers
  \/ nap_for \/ nap_over \/ shut_down \/ Kill \/ sigterm_handler

=============================================================================
