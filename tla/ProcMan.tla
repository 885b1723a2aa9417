------------------------------ MODULE ProcMan ------------------------------
(***************************************************************************)
(* The interactive process manager of lab2.2_procmangC/homework1: a shell  *)
(* that forks children, keeps them in a fixed table, and collects them     *)
(* from a SIGCHLD handler, from `kill` and `wait`, and from a SIGINT       *)
(* handler that shuts the program down.                                    *)
(*                                                                         *)
(* One thread of control is shared by three contexts: the shell ("main")   *)
(* and the two signal handlers ("chld" and "int"), each of which may       *)
(* preempt the others between any two steps, but never itself (both        *)
(* sa_masks are empty).  A step is the code between two points at which    *)
(* a handler could observe or change something the code depends on.        *)
(***************************************************************************)
EXTENDS Integers, FiniteSets

CONSTANTS
  MAX_PROCESSES, \* slots of process_table
  Pid,           \* pids the kernel hands out; a pid is never handed out twice
  Foreign,       \* pids of live processes that are not children of ProcMan
  NoPid,         \* the pid 0 of a free slot
  Stubborn,      \* children that ignore or block SIGTERM
  ExitCodes      \* codes a child may exit with

SIGKILL == 9
SIGTERM == 15

ASSUME ProcManAssumption ==
  /\ MAX_PROCESSES \in Nat \ {0}
  /\ NoPid \notin Pid \cup Foreign
  /\ Pid \cap Foreign = {}
  /\ Stubborn \subseteq Pid
  /\ ExitCodes \subseteq Nat

Slot    == 1 .. MAX_PROCESSES
Thread  == {"main", "int"}       \* the contexts that run command code
Status  == {"zeroed", "running", "terminated"}
ExitStatus == ExitCodes \cup {0, -SIGTERM, -SIGKILL}
Label   == {"idle", "prompt", "add_pid", "add_status", "kill_errno",
            "kill_wait", "remove", "list", "sigint", "wait", "wait_pid",
            "wait_rm"}

VARIABLES
  \* kernel
  proc,          \* each child: unborn, alive, zombie or reaped
  pend,          \* signals sent to each child and not yet acted on
  wstat,         \* the wait status of a dead child: exit code or -signal
  chld_pending,  \* SIGCHLD pending (one bit: signals do not queue)
  int_pending,   \* SIGINT pending
  \* globals of procman.c
  process_table, process_count, errno,
  \* control
  cpu,           \* the context that is running
  resume,        \* the context sigchld_handler preempted, or "none"
  pc, cur, idx,  \* per thread: next step, pid in hand, table index
  quitting,      \* the shell is inside sigint_handler, called by `quit`
  shutdown,      \* how the program ended, or "up"
  refused        \* history: children forked when the table was full

kernel  == <<proc, pend, wstat, chld_pending, int_pending>>
memory  == <<process_table, process_count, errno>>
control == <<cpu, resume, pc, cur, idx, quitting, shutdown, refused>>
vars    == <<kernel, memory, control>>

Entry == [pid : Pid \cup {NoPid}, status : Status, exit_status : ExitStatus]

TypeOK ==
  /\ proc \in [Pid -> {"unborn", "alive", "zombie", "reaped"}]
  /\ pend \in [Pid -> SUBSET {SIGKILL, SIGTERM}]
  /\ wstat \in [Pid -> ExitStatus]
  /\ chld_pending \in BOOLEAN /\ int_pending \in BOOLEAN
  /\ process_table \in [Slot -> Entry]
  /\ process_count \in Int
  /\ errno \in {"none", "ESRCH", "ECHILD", "EPERM"}
  /\ cpu \in {"main", "chld", "int"}
  /\ resume \in {"none", "main", "int"}
  /\ pc \in [Thread -> Label]
  /\ cur \in [Thread -> Pid \cup Foreign \cup {NoPid}]
  /\ idx \in [Thread -> 1 .. MAX_PROCESSES + 1]
  /\ quitting \in BOOLEAN
  /\ shutdown \in {"up", "safe", "eof", "killed"}
  /\ refused \subseteq Pid

Init ==
  /\ proc = [p \in Pid |-> "unborn"]
  /\ pend = [p \in Pid |-> {}]
  /\ wstat = [p \in Pid |-> 0]
  /\ chld_pending = FALSE /\ int_pending = FALSE
  /\ process_table =
       [s \in Slot |-> [pid |-> NoPid, status |-> "zeroed", exit_status |-> 0]]
  /\ process_count = 0
  /\ errno = "none"
  /\ cpu = "main" /\ resume = "none"
  /\ pc = [w \in Thread |-> IF w = "main" THEN "prompt" ELSE "idle"]
  /\ cur = [w \in Thread |-> NoPid]
  /\ idx = [w \in Thread |-> 1]
  /\ quitting = FALSE
  /\ shutdown = "up"
  /\ refused = {}

-----------------------------------------------------------------------------
(* The process table.  A search returns the set holding the first slot     *)
(* that matches; the empty set is the code's -1.                           *)

Occupied == {s \in Slot : process_table[s].pid # NoPid}

First(p) == {s \in Slot : /\ process_table[s].pid = p
                          /\ \A t \in 1 .. s - 1 : process_table[t].pid # p}

find_free_slot       == First(NoPid)
find_process_slot(p) == First(p)

\* Fault: the exit code is not stored.
no_code(p, code) ==
  \/ find_process_slot(p) = {} /\ UNCHANGED process_table
  \/ \E s \in find_process_slot(p) :
       process_table' = [process_table EXCEPT ![s].status = "terminated"]

update_process_status(p, code) ==
  \/ find_process_slot(p) = {} /\ UNCHANGED process_table
  \/ \E s \in find_process_slot(p) :
       process_table' = [process_table EXCEPT ![s] =
         [pid |-> p, status |-> "terminated", exit_status |-> code]]

remove_process_from_table(p) ==
  \/ find_process_slot(p) = {} /\ UNCHANGED <<process_table, process_count>>
  \/ \E s \in find_process_slot(p) :
       /\ process_table' = [process_table EXCEPT ![s].pid = NoPid]
       /\ process_count' = process_count - 1

Running(s) == /\ process_table[s].pid # NoPid
              /\ process_table[s].status = "running"

-----------------------------------------------------------------------------
(* Kernel and environment.                                                 *)

Dies(p, code) ==
  /\ shutdown = "up"
  /\ proc[p] = "alive"
  /\ proc' = [proc EXCEPT ![p] = "zombie"]
  /\ pend' = [pend EXCEPT ![p] = {}]
  /\ wstat' = [wstat EXCEPT ![p] = code]
  /\ chld_pending' = TRUE
  /\ UNCHANGED <<int_pending, memory, control>>

ChildExits(p)  == \E code \in ExitCodes : Dies(p, code)

ChildKilled(p) == \E sig \in pend[p] :
                    /\ sig = SIGKILL \/ p \notin Stubborn
                    /\ Dies(p, -sig)

CtrlC ==
  /\ shutdown = "up"
  /\ ~int_pending /\ pc["int"] = "idle"
  /\ int_pending' = TRUE
  /\ UNCHANGED <<proc, pend, wstat, chld_pending, memory, control>>

\* SIGCHLD preempts the shell or the SIGINT handler, not itself.
DeliverSigchld ==
  /\ shutdown = "up"
  /\ chld_pending /\ resume = "none"
  /\ chld_pending' = FALSE
  /\ resume' = cpu
  /\ cpu' = "chld"
  /\ UNCHANGED <<proc, pend, wstat, int_pending, memory, pc, cur, idx,
                 quitting, shutdown, refused>>

\* SIGINT preempts the shell or the SIGCHLD handler and never returns.
DeliverSigint ==
  /\ shutdown = "up"
  /\ int_pending /\ pc["int"] = "idle"
  /\ int_pending' = FALSE
  /\ cpu' = "int"
  /\ pc' = [pc EXCEPT !["int"] = "sigint"]
  /\ idx' = [idx EXCEPT !["int"] = 1]
  /\ UNCHANGED <<proc, pend, wstat, chld_pending, memory, resume, cur,
                 quitting, shutdown, refused>>

\* kill(p, sig) on a child that still exists.
Signal(p, sig) ==
  pend' = IF p \in Pid /\ proc[p] = "alive"
          THEN [pend EXCEPT ![p] = @ \cup {sig}] ELSE pend

Zombies  == {p \in Pid : proc[p] = "zombie"}
Children == {p \in Pid : proc[p] \in {"alive", "zombie"}}

Exists(p) == p \in Foreign \cup Children

Reap(p) == proc' = [proc EXCEPT ![p] = "reaped"]

-----------------------------------------------------------------------------
(* sigchld_handler: one iteration of its waitpid(-1, WNOHANG) loop.        *)

Return == /\ cpu' = resume
          /\ resume' = "none"
          /\ UNCHANGED <<pc, cur, idx, quitting, shutdown, refused>>

\* Fault: one waitpid call per signal instead of a loop.
reap_once ==
  /\ shutdown = "up" /\ cpu = "chld"
  /\ \/ \E p \in Zombies : Reap(p) /\ update_process_status(p, wstat[p])
     \/ Zombies = {} /\ UNCHANGED <<proc, process_table>>
  /\ Return
  /\ UNCHANGED <<pend, wstat, chld_pending, int_pending, process_count, errno>>

sigchld_handler ==
  /\ shutdown = "up" /\ cpu = "chld"
  /\ \/ \E p \in Zombies :
          /\ Reap(p)
          /\ update_process_status(p, wstat[p])
          /\ UNCHANGED <<errno, control>>
     \/ /\ Zombies = {}
        /\ errno' = IF Children = {} THEN "ECHILD" ELSE errno
        /\ Return
        /\ UNCHANGED <<proc, process_table>>
  /\ UNCHANGED <<pend, wstat, chld_pending, int_pending, process_count>>

-----------------------------------------------------------------------------
(* Command code.  At(w, l): thread w has the processor and is at step l.   *)

At(w, l) == shutdown = "up" /\ cpu = w /\ pc[w] = l

Goto(w, l)       == pc' = [pc EXCEPT ![w] = l]
GotoAt(w, l, i)  == Goto(w, l) /\ idx' = [idx EXCEPT ![w] = i]

\* Back to the prompt: the locals of the command are gone.
ToPrompt == /\ GotoAt("main", "prompt", 1)
            /\ cur' = [cur EXCEPT !["main"] = NoPid]

\* create_process: the child is born before the parent records it.
create_process ==
  /\ At("main", "prompt")
  /\ \E p \in Pid :
       /\ proc[p] = "unborn"
       /\ proc' = [proc EXCEPT ![p] = "alive"]
       /\ cur' = [cur EXCEPT !["main"] = p]
  /\ Goto("main", "add_pid")
  /\ UNCHANGED <<pend, wstat, chld_pending, int_pending, memory, cpu, resume,
                 idx, quitting, shutdown, refused>>

\* add_process_to_table, up to the store of the pid; a full table is refused.
add_pid ==
  /\ At("main", "add_pid")
  /\ \/ /\ find_free_slot = {}
        /\ refused' = refused \cup {cur["main"]}
        /\ ToPrompt
        /\ UNCHANGED process_table
     \/ \E s \in find_free_slot :
          /\ process_table' = [process_table EXCEPT ![s].pid = cur["main"]]
          /\ GotoAt("main", "add_status", s)
          /\ UNCHANGED <<cur, refused>>
  /\ UNCHANGED <<kernel, process_count, errno, cpu, resume, quitting, shutdown>>

\* Fault: the slot keeps the status of its last entry.
stale_status ==
  /\ At("main", "add_status")
  /\ process_count' = process_count + 1
  /\ ToPrompt
  /\ UNCHANGED <<kernel, process_table, errno, cpu, resume, quitting, shutdown,
                 refused>>

\* ... and the stores that follow it.
add_status ==
  /\ At("main", "add_status")
  /\ process_table' = [process_table EXCEPT ![idx["main"]].status = "running"]
  /\ process_count' = process_count + 1
  /\ ToPrompt
  /\ UNCHANGED <<kernel, errno, cpu, resume, quitting, shutdown, refused>>

\* terminate_process: the kill() call on the pid the user typed.
terminate_process(p, sig) ==
  /\ At("main", "prompt")
  /\ cur' = [cur EXCEPT !["main"] = p]
  /\ \/ Exists(p) /\ Signal(p, sig) /\ Goto("main", "kill_wait")
        /\ UNCHANGED errno
     \/ ~Exists(p) /\ errno' = "ESRCH" /\ Goto("main", "kill_errno")
        /\ UNCHANGED pend
     \/ p \in Foreign /\ errno' = "EPERM" /\ Goto("main", "kill_errno")
        /\ UNCHANGED pend
  /\ UNCHANGED <<proc, wstat, chld_pending, int_pending, process_table,
                 process_count, cpu, resume, idx, quitting, shutdown, refused>>

\* kill() failed: errno is read in a later instruction than the call.
kill_errno ==
  /\ At("main", "kill_errno")
  /\ IF errno = "ESRCH" THEN Goto("main", "remove") /\ UNCHANGED <<cur, idx>>
                        ELSE ToPrompt
  /\ UNCHANGED <<kernel, memory, cpu, resume, quitting, shutdown, refused>>

\* waitpid(p, 0): collects p, or fails because p is no child to wait for.
\* It blocks while p is alive.
waitpid(p) ==
  \/ /\ p \in Zombies
     /\ Reap(p)
     /\ UNCHANGED errno
  \/ /\ p \notin Children
     /\ errno' = "ECHILD"
     /\ UNCHANGED proc

\* Fault: WNOHANG, so that the entry of a live child is removed.
kill_nohang ==
  /\ At("main", "kill_wait")
  /\ waitpid(cur["main"]) \/ UNCHANGED <<proc, errno>>
  /\ Goto("main", "remove")
  /\ UNCHANGED <<pend, wstat, chld_pending, int_pending, process_table,
                 process_count, cpu, resume, cur, idx, quitting, shutdown,
                 refused>>

\* Fault: waitpid is retried until it returns the pid.
kill_retry ==
  /\ At("main", "kill_wait")
  /\ cur["main"] \in Zombies /\ Reap(cur["main"])
  /\ Goto("main", "remove")
  /\ UNCHANGED <<pend, wstat, chld_pending, int_pending, memory, cpu, resume,
                 cur, idx, quitting, shutdown, refused>>

kill_wait ==
  /\ At("main", "kill_wait")
  /\ waitpid(cur["main"])
  /\ Goto("main", "remove")
  /\ UNCHANGED <<pend, wstat, chld_pending, int_pending, process_table,
                 process_count, cpu, resume, cur, idx, quitting, shutdown,
                 refused>>

kill_remove ==
  /\ At("main", "remove")
  /\ remove_process_from_table(cur["main"])
  /\ ToPrompt
  /\ UNCHANGED <<kernel, errno, cpu, resume, quitting, shutdown, refused>>

\* `kill` with an argument atoi turns into 0: kill(0, sig) hits the whole
\* process group, ProcMan included, and ProcMan has no SIGTERM handler.
kill_own_group(sig) ==
  /\ At("main", "prompt")
  /\ pend' = [p \in Pid |-> IF proc[p] = "alive" THEN pend[p] \cup {sig}
                                                 ELSE pend[p]]
  /\ shutdown' = "killed"
  /\ UNCHANGED <<proc, wstat, chld_pending, int_pending, memory, cpu, resume,
                 pc, cur, idx, quitting, refused>>

\* list_processes: entries that have terminated are printed and removed.
list_start ==
  /\ At("main", "prompt")
  /\ GotoAt("main", "list", 1)
  /\ UNCHANGED <<kernel, memory, cpu, resume, cur, quitting, shutdown, refused>>

\* Fault: every entry is removed once it has been printed.
list_all ==
  /\ At("main", "list")
  /\ LET i == idx["main"] IN
       IF i > MAX_PROCESSES
       THEN ToPrompt /\ UNCHANGED <<process_table, process_count>>
       ELSE /\ GotoAt("main", "list", i + 1)
            /\ UNCHANGED cur
            /\ remove_process_from_table(process_table[i].pid)
  /\ UNCHANGED <<kernel, errno, cpu, resume, quitting, shutdown, refused>>

list_processes ==
  /\ At("main", "list")
  /\ LET i == idx["main"] IN
       IF i > MAX_PROCESSES
       THEN /\ ToPrompt
            /\ UNCHANGED <<process_table, process_count>>
       ELSE /\ GotoAt("main", "list", i + 1)
            /\ UNCHANGED cur
            /\ IF i \in Occupied /\ ~Running(i)
               THEN remove_process_from_table(process_table[i].pid)
               ELSE UNCHANGED <<process_table, process_count>>
  /\ UNCHANGED <<kernel, errno, cpu, resume, quitting, shutdown, refused>>

\* wait_all_processes, entered by `wait` or by sigint_handler.
wait_start ==
  /\ At("main", "prompt")
  /\ GotoAt("main", "wait", 1)
  /\ UNCHANGED <<kernel, memory, cpu, resume, cur, quitting, shutdown, refused>>

\* its scan: stop at the next entry that is marked running.
wait_scan(w) ==
  /\ At(w, "wait")
  /\ idx[w] <= MAX_PROCESSES
  /\ IF Running(idx[w])
     THEN /\ Goto(w, "wait_pid")
          /\ cur' = [cur EXCEPT ![w] = process_table[idx[w]].pid]
          /\ UNCHANGED idx
     ELSE /\ GotoAt(w, "wait", idx[w] + 1)
          /\ UNCHANGED cur
  /\ UNCHANGED <<kernel, memory, cpu, resume, quitting, shutdown, refused>>

wait_pid(w) ==
  /\ At(w, "wait_pid")
  /\ waitpid(cur[w])
  /\ IF cur[w] \in Zombies
     THEN update_process_status(cur[w], wstat[cur[w]])
     ELSE UNCHANGED process_table
  /\ Goto(w, "wait_rm")
  /\ UNCHANGED <<pend, wstat, chld_pending, int_pending, process_count, cpu,
                 resume, cur, idx, quitting, shutdown, refused>>


wait_remove(w) ==
  /\ At(w, "wait_rm")
  /\ remove_process_from_table(cur[w])
  /\ GotoAt(w, "wait", idx[w] + 1)
  /\ UNCHANGED <<kernel, errno, cpu, resume, cur, quitting, shutdown, refused>>

\* its end: back to the prompt, or exit() when sigint_handler called it.
Exiting(w) == w = "int" \/ quitting

\* Fault: the loop stops one slot too early.
wait_short(w) ==
  /\ At(w, "wait")
  /\ idx[w] >= MAX_PROCESSES
  /\ process_count' = 0
  /\ IF Exiting(w) THEN shutdown' = "safe" /\ UNCHANGED <<pc, cur, idx>>
                   ELSE ToPrompt /\ UNCHANGED shutdown
  /\ UNCHANGED <<kernel, process_table, errno, cpu, resume, quitting, refused>>

wait_done(w) ==
  /\ At(w, "wait")
  /\ idx[w] > MAX_PROCESSES
  /\ process_count' = 0
  /\ IF Exiting(w) THEN shutdown' = "safe" /\ UNCHANGED <<pc, cur, idx>>
                   ELSE ToPrompt /\ UNCHANGED shutdown
  /\ UNCHANGED <<kernel, process_table, errno, cpu, resume, quitting, refused>>

\* `quit` calls sigint_handler as a function; Ctrl+C runs it as a handler.
quit ==
  /\ At("main", "prompt")
  /\ quitting' = TRUE
  /\ GotoAt("main", "sigint", 1)
  /\ UNCHANGED <<kernel, memory, cpu, resume, cur, shutdown, refused>>

\* Fault: it waits without having signalled anyone.
no_sigterm(w) ==
  /\ At(w, "sigint")
  /\ IF idx[w] > MAX_PROCESSES THEN GotoAt(w, "wait", 1)
                               ELSE GotoAt(w, "sigint", idx[w] + 1)
  /\ UNCHANGED <<kernel, memory, cpu, resume, cur, quitting, shutdown, refused>>

sigint_handler(w) ==
  /\ At(w, "sigint")
  /\ IF idx[w] > MAX_PROCESSES
     THEN /\ GotoAt(w, "wait", 1)
          /\ UNCHANGED <<pend, errno>>
     ELSE /\ GotoAt(w, "sigint", idx[w] + 1)
          /\ LET p == process_table[idx[w]].pid IN
               IF Running(idx[w])
               THEN /\ Signal(p, SIGTERM)
                    /\ errno' = IF Exists(p) THEN errno ELSE "ESRCH"
               ELSE UNCHANGED <<pend, errno>>
  /\ UNCHANGED <<proc, wstat, chld_pending, int_pending, process_table,
                 process_count, cpu, resume, cur, quitting, shutdown, refused>>

\* end of input on stdin: the shell loop breaks and main returns.
end_of_input ==
  /\ At("main", "prompt")
  /\ shutdown' = "eof"
  /\ UNCHANGED <<kernel, memory, cpu, resume, pc, cur, idx, quitting, refused>>

-----------------------------------------------------------------------------
Environment ==
  \/ \E p \in Pid : ChildExits(p) \/ ChildKilled(p)
  \/ CtrlC
  \/ DeliverSigchld
  \/ DeliverSigint

Command ==
  \/ create_process
  \/ \E p \in Pid \cup Foreign, sig \in {SIGTERM, SIGKILL} :
       terminate_process(p, sig)
  \/ \E sig \in {SIGTERM, SIGKILL} : kill_own_group(sig)
  \/ list_start
  \/ wait_start
  \/ quit
  \/ end_of_input

Program ==
  \/ sigchld_handler
  \/ add_pid \/ add_status
  \/ kill_errno \/ kill_wait \/ kill_remove
  \/ list_processes
  \/ \E w \in Thread : \/ wait_scan(w) \/ wait_pid(w) \/ wait_remove(w)
                       \/ wait_done(w) \/ sigint_handler(w)

Next == Environment \/ Command \/ Program

Spec == Init /\ [][Next]_vars

(***************************************************************************)
(* The program's own code keeps running, pending signals are delivered,    *)
(* and the kernel makes a signalled child die.  Nothing obliges the user   *)
(* to type, or a child to exit by itself.                                  *)
(***************************************************************************)
Fairness ==
  /\ WF_vars(Program)
  /\ WF_vars(DeliverSigchld) /\ WF_vars(DeliverSigint)
  /\ \A p \in Pid : WF_vars(ChildKilled(p))

FairSpec == Spec /\ Fairness

-----------------------------------------------------------------------------
(* Safety.                                                                 *)

\* The slot whose pid is stored and whose other fields are not yet.
HalfAdded(s) == pc["main"] = "add_status" /\ idx["main"] = s

\* No zombie is ever left without a SIGCHLD to come or a handler at work,
\* although SIGCHLD does not queue and one signal may stand for many deaths:
\* the loop of sigchld_handler makes up for the signals that merge.
ZombieCovered ==
  shutdown = "up" /\ Zombies # {} => chld_pending \/ resume # "none"

\* An entry marked terminated tells the truth, whichever of the handler,
\* `wait` or the shutdown wrote it, and in whatever order they ran: its child
\* has been collected, and its exit code is the one the child died with.
TerminatedTruthful ==
  \A s \in Occupied :
    LET e == process_table[s] IN
      e.status = "terminated" /\ ~HalfAdded(s) =>
        proc[e.pid] = "reaped" /\ e.exit_status = wstat[e.pid]

\* A child that runs, or waits to be collected, is never dropped from the
\* table: `list`, `kill` and `wait` remove an entry only after its child is
\* gone.  The exceptions are the child being added and the ones refused.
NoLiveChildForgotten ==
  \A p \in Children :
    \/ \E s \in Slot : process_table[s].pid = p
    \/ p \in refused
    \/ pc["main"] = "add_pid" /\ cur["main"] = p

\* After `quit` or Ctrl+C has run to its end, every child still in the table
\* is dead and collected, even when children die, and the SIGCHLD handler
\* changes the table, while it is being swept.
ShutdownReapsTracked ==
  shutdown = "safe" =>
    \A s \in Occupied : HalfAdded(s) \/ proc[process_table[s].pid] = "reaped"

(***************************************************************************)
(* The inductive invariant behind them.                                    *)
(***************************************************************************)
\* Which context runs, which is suspended and which has not started.
Contexts ==
  /\ cpu = "chld" => resume # "none"
  /\ resume # "none" => cpu # "main"
  /\ resume = "int" => cpu = "chld" /\ pc["int"] # "idle"
  /\ cpu = "int" => pc["int"] # "idle"
  /\ pc["int"] # "idle" => cpu = "int" \/ resume = "int"
  /\ pc["int"] \in {"idle", "sigint", "wait", "wait_pid", "wait_rm"}
  /\ pc["main"] # "idle"

\* Every pid in the table was forked, and no two entries share one.
TablePids ==
  /\ \A s \in Occupied : proc[process_table[s].pid] # "unborn"
  /\ \A s, t \in Occupied : process_table[s].pid = process_table[t].pid => s = t
  /\ \A s \in Occupied : process_table[s].status = "zeroed" => HalfAdded(s)

\* What each thread may rely on about the pid and the slot it has in hand.
InHand ==
  /\ pc["main"] = "add_pid" =>
       /\ cur["main"] \in Pid /\ proc[cur["main"]] # "unborn"
       /\ \A s \in Slot : process_table[s].pid # cur["main"]
  /\ pc["main"] = "add_status" =>
       /\ idx["main"] \in Slot /\ cur["main"] \in Pid
       /\ process_table[idx["main"]].pid \in {cur["main"], NoPid}
  /\ pc["main"] = "add_status" /\ pc["int"] = "idle" =>
       process_table[idx["main"]].pid # NoPid
  /\ pc["main"] \in {"kill_errno", "kill_wait", "remove"} => cur["main"] # NoPid
  /\ pc["main"] \in {"kill_errno", "remove"} => cur["main"] \notin Children
  /\ \A w \in Thread : pc[w] \in {"wait_pid", "wait_rm"} =>
       /\ cur[w] \in Pid /\ proc[cur[w]] # "unborn"
       /\ idx[w] \in Slot
       /\ process_table[idx[w]].pid \in {cur[w], NoPid}
  /\ \A w \in Thread : pc[w] = "wait_rm" => proc[cur[w]] = "reaped"

\* A sweep leaves no running entry behind it.
Swept ==
  \A w \in Thread : pc[w] \in {"wait", "wait_pid", "wait_rm"} =>
    \A s \in Slot : s < idx[w] => ~Running(s)

Inv ==
  /\ TypeOK /\ Contexts /\ TablePids /\ InHand /\ Swept
  /\ ZombieCovered /\ TerminatedTruthful /\ NoLiveChildForgotten
  /\ ShutdownReapsTracked

\* Where the entry of a child is: being added until both stores are done, in
\* its slot from then on, and finished once the slot says so.
Adding(p)   == pc["main"] \in {"add_pid", "add_status"} /\ cur["main"] = p
SlotsOf(p)  == {s \in Slot : /\ process_table[s].pid = p
                             /\ ~Adding(p) /\ p \notin refused}
Finished(p) == {s \in SlotsOf(p) : process_table[s].status = "terminated"}

EntryOf(p) == IF proc[p] = "unborn"    THEN "none"
              ELSE IF Adding(p)        THEN "adding"
              ELSE IF Finished(p) # {} THEN "finished"
              ELSE IF SlotsOf(p) # {}  THEN "listed"
              ELSE IF p \in refused    THEN "refused" ELSE "removed"

Shown(p) == {process_table[s].exit_status : s \in Finished(p)}

entry == [p \in Pid |-> EntryOf(p)]
shown == [p \in Pid |-> Shown(p)]

Ledger == INSTANCE ChildLedger WITH
            Code <- ExitStatus, life <- proc, code <- wstat, ending <- shutdown

\* Each child's entry goes its way once and never takes a step back, although
\* the shell and two handlers that preempt it write to one table, collect the
\* same children and search for entries that the others have removed.
ImplementsLedger == Ledger!Spec

-----------------------------------------------------------------------------
(* Liveness.                                                               *)

\* Every zombie is collected while the shell lives, even when the shell is
\* blocked in `kill` or `wait` on a child that ignores SIGTERM.
ZombiesCollected ==
  \A p \in Pid : proc[p] = "zombie" ~>
    (proc[p] = "reaped" \/ shutdown # "up" \/ pc["int"] # "idle")

\* `quit` and Ctrl+C end the program, whatever command or handler they
\* interrupted: only a child that ignores SIGTERM can keep it waiting.
ShutdownCompletes ==
  (quitting \/ pc["int"] # "idle") ~>
    (shutdown # "up" \/ \E p \in Stubborn : proc[p] = "alive")

\* `kill <pid> force` always gives the prompt back, although the child may be
\* collected by the SIGCHLD handler while terminate_process waits for it.
ForcedKillReturns ==
  \A p \in Pid :
    (pc["main"] = "kill_wait" /\ cur["main"] = p /\ SIGKILL \in pend[p]) ~>
      (pc["main"] = "prompt" \/ shutdown # "up" \/ pc["int"] # "idle")

-----------------------------------------------------------------------------
(* What the repository says of the program and the code does not do.       *)

\* A child that has ended is listed as terminated (tests.sh, the transcript
\* of `list` after `create ls`): at a quiet prompt no collected child is
\* still marked running.
FinishedIsListedTerminated ==
  At("main", "prompt") /\ ~chld_pending =>
    \A s \in Occupied : Running(s) => proc[process_table[s].pid] # "reaped"

\* `kill` of a child that no longer exists makes sure that its entry is
\* cleaned (comment in terminate_process).
KillOfDeadCleansEntry ==
  [][kill_errno /\ find_process_slot(cur["main"]) # {}
       => pc'["main"] = "remove"]_vars

=============================================================================
