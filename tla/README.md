# Sistemas-OP in TLA+

The repository is a collection of operating-systems programs in C: a process
manager, a CPU-scheduling simulator, a chat server with its client, a few
programs about zombie processes, and shell scripts. This directory models the
ones with a logic of their own, model-checks them with TLC on small instances,
and proves invariants of four of them, and two refinements, with TLAPS for every
instance.

- [Inventory](#inventory)
- [Modules and how they correspond to the code](#modules-and-how-they-correspond-to-the-code)
- [Runs: what is checked, with which bounds](#runs-what-is-checked-with-which-bounds)
- [Disagreements with what the repository says](#disagreements-with-what-the-repository-says)
- [Fairness](#fairness)
- [Proofs](#proofs)
- [Only model-checked, and not modelled](#only-model-checked-and-not-modelled)
- [Plan](#plan)

## Inventory

**ProcMan** (`lab2.2_procmangC/homework1/procman.c`). An interactive shell that
forks programs, lists them, kills them and waits for them.
*State*: a fixed table of ten entries (pid, status, exit code), a counter that
is only written, `errno`; outside the program, the life of each child and two
pending-signal bits. *Operations*: `create`, `list`, `kill`, `wait`, `tree`,
`quit`, end of input; the SIGCHLD handler, which collects any child; the SIGINT
handler, which also is what `quit` calls. *Interaction*: one thread, but the two
handlers preempt the shell, and each other, between any two instructions, and
all three read and write the same table without blocking signals. *Hard*:
signals merge; a child may die before its parent has recorded it; two contexts
may collect one child; the shutdown runs inside a handler. *Correct when*: the
table is truthful, no child is lost, every zombie is collected, `kill` and the
shutdown come to an end.

**Scheduling simulator** (`2.4_SchedSimGUI/src`). `algorithms.c` runs FIFO, SJF
and STCF over an array of processes and records a timeline; Round Robin and MLFQ
are empty functions. `scheduler.c` loads a workload, runs the five in turn on
copies and calls `metrics.c` and `report.c`. Sequential and deterministic.
*Hard*: the boundaries (burst 0, idle gaps, full array, end marker), and what is
left in the arrays from one run to the next. *Correct when*: the timeline is
continuous, every process is served its burst, each algorithm picks what its
name says, and the report compares like with like. The GUI only draws: its
simulation callback is not connected to any signal.

**Chat** (`2.5_chatsystem`). The server's main thread multiplexes `accept` and
its own stdin; a detached thread per client receives messages and broadcasts
them to a linked list of clients, under one mutex. Clients connect, send JOIN,
then print what they receive and send what is typed. *Hard*: broadcasts that
walk the list while clients join, leave and crash; blocking `send` with the
mutex held; descriptors that are closed and handed out again; SIGINT and
`/shutdown` while threads are at work. *Correct when*: the list holds exactly
the joined clients, all members hear the same messages in the same order, who
leaves is cleaned up, and a shutdown ends. The message-queue variant
(`ipc_mq.c`) is an empty file, and so are the tests and docs of the chat.

**zombieproc** (`zombieproc/src`). Programs about children that end.
`zombie_reaper.c` forks ten children, sleeps, and then collects them by one of
three strategies: a loop of `wait`, a SIGCHLD handler, or SIGCHLD ignored; at
the end it looks for zombies. `process_daemon.c` daemonizes and starts a worker
every five seconds until SIGTERM. `zombie.c` is a library: a handler, a `fork`
that counts, statistics. `zombie_creator.c` leaves zombies on purpose, and
`zombie_detector.c` looks for them in `/proc`. *State*: SIGCHLD's disposition
and pending bit, each child's life, the loop counters, `keep_running`, the
statistics; the detector's list and its locals, which are never initialized.
*Interaction*: parent, children, signals, and, for the detector, every process
of the machine. *Hard*: the handler is installed after the children are forked;
signals merge, and cut sleeps short; the scan reads processes that come and go
under it. *Correct when*: from the set-up on no zombie is missed, a loop of
`wait` leaves none behind, the daemon keeps its interval and ends after SIGTERM,
the statistics come true, and the scan finds what was there all the time and
nothing else.

**fork and wait** (`procman.c`, `sisops/procman.c`). Two demonstrations that fork
a fixed number of children and wait: for any of them, or for each in turn.
*Correct when*: each child is reported once and both end.

**The rest.** `lab4_grub/scripts` saves and restores a GRUB configuration, and
`lab1.5-user-services` holds straight-line administration scripts: commands of
the system and their output, without a state of their own.

## Modules and how they correspond to the code

| Module | Models | EXTENDS / INSTANCE |
| --- | --- | --- |
| `ChildLedger` | abstract: what the process manager promises of each child | |
| `ProcMan` | procman.c with the kernel's side of it; implements `ChildLedger` | `ChildLedger` (INSTANCE) |
| `MCProcMan` | symmetry for TLC | `ProcMan` |
| `ProcManProofs` | theorems about `ProcMan`, the refinement among them | `ProcMan`, `TLAPS` |
| `SchedAlgorithms` | algorithms.c and the loader | |
| `SchedProofs` | theorems about `SchedAlgorithms` | `SchedAlgorithms`, `TLAPS` |
| `SchedServedProofs` | lemmas on induction and sums; theorems about what each process is served | `SchedProofs` |
| `SchedStcfProofs` | theorems about all schedules of a workload: STCF is optimal, and SJF when all arrive together | `SchedServedProofs` |
| `SchedReport` | run_all_algorithms_for_report, metrics.c, report.c | `SchedAlgorithms` |
| `SchedReportProofs` | theorems about the report, and that it ends | `SchedReport`, `SchedStcfProofs` |
| `ChatRoom` | abstract: what a chat room promises | |
| `ChatRoomProofs` | what follows from that promise alone | `ChatRoom`, `TLAPS` |
| `ChatServer` | server, client and sockets; implements `ChatRoom` | `ChatRoom` (INSTANCE) |
| `ChatProofs` | theorems about `ChatServer`, the refinement among them | `ChatServer`, `TLAPS`, `ChatRoomProofs` (INSTANCE) |
| `MCChat` | symmetry for TLC | `ChatServer` |
| `ForkKernel` | a parent, its children, SIGCHLD and its handler: what the next five share | |
| `ZombieReaper` | zombie_reaper.c | `ForkKernel` |
| `ProcessDaemon` | process_daemon.c | `ForkKernel` |
| `ZombieLib` | zombie.c and a program that uses it | `ForkKernel` |
| `ZombieScan` | zombie_creator.c, zombie_detector.c and other processes | `ForkKernel` |
| `ForkWait` | procman.c, sisops/procman.c | `ForkKernel` |
| `Zombieproc` | the composition: any one of these programs with the kernel | the six above |
| `ZombieprocProofs` | theorems about `Zombieproc` | `Zombieproc`, `TLAPS` |

Definitions carry the name of the C function they translate; the definitions
marked `Fault:` in a comment are wrong variants, which show that a property
notices the mistake, and are not part of any specification.

### ProcMan

A step is the code between two points at which a handler could see or change
something the code depends on. `cpu` says which context runs, `resume` which
one the SIGCHLD handler has preempted; `pc`, `cur` and `idx` are the program
counter and the locals of the two contexts that run command code ("main" and
"int"). Every command is an action at the prompt followed by the steps of its
function: `create_process`, `add_pid`, `add_status`; `terminate_process`,
`kill_errno` or `kill_wait`, `kill_remove`; `list_start`, `list_processes`;
`wait_start`, `wait_scan`, `wait_pid`, `wait_remove`, `wait_done`; `quit` and
`sigint_handler`; `end_of_input`; `kill_own_group` is `kill` with an argument
that is no number. `sigchld_handler` is one iteration of its `waitpid` loop.
The kernel's part (`Dies`, `Signal`, `waitpid`, `Reap`, ...) is external.

`ChildLedger` is the same seen from outside: of each child its life, the code it
ended with, where its entry is and what the entry shows, and how the program
ended. Under the mapping (`EntryOf`, `Shown`) an entry is being added until both
stores of `add_process_to_table` are done, is listed once its slot is complete,
and finished once the slot is marked terminated; contexts, preemption, slots and
signals are gone. The ledger marks an entry finished only when a child is
collected while listed: one that is collected before (`ProcManListRace`) or by
`kill` stays listed until it is removed.

Left out or merged, with the reason:
- `process_count` is decremented together with the store that frees a slot, the
  handler's `waitpid` together with its update of the table, the stores after
  the pid in `add_process_to_table` with each other: the shell is the only reader
  of a half-done step, and the SIGINT handler, the only context that could
  preempt the SIGCHLD handler there, never returns and treats both states alike.
- the locals of a command are cleared when it returns to the prompt;
- the window between `fork` and `exec` in the child, `fork` failing (nothing
  changes), a Ctrl+C that also reaches the children (they may exit at any time
  anyway), negative pids given to `kill`, stopped children;
- pids are never handed out twice; `tree` only reads.

`list` prints the entry after it has freed it, so a terminated process is shown
with pid 0, as the recorded session `test_scripts/tests.sh` shows; the output
itself is not modelled.

### Scheduling simulator

A step of `SchedAlgorithms` is one iteration of an algorithm's loop
(`schedule_fifo`, `schedule_sjf`, `schedule_stcf`), with everything it calls:
the idle time (`Idle`), the unit of time of STCF (`Tick`) and
`add_timeline_event`, which drops empty events, extends the last event of the
same process, and drops everything once the array is full. `Finish` is the end of
the loop, with the end marker. `SchedReport` wraps it: `prepare` copies the
workload and clears the timeline, `simulate` runs, `measure` finds the total
time and computes the metrics, `generate_report` scans for the best. An average
is kept as its total and its count, so that no real numbers are needed; the
priorities, which no algorithm reads, are left out. Integers are unbounded.

### Chat

`ChatServer` holds the server and the clients. `rank` is the linked list: a
node's position counted from the tail. `h` is where each handler thread is:
`receive_join`, `add_client_safe`, then `broadcast_message` (takes the mutex and
logs), `broadcast_next` (sends to one node), `broadcast_done` (gives the mutex
back), `client_handler` (the receive loop), `remove_client_safe`,
`close_client`. The main thread: `accept` or `no_connection`, then
`handle_server_commands`, and `get_client_list_string` for `/list` and `/stats`.
`graceful_shutdown` is SIGINT. `Ends` is the end of the server process, by
`main` returning or by SIGPIPE. A socket is a queue of at most `Cap` messages in
each direction, which `send` blocks on.

At this commit the chat does not compile: `errno.h` and `sys/socket.h` are not
included where `errno` and `send` are used, `SOCKET_PATH` is only defined in
`ipc_sockets.c`, and the Makefile links the client without it. The model takes
these as present and everything else as written. Messages enter and leave a
socket whole. A `send` to a client that has gone raises SIGPIPE; one that was
blocked when the client went may return -1. `accept` may pick any waiting
client, and gives it the lowest free descriptor. Names are compared as the code
does, with the detail that a node's name of 31 bytes is not terminated
(`Garbled`).

`ChatRoom` is the promise: `Publish` reaches all members in one step. The
refinement mapping publishes at the step that takes the mutex: what the
broadcast under way has still to send counts as sent (`Inbox`). A client enters
the room with an empty inbox, since nothing is sent to a client before it is
linked; `Holds(q, ms, H)` says that a queue holds the messages of the log at the
positions `H`, in order and no other.

### zombieproc, fork and wait

`program` says which program runs; `Init` picks any. `ForkKernel` has the
kernel's part, which is external: `Dies`, `DeliverSigchld`, `Reap`, `Fork`,
`Exit` (the children pass to init). `proc` is each child's life, `pc` and `i` the
parent's program counter and loop index, `cut` a sleep that a signal has cut
short. `sigchld_handler` is one iteration of the loop that three of the programs
have in common. Three variables are history: `deaths`, `stranded` (zombies that
were there at the set-up and have had no signal since) and, in the daemon,
`naps`.

Time is left out: a child may die and a sleep may end at any moment. Every
schedule of the real programs, with any machine load, is among these.

- `ZombieReaper`: `reaper_fork`, `choose_strategy` (the switch after `sleep(1)`),
  `poll_zombies` and `reap_explicit`, `setup_auto_reaper` or
  `setup_ignore_reaper` with `let_children_exit`, `final_check` (`system` blocks
  SIGCHLD while `ps` runs), `reaper_return`. The check by `ps` matches the state
  `Z` exactly, and misses the `Z+` of a program in the foreground of a terminal:
  `PsOutput` has both results. All ten children sleep equally long, since `srand`
  is called before they are forked; the model does not rely on it.
- `ProcessDaemon`: `setup_signals`, `daemonize`, `main_while`, `spawn_workers`
  (`NUM_CHILDREN` bounds the workers alive at a time), `nap_for` and `nap_over`
  (the loop of `sleep(1)`), `shut_down`; `Kill` and `sigterm_handler`. A SIGTERM
  is sent once the daemon has its final pid.
- `ZombieLib`: the calls of the library, in any order; `count_child` is the part
  of `zombie_safe_fork` after the fork, when the child may be dead already. The
  mutex has one user, and is left out.
- `ZombieScan`: `open_proc`, `open_stat` (`readdir` and `fopen`) and
  `find_zombies` (`fscanf` and the test). `pid` and `state` keep their values when
  `fscanf` reads a process that has gone, and begin with arbitrary ones: the
  build may leave anything in them. `Letter` is what `%c` reads: with a space in
  the name, a letter of the name. `OtherMoves` are the other processes.
- `ForkWait`: `demo_fork`, `wait_in_order` (`waitpid(pids[i])`), `wait_any`
  (`wait`), `demo_return`.

## Runs: what is checked, with which bounds

| Run | Shows | Bounds |
| --- | --- | --- |
| `ProcManSafety` | the inductive invariant, types included; no zombie without a signal or a handler; the table tells the truth; no live child dropped; a shutdown collects what it tracks | 2 slots, 3 children, one foreign pid: the table fills up and a slot is used again; all commands, any number of times |
| `ProcManLive` | the shell and its handlers implement the ledger; every zombie is collected, a forced kill returns, `quit` and Ctrl+C end the program | 2 slots, 2 children, one of which ignores SIGTERM |
| `SchedReport` | FIFO, SJF and STCF: timeline, service, no idling, shortest first, no preemptive schedule beats STCF, nor SJF when all processes arrive together; the five runs of the report do not disturb each other; STCF is never worse; the empty algorithms are credited with nothing; every step takes something off what is left to do; the report is written, so every algorithm ends | every workload of up to 4 processes, arrivals 0, 1, 3, bursts 0, 1, 2, 4: ties, gaps, preemptions, empty bursts, unsorted input; 9 events, so the array has room (the proofs cover the rest: any workload, and an array that fills up) |
| `ChatSafety` | the list is sound; no echo to a name that fits; each member has been sent exactly what was logged since it joined; the server implements the room | 2 clients, one that talks and one that may leave or crash, 2 names, one of 31 bytes, 2 descriptors, buffers of 2 |
| `ChatLive` | shutdown ends; who has gone is removed and closed; what is said is published | as `ChatSafety`, with buffers that never fill |
| `Zombieproc` | from its set-up on, no zombie without a signal or a handler, and each is collected; loops of wait leave none behind; each child is reported once, in order; the daemon keeps its interval and ends after SIGTERM; the statistics come true; a scan finds the zombies that stay and adds nothing else | each program with 3 children, 2 checks by `ps`, naps of 3 seconds, one other process, a list of 3: signals merge, workers die in a nap and a pid is used again by a later worker, the list fills up |

The bounds of the chat are constants: `MaxSends` (messages a user types),
`Talker` and `Leaver` (who types, who may go), `Cap`, `MaxFd`. Two clients are
enough for every pairwise race on list, mutex and descriptors (the handler of
the one that stays removes its node too, when the server shuts down); that a
broadcast with more receivers is no different is what `ChatProofs` shows. With `Cap = 4` no buffer fills; `ChatJam` below
shows what happens when one does. Symmetry is used only in safety runs.

Deadlock is not checked: each of the programs really stops (exit, SIGPIPE, end
of the simulation), and the chat can really block.

## Disagreements with what the repository says

Those with a run of their own, which ends in a counterexample:

| Run | The repository says | The code does |
| --- | --- | --- |
| `ProcManListRace` | a finished child is listed as Terminated (tests.sh:36) | a child that dies before `add_process_to_table` is listed as Running for good |
| `ProcManErrno` | the entry of a dead child is cleaned (procman.c:94) | not when the SIGCHLD handler changes `errno` after `kill` |
| `ReaperZombies` | verify no zombies (zombie_reaper.c:138); the handler catches all (:124); the kernel reaps at once (:129) | children that died before line 123 or 128 stay, and a signal ends `sleep(5)` early |
| `SchedTotal` | pid 0 is the end marker (scheduler.c:71) | the marker has duration 0 and is dropped; the total time is 0 |
| `ChatSigpipe` | errors of `send` to dead clients are handled (utils.c:154, 156) | SIGPIPE kills the server |
| `ChatJam` | graceful shutdown (chat_server.c:88, utils.c:127) | a full buffer blocks the holder of the mutex, and `/list` the main thread |

Others, which the models show as well, met on the way:

- `wait` skips the entries the SIGCHLD handler has marked terminated, although
  procman.c:124 says that the final removal is made in `list_processes` or
  `wait_all_processes`; they stay until `list`, in their slots.
- A child forked when the table is full (`refused`) is not signalled by the
  shutdown that procman.c:157 calls a safe one.
- FIFO serves in the order of the file; docs/ALGORITHMS.md:6 says that it first
  sorts by arrival time. (`SchedReport` has unsorted workloads.)
- The report names RR the algorithm with the lowest average turnaround time
  (report.c:54): it has completed nothing, and its average is 0.
- A name of 31 bytes is not terminated in the server's node, and its owner may
  hear itself, against utils.c:150 (`NoEcho` says that shorter names do not).
- A process with burst 0 is completed by FIFO and never by SJF or STCF, which
  divide by fewer processes then: `StcfNeverWorse` compares workloads without one.
- `find_zombies` returns the "number of zombies found" (zombie_detector.c:21), but
  a zombie whose name has a space is missed, a live process with a name like
  `a Zb` is counted, and a pid is listed twice when the process read after it has
  gone. `ScanFindsOld` and `ScanAddsZombies` say what is left of the promise.
- process_daemon.c:148 says that the signal handlers can be set up before
  daemonizing: they can, but the log they write to is shared with the code they
  interrupt, and line 19 calls `log_message` safe in a handler. The last line of
  `main` may be interrupted after `fclose` too. (Not modelled.)
- zombie.c:119 reports as reaped children that are alive; it comes true later
  (`StatsComeTrue`), for children that did not die before `zombie_init`.
- procman.c:38 prints as "Child i" the i-th child to end, with that one's pid.
- grub-restore.sh:7 restores `grub.backup`; grub-backup.sh writes
  `grub.backup.<timestamp>`. (Not modelled.)
- Clients of one name do not hear each other; message.h:13 calls a broadcast a
  message to all.

## Fairness

*ProcMan*: weak fairness of the program's own code (the processor runs it), of
the delivery of a pending signal, and of the death of a child that a signal
kills. Nothing makes the user type, or a child exit by itself.
*Simulator*: a sequential program runs: weak fairness of its step.
*Chat*: weak fairness of the main thread, of each handler thread and of each
client program: each is a thread the system schedules, and the mutex is only
waited for with weak fairness of the whole thread, which says nothing about
who gets it. The user and SIGINT are not fair.
*zombieproc*: weak fairness of each child's death (they all run to their end), of
the delivery of a pending SIGCHLD, of the handlers, and of the program that
runs: it gets the processor, and sleeps end. The user who presses Enter, who
calls the library or who stops the daemon is not fair.

## Proofs

`ProcManProofs`: `Invariance` proves `Spec => []Inv` for any number of slots and
children; the five theorems after it are the type invariant and the other
invariants of `ProcManSafety`. The properties are not inductive by themselves. `Inv` adds which context can be
suspended under which (`Contexts`), that pids in the table are of forked
children and are different (`TablePids`), what each context may rely on about
the pid and the slot it has in hand although a handler has changed the table
since it read it (`InHand`), and that a sweep leaves no running entry behind it
(`Swept`); the last is what makes a finished shutdown complete. The lemmas on
`update_process_status` and `remove_process_from_table` say what these do to
one slot; there is one lemma for each group of actions. Assumed: at least one
slot, pids distinct from 0 and from foreign pids (`ProcManAssumption`).

In the same module `ProcManImplementsLedger` proves the refinement: each step of
the code moves the entry of at most one child, along one arrow of `ChildLedger`
(none, adding, then refused or listed, finished, removed), or moves none. The
code finds an entry by searching the table for its pid, so the heart of the
proof is `Collects` and `Removes`: whichever context collects a child finds its entry, if it has one
(`FoundSlot`), still unfinished, and whichever removes one removes that of a child
that is gone. Both need `Inv`: that entries do not share a pid, that a half-added
slot belongs to the child being added (`InHand`, `HalfAddedIsAdding`), and that
only collected children are marked terminated. `Keeps` names what the entry of
a child depends on; the other children keep theirs (`OneMoves`). The end of a
shutdown is a step of the ledger because of `ShutdownReapsTracked`. `Collects` covers
the SIGCHLD handler and `wait`, called by the shell or by the SIGINT handler; `kill`
collects without a word in the table, which the ledger allows (`CollectKilled`).

`SchedProofs`: `SchedInvariance` proves that types and continuity of the
timeline hold at every step of the three algorithms, for every workload.
`EventAdded` is the heart of it: adding an event at the end of a continuous
timeline, merged or not, gives a continuous one. Continuity needs the types
(times and bursts are natural numbers), so the two are proved together.
Assumed: positive limits, natural times (`SchedAssumption`).

In the same module `ServiceInvariance` proves an invariant with five parts, and
four theorems follow. `Counting`: every event but the last is paid for by an
arrival or a completion, so there are at most two per process
(`TimelineIsShort`); where STCF has just recorded a unit and could still merge
the next, the account has an open debt (`Owing`). `Leader`: the process that ran
last, if it has work left, still leads all those that have arrived, so that a
change of process is always paid for. `Past`: nobody has more left than its burst or completes after the
clock. `IdleSound`: during a recorded idle time each process had completed or was
still to arrive (`NobodyWaitsIdle`). `ShortestFirst`: whoever SJF has started was no
longer than those then waiting (`SjfIsShortestFirst`). From `TimelineIsShort`
follows `TimelineIsWhole`: where the array has room for two events per process,
as in scheduler.h with 100 processes and 1000 events, it never fills up, and the
timeline is continuous without the condition `TimelineContiguous` has.

`SchedServedProofs` begins with a toolbox. The library's induction theorems take an
operator as a parameter and cannot be used; `NatInduct` and `SetInduct` say the
same of *sets* (a set that holds 0 and is closed under successor holds all
natural numbers), and come from the well-foundedness of `<`. With them follow
the recursion equation of the fold behind `Sum` (`SumUnfolds`: the fold is a
function chosen by CHOOSE, and one has to exist and be unique) and the
arithmetic of sums. Then `ServedInvariance`: what the timeline says a process
has run is what it has got (`Got`: of its burst, what is no longer left), it got
it between its start and now or its completion, and nothing before it began. An
event that is merged changes one term of the sum, one that is appended adds
one, and the gaps belong to nobody (`EventServed`). `AllAreServed` is
`EveryoneServed` for every workload. Its hypothesis is room for two events per
process, which scheduler.h has (2 * 100 < 1000) and without which an array that is
full drops what it is given; by `TimelineIsShort` it is never full.

`SchedStcfProofs` compares the algorithms with all schedules of a workload
(`Schedules`: functions of time; in each unit at most one process runs, none
before it arrives). `StcfIsOptimal`: no schedule has a smaller sum of completion
times than STCF, preemptive or not and even if it knows the future. The invariant
(`StcfInv`) has two parts. STCF is `Ahead` of any schedule `o`: for every set of
processes there is one as large of which STCF has no more left than `o` has of
the first, the same among those that are still to arrive. It is kept by an
exchange (`Exchange`): when `o` runs a process of the set, STCF runs the one with
the least left, and if that one is not in its set, it takes the place of another,
or all that have arrived in it are done. From it follows that STCF has always
finished as many as `o` (`AsManyDone`), so that the total time waited grows no
faster (`Sooner`). `EveryEndIsASchedule` shows that the completion times of FIFO,
SJF and STCF are themselves those of a schedule: its invariant `Traced` builds
that schedule step by step (`Continued`). So the two theorems together say that
STCF reaches the least there is, and that neither FIFO nor SJF can be below.
Nothing is assumed of the size of the timeline.

The last part of the module proves `LeastTotal`, which TLC evaluates: no schedule
that a recursive function generates (`Outcomes`: unit by unit, each choice of a
ready process) has a lower total than STCF, or than SJF on a workload whose
processes arrive together. It needs both halves: that the total is among those
generated, and that it is the least. The recursion theorem of the library takes
an operator as a parameter, so `Recursion` shows first that the function has the
values its definition says (`Generated`). The invariant (`LeastInv`, that is
`Cheapest` at each step) compares states instead of completion times: no
generated state has a lower total by now, and the algorithm is `Ahead` of each.
A unit of time keeps that (`UnitLeads`: by the exchange above when a process with
the least left runs, and trivially in a pause), so a step of STCF is one unit
(`TickThrift`), an idle wait as many pauses as it is long (`JumpThrift`), and a
step of SJF as many units as the burst it runs (`SjfThrift`): with nobody still to
arrive, the shortest burst has the least left at each of them. That last
argument is where a later arrival breaks SJF, and why the hypothesis is there.

`SchedReportProofs` carries this over to the report. The theorems above are about
one algorithm started on fresh arrays; `ReportInvariance` proves that in the
report, where the five share them, each runs as if it were alone (`Alone`): the
step `prepare` leads to `InitAlgorithms` whatever the one before left behind, or,
for RR and MLFQ, to cleared arrays. `InOrder` says where the loop over the
algorithms is, with one row of results for each that has run. So the promises
hold in the report too (`AlgorithmsKeepTheirPromises`, `AllRunsServe`), and the
empty functions get no credit for what ran before (`SkeletonsGetNoCredit`).
`StcfIsNeverWorse` is the comparison the report is made for. Its invariant
(`Rows`) says of each row of results that it counts all processes and has the
turnaround of some schedule, and of STCF's row that no schedule has less; the
turnaround is the sum of the completion times less that of the arrival times,
which are the same for all (`TurnaroundOf`). Assumed besides: what the
uninitialized `total_time` holds is a natural number (`ReportAssumption`).

The same module proves that nothing loops for ever, as far as a proof without
fairness can: `StepsLeft` counts the processes not yet counted as completed, the
units left to run, the processes still to arrive and the end of the loop.
`LoopAdvances` shows that each iteration of FIFO, SJF and STCF lowers it: a run
lowers the first or the second part and never raises the third, a wait lowers the
third because the process waited for was not there yet (`IdleAdvances`), a loop with
only bursts of 0 left ends. In `ReportLeft` the five runs weigh as much each as the
longest of them can take (`FreshSteps`), so that starting one, measuring it and
naming the best lower it too. `EachStepCounts` says so of every step of the report,
and that it stays a natural number, at most `6 * (MostSteps + 2)`: the report takes
at most that many steps. What is left of `ReportWritten` for TLC is that a step can
be taken until the report is written.

`ChatProofs`: `ChatInvariance` proves `Spec => []CInv`, and types, `ListSound`,
`NoEcho` and the refinement follow. `CInv` adds that a handler thread runs just as
long as its descriptor is open and what it has in hand at each of its steps, the
holder of the mutex above all (`Threads`); that what a thread receives is of its
own client and bears that client's name (`OwnMessages`); and that nothing on its
way to a client is its own, unless its name fills the buffer (`NoEchoSent`). `ServerImplementsRoom` maps every step:
`add_client_safe` is `Enter`; `broadcast_message`, which takes the mutex, is
`Publish`; `remove_client_safe` is `Exit`, or nothing if the client never joined;
the end of a client is `Depart`, the end of the server `Close`; every other step,
each single send of a broadcast among them, stutters, because the mapping counts
what is under way as sent. It holds for any number of clients, descriptors and
messages, any buffer size, and with SIGPIPE; TLC sees one receiver at a time.
`ClientsHeardTheLog`, that each member has been sent exactly what the server has
logged since it joined, is proved where it is easy: of the room, in
`ChatRoomProofs` (`RoomHears`), where a message is published in one step. The
step `Publish` adds one message to the log and to the inboxes, and a cardinality
lemma says that its position among those owed is the last. By the refinement it
holds of the server, in which the sends of a broadcast are steps of their own.
Assumed: `ChatAssumption`, that is, finitely many clients, and at least one
descriptor and one place in a buffer.

`ZombieprocProofs`: `ZombieprocInvariance` proves `Spec => []IInv` for all six
programs at once, any number of children, checks, naps, other processes and
slots; seven theorems follow. `IInv` adds to the properties: when a signal can be
pending at all, and that only zombies of before the set-up are left out
(`Signals`); which children are unborn in the loop of forks (`Forked`: so a
failed fork, and nothing else, ends a program with children unborn); that each
SIGCHLD that cuts a nap is paid for by a death (`Naps`); that as many children
are reported as collected, one in each pass (`Reporting`, with the cardinality
lemmas `OneMore` and `AllOfThem`); that a leftover state `Z` of the detector goes
with a pid that is in its list (`Stale`), and what the scan has passed
(`OldAreDead`, `Passed`). Lemmas on `Exit`, `ForkLoop`, `SetUp` and on steps that
only move the program counter serve all programs; then there is one for each
program. Assumed: at least one child, pids that are positive and distinct.

## Only model-checked, and not modelled

Every invariant and every action property that a passing run checks is proved,
for every value of the constants, and so are both refinements. The properties under
fairness (liveness: `ZombiesCollected`, `ForcedKillReturns`, `ShutdownCompletes`,
`ReportWritten`, `ShutdownEnds`, `GoneIsCleaned`, `SaidIsPublished`, `LateReaped`,
`ProgramEnds`, `StatsComeTrue`, `TermEnds`) are beyond the proof system, as is
ENABLED, and stay with TLC; of `ReportWritten`, the bound on the number of steps is
proved.

Not modelled:
- the GUI, which draws and changes nothing the simulator works on; the GRUB and
  user scripts, which are pure I/O; the empty `ipc_mq.c`;
- what the daemon and the chat server write to their logs, and a log call that a
  signal handler makes in the middle of another: what then happens is up to the
  C library;
- stdio's buffer between `select` and `fgets` in the chat server
  (chat_server.c:142): it takes several commands written at once to a pipe that
  stays open;
- pids that the kernel uses again: the entry of a dead child keeps its pid until
  `list`, so a later child may get the same one, and `remove_process_from_table`
  (procman.c:50) then clears the first entry with it, be it the live child's;
- memory layout (the `strcat` of `create`, the length of the command line),
  overflow of times, the message types the server ignores, and
  `find_client_by_username`, which nobody calls.

## Plan

Done: ProcMan and the ledger it implements; the simulator and its report; the chat and the room it implements;
the programs of zombieproc and of fork and wait; proofs about each of these four,
of all their safety properties.

Left:
1. Chat: stdio's buffer between `select` and `fgets`, and a property that every
   command typed is handled.
2. ProcMan with pids used again, for its own children and for strangers: an
   invariant that tells entries apart by their slot, and which of today's
   properties still hold.
