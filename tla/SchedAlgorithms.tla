--------------------------- MODULE SchedAlgorithms ---------------------------
(***************************************************************************)
(* The scheduling simulator of 2.4_SchedSimGUI/src/algorithms.c: FIFO, SJF *)
(* and STCF run a workload and record a Gantt timeline.  A step is one     *)
(* iteration of an algorithm's loop.  schedule_rr and schedule_mlfq are    *)
(* empty functions: they return without having touched anything.           *)
(***************************************************************************)
EXTENDS Integers, Sequences, FiniteSets, Functions

CONSTANTS
  MAX_PROCESSES,       \* most processes a workload may have
  MAX_TIMELINE_EVENTS, \* slots of the timeline array
  Arrivals, Bursts     \* arrival and burst times a workload may hold

ASSUME SchedAssumption ==
  /\ MAX_PROCESSES \in Nat \ {0}
  /\ MAX_TIMELINE_EVENTS \in Nat \ {0}
  /\ Arrivals \subseteq Nat /\ Bursts \subseteq Nat

IDLE == -1  \* the pid of an event in which the CPU was idle

VARIABLES
  n, arrival_time, burst_time,                   \* the workload
  remaining_time, start_time, completion_time,   \* per process
  current_time, completed_count, timeline,       \* locals of an algorithm
  algo,                                          \* which algorithm runs
  pc              \* of the algorithm: "none" under way, its "loop", its "end",
                  \* or "returned" at once

workload == <<n, arrival_time, burst_time>>
process  == <<remaining_time, start_time, completion_time>>
clock    == <<current_time, completed_count, timeline>>
simVars  == <<workload, process, clock, algo, pc>>

Process == 1 .. n   \* pids are the positions in the workload

-----------------------------------------------------------------------------
\* The loader numbers the lines it accepts, in the order of the file, and
\* stops at MAX_PROCESSES.
load_processes_from_file ==
  /\ n \in 1 .. MAX_PROCESSES
  /\ arrival_time \in [1 .. n -> Arrivals]
  /\ burst_time \in [1 .. n -> Bursts]

\* The state in which every algorithm starts on its copy of the workload.
initialize_processes ==
  /\ remaining_time' = burst_time
  /\ start_time' = [p \in Process |-> -1]
  /\ completion_time' = [p \in Process |-> 0]
  /\ current_time' = 0 /\ completed_count' = 0
  /\ timeline' = << >>

Event(t, p, d) == [time |-> t, pid |-> p, duration |-> d]

\* Faults: the merged event keeps only the last duration; nothing is merged.
add_overwrites(tl, t, p, d) ==
  IF d <= 0 \/ Len(tl) >= MAX_TIMELINE_EVENTS THEN tl
  ELSE IF tl # << >> /\ tl[Len(tl)].pid = p
       THEN [tl EXCEPT ![Len(tl)].duration = d]
       ELSE Append(tl, Event(t, p, d))
add_never_merges(tl, t, p, d) ==
  IF d <= 0 \/ Len(tl) >= MAX_TIMELINE_EVENTS THEN tl
  ELSE Append(tl, Event(t, p, d))

\* An event of the process that ran last extends the last event.
add_timeline_event(tl, t, p, d) ==
  IF d <= 0 \/ Len(tl) >= MAX_TIMELINE_EVENTS THEN tl
  ELSE IF tl # << >> /\ tl[Len(tl)].pid = p
       THEN [tl EXCEPT ![Len(tl)].duration = @ + d]
       ELSE Append(tl, Event(t, p, d))

Record(t, p, d) == timeline' = add_timeline_event(timeline, t, p, d)

\* Fault: processes that have finished are taken again.
never_done == {p \in Process : remaining_time[p] >= 0}

\* The processes the loop still considers.
Pending == {p \in Process : remaining_time[p] > 0}
Ready == {p \in Pending : arrival_time[p] <= current_time}

\* Fault: the first ready process, however long it is.
first_ready(S, key) == {p \in S : \A q \in S : p <= q}

\* The process of S that a scan with `<` selects: least key, first position.
\* Empty when S is (the code's selected_index = -1).
Shortest(S, key) ==
  {p \in S : \A q \in S : key[p] < key[q] \/ (key[p] = key[q] /\ p <= q)}

\* Faults: the scan keeps the latest arrival; it does not skip the processes
\* that have finished.
last_arrival == {arrival_time[p] : p \in {q \in Pending :
                   \A r \in Pending : arrival_time[r] <= arrival_time[q]}}
any_arrival  == {arrival_time[p] : p \in {q \in Process :
                   \A r \in Process : arrival_time[q] <= arrival_time[r]}}

\* When the next process arrives, as a set: empty when none is pending.
next_arrival == {arrival_time[p] : p \in {q \in Pending :
                   \A r \in Pending : arrival_time[q] <= arrival_time[r]}}

\* The CPU is idle until the next arrival; with none pending the loop breaks.
Idle ==
  \/ \E t \in next_arrival :
       /\ Record(current_time, IDLE, t - current_time)
       /\ current_time' = t
       /\ UNCHANGED pc
  \/ /\ next_arrival = {}
     /\ pc' = "end"
     /\ UNCHANGED <<current_time, timeline>>

Looping(a) == pc = "loop" /\ algo = a

\* completed_count has reached n: the loop is over.  The end marker every
\* algorithm adds has duration 0, so add_timeline_event drops it.
Finish(a) ==
  /\ Looping(a)
  /\ completed_count = n
  /\ pc' = "end"
  /\ Record(current_time, 0, 0)
  /\ UNCHANGED <<workload, process, current_time, completed_count, algo>>

-----------------------------------------------------------------------------
\* FIFO: the processes in the order of the workload, each to its end, after
\* an idle gap when it has not arrived yet.
schedule_fifo ==
  /\ Looping("FIFO") /\ completed_count < n
  /\ LET p      == completed_count + 1
         begins == IF current_time < arrival_time[p] THEN arrival_time[p]
                                                     ELSE current_time
         gap    == add_timeline_event(timeline, current_time, IDLE,
                                      begins - current_time)
     IN /\ timeline' = add_timeline_event(gap, begins, p, burst_time[p])
        /\ start_time' = [start_time EXCEPT ![p] = begins]
        /\ completion_time' = [completion_time EXCEPT ![p] = begins + burst_time[p]]
        /\ current_time' = begins + burst_time[p]
  /\ completed_count' = completed_count + 1
  /\ UNCHANGED <<workload, remaining_time, algo, pc>>

\* SJF: the shortest of the processes that have arrived, to its end.
schedule_sjf ==
  /\ Looping("SJF") /\ completed_count < n
  /\ \/ \E p \in Shortest(Ready, burst_time) :
          /\ start_time' = [start_time EXCEPT ![p] = IF @ = -1 THEN current_time ELSE @]
          /\ completion_time' = [completion_time EXCEPT ![p] = current_time + burst_time[p]]
          /\ remaining_time' = [remaining_time EXCEPT ![p] = 0]
          /\ Record(current_time, p, burst_time[p])
          /\ current_time' = current_time + burst_time[p]
          /\ completed_count' = completed_count + 1
          /\ UNCHANGED pc
     \/ Ready = {} /\ Idle /\ UNCHANGED <<process, completed_count>>
  /\ UNCHANGED <<workload, algo>>

\* Fault: the event is stamped with the time after the tick.
late_tick(p) ==
  /\ start_time' = [start_time EXCEPT ![p] = IF @ = -1 THEN current_time ELSE @]
  /\ remaining_time' = [remaining_time EXCEPT ![p] = @ - 1]
  /\ current_time' = current_time + 1
  /\ Record(current_time + 1, p, 1)
  /\ IF remaining_time[p] = 1
     THEN /\ completion_time' = [completion_time EXCEPT ![p] = current_time + 1]
          /\ completed_count' = completed_count + 1
     ELSE UNCHANGED <<completion_time, completed_count>>

\* One unit of time for process p.
Tick(p) ==
  /\ start_time' = [start_time EXCEPT ![p] = IF @ = -1 THEN current_time ELSE @]
  /\ remaining_time' = [remaining_time EXCEPT ![p] = @ - 1]
  /\ current_time' = current_time + 1
  /\ Record(current_time, p, 1)
  /\ IF remaining_time[p] = 1
     THEN /\ completion_time' = [completion_time EXCEPT ![p] = current_time + 1]
          /\ completed_count' = completed_count + 1
     ELSE UNCHANGED <<completion_time, completed_count>>

\* Fault: it ranks the processes by their whole burst.
stcf_by_burst ==
  /\ Looping("STCF") /\ completed_count < n
  /\ \/ \E p \in Shortest(Ready, burst_time) : Tick(p) /\ UNCHANGED pc
     \/ Ready = {} /\ Idle /\ UNCHANGED <<process, completed_count>>
  /\ UNCHANGED <<workload, algo>>

\* STCF: one unit of time for the ready process with the least left to run.
schedule_stcf ==
  /\ Looping("STCF") /\ completed_count < n
  /\ \/ \E p \in Shortest(Ready, remaining_time) : Tick(p) /\ UNCHANGED pc
     \/ Ready = {} /\ Idle /\ UNCHANGED <<process, completed_count>>
  /\ UNCHANGED <<workload, algo>>

Simulate == \/ schedule_fifo \/ schedule_sjf \/ schedule_stcf
            \/ \E a \in {"FIFO", "SJF", "STCF"} : Finish(a)

-----------------------------------------------------------------------------
InitAlgorithms ==
  /\ load_processes_from_file
  /\ remaining_time = burst_time
  /\ start_time = [p \in Process |-> -1]
  /\ completion_time = [p \in Process |-> 0]
  /\ current_time = 0 /\ completed_count = 0 /\ timeline = << >>
  /\ algo \in {"FIFO", "SJF", "STCF"}
  /\ pc = "loop"

SpecAlgorithms == InitAlgorithms /\ [][Simulate]_simVars /\ WF_simVars(Simulate)

Times == Nat \cup {-1}
Events == [time : Nat, pid : Process \cup {IDLE}, duration : Nat \ {0}]

TypeOK ==
  /\ n \in 1 .. MAX_PROCESSES
  /\ arrival_time \in [Process -> Nat] /\ burst_time \in [Process -> Nat]
  /\ remaining_time \in [Process -> Nat]
  /\ start_time \in [Process -> Times]
  /\ completion_time \in [Process -> Nat]
  /\ current_time \in Nat
  /\ completed_count \in 0 .. n
  /\ timeline \in Seq(Events)
  /\ pc \in {"none", "loop", "end", "returned"}

-----------------------------------------------------------------------------
(* Safety.                                                                 *)

EndOf(e) == e.time + e.duration

\* Every event of tl begins where the one before it ends, the last one at t.
Contiguous(tl, t) ==
  /\ \A k \in 1 .. Len(tl) :
       tl[k].time = IF k = 1 THEN 0 ELSE EndOf(tl[k - 1])
  /\ t = IF tl = << >> THEN 0 ELSE EndOf(tl[Len(tl)])

\* The Gantt timeline has no gap and no overlap while the array has room, in
\* every algorithm and at every step, through merges and idle time.
TimelineContiguous ==
  Len(timeline) < MAX_TIMELINE_EVENTS => Contiguous(timeline, current_time)

\* The timeline never needs more events than twice the workload: an event
\* ends only where a process arrives or completes.  So the array of 1000 never
\* fills up with the 100 processes the simulator admits, although the guard of
\* add_timeline_event would then drop even the merges.
EventsBounded == Len(timeline) <= 2 * n

Ended == pc = "end"
Ran   == {p \in Process : burst_time[p] > 0}

Sum(f, S) == FoldFunctionOnSet(LAMBDA x, y : x + y, 0, f, S)

\* How long the timeline tl says that p ran.
Served(tl, p) == Sum([k \in DOMAIN tl |-> tl[k].duration],
                     {k \in DOMAIN tl : tl[k].pid = p})

\* Every process is served exactly its burst, between its start and its
\* completion, and never before it arrives.
EveryoneServed ==
  Ended => \A p \in Ran :
    /\ Served(timeline, p) = burst_time[p]
    /\ arrival_time[p] <= start_time[p]
    /\ start_time[p] + burst_time[p] <= completion_time[p]
    /\ \A k \in 1 .. Len(timeline) : timeline[k].pid = p =>
         start_time[p] <= timeline[k].time /\ EndOf(timeline[k]) <= completion_time[p]

\* SJF and STCF never leave the CPU idle while a process that has arrived is
\* waiting for it.
NoIdleWhileReady ==
  Ended /\ algo # "FIFO" =>
    \A k \in 1 .. Len(timeline) : timeline[k].pid = IDLE =>
      ~ \E p \in Ran : /\ arrival_time[p] < EndOf(timeline[k])
                       /\ completion_time[p] > timeline[k].time

\* SJF never starts a process while a shorter one that has arrived waits.
SjfPicksShortest ==
  Ended /\ algo = "SJF" =>
    \A p, q \in Ran :
      arrival_time[q] <= start_time[p] /\ start_time[p] < start_time[q]
        => burst_time[p] <= burst_time[q]

\* A unit of time of any preemptive schedule, from time t: one of the ready
\* processes runs, and everyone who is not done takes a unit longer to be.
OneUnit(s, t) ==
  LET open  == {p \in Process : s.left[p] > 0}
      ready == {p \in open : arrival_time[p] <= t}
      lefts == IF ready = {} THEN {s.left}
                             ELSE {[s.left EXCEPT ![p] = @ - 1] : p \in ready}
  IN {[left |-> l, total |-> s.total + Cardinality(open)] : l \in lefts}

\* Where such a schedule can be at time t: what each process has left, and the
\* sum of their completion times so far.
Outcomes[t \in Nat] ==
  IF t = 0 THEN {[left |-> burst_time, total |-> 0]}
           ELSE UNION {OneUnit(s, t - 1) : s \in Outcomes[t - 1]}

Together == \A p, q \in Process : arrival_time[p] = arrival_time[q]

\* The completion times of STCF add up to the least that any of those
\* schedules has come to by then, so none has a lower average turnaround time.
\* So do those of SJF when all processes arrive together: only a shorter one
\* that arrives later can make running a burst to its end a mistake.
LeastTotal ==
  Ended /\ (algo = "STCF" \/ (algo = "SJF" /\ Together)) =>
    LET totals == {s.total : s \in Outcomes[current_time]}
        mine   == Sum(completion_time, Process)
    IN mine \in totals /\ \A x \in totals : mine <= x

\* What the loop has still to do: processes to count, units to run, arrivals
\* to wait for, and its own end.
Waited    == {p \in Process : arrival_time[p] > current_time}
StepsLeft == (n - completed_count) + Sum(remaining_time, Process)
               + Cardinality(Waited) + (IF pc = "loop" THEN 1 ELSE 0)

=============================================================================
