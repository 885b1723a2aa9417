----------------------------- MODULE SchedReport -----------------------------
(***************************************************************************)
(* run_all_algorithms_for_report of 2.4_SchedSimGUI/src/scheduler.c: each  *)
(* of five algorithms runs on a fresh copy of the workload, its metrics    *)
(* are computed, and the report names the algorithm with the lowest        *)
(* average turnaround time.  An average is kept as its total and the       *)
(* number of processes it divides by.                                      *)
(***************************************************************************)
EXTENDS SchedAlgorithms

CONSTANT Garbage  \* what the uninitialized total_time may hold

\* The fields of the caller's processes that the loader does not set: the
\* array of the GUI is static, so they are zero.
ASSUME ReportAssumption == Garbage \subseteq Nat

VARIABLES
  phase,       \* "prepare", "simulate", "report" or "done"
  total_time,  \* the local the metrics divide by
  results,     \* the metrics so far, one record per algorithm
  best         \* the algorithm the report names; {} before and when none

vars == <<simVars, phase, total_time, results, best>>

ALGOS == <<"FIFO", "SJF", "STCF", "RR", "MLFQ">>
Skeletons == {"RR", "MLFQ"}

InitReport ==
  /\ load_processes_from_file
  /\ remaining_time = [p \in Process |-> 0]
  /\ start_time = [p \in Process |-> 0]
  /\ completion_time = [p \in Process |-> 0]
  /\ current_time = 0 /\ completed_count = 0 /\ timeline = << >>
  /\ algo = ALGOS[1]
  /\ pc = "none"
  /\ phase = "prepare"
  /\ total_time \in Garbage
  /\ results = << >>
  /\ best = {}

\* Faults: the workload is not copied anew; the copy is shared by SJF and STCF.
prepare_no_copy ==
  /\ phase = "prepare" /\ phase' = "simulate"
  /\ IF algo \in Skeletons
     THEN pc' = "returned" /\ UNCHANGED <<process, clock>>
     ELSE pc' = "loop" /\ initialize_processes
  /\ UNCHANGED <<workload, algo, total_time, results, best>>
prepare_no_reset ==
  /\ phase = "prepare" /\ phase' = "simulate"
  /\ pc' = IF algo \in Skeletons THEN "returned" ELSE "loop"
  /\ IF algo = "STCF" THEN UNCHANGED <<process, clock>> ELSE initialize_processes
  /\ UNCHANGED <<workload, algo, total_time, results, best>>

\* memcpy of the caller's processes and memset of the timeline; the empty
\* functions of RR and MLFQ return at once and leave both as they are.
prepare ==
  /\ phase = "prepare" /\ phase' = "simulate"
  /\ IF algo \in Skeletons
     THEN /\ pc' = "returned"
          /\ remaining_time' = [p \in Process |-> 0]
          /\ start_time' = [p \in Process |-> 0]
          /\ completion_time' = [p \in Process |-> 0]
          /\ current_time' = 0 /\ completed_count' = 0 /\ timeline' = << >>
     ELSE /\ pc' = "loop"
          /\ initialize_processes
  /\ UNCHANGED <<workload, algo, total_time, results, best>>

simulate ==
  /\ phase = "simulate"
  /\ Simulate
  /\ UNCHANGED <<phase, total_time, results, best>>

-----------------------------------------------------------------------------
\* The first slot of the array with pid 0 gives the total time.  No recorded
\* event has pid 0, so it is the first slot that was never written, where the
\* memset left time 0; a full array has none, and total_time keeps its value.
TotalTime == IF Len(timeline) < MAX_TIMELINE_EVENTS THEN 0 ELSE total_time

\* A process counts when its completion time is positive.
Counted == {p \in Process : completion_time[p] > 0}
TAT == [p \in Process |-> completion_time[p] - arrival_time[p]]

calculate_metrics ==
  [ algorithm  |-> algo,
    completed  |-> Cardinality(Counted),
    turnaround |-> Sum(TAT, Counted),
    waiting    |-> Sum([p \in Process |-> TAT[p] - burst_time[p]], Counted),
    response   |-> Sum([p \in Process |-> start_time[p] - arrival_time[p]], Counted),
    squares    |-> Sum([p \in Process |-> TAT[p] * TAT[p]], Counted),
    burst      |-> Sum(burst_time, Counted),
    total_time |-> TotalTime ]

Position == Len(results) + 1

\* Fault: the next algorithm is read with the index that was not advanced.
measure_same ==
  /\ phase = "simulate" /\ pc \in {"end", "returned"}
  /\ pc' = "none"
  /\ total_time' = TotalTime
  /\ results' = Append(results, calculate_metrics)
  /\ IF Position < Len(ALGOS)
     THEN phase' = "prepare" /\ algo' = ALGOS[Position]
     ELSE phase' = "report" /\ UNCHANGED algo
  /\ UNCHANGED <<workload, process, clock, best>>

measure ==
  /\ phase = "simulate" /\ pc \in {"end", "returned"}
  /\ pc' = "none"
  /\ total_time' = TotalTime
  /\ results' = Append(results, calculate_metrics)
  /\ IF Position < Len(ALGOS)
     THEN phase' = "prepare" /\ algo' = ALGOS[Position + 1]
     ELSE phase' = "report" /\ UNCHANGED algo
  /\ UNCHANGED <<workload, process, clock, best>>

\* r has a lower average turnaround time than s; nothing completed is 0.
LowerAverage(r, s) ==
  LET d(m) == IF m.completed = 0 THEN 1 ELSE m.completed
  IN r.turnaround * d(s) < s.turnaround * d(r)

\* The scan starts from 99999 and keeps the first algorithm strictly below
\* the best so far.
NoData == [turnaround |-> 99999, completed |-> 1]

generate_report ==
  /\ phase = "report" /\ phase' = "done"
  /\ best' = {results[k].algorithm : k \in
                {j \in DOMAIN results :
                   /\ LowerAverage(results[j], NoData)
                   /\ \A i \in DOMAIN results : ~LowerAverage(results[i], results[j])
                   /\ \A i \in 1 .. j - 1 : LowerAverage(results[j], results[i])}}
  /\ UNCHANGED <<simVars, total_time, results>>

NextReport == prepare \/ simulate \/ measure \/ generate_report
SpecReport == InitReport /\ [][NextReport]_vars /\ WF_vars(NextReport)

-----------------------------------------------------------------------------
Result(a) == results[CHOOSE k \in DOMAIN results : results[k].algorithm = a]

ReportTypeOK ==
  /\ TypeOK
  /\ phase \in {"prepare", "simulate", "report", "done"}
  /\ total_time \in Nat
  /\ Len(results) <= Len(ALGOS)
  /\ \A k \in DOMAIN results : results[k].algorithm = ALGOS[k]
  /\ best \subseteq {ALGOS[k] : k \in DOMAIN ALGOS} /\ Cardinality(best) <= 1

\* In every report STCF has the lowest total turnaround time of the three
\* algorithms that run, over the same processes: it is the comparison the
\* report exists for, and it depends on each algorithm having run on a copy
\* the ones before it did not touch.  A process of burst 0 is left aside: only
\* FIFO counts it.
StcfNeverWorse ==
  phase = "done" /\ Ran = Process =>
    \A a \in {"FIFO", "SJF"} :
      /\ Result("STCF").completed = Result(a).completed
      /\ Result("STCF").turnaround <= Result(a).turnaround

\* RR and MLFQ, which are not implemented, take no credit for the processes
\* the algorithms before them completed.
SkeletonsCompleteNothing ==
  \A k \in DOMAIN results : results[k].algorithm \in Skeletons =>
    results[k].completed = 0 /\ results[k].turnaround = 0

\* The report is written, whatever the workload: every algorithm comes to its
\* end, also with processes of burst 0, which SJF and STCF never count as
\* completed.
ReportWritten == <>(phase = "done")

\* The total time is the end of the timeline (scheduler.c: pid 0 is the end
\* marker).
TotalTimeIsEnd ==
  \A k \in DOMAIN results :
    results[k].algorithm \notin Skeletons /\ k = Len(results)
      /\ phase = "prepare" => results[k].total_time = current_time

\* An upper bound on the steps the report has still to make: for each of the
\* algorithms to come, those of its loop on a fresh copy and the two around it.
MostSteps  == 2 * n + Sum(burst_time, Process) + 1
ReportLeft ==
  (Len(ALGOS) - Len(results)) * (MostSteps + 2)
    + CASE phase = "prepare"  -> MostSteps + 1
        [] phase = "simulate" -> StepsLeft
        [] phase = "report"   -> 1
        [] OTHER              -> 0

\* No step of the report is in vain: each iteration of an algorithm runs a
\* process, waits for one that has not arrived, or ends the loop, and the five
\* runs follow each other without going back.  So the report takes a number of
\* steps that the workload bounds, and cannot loop for ever.
EveryStepCounts == [][ReportLeft' < ReportLeft]_vars

=============================================================================
