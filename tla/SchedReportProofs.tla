-------------------------- MODULE SchedReportProofs --------------------------
(* The report, for every workload: five algorithms run one after the other  *)
(* on one set of arrays, each as if it were alone; RR and MLFQ, which do    *)
(* nothing, are credited with nothing, and STCF is never beaten.            *)
EXTENDS SchedReport, SchedStcfProofs, SequenceTheorems

\* The caller's workload is never changed.
Loaded == load_processes_from_file /\ TypeOK

\* Where the loop over ALGOS is: results has one row for each algorithm done.
InOrder ==
  /\ phase \in {"prepare", "simulate", "report", "done"}
  /\ results \in Seq({results[k] : k \in DOMAIN results})
  /\ Len(results) <= 5
  /\ phase \in {"prepare", "simulate"} =>
       Len(results) < 5 /\ algo = ALGOS[Len(results) + 1]
  /\ phase \in {"report", "done"} => Len(results) = 5
  /\ \A k \in DOMAIN results : results[k].algorithm = ALGOS[k]
  /\ total_time \in Nat

\* What runs, runs as it would alone: an algorithm keeps its own invariant, an
\* empty function finds the copy and the timeline cleared.
Alone ==
  /\ phase = "simulate" /\ algo \notin Skeletons =>
       pc \in {"loop", "end"} /\ StcfInv /\ LeastInv /\ TracedInv
  /\ phase = "simulate" /\ algo \in Skeletons =>
       pc = "returned" /\ \A p \in Process : completion_time[p] = 0
  /\ phase # "simulate" => pc = "none"

\* At most one algorithm is the best.
OneBest == /\ best \subseteq {ALGOS[k] : k \in DOMAIN ALGOS}
           /\ \A a, b \in best : a = b

\* Of a workload without a process of burst 0, an algorithm that runs counts
\* every process and has the turnaround of a schedule; STCF that of the best.
Turnaround(E) == Sum([p \in Process |-> E[p] - arrival_time[p]], Process)

Row(r) ==
  /\ r.algorithm \in {"FIFO", "SJF", "STCF"} =>
       r.completed = n /\ \E E \in Attainable : r.turnaround = Turnaround(E)
  /\ r.algorithm = "STCF" => \A E \in Attainable : r.turnaround <= Turnaround(E)

Rows == Ran = Process => \A k \in DOMAIN results : Row(results[k])

ReportInv == /\ Loaded /\ InOrder /\ Alone /\ OneBest
             /\ TimelineContiguous /\ EventsBounded
             /\ SkeletonsCompleteNothing /\ Rows

-----------------------------------------------------------------------------
(* Lemmas.                                                                  *)

LEMMA FiveAlgos ==
  /\ DOMAIN ALGOS = 1 .. 5 /\ Len(ALGOS) = 5
  /\ \A k \in 1 .. 5 : ALGOS[k] \in Skeletons \/ ALGOS[k] \in {"FIFO", "SJF", "STCF"}
  /\ Skeletons \cap {"FIFO", "SJF", "STCF"} = {}
BY DEF ALGOS, Skeletons

\* A sequence of anything, and what Append makes of it.
LEMMA Appended ==
  ASSUME NEW s, s \in Seq({s[k] : k \in DOMAIN s}), NEW e
  PROVE  LET t == Append(s, e) IN
         /\ t \in Seq({t[k] : k \in DOMAIN t})
         /\ Len(t) = Len(s) + 1 /\ DOMAIN t = 1 .. Len(s) + 1
         /\ DOMAIN s = 1 .. Len(s) /\ Len(s) \in Nat
         /\ t[Len(s) + 1] = e
         /\ \A k \in DOMAIN s : t[k] = s[k]
<1> DEFINE S == {s[k] : k \in DOMAIN s}
           t == Append(s, e)
<1>1. s \in Seq(S \cup {e})
  BY SeqMonotonic
<1>2. Len(s) \in Nat /\ DOMAIN s = 1 .. Len(s)
  BY <1>1
<1>3. /\ t \in Seq(S \cup {e}) /\ Len(t) = Len(s) + 1
      /\ t[Len(s) + 1] = e /\ \A k \in 1 .. Len(s) : t[k] = s[k]
  BY <1>1
<1>4. DOMAIN t = 1 .. Len(s) + 1
  BY <1>3
<1>5. S \cup {e} \subseteq {t[k] : k \in DOMAIN t}
  <2> HIDE DEF t
  <2>1. Len(s) + 1 \in DOMAIN t /\ DOMAIN s \subseteq DOMAIN t
    BY <1>2, <1>4
  <2> QED
    BY <1>2, <1>3, <2>1
<1>6. t \in Seq({t[k] : k \in DOMAIN t})
  <2> HIDE DEF t, S
  <2> QED
    BY <1>3, <1>5, SeqMonotonic
<1> QED
  BY <1>2, <1>3, <1>4, <1>6

\* Between two algorithms, and after an empty one, nothing has ended.
LEMMA NothingEnded ==
  ASSUME ReportInv
  PROVE  /\ NoIdleWhileReady /\ SjfPicksShortest /\ LeastTotal
         /\ 2 * MAX_PROCESSES < MAX_TIMELINE_EVENTS => EveryoneServed
<1>1. CASE phase = "simulate" /\ algo \notin Skeletons
  <2>1. ServedInv
    BY <1>1 DEF ReportInv, Alone, TracedInv
  <2>2. ServiceInv
    BY <2>1 DEF ServedInv
  <2>3. LeastTotal
    BY <1>1, LeastInTheEnd DEF ReportInv, Alone
  <2> QED
    BY <2>1, <2>2, <2>3, ServiceIsSound, ServiceIsShortest, ServedIsServed
<1>2. CASE ~(phase = "simulate" /\ algo \notin Skeletons)
  <2>1. pc # "end"
    BY <1>2 DEF ReportInv, Alone
  <2> QED
    BY <2>1 DEF Ended, NoIdleWhileReady, SjfPicksShortest, EveryoneServed, LeastTotal
<1> QED
  BY <1>1, <1>2

\* The turnaround times are those at which the processes complete, less those
\* at which they arrive, which no algorithm chooses.
LEMMA TurnaroundOf ==
  ASSUME TypeOK, NEW E \in [Process -> Nat]
  PROVE  /\ Sum(E, Process) = Turnaround(E) + Sum(arrival_time, Process)
         /\ Turnaround(E) \in Int /\ Sum(arrival_time, Process) \in Int
<1> PICK f : f = [p \in Process |-> E[p] - arrival_time[p]]
  OBVIOUS
<1>1. IsFiniteSet(Process)
  BY Finite
<1>2. \A p \in Process : /\ f[p] \in Int /\ arrival_time[p] \in Int
                         /\ E[p] = f[p] + arrival_time[p]
  BY ServedTypes
<1>3. Sum(E, Process) = Sum(f, Process) + Sum(arrival_time, Process)
  BY ONLY <1>1, <1>2, SumPlus
<1>4. Sum(f, Process) \in Int /\ Sum(arrival_time, Process) \in Int
  BY ONLY <1>1, <1>2, SumRemove
<1> QED
  BY <1>3, <1>4 DEF Turnaround

\* The metrics of an algorithm that has come to its end.
LEMMA MetricsRow ==
  ASSUME StcfInv, TracedInv, Ended, Ran = Process
  PROVE  Row(calculate_metrics)
<1> PICK r : r = calculate_metrics
  OBVIOUS
<1>1. /\ ServedInv /\ TypeOK /\ StcfIsBest /\ completion_time \in Attainable
      /\ completion_time \in [Process -> Nat]
  BY BestInTheEnd, AttainedInTheEnd
     DEF TracedInv, ServedInv, ServiceInv, SchedInv, EndsAttained, TypeOK
<1>2. Counted = Process
  <2> SUFFICES ASSUME NEW p \in Process PROVE completion_time[p] > 0
    BY DEF Counted
  <2>1. /\ arrival_time[p] \in Nat /\ burst_time[p] \in Nat /\ burst_time[p] > 0
        /\ completion_time[p] \in Nat /\ start_time[p] \in Int /\ remaining_time[p] \in Nat
    BY <1>1, ServedTypes DEF Ran
  <2>2. Over(p) /\ Share(p)
    BY <1>1 DEF ServedInv, AllOver
  <2>3. Got(p) = burst_time[p] /\ Until(p) = completion_time[p]
    BY <2>1, <2>2 DEF Got, Over, Until
  <2>4. /\ arrival_time[p] <= start_time[p]
        /\ start_time[p] + burst_time[p] <= completion_time[p]
    BY <2>1, <2>2, <2>3 DEF Share
  <2> QED
    BY <2>1, <2>4
<1>3. Cardinality(Process) = n
  BY <1>1, Finite
<1>4. /\ r.algorithm = algo /\ r.completed = n
      /\ r.turnaround = Turnaround(completion_time)
  BY <1>2, <1>3 DEF calculate_metrics, Turnaround, TAT
<1>5. ASSUME algo = "STCF", NEW E \in Attainable
      PROVE  Turnaround(completion_time) <= Turnaround(E)
  <2>1. E \in [Process -> Nat]
    BY DEF Attainable
  <2>2. Sum(completion_time, Process) <= Sum(E, Process)
    BY <1>1, <1>5 DEF StcfIsBest
  <2>3. /\ Sum(E, Process) = Turnaround(E) + Sum(arrival_time, Process)
        /\ Turnaround(E) \in Int /\ Sum(arrival_time, Process) \in Int
    BY <1>1, <2>1, TurnaroundOf
  <2>4. /\ Sum(completion_time, Process) = Turnaround(completion_time)
                                             + Sum(arrival_time, Process)
        /\ Turnaround(completion_time) \in Int
    BY <1>1, TurnaroundOf
  <2> QED
    BY ONLY <2>2, <2>3, <2>4
<1> QED
  BY <1>1, <1>4, <1>5 DEF Row

\* Nothing that the rows are measured against changes.
LEMMA RowsStay ==
  ASSUME Rows, UNCHANGED <<n, arrival_time, burst_time, results>>
  PROVE  Rows'
<1>1. Process' = Process
  BY DEF Process
<1>2. Ran' = Ran /\ Schedules' = Schedules
  BY <1>1 DEF Ran, Schedules
<1>3. Attainable' = Attainable
  BY <1>1, <1>2 DEF Attainable, Meets
<1>4. \A E : Turnaround(E)' = Turnaround(E)
  BY <1>1 DEF Turnaround
<1> QED
  BY <1>1, <1>2, <1>3, <1>4 DEF Rows, Row

-----------------------------------------------------------------------------
(* The invariant holds initially, and each step keeps it.                   *)

LEMMA InitReportInv == InitReport => ReportInv
<1> SUFFICES ASSUME InitReport PROVE ReportInv
  OBVIOUS
<1> USE DEF InitReport
<1>1. Loaded
  <2>1. n \in 1 .. MAX_PROCESSES /\ n \in Nat
    BY SchedAssumption DEF load_processes_from_file
  <2>2. arrival_time \in [Process -> Nat] /\ burst_time \in [Process -> Nat]
    BY SchedAssumption DEF load_processes_from_file, Process
  <2>3. timeline \in Seq(Events) /\ completed_count \in 0 .. n /\ current_time \in Nat
    BY <2>1
  <2> QED
    BY <2>1, <2>2, <2>3 DEF Loaded, TypeOK, Times
<1>2. InOrder
  <2>1. DOMAIN results = {} /\ Len(results) = 0
    OBVIOUS
  <2>2. results \in Seq({results[k] : k \in DOMAIN results})
    BY EmptySeq
  <2> QED
    BY <2>1, <2>2, ReportAssumption DEF InOrder
<1>3. TimelineContiguous /\ EventsBounded
  BY <1>1 DEF TimelineContiguous, Contiguous, EventsBounded, Loaded, TypeOK
<1> QED
  BY <1>1, <1>2, <1>3 DEF ReportInv, Alone, OneBest, SkeletonsCompleteNothing, Rows

\* Whatever the algorithms before have left behind, the next one starts as in
\* InitAlgorithms.
LEMMA PrepareStep ==
  ASSUME ReportInv, prepare
  PROVE  ReportInv'
<1> USE DEF prepare
<1>1. /\ UNCHANGED <<n, arrival_time, burst_time, algo, total_time, results, best>>
      /\ phase = "prepare" /\ phase' = "simulate"
      /\ current_time' = 0 /\ completed_count' = 0 /\ timeline' = << >>
      /\ remaining_time' \in [Process -> Nat] /\ completion_time' = [p \in Process |-> 0]
      /\ start_time' \in [Process -> Times] /\ pc' \in {"loop", "returned"}
  BY DEF workload, initialize_processes, ReportInv, Loaded, TypeOK, Times
<1>2. Process' = Process /\ Events' = Events
  BY <1>1 DEF Process, Events
<1>3. Loaded'
  <2>1. timeline' \in Seq(Events) /\ n \in Nat
    BY <1>1, SchedAssumption DEF ReportInv, Loaded, TypeOK
  <2>2. load_processes_from_file'
    BY <1>1 DEF ReportInv, Loaded, load_processes_from_file
  <2> QED
    BY <1>1, <1>2, <2>1, <2>2 DEF ReportInv, Loaded, TypeOK
<1>4. InOrder'
  BY <1>1 DEF ReportInv, InOrder
<1>5. Alone'
  <2>1. CASE algo \in Skeletons
    BY <1>1, <1>2, <2>1 DEF Alone
  <2>2. CASE algo \notin Skeletons
    <3>1. algo \in {"FIFO", "SJF", "STCF"}
      BY <1>1, <2>2, FiveAlgos DEF ReportInv, InOrder
    <3>2. InitAlgorithms'
      BY <1>1, <1>2, <1>3, <2>2, <3>1 DEF InitAlgorithms, Loaded, initialize_processes
    <3>3. (InitAlgorithms => StcfInv /\ LeastInv /\ TracedInv)'
      BY InitStcf, InitLeast, InitTraced, PTL
    <3> QED
      BY <1>1, <2>2, <3>2, <3>3 DEF Alone
  <2> QED
    BY <2>1, <2>2
<1>6. TimelineContiguous' /\ EventsBounded'
  BY <1>1, <1>3 DEF TimelineContiguous, Contiguous, EventsBounded, Loaded, TypeOK
<1>7. Rows'
  BY <1>1, RowsStay DEF ReportInv
<1> QED
  BY <1>1, <1>3, <1>4, <1>5, <1>6, <1>7 DEF ReportInv, OneBest, SkeletonsCompleteNothing

\* A step of the algorithm that runs keeps that algorithm's invariant.
LEMMA SimulateStep ==
  ASSUME ReportInv, simulate
  PROVE  ReportInv'
<1> USE DEF simulate
<1>1. UNCHANGED <<n, arrival_time, burst_time, algo, phase, total_time, results, best>>
  BY DEF Simulate, schedule_fifo, schedule_sjf, schedule_stcf, Finish, workload
<1>2. phase = "simulate" /\ algo \notin Skeletons
  BY FiveAlgos DEF Simulate, schedule_fifo, schedule_sjf, schedule_stcf, Finish, Looping
<1>3. StcfInv' /\ LeastInv' /\ TracedInv' /\ ServiceInv' /\ pc' \in {"loop", "end"}
  <2>1. StcfInv' /\ LeastInv' /\ TracedInv'
    BY <1>2, StcfOrderStep, LeastInvStep, TraceStep DEF ReportInv, Alone
  <2>2. ServiceInv'
    BY <2>1 DEF TracedInv, ServedInv
  <2>3. pc' = pc \/ pc' = "end"
    BY DEF Simulate, schedule_fifo, schedule_sjf, schedule_stcf, Idle, Finish
  <2> QED
    BY <1>2, <2>1, <2>2, <2>3 DEF ReportInv, Alone
<1>4. Loaded' /\ TimelineContiguous'
  BY <1>1, <1>3 DEF ReportInv, Loaded, load_processes_from_file, ServiceInv, SchedInv
<1>5. EventsBounded'
  <2>1. (ServiceInv => EventsBounded)'
    BY ServiceIsBounded, PTL
  <2> QED
    BY <1>3, <2>1
<1>6. InOrder' /\ Alone'
  BY <1>1, <1>2, <1>3 DEF ReportInv, InOrder, Alone
<1>7. Rows'
  BY <1>1, RowsStay DEF ReportInv
<1> QED
  BY <1>1, <1>4, <1>5, <1>6, <1>7 DEF ReportInv, OneBest, SkeletonsCompleteNothing

\* The row added belongs to the algorithm that has run; that of an empty
\* function counts nobody, because nobody has a completion time.
LEMMA MeasureStep ==
  ASSUME ReportInv, measure
  PROVE  ReportInv'
<1> USE DEF measure
<1> DEFINE len == Len(results)
           row == calculate_metrics
<1>1. /\ UNCHANGED <<workload, process, clock, best>>
      /\ phase = "simulate" /\ phase' \in {"prepare", "report"} /\ pc' = "none"
      /\ results' = Append(results, row)
  OBVIOUS
<1>2. /\ results \in Seq({results[k] : k \in DOMAIN results})
      /\ len < 5 /\ algo = ALGOS[len + 1]
      /\ \A k \in DOMAIN results : results[k].algorithm = ALGOS[k]
  BY <1>1 DEF ReportInv, InOrder
<1>3. /\ results' \in Seq({results'[k] : k \in DOMAIN results'})
      /\ Len(results') = len + 1 /\ DOMAIN results' = 1 .. len + 1
      /\ DOMAIN results = 1 .. len /\ len \in Nat
      /\ results'[len + 1] = row
      /\ \A k \in DOMAIN results : results'[k] = results[k]
  <2>1. results' = Append(results, row) /\ results \in Seq({results[k] : k \in DOMAIN results})
    BY <1>1, <1>2
  <2> HIDE DEF row
  <2> QED
    BY ONLY <2>1, Appended
<1>4. row.algorithm = algo
  BY DEF calculate_metrics
<1>5. ASSUME algo \in Skeletons
      PROVE  row.completed = 0 /\ row.turnaround = 0
  <2>1. Counted = {}
    BY <1>1, <1>5 DEF ReportInv, Alone, Counted
  <2> QED
    BY <2>1, SumUnfolds, FS_EmptySet DEF calculate_metrics
<1>6. InOrder'
  <2>1. total_time' \in Nat
    BY DEF ReportInv, InOrder, TotalTime
  <2>2. phase' = "prepare" => len + 1 < 5 /\ algo' = ALGOS[len + 2]
    <3>1. phase' = "prepare" => len + 1 < Len(ALGOS) /\ algo' = ALGOS[len + 1 + 1]
      BY DEF Position
    <3> QED
      BY <1>3, <3>1, FiveAlgos
  <2>5. phase' = "report" => len + 1 = 5
    <3>1. phase' = "report" => ~(len + 1 < Len(ALGOS))
      BY DEF Position
    <3> QED
      BY <1>2, <1>3, <3>1, FiveAlgos
  <2>3. \A k \in DOMAIN results' : results'[k].algorithm = ALGOS[k]
    <3> HIDE DEF row
    <3> QED
      BY <1>2, <1>3, <1>4
  <2>4. phase' \in {"prepare", "report"} /\ len < 5
    BY <1>1, <1>2
  <2> HIDE DEF row, ALGOS
  <2> QED
    BY <1>3, <2>1, <2>2, <2>3, <2>4, <2>5 DEF InOrder
<1>7. SkeletonsCompleteNothing'
  <2> HIDE DEF row
  <2> QED
    BY <1>3, <1>4, <1>5 DEF ReportInv, SkeletonsCompleteNothing
<1>8. Loaded' /\ TimelineContiguous' /\ EventsBounded'
  BY <1>1 DEF workload, process, clock, ReportInv, Loaded, load_processes_from_file, TypeOK,
     Times, Events, Process, TimelineContiguous, Contiguous, EndOf, EventsBounded
<1>9. Alone' /\ OneBest'
  BY <1>1 DEF ReportInv, Alone, OneBest
<1>10. Rows'
  <2> SUFFICES ASSUME Ran' = Process', NEW k \in DOMAIN results'
               PROVE  Row(results[k])'
    BY DEF Rows
  <2>0. Process' = Process
    BY <1>1 DEF workload, Process
  <2>1. Ran' = Ran /\ Schedules' = Schedules
    BY <1>1, <2>0 DEF workload, Ran, Schedules
  <2>2. Attainable' = Attainable
    BY <2>0, <2>1 DEF Attainable, Meets
  <2>3. \A E : Turnaround(E)' = Turnaround(E)
    BY <1>1, <2>0 DEF workload, Turnaround
  <2>4. \A r : Row(r) => Row(r)'
    BY <1>1, <2>2, <2>3 DEF workload, Row
  <2> PICK r : r = results'[k]
    OBVIOUS
  <2>5. ASSUME k \in DOMAIN results
        PROVE  Row(r)
    <3>1. Row(results[k]) /\ results'[k] = results[k]
      BY <1>3, <2>0, <2>1, <2>5 DEF ReportInv, Rows
    <3> QED
      BY <3>1
  <2>6. ASSUME k = len + 1
        PROVE  Row(r)
    <3>1. Row(row)
      <4>1. CASE algo \in Skeletons
        BY <1>4, <4>1, FiveAlgos DEF Row
      <4>2. CASE algo \notin Skeletons
        <5>1. StcfInv /\ TracedInv /\ Ended
          BY <1>1, <4>2 DEF ReportInv, Alone, Ended
        <5> QED
          BY <2>0, <2>1, <5>1, MetricsRow
      <4> QED
        BY <4>1, <4>2
    <3>2. r = row
      BY <1>3, <2>6
    <3> QED
      BY <3>1, <3>2
  <2>7. Row(r)
    BY <1>3, <2>5, <2>6
  <2>8. Row(r)'
    BY <2>4, <2>7
  <2> QED
    BY <2>8 DEF Row
<1> QED
  BY <1>6, <1>7, <1>8, <1>9, <1>10 DEF ReportInv

\* The scan of the report keeps the first of the lowest averages.
LEMMA ReportStep ==
  ASSUME ReportInv, generate_report
  PROVE  ReportInv'
<1> USE DEF generate_report
<1>1. /\ UNCHANGED <<n, arrival_time, burst_time, remaining_time, start_time, completion_time,
                     current_time, completed_count, timeline, algo, pc, total_time, results>>
      /\ phase = "report" /\ phase' = "done"
  BY DEF simVars, workload, process, clock
<1>2. OneBest'
  <2>1. /\ \A k \in DOMAIN results : results[k].algorithm = ALGOS[k]
        /\ DOMAIN results \subseteq DOMAIN ALGOS /\ DOMAIN results \subseteq Nat
    <3>1. Len(results) \in Nat /\ DOMAIN results = 1 .. Len(results) /\ Len(results) <= 5
      <4> DEFINE S == {results[k] : k \in DOMAIN results}
      <4>1. results \in Seq(S) /\ Len(results) <= 5
        BY DEF ReportInv, InOrder
      <4> QED
        BY <4>1
    <3> QED
      BY <3>1, FiveAlgos DEF ReportInv, InOrder
  <2> DEFINE Win == {j \in DOMAIN results :
                   /\ LowerAverage(results[j], NoData)
                   /\ \A i \in DOMAIN results : ~LowerAverage(results[i], results[j])
                   /\ \A i \in 1 .. j - 1 : LowerAverage(results[j], results[i])}
  <2>2. best' = {results[k].algorithm : k \in Win}
    OBVIOUS
  <2>3. \A j, k \in Win : j = k
    <3> SUFFICES ASSUME NEW j \in Win, NEW k \in Win, j < k PROVE FALSE
      BY <2>1
    <3>1. j \in 1 .. k - 1 /\ j \in DOMAIN results /\ k \in DOMAIN results
      BY <2>1, FiveAlgos
    <3> QED
      BY <3>1
  <2>4. Win \subseteq DOMAIN results
    OBVIOUS
  <2> HIDE DEF Win
  <2> QED
    BY <2>1, <2>2, <2>3, <2>4 DEF OneBest
<1>3. Loaded' /\ TimelineContiguous' /\ EventsBounded'
  BY <1>1 DEF ReportInv, Loaded, load_processes_from_file, TypeOK,
     Times, Events, Process, TimelineContiguous, Contiguous, EndOf, EventsBounded
<1>4. InOrder' /\ Alone' /\ SkeletonsCompleteNothing'
  BY <1>1 DEF ReportInv, InOrder, Alone, SkeletonsCompleteNothing
<1>5. Rows'
  BY <1>1, RowsStay DEF ReportInv
<1> QED
  BY <1>2, <1>3, <1>4, <1>5 DEF ReportInv

LEMMA ReportInvStep ==
  ASSUME ReportInv, [NextReport]_vars
  PROVE  ReportInv'
<1>1. CASE UNCHANGED vars
  <2>1. StcfInv /\ LeastInv /\ TracedInv => StcfInv' /\ LeastInv' /\ TracedInv'
    BY <1>1, StcfOrderStep, LeastInvStep, TraceStep DEF vars
  <2>2. Rows'
    BY <1>1, RowsStay DEF vars, simVars, workload, ReportInv
  <2>3. Loaded' /\ TimelineContiguous' /\ EventsBounded'
    BY <1>1 DEF vars, simVars, workload, process, clock, ReportInv, Loaded,
       load_processes_from_file, TypeOK, Times, Events, Process, TimelineContiguous,
       Contiguous, EndOf, EventsBounded
  <2>4. InOrder' /\ Alone' /\ OneBest' /\ SkeletonsCompleteNothing'
    BY <1>1, <2>1 DEF vars, simVars, workload, process, ReportInv, InOrder, Alone, OneBest,
       SkeletonsCompleteNothing, Process
  <2> QED
    BY <2>2, <2>3, <2>4 DEF ReportInv
<1> QED
  BY <1>1, PrepareStep, SimulateStep, MeasureStep, ReportStep DEF NextReport

-----------------------------------------------------------------------------
(* Every step counts: what is left to do never grows, and each step takes   *)
(* something off it.                                                        *)

\* A sum in which one term has been replaced.
LEMMA SumReplaced ==
  ASSUME NEW S, IsFiniteSet(S), NEW f, NEW g, NEW x \in S,
         \A y \in S : f[y] \in Int /\ g[y] \in Int /\ (y # x => f[y] = g[y])
  PROVE  Sum(g, S) = Sum(f, S) - f[x] + g[x]
<1> PICK T : T = S \ {x}
  OBVIOUS
<1>1. IsFiniteSet(T)
  BY FS_RemoveElement
<1>2. \A y \in S : f[y] \in Int /\ g[y] \in Int
  OBVIOUS
<1>3. \A y \in T : f[y] \in Int /\ f[y] = g[y]
  OBVIOUS
<1>4. Sum(f, T) = Sum(g, T)
  BY ONLY <1>1, <1>3, SumSame
<1>5. Sum(f, S) = f[x] + Sum(f, T) /\ Sum(g, S) = g[x] + Sum(g, T)
  <2>1. \A y \in S : f[y] \in Int
    BY <1>2
  <2>2. \A y \in S : g[y] \in Int
    BY <1>2
  <2>3. Sum(f, S) = f[x] + Sum(f, T)
    BY <2>1, SumRemove
  <2>4. Sum(g, S) = g[x] + Sum(g, T)
    BY <2>2, SumRemove
  <2> QED
    BY <2>3, <2>4
<1>6. Sum(f, T) \in Int
  <2>1. \A y \in T : f[y] \in Int
    BY <1>3
  <2> QED
    BY <1>1, <2>1, SumRemove
<1> QED
  BY <1>2, <1>4, <1>5, <1>6

\* The four parts of StepsLeft are natural numbers.
LEMMA StepsTyped ==
  ASSUME TypeOK
  PROVE  /\ n \in Nat /\ completed_count \in Nat /\ completed_count <= n
         /\ Sum(remaining_time, Process) \in Nat /\ Sum(burst_time, Process) \in Nat
         /\ Waited \in SUBSET Process /\ IsFiniteSet(Waited)
         /\ Cardinality(Waited) \in Nat /\ Cardinality(Waited) <= n
         /\ StepsLeft \in Nat
<1>1. /\ IsFiniteSet(Process) /\ Waited \in SUBSET Process
      /\ \A p \in Process : remaining_time[p] \in Nat /\ burst_time[p] \in Nat
  BY Finite, ServedTypes DEF Waited
<1>2. Sum(remaining_time, Process) \in Nat /\ Sum(burst_time, Process) \in Nat
  BY <1>1, SumNat
<1>3. n \in Nat /\ completed_count \in Nat /\ completed_count <= n
  BY Finite DEF TypeOK
<1>4. IsFiniteSet(Waited) /\ Cardinality(Waited) \in Nat /\ Cardinality(Waited) <= n
  BY <1>1, Finite
<1> QED
  BY <1>1, <1>2, <1>3, <1>4 DEF StepsLeft

\* As time goes by fewer processes are waited for; one less when one arrives.
LEMMA WaitedShrinks ==
  ASSUME TypeOK, UNCHANGED workload, current_time' \in Nat, current_time' >= current_time
  PROVE  /\ Cardinality(Waited)' \in Nat /\ Cardinality(Waited)' <= Cardinality(Waited)
         /\ \A p \in Waited : arrival_time[p] <= current_time'
              => Cardinality(Waited)' < Cardinality(Waited)
<1> PICK W1 : W1 = Waited'
  OBVIOUS
<1>1. current_time \in Nat /\ \A p \in Process : arrival_time[p] \in Nat
  BY ServedTypes DEF TypeOK
<1>2. \A p : p \in W1 <=> p \in Process /\ arrival_time[p] > current_time'
  BY DEF Waited, Process, workload
<1>3. W1 \in SUBSET Waited
  BY <1>1, <1>2 DEF Waited
<1>4. IsFiniteSet(Waited) /\ Cardinality(Waited) \in Nat
  BY StepsTyped
<1>5. /\ Cardinality(W1) \in Nat /\ Cardinality(W1) <= Cardinality(Waited)
      /\ Cardinality(W1) = Cardinality(Waited) => W1 = Waited
  BY <1>3, <1>4, FS_Subset, FS_CardinalityType
<1>6. \A p \in Waited : arrival_time[p] <= current_time' => p \notin W1
  BY <1>1, <1>2
<1> QED
  BY <1>4, <1>5, <1>6

\* Running p for d units takes them off the sum.
LEMMA UnitsSpent ==
  ASSUME TypeOK, UNCHANGED workload, NEW p \in Process, NEW v \in Nat,
         remaining_time' = [remaining_time EXCEPT ![p] = v]
  PROVE  Sum(remaining_time, Process)' = Sum(remaining_time, Process) - remaining_time[p] + v
<1>1. IsFiniteSet(Process) /\ remaining_time \in [Process -> Nat] /\ Process' = Process
  BY Finite DEF TypeOK, Process, workload
<1> PICK f : f = remaining_time
  OBVIOUS
<1> PICK g : g = remaining_time'
  OBVIOUS
<1>2. \A q \in Process : f[q] \in Int /\ g[q] \in Int /\ (q # p => f[q] = g[q])
  BY <1>1
<1>3. Sum(g, Process) = Sum(f, Process) - f[p] + g[p]
  BY ONLY <1>1, <1>2, p \in Process, SumReplaced
<1> QED
  BY <1>1, <1>3

\* An idle wait ends with an arrival; with none pending the loop is over.
LEMMA IdleAdvances ==
  ASSUME TypeOK, Ready = {}, pc = "loop", Idle,
         UNCHANGED <<workload, process, completed_count>>
  PROVE  StepsLeft' < StepsLeft
<1>1. /\ current_time \in Nat /\ \A p \in Process : arrival_time[p] \in Nat
      /\ Sum(remaining_time, Process)' = Sum(remaining_time, Process)
      /\ n' = n /\ completed_count' = completed_count
  BY ServedTypes DEF TypeOK, workload, process, Process
<1>2. CASE pc' = "end" /\ UNCHANGED current_time
  <2>1. Waited' = Waited
    BY <1>2 DEF Waited, workload, Process
  <2> QED
    BY <1>1, <1>2, <2>1, StepsTyped DEF StepsLeft
<1>3. ASSUME NEW t \in next_arrival, current_time' = t, pc' = pc
      PROVE  StepsLeft' < StepsLeft
  <2>1. PICK p \in Pending : t = arrival_time[p]
    BY DEF next_arrival
  <2>2. p \in Process /\ p \in Waited /\ t \in Nat /\ t > current_time
    BY <1>1, <2>1 DEF Ready, Pending, Waited
  <2>3. Cardinality(Waited)' \in Nat /\ Cardinality(Waited)' < Cardinality(Waited)
    BY <1>1, <1>3, <2>1, <2>2, WaitedShrinks
  <2> QED
    BY <1>1, <1>3, <2>3, StepsTyped DEF StepsLeft
<1> QED
  BY <1>2, <1>3 DEF Idle

\* A process that runs leaves less to run.
LEMMA RunAdvances ==
  ASSUME TypeOK, UNCHANGED workload, pc' = pc, NEW p \in Process, NEW v \in Nat,
         v < remaining_time[p], remaining_time' = [remaining_time EXCEPT ![p] = v],
         NEW d \in Nat, current_time' = current_time + d,
         completed_count' = completed_count \/ completed_count' = completed_count + 1
  PROVE  StepsLeft' < StepsLeft
<1>1. Sum(remaining_time, Process)' = Sum(remaining_time, Process) - remaining_time[p] + v
  BY UnitsSpent
<1>2. Cardinality(Waited)' \in Nat /\ Cardinality(Waited)' <= Cardinality(Waited)
  <2>1. current_time' \in Nat /\ current_time' >= current_time
    BY DEF TypeOK
  <2> QED
    BY <2>1, WaitedShrinks
<1>3. n' = n /\ remaining_time[p] \in Nat
  BY DEF workload, TypeOK
<1> QED
  BY <1>1, <1>2, <1>3, StepsTyped DEF StepsLeft

\* Every iteration of an algorithm.
LEMMA LoopAdvances ==
  ASSUME TypeOK, Simulate
  PROVE  StepsLeft' < StepsLeft
<1>1. /\ current_time \in Nat /\ remaining_time \in [Process -> Nat]
      /\ \A p \in Process : arrival_time[p] \in Nat /\ burst_time[p] \in Nat
  BY ServedTypes DEF TypeOK
<1>2. CASE schedule_fifo
  <2>1. /\ UNCHANGED <<workload, remaining_time, pc>> /\ completed_count' = completed_count + 1
        /\ Process' = Process /\ n' = n
    BY <1>2 DEF schedule_fifo, workload, Process
  <2>2. current_time' \in Nat /\ current_time' >= current_time
    <3>1. completed_count + 1 \in Process
      BY <1>2, Finite DEF schedule_fifo, Process
    <3> QED
      BY <1>1, <1>2, <3>1 DEF schedule_fifo
  <2>3. Cardinality(Waited)' \in Nat /\ Cardinality(Waited)' <= Cardinality(Waited)
    BY <2>1, <2>2, WaitedShrinks
  <2> QED
    BY <2>1, <2>3, StepsTyped DEF StepsLeft
<1>3. CASE schedule_sjf
  <2>1. ASSUME NEW p \in Shortest(Ready, burst_time), UNCHANGED pc,
               remaining_time' = [remaining_time EXCEPT ![p] = 0],
               current_time' = current_time + burst_time[p],
               completed_count' = completed_count + 1
        PROVE  StepsLeft' < StepsLeft
    <3>1. p \in Process /\ UNCHANGED workload /\ remaining_time[p] > 0
      BY <1>3 DEF Shortest, Ready, Pending, schedule_sjf
    <3> QED
      BY <1>1, <2>1, <3>1, RunAdvances
  <2>2. CASE Ready = {} /\ Idle /\ UNCHANGED <<process, completed_count>>
    BY <1>3, <2>2, IdleAdvances DEF schedule_sjf, Looping
  <2> QED
    BY <1>3, <2>1, <2>2 DEF schedule_sjf
<1>4. CASE schedule_stcf
  <2>1. ASSUME NEW p \in Shortest(Ready, remaining_time), Tick(p), UNCHANGED pc
        PROVE  StepsLeft' < StepsLeft
    <3>1. p \in Process /\ UNCHANGED workload /\ remaining_time[p] > 0
      BY <1>4 DEF Shortest, Ready, Pending, schedule_stcf
    <3>2. /\ remaining_time' = [remaining_time EXCEPT ![p] = remaining_time[p] - 1]
          /\ current_time' = current_time + 1
          /\ completed_count' = completed_count \/ completed_count' = completed_count + 1
      BY <2>1 DEF Tick
    <3> PICK v : v = remaining_time[p] - 1
      OBVIOUS
    <3>3. v \in Nat /\ v < remaining_time[p] /\ 1 \in Nat
      BY <1>1, <3>1
    <3> QED
      BY <2>1, <3>1, <3>2, <3>3, RunAdvances
  <2>2. CASE Ready = {} /\ Idle /\ UNCHANGED <<process, completed_count>>
    BY <1>4, <2>2, IdleAdvances DEF schedule_stcf, Looping
  <2> QED
    BY <1>4, <2>1, <2>2 DEF schedule_stcf
<1>5. ASSUME NEW a \in {"FIFO", "SJF", "STCF"}, Finish(a)
      PROVE  StepsLeft' < StepsLeft
  <2>1. /\ pc = "loop" /\ pc' = "end" /\ n' = n /\ completed_count' = completed_count
        /\ Sum(remaining_time, Process)' = Sum(remaining_time, Process) /\ Waited' = Waited
    BY <1>5 DEF Finish, Looping, workload, process, Process, Waited
  <2> QED
    BY <2>1, StepsTyped DEF StepsLeft
<1> QED
  BY <1>2, <1>3, <1>4, <1>5 DEF Simulate

\* A fresh copy, and an empty function, leave at most MostSteps to do.
LEMMA FreshSteps ==
  ASSUME TypeOK, UNCHANGED <<n, arrival_time, burst_time>>, completed_count' = 0,
         remaining_time' = burst_time \/ remaining_time' = [p \in Process |-> 0]
  PROVE  StepsLeft' \in Nat /\ StepsLeft' <= MostSteps
<1> PICK sum : sum = Sum(remaining_time, Process)'
  OBVIOUS
<1> PICK waited : waited = Cardinality(Waited)'
  OBVIOUS
<1>1. IsFiniteSet(Process) /\ Process' = Process
  BY Finite DEF Process
<1>2. sum \in Nat /\ sum <= Sum(burst_time, Process) /\ Sum(burst_time, Process) \in Nat
  <2>1. CASE remaining_time' = burst_time
    BY <1>1, <2>1, StepsTyped
  <2>2. CASE remaining_time' = [p \in Process |-> 0]
    <3>1. \A p \in Process : remaining_time'[p] = 0
      BY <2>2
    <3>2. Sum(remaining_time', Process) = 0
      BY <1>1, <3>1, SumZero
    <3> QED
      BY <1>1, <3>2, StepsTyped
  <2> QED
    BY <2>1, <2>2
<1>3. waited \in Nat /\ waited <= n
  <2>1. Waited' \in SUBSET Process
    BY <1>1 DEF Waited
  <2> QED
    BY <2>1, Finite
<1>4. StepsLeft' = (n - 0) + sum + waited + (IF pc' = "loop" THEN 1 ELSE 0)
  BY DEF StepsLeft
<1> QED
  BY <1>2, <1>3, <1>4, StepsTyped DEF MostSteps

LEMMA RowsCounted == ReportInv => Len(results) \in 0 .. 5
<1> SUFFICES ASSUME ReportInv PROVE Len(results) \in 0 .. 5
  OBVIOUS
<1> PICK len : len = Len(results)
  OBVIOUS
<1>1. len \in Nat
  <2> PICK S : results \in Seq(S)
    BY DEF ReportInv, InOrder
  <2> QED
    BY LenProperties
<1>2. len <= 5
  BY DEF ReportInv, InOrder
<1>3. len \in 0 .. 5
  BY ONLY <1>1, <1>2
<1> QED
  BY <1>3

\* The algorithms to come weigh more than all that one of them can take.
LEMMA ReportAdvances ==
  ASSUME ReportInv, NextReport
  PROVE  ReportLeft' < ReportLeft
<1> PICK most : most = MostSteps
  OBVIOUS
<1> PICK len : len = Len(results)
  OBVIOUS
<1> PICK sum : sum = (5 - len) * (most + 2)
  OBVIOUS
<1> PICK steps : steps = StepsLeft
  OBVIOUS
<1> PICK steps1 : steps1 = StepsLeft'
  OBVIOUS
<1>1. /\ TypeOK /\ most \in Nat /\ steps \in Nat /\ len \in 0 .. 5 /\ Len(ALGOS) = 5
      /\ phase \in {"prepare", "simulate"} => len < 5
  <2>1. TypeOK /\ Len(ALGOS) = 5 /\ (phase \in {"prepare", "simulate"} => len < 5)
    BY FiveAlgos DEF ReportInv, Loaded, InOrder
  <2>2. len \in 0 .. 5
    BY RowsCounted
  <2>3. n \in Nat /\ Sum(burst_time, Process) \in Nat /\ StepsLeft \in Nat
    BY <2>1, StepsTyped
  <2>4. most \in Nat
    BY <2>3 DEF MostSteps
  <2> QED
    BY <2>1, <2>2, <2>3, <2>4
<1>2. sum \in Int
  BY <1>1
<1>3. /\ phase = "prepare"  => ReportLeft = sum + (most + 1)
      /\ phase = "simulate" => ReportLeft = sum + steps
      /\ phase = "report"   => ReportLeft = sum + 1
  BY <1>1 DEF ReportLeft
<1>4. UNCHANGED <<n, arrival_time, burst_time>> /\ MostSteps' = most
  BY DEF NextReport, prepare, simulate, measure, generate_report, Simulate, schedule_fifo,
     schedule_sjf, schedule_stcf, Finish, simVars, workload, MostSteps, Process
<1>5. CASE prepare
  <2>1. ReportLeft' = sum + steps1 /\ phase = "prepare"
    BY <1>1, <1>4, <1>5 DEF prepare, ReportLeft
  <2>2. steps1 \in Nat /\ steps1 <= most
    BY <1>1, <1>4, <1>5, FreshSteps DEF prepare, initialize_processes
  <2> QED
    BY <1>1, <1>2, <1>3, <2>1, <2>2
<1>6. CASE simulate
  <2>1. ReportLeft' = sum + steps1 /\ phase = "simulate"
    BY <1>1, <1>4, <1>6 DEF simulate, ReportLeft
  <2>2. steps1 < steps
    BY <1>1, <1>6, LoopAdvances DEF simulate
  <2>3. steps1 \in Int
    <3>1. (TypeOK => StepsLeft \in Nat)'
      BY StepsTyped, PTL
    <3> QED
      BY <1>6, <3>1, SimulateStep DEF ReportInv, Loaded
  <2> QED
    BY <1>1, <1>2, <1>3, <2>1, <2>2, <2>3
<1>7. CASE measure
  <2>1. /\ phase = "simulate" /\ phase' \in {"prepare", "report"} /\ Len(results') = len + 1
        /\ len < 5
    BY <1>1, <1>7 DEF measure
  <2> PICK rest : rest = (5 - (len + 1)) * (most + 2)
    OBVIOUS
  <2>2. ReportLeft' = rest + (most + 1) \/ ReportLeft' = rest + 1
    BY <1>1, <1>4, <2>1 DEF ReportLeft
  <2>3. rest = sum - (most + 2)
    BY <1>1, <2>1
  <2> QED
    BY <1>1, <1>2, <1>3, <2>1, <2>2, <2>3
<1>8. CASE generate_report
  <2>1. ReportLeft' = sum + 0 /\ phase = "report"
    BY <1>1, <1>4, <1>8 DEF generate_report, ReportLeft
  <2> QED
    BY <1>2, <1>3, <2>1
<1> QED
  BY <1>5, <1>6, <1>7, <1>8 DEF NextReport

\* What is left is a number of steps, bounded by the workload.
LeftInv == ReportInv /\ ReportLeft \in 0 .. 6 * (MostSteps + 2)

LEMMA LeftTyped ==
  ASSUME ReportInv
  PROVE  ReportLeft \in Nat /\ MostSteps \in Nat /\ n \in Nat
<1> PICK most : most = MostSteps
  OBVIOUS
<1> PICK len : len = Len(results)
  OBVIOUS
<1>1. n \in Nat /\ most \in Nat /\ StepsLeft \in Nat
  <2>1. TypeOK
    BY DEF ReportInv, Loaded
  <2>2. n \in Nat /\ Sum(burst_time, Process) \in Nat /\ StepsLeft \in Nat
    BY <2>1, StepsTyped
  <2> QED
    BY <2>2 DEF MostSteps
<1>2. len \in 0 .. 5 /\ Len(ALGOS) = 5
  BY RowsCounted, FiveAlgos
<1> PICK rounds : rounds = (5 - len) * (most + 2)
  OBVIOUS
<1>3. rounds \in Nat
  <2>1. len = 0 \/ len = 1 \/ len = 2 \/ len = 3 \/ len = 4 \/ len = 5
    BY <1>2
  <2> QED
    BY <1>1, <2>1
<1>4. ReportLeft \in {rounds + (most + 1), rounds + StepsLeft, rounds + 1, rounds + 0}
  BY <1>2 DEF ReportLeft, ReportInv, InOrder
<1> QED
  BY <1>1, <1>3, <1>4

LEMMA InitLeft == InitReport => LeftInv
<1> SUFFICES ASSUME InitReport PROVE LeftInv
  OBVIOUS
<1>1. ReportInv /\ ReportLeft \in Nat /\ MostSteps \in Nat
  BY InitReportInv, LeftTyped
<1>2. phase = "prepare" /\ Len(results) = 0
  BY DEF InitReport
<1>3. ReportLeft = (5 - 0) * (MostSteps + 2) + (MostSteps + 1)
  BY <1>2, FiveAlgos DEF ReportLeft
<1> QED
  BY <1>1, <1>3 DEF LeftInv

LEMMA LeftStep ==
  ASSUME LeftInv, [NextReport]_vars
  PROVE  LeftInv'
<1>1. ReportInv' /\ (ReportInv => ReportLeft \in Nat)'
  BY ReportInvStep, LeftTyped, PTL DEF LeftInv
<1>2. MostSteps' = MostSteps
  BY DEF NextReport, prepare, simulate, measure, generate_report, Simulate, schedule_fifo,
     schedule_sjf, schedule_stcf, Finish, vars, simVars, workload, MostSteps, Process
<1>3. ReportLeft' = ReportLeft \/ ReportLeft' < ReportLeft
  <2>1. CASE UNCHANGED vars
    BY <1>2, <2>1 DEF ReportLeft, StepsLeft, Waited, Process, vars, simVars, workload, process, clock
  <2> QED
    BY <2>1, ReportAdvances DEF LeftInv
<1>4. ReportLeft \in Nat /\ MostSteps \in Nat /\ ReportLeft <= 6 * (MostSteps + 2)
  BY LeftTyped DEF LeftInv
<1> QED
  BY <1>1, <1>2, <1>3, <1>4 DEF LeftInv

-----------------------------------------------------------------------------
(* The theorems.                                                            *)

\* The loop of run_all_algorithms_for_report runs each algorithm as if it were
\* alone, whatever the workload and whatever the uninitialized total_time.
THEOREM ReportInvariance == SpecReport => []ReportInv
BY InitReportInv, ReportInvStep, PTL DEF SpecReport

\* The report has one row per algorithm, in the order of the code's array, and
\* names at most one of them the best.
THEOREM ReportTypeCorrect == SpecReport => []ReportTypeOK
<1>1. ReportInv => ReportTypeOK
  <2> SUFFICES ASSUME ReportInv PROVE ReportTypeOK
    OBVIOUS
  <2>1. best = {} \/ \E a \in best : best = {a}
    BY DEF ReportInv, OneBest
  <2>2. Cardinality(best) <= 1
    <3>1. Cardinality({}) = 0 /\ \A a : Cardinality({a}) = 1
      BY FS_EmptySet, FS_Singleton
    <3>2. Cardinality(best) = 0 \/ Cardinality(best) = 1
      BY <2>1, <3>1, Zenon
    <3> QED
      BY <3>2
  <2> QED
    BY <2>2, FiveAlgos DEF ReportInv, Loaded, InOrder, OneBest, ReportTypeOK
<1> QED
  BY <1>1, ReportInvariance, PTL

\* schedule_rr and schedule_mlfq take no credit for what ran before them.
THEOREM SkeletonsGetNoCredit == SpecReport => []SkeletonsCompleteNothing
<1>1. ReportInv => SkeletonsCompleteNothing
  BY DEF ReportInv
<1> QED
  BY <1>1, ReportInvariance, PTL

\* What is proved of each algorithm alone holds in the report's five runs: the
\* timeline is continuous and short, SJF and STCF idle only when nobody waits,
\* SJF picks the shortest and STCF reaches the least total of all schedules.
THEOREM AlgorithmsKeepTheirPromises ==
  SpecReport => [](/\ TimelineContiguous /\ EventsBounded
                   /\ NoIdleWhileReady /\ SjfPicksShortest /\ LeastTotal)
<1>1. ReportInv => TimelineContiguous /\ EventsBounded
  BY DEF ReportInv
<1>2. ReportInv => NoIdleWhileReady /\ SjfPicksShortest /\ LeastTotal
  BY NothingEnded
<1> QED
  BY <1>1, <1>2, ReportInvariance, PTL

\* The comparison of the report: over the same processes, neither FIFO nor SJF
\* has a lower total turnaround time than STCF, on any workload in which every
\* process has something to run.
THEOREM StcfIsNeverWorse == SpecReport => []StcfNeverWorse
<1>1. ReportInv => StcfNeverWorse
  <2> SUFFICES ASSUME ReportInv, phase = "done", Ran = Process, NEW a \in {"FIFO", "SJF"}
               PROVE  /\ Result("STCF").completed = Result(a).completed
                      /\ Result("STCF").turnaround <= Result(a).turnaround
    BY DEF StcfNeverWorse
  <2>1. /\ DOMAIN results = 1 .. 5
        /\ \A k \in DOMAIN results : results[k].algorithm = ALGOS[k] /\ Row(results[k])
    BY DEF ReportInv, InOrder, Rows
  <2>2. ASSUME NEW b \in {"FIFO", "SJF", "STCF"}
        PROVE  Result(b).algorithm = b /\ Row(Result(b))
    <3>1. \E k \in DOMAIN results : results[k].algorithm = b
      <4>1. ALGOS[1] = "FIFO" /\ ALGOS[2] = "SJF" /\ ALGOS[3] = "STCF"
        BY DEF ALGOS
      <4>2. 1 \in DOMAIN results /\ 2 \in DOMAIN results /\ 3 \in DOMAIN results
        BY <2>1
      <4> QED
        BY <2>1, <4>1, <4>2
    <3>2. PICK k \in DOMAIN results : results[k].algorithm = b /\ Result(b) = results[k]
      BY <3>1 DEF Result
    <3> QED
      BY <2>1, <3>2
  <2>3. Row(Result("STCF")) /\ Row(Result(a))
        /\ Result("STCF").algorithm = "STCF" /\ Result(a).algorithm = a
    BY <2>2
  <2> QED
    BY <2>3 DEF Row
<1> QED
  BY <1>1, ReportInvariance, PTL

\* In each of the report's five runs the timeline serves everyone its burst,
\* with room for two events per process: no run finds what another has left.
THEOREM AllRunsServe ==
  ASSUME 2 * MAX_PROCESSES < MAX_TIMELINE_EVENTS
  PROVE  SpecReport => []EveryoneServed
<1>1. ReportInv => EveryoneServed
  BY NothingEnded
<1> QED
  BY <1>1, ReportInvariance, PTL

\* Each iteration of schedule_fifo, schedule_sjf and schedule_stcf takes
\* something off a natural number, so the loops end on every workload.
THEOREM IterationsCount ==
  SpecAlgorithms => []TypeOK /\ [][StepsLeft' < StepsLeft]_simVars
<1>1. ServedInv => TypeOK
  BY DEF ServedInv, ServiceInv, SchedInv
<1>2. TypeOK /\ [Simulate]_simVars => [StepsLeft' < StepsLeft]_simVars
  BY LoopAdvances
<1> QED
  BY <1>1, <1>2, ServedInvariance, PTL DEF SpecAlgorithms

\* The report is over after at most six times the steps of one algorithm, the
\* two around it included: what is left to do starts there, is never negative,
\* and every step of run_all_algorithms_for_report takes something off it.
THEOREM EachStepCounts == SpecReport => []LeftInv /\ EveryStepCounts
<1>1. LeftInv /\ [NextReport]_vars => [ReportLeft' < ReportLeft]_vars
  BY ReportAdvances DEF LeftInv
<1> QED
  BY <1>1, InitLeft, LeftStep, PTL DEF SpecReport, EveryStepCounts

=============================================================================
