---------------------------- MODULE SchedProofs ----------------------------
(* What FIFO, SJF and STCF do on every workload, for every number of        *)
(* processes and every array size.  First type correctness and the          *)
(* continuity of the timeline; then how the workload is served: the         *)
(* timeline stays short, SJF and STCF idle only when nobody waits, SJF      *)
(* picks the shortest.                                                      *)
EXTENDS SchedAlgorithms, FiniteSetTheorems, TLAPS

\* add_timeline_event keeps a timeline that is continuous up to t continuous
\* up to the end of the event added, as long as there is room.
LEMMA EventAdded ==
  ASSUME NEW tl \in Seq(Events), NEW t \in Nat,
         NEW p \in Process \cup {IDLE}, NEW d \in Int
  PROVE  LET new == add_timeline_event(tl, t, p, d) IN
         /\ new \in Seq(Events)
         /\ Len(tl) <= Len(new)
         /\ d >= 0 /\ Len(new) < MAX_TIMELINE_EVENTS /\ Contiguous(tl, t)
              => Contiguous(new, t + d)
<1> DEFINE new == add_timeline_event(tl, t, p, d)
<1>1. CASE d <= 0 \/ Len(tl) >= MAX_TIMELINE_EVENTS
  <2>1. new = tl
    BY <1>1 DEF add_timeline_event
  <2> QED
    BY <2>1, <1>1, SchedAssumption DEF Contiguous
<1>2. CASE ~(d <= 0 \/ Len(tl) >= MAX_TIMELINE_EVENTS) /\ tl # << >> /\ tl[Len(tl)].pid = p
  <2>1. new = [tl EXCEPT ![Len(tl)].duration = @ + d]
    BY <1>2 DEF add_timeline_event
  <2>2. Len(tl) \in Nat \ {0} /\ Len(tl) \in DOMAIN tl
    BY <1>2
  <2>3. tl[Len(tl)] \in Events
    BY <2>2
  <2>4. [tl[Len(tl)] EXCEPT !.duration = @ + d] \in Events
    <3>1. /\ tl[Len(tl)].time \in Nat /\ tl[Len(tl)].pid \in Process \cup {IDLE}
          /\ tl[Len(tl)].duration + d \in Nat \ {0}
      BY <2>3, <1>2 DEF Events
    <3>2. [tl[Len(tl)] EXCEPT !.duration = @ + d]
            = [time |-> tl[Len(tl)].time, pid |-> tl[Len(tl)].pid,
               duration |-> tl[Len(tl)].duration + d]
      BY <2>3 DEF Events
    <3> QED
      BY <3>1, <3>2 DEF Events
  <2>5. new = [tl EXCEPT ![Len(tl)] = [tl[Len(tl)] EXCEPT !.duration = @ + d]]
    BY <2>1, <2>2
  <2>6. new \in Seq(Events) /\ Len(new) = Len(tl)
    BY <2>5, <2>4, <2>2
  <2>7. \A k \in 1 .. Len(tl) : k # Len(tl) => new[k] = tl[k]
    BY <2>5
  <2>8. new[Len(tl)] = [tl[Len(tl)] EXCEPT !.duration = @ + d]
    BY <2>5, <2>2
  <2>9. /\ new[Len(tl)].time = tl[Len(tl)].time
        /\ new[Len(tl)].duration = tl[Len(tl)].duration + d
    BY <2>8, <2>3 DEF Events
  <2>10. \A k \in 1 .. Len(tl) : tl[k] \in Events
    OBVIOUS
  <2>11. Contiguous(tl, t) => Contiguous(new, t + d)
    <3> SUFFICES ASSUME Contiguous(tl, t) PROVE Contiguous(new, t + d)
      OBVIOUS
    <3>1. \A k \in 1 .. Len(new) : new[k].time = IF k = 1 THEN 0 ELSE EndOf(new[k - 1])
      <4> TAKE k \in 1 .. Len(new)
      <4>1. tl[k].time = IF k = 1 THEN 0 ELSE EndOf(tl[k - 1])
        BY <2>6 DEF Contiguous
      <4>2. new[k].time = tl[k].time
        BY <2>6, <2>7, <2>9
      <4>3. k # 1 => new[k - 1] = tl[k - 1]
        BY <2>6, <2>7, <2>2
      <4> QED
        BY <4>1, <4>2, <4>3
    <3>2. t + d = EndOf(new[Len(new)])
      BY <2>6, <2>9, <2>3, <1>2 DEF Contiguous, EndOf, Events
    <3>3. new # << >>
      BY <2>6, <2>2
    <3> QED
      BY <3>1, <3>2, <3>3 DEF Contiguous
  <2> QED
    BY <2>6, <2>11
<1>3. CASE ~(d <= 0 \/ Len(tl) >= MAX_TIMELINE_EVENTS) /\ ~(tl # << >> /\ tl[Len(tl)].pid = p)
  <2>1. new = Append(tl, Event(t, p, d))
    BY <1>3 DEF add_timeline_event
  <2>2. Event(t, p, d) \in Events
    BY <1>3 DEF Event, Events
  <2>3. new \in Seq(Events) /\ Len(new) = Len(tl) + 1
    BY <2>1, <2>2
  <2>4. /\ \A k \in 1 .. Len(tl) : new[k] = tl[k]
        /\ new[Len(tl) + 1] = Event(t, p, d)
    BY <2>1, <2>2
  <2>5. Contiguous(tl, t) => Contiguous(new, t + d)
    <3> SUFFICES ASSUME Contiguous(tl, t) PROVE Contiguous(new, t + d)
      OBVIOUS
    <3>1. \A k \in 1 .. Len(new) : new[k].time = IF k = 1 THEN 0 ELSE EndOf(new[k - 1])
      <4> TAKE k \in 1 .. Len(new)
      <4>1. CASE k \in 1 .. Len(tl)
        <5>1. tl[k].time = IF k = 1 THEN 0 ELSE EndOf(tl[k - 1])
          BY <4>1 DEF Contiguous
        <5>2. new[k] = tl[k] /\ (k # 1 => new[k - 1] = tl[k - 1])
          BY <4>1, <2>4
        <5> QED
          BY <5>1, <5>2
      <4>2. CASE k = Len(tl) + 1
        <5>1. new[k].time = t
          BY <4>2, <2>4 DEF Event
        <5>2. k # 1 => new[k - 1] = tl[Len(tl)]
          BY <4>2, <2>4
        <5>3. k = 1 <=> tl = << >>
          BY <4>2
        <5> QED
          BY <5>1, <5>2, <5>3 DEF Contiguous
      <4> QED
        BY <4>1, <4>2, <2>3
    <3>2. new # << >> /\ EndOf(new[Len(new)]) = t + d
      BY <2>3, <2>4 DEF EndOf, Event
    <3> QED
      BY <3>1, <3>2 DEF Contiguous
  <2> QED
    BY <2>3, <2>5
<1> QED
  BY <1>1, <1>2, <1>3

-----------------------------------------------------------------------------
\* The inductive invariant: the timeline's continuity alone is not inductive,
\* the values it is built from have to be natural numbers too.
SchedInv == TypeOK /\ TimelineContiguous

\* The workload is a workload: pids and times are natural numbers.
LEMMA ProcessesExist ==
  ASSUME TypeOK
  PROVE  /\ Process \subseteq Nat \ {0}
         /\ \A p \in Process : arrival_time[p] \in Nat /\ burst_time[p] \in Nat
  BY SchedAssumption DEF TypeOK, Process

\* The loader and initialize_processes establish the invariant.
LEMMA SchedInit == InitAlgorithms => SchedInv
<1> SUFFICES ASSUME InitAlgorithms PROVE SchedInv
  OBVIOUS
<1>1. n \in 1 .. MAX_PROCESSES /\ n \in Nat
  BY SchedAssumption DEF InitAlgorithms, load_processes_from_file
<1>2. arrival_time \in [Process -> Nat] /\ burst_time \in [Process -> Nat]
  BY SchedAssumption DEF InitAlgorithms, load_processes_from_file, Process
<1>3. timeline \in Seq(Events) /\ completed_count \in 0 .. n /\ current_time \in Nat
  BY <1>1 DEF InitAlgorithms
<1>4. TypeOK
  BY <1>1, <1>2, <1>3 DEF InitAlgorithms, TypeOK, Times
<1>5. TimelineContiguous
  BY DEF InitAlgorithms, TimelineContiguous, Contiguous
<1> QED
  BY <1>4, <1>5 DEF SchedInv

\* Idle time: the event added ends at the next arrival.
LEMMA IdleStep ==
  ASSUME SchedInv, Idle, Ready = {},
         UNCHANGED <<workload, process, completed_count>>
  PROVE  SchedInv'
<1>1. CASE next_arrival = {} /\ pc' = "end" /\ UNCHANGED <<current_time, timeline>>
  BY <1>1 DEF SchedInv, TypeOK, Times, Events, Process, TimelineContiguous,
     Contiguous, EndOf, workload, process
<1>2. ASSUME NEW t \in next_arrival, Record(current_time, IDLE, t - current_time),
             current_time' = t, UNCHANGED pc
      PROVE SchedInv'
  <2>1. /\ TypeOK /\ current_time \in Nat /\ timeline \in Seq(Events)
    BY DEF SchedInv, TypeOK
  <2>2. t \in Nat /\ t - current_time >= 0
    BY <2>1, <1>2, ProcessesExist DEF next_arrival, Ready, Pending
  <2>3. timeline' = add_timeline_event(timeline, current_time, IDLE, t - current_time)
    BY <1>2 DEF Record
  <2>4. /\ timeline' \in Seq(Events) /\ Len(timeline) <= Len(timeline')
        /\ Len(timeline') < MAX_TIMELINE_EVENTS /\ Contiguous(timeline, current_time)
             => Contiguous(timeline', t)
    <3> DEFINE d == t - current_time
    <3>1. d \in Int /\ d >= 0 /\ current_time + d = t
      BY <2>1, <2>2
    <3> HIDE DEF d
    <3>2. timeline' = add_timeline_event(timeline, current_time, IDLE, d)
      BY <2>3 DEF d
    <3>3. IDLE \in Process \cup {IDLE}
      OBVIOUS
    <3> QED
      BY <2>1, <3>1, <3>2, <3>3, EventAdded
  <2>5. Events' = Events
    BY DEF Events, Process, workload
  <2>6. TypeOK'
    BY <2>1, <2>2, <2>4, <2>5, <1>2 DEF TypeOK, workload, process, Process, Times
  <2>7. TimelineContiguous'
    BY <2>1, <2>4, <1>2, SchedAssumption DEF SchedInv, TimelineContiguous, Contiguous, EndOf
  <2> QED
    BY <2>6, <2>7 DEF SchedInv
<1> QED
  BY <1>1, <1>2 DEF Idle

\* A step in which p runs for d units from the current time on.
LEMMA RunStep ==
  ASSUME SchedInv, UNCHANGED <<workload, pc>>,
         NEW p \in Process, NEW d \in Nat,
         Record(current_time, p, d), current_time' = current_time + d,
         remaining_time' \in [Process -> Nat],
         start_time' \in [Process -> Times],
         completion_time' \in [Process -> Nat],
         completed_count' \in 0 .. n
  PROVE  SchedInv'
<1>1. TypeOK /\ current_time \in Nat /\ timeline \in Seq(Events)
  BY DEF SchedInv, TypeOK
<1>2. /\ timeline' \in Seq(Events) /\ Len(timeline) <= Len(timeline')
      /\ Len(timeline') < MAX_TIMELINE_EVENTS /\ Contiguous(timeline, current_time)
           => Contiguous(timeline', current_time + d)
  BY <1>1, EventAdded DEF Record
<1>3. Events' = Events /\ Process' = Process
  BY DEF Events, Process, workload
<1>4. TypeOK'
  BY <1>1, <1>2, <1>3 DEF TypeOK, workload
<1>5. TimelineContiguous'
  BY <1>1, <1>2, SchedAssumption DEF SchedInv, TimelineContiguous, Contiguous, EndOf
<1> QED
  BY <1>4, <1>5 DEF SchedInv

-----------------------------------------------------------------------------
\* One process of schedule_fifo, with the idle gap before it: two events.
LEMMA FifoStep ==
  ASSUME SchedInv, schedule_fifo
  PROVE  SchedInv'
<1> DEFINE p      == completed_count + 1
           begins == IF current_time < arrival_time[p] THEN arrival_time[p]
                                                       ELSE current_time
           gap    == add_timeline_event(timeline, current_time, IDLE,
                                        begins - current_time)
<1>1. /\ TypeOK /\ current_time \in Nat /\ timeline \in Seq(Events)
      /\ n \in Nat /\ completed_count \in 0 .. n /\ completed_count < n
  BY SchedAssumption DEF SchedInv, TypeOK, schedule_fifo
<1>2. p \in Process /\ arrival_time[p] \in Nat /\ burst_time[p] \in Nat
  BY <1>1 DEF Process, TypeOK
<1>3. /\ timeline' = add_timeline_event(gap, begins, p, burst_time[p])
      /\ start_time' = [start_time EXCEPT ![p] = begins]
      /\ completion_time' = [completion_time EXCEPT ![p] = begins + burst_time[p]]
      /\ current_time' = begins + burst_time[p]
      /\ completed_count' = p
      /\ UNCHANGED <<workload, remaining_time, pc>>
  BY DEF schedule_fifo
<1>4. begins \in Nat /\ begins - current_time \in Nat
  BY <1>1, <1>2
<1> HIDE DEF p, begins
<1>5. /\ gap \in Seq(Events) /\ Len(timeline) <= Len(gap)
      /\ Len(gap) < MAX_TIMELINE_EVENTS /\ Contiguous(timeline, current_time)
           => Contiguous(gap, begins)
  <2> DEFINE d == begins - current_time
  <2>1. d \in Int /\ d >= 0 /\ current_time + d = begins
    BY <1>1, <1>4
  <2> HIDE DEF d
  <2>2. gap = add_timeline_event(timeline, current_time, IDLE, d)
    BY DEF d
  <2>3. IDLE \in Process \cup {IDLE}
    OBVIOUS
  <2> QED
    BY <1>1, <2>1, <2>2, <2>3, EventAdded
<1> HIDE DEF gap
<1>6. /\ timeline' \in Seq(Events) /\ Len(gap) <= Len(timeline')
      /\ Len(timeline') < MAX_TIMELINE_EVENTS /\ Contiguous(gap, begins)
           => Contiguous(timeline', current_time')
  BY <1>2, <1>3, <1>4, <1>5, EventAdded
<1>7. Events' = Events /\ Process' = Process
  BY <1>3 DEF Events, Process, workload
<1>8. /\ start_time' \in [Process -> Times] /\ completion_time' \in [Process -> Nat]
      /\ current_time' \in Nat
  BY <1>1, <1>2, <1>3, <1>4 DEF TypeOK, Times
<1>9. TypeOK'
  BY <1>1, <1>2, <1>3, <1>6, <1>7, <1>8 DEF TypeOK, workload, p
<1>10. TimelineContiguous'
  <2> SUFFICES ASSUME Len(timeline') < MAX_TIMELINE_EVENTS
               PROVE  Contiguous(timeline', current_time')
    BY DEF TimelineContiguous, Contiguous, EndOf
  <2>1. Len(gap) < MAX_TIMELINE_EVENTS /\ Len(timeline) < MAX_TIMELINE_EVENTS
    BY <1>1, <1>5, <1>6, SchedAssumption
  <2> QED
    BY <2>1, <1>5, <1>6 DEF SchedInv, TimelineContiguous
<1> QED
  BY <1>9, <1>10 DEF SchedInv

\* One iteration of schedule_sjf: a whole burst, or idle time.
LEMMA SjfStep ==
  ASSUME SchedInv, schedule_sjf
  PROVE  SchedInv'
<1>1. /\ TypeOK /\ current_time \in Nat /\ completed_count + 1 \in 0 .. n
      /\ UNCHANGED workload
  BY SchedAssumption DEF SchedInv, TypeOK, schedule_sjf
<1>2. CASE Ready = {} /\ Idle /\ UNCHANGED <<process, completed_count>>
  BY <1>1, <1>2, IdleStep
<1>3. ASSUME NEW p \in Shortest(Ready, burst_time),
             start_time' = [start_time EXCEPT ![p] = IF @ = -1 THEN current_time ELSE @],
             completion_time' = [completion_time EXCEPT ![p] = current_time + burst_time[p]],
             remaining_time' = [remaining_time EXCEPT ![p] = 0],
             Record(current_time, p, burst_time[p]),
             current_time' = current_time + burst_time[p],
             completed_count' = completed_count + 1,
             UNCHANGED pc
      PROVE SchedInv'
  <2>1. p \in Process /\ burst_time[p] \in Nat
    BY <1>1, ProcessesExist DEF Shortest, Ready, Pending
  <2>2. /\ remaining_time' \in [Process -> Nat]
        /\ start_time' \in [Process -> Times]
        /\ completion_time' \in [Process -> Nat]
    BY <1>1, <1>3, <2>1 DEF TypeOK, Times
  <2> QED
    BY <1>1, <1>3, <2>1, <2>2, RunStep
<1> QED
  BY <1>2, <1>3 DEF schedule_sjf

\* One iteration of schedule_stcf: a unit of time, or idle time.
LEMMA StcfStep ==
  ASSUME SchedInv, schedule_stcf
  PROVE  SchedInv'
<1>1. /\ TypeOK /\ current_time \in Nat /\ completed_count \in 0 .. n
      /\ completed_count + 1 \in 0 .. n /\ UNCHANGED workload
  BY SchedAssumption DEF SchedInv, TypeOK, schedule_stcf
<1>2. CASE Ready = {} /\ Idle /\ UNCHANGED <<process, completed_count>>
  BY <1>1, <1>2, IdleStep
<1>3. ASSUME NEW p \in Shortest(Ready, remaining_time), Tick(p), UNCHANGED pc
      PROVE SchedInv'
  <2>1. p \in Process /\ remaining_time[p] \in Nat /\ remaining_time[p] > 0
    BY <1>1 DEF Shortest, Ready, Pending, TypeOK
  <2>2. /\ remaining_time' \in [Process -> Nat]
        /\ start_time' \in [Process -> Times]
    BY <1>1, <1>3, <2>1 DEF TypeOK, Times, Tick
  <2>3. completion_time' \in [Process -> Nat] /\ completed_count' \in 0 .. n
    <3>1. CASE remaining_time[p] = 1
      <4>1. completion_time' = [completion_time EXCEPT ![p] = current_time + 1]
        BY <1>3, <3>1 DEF Tick
      <4>2. completed_count' = completed_count + 1
        BY <1>3, <3>1 DEF Tick
      <4> QED
        BY <4>1, <4>2, <1>1, <2>1 DEF TypeOK
    <3>2. CASE remaining_time[p] # 1
      BY <3>2, <1>1, <1>3 DEF TypeOK, Tick
    <3> QED
      BY <3>1, <3>2
  <2> QED
    BY <1>1, <1>3, <2>1, <2>2, <2>3, RunStep DEF Tick
<1> QED
  BY <1>2, <1>3 DEF schedule_stcf

\* The end of an algorithm: the marker of duration 0 adds no event.
LEMMA FinishStep ==
  ASSUME SchedInv, NEW a, Finish(a)
  PROVE  SchedInv'
<1>1. timeline' = timeline
  BY DEF Finish, Record, add_timeline_event
<1> QED
  BY <1>1 DEF Finish, SchedInv, TypeOK, Times, Events, Process,
     TimelineContiguous, Contiguous, EndOf, workload, process

\* The invariant holds at every step of FIFO, SJF and STCF, whatever the
\* workload, the number of processes and the size of the timeline array.
THEOREM SchedInvariance == SpecAlgorithms => []SchedInv
<1>1. SchedInv /\ [Simulate]_simVars => SchedInv'
  <2> SUFFICES ASSUME SchedInv, [Simulate]_simVars PROVE SchedInv'
    OBVIOUS
  <2>1. CASE Simulate
    BY <2>1, FifoStep, SjfStep, StcfStep, FinishStep DEF Simulate
  <2>2. CASE UNCHANGED simVars
    BY <2>2 DEF SchedInv, TypeOK, Times, Events, Process, TimelineContiguous,
       Contiguous, EndOf, simVars, workload, process, clock
  <2> QED
    BY <2>1, <2>2
<1> QED
  BY <1>1, SchedInit, PTL DEF SpecAlgorithms

\* Every field of every process and event keeps its type: no counter of the
\* loops passes the number of processes, no remaining time goes below zero.
THEOREM SchedTypeCorrect == SpecAlgorithms => []TypeOK
<1>1. SchedInv => TypeOK
  BY DEF SchedInv
<1> QED
  BY <1>1, SchedInvariance, PTL

\* The timeline of FIFO, SJF and STCF is continuous, for every workload.
THEOREM TimelineIsContiguous == SpecAlgorithms => []TimelineContiguous
<1>1. SchedInv => TimelineContiguous
  BY DEF SchedInv
<1> QED
  BY <1>1, SchedInvariance, PTL

-----------------------------------------------------------------------------
(* How a workload is served.                                                *)

\* Who ran last: IDLE, a process, or 0 when nobody has.
LastPid == IF timeline = << >> THEN 0 ELSE timeline[Len(timeline)].pid
HasRoom == Len(timeline) < MAX_TIMELINE_EVENTS

\* The processes that arrived before now.
Arrived == {p \in Process : arrival_time[p] < current_time}

Before(p, q, key) == key[p] < key[q] \/ (key[p] = key[q] /\ p <= q)

\* Whether the last event is still to be paid for: it is of a process that has
\* not finished, or idle time up to an arrival.
Owing == \/ LastPid \in Pending
         \/ LastPid = IDLE /\ Pending # {} /\ Pending \cap Arrived = {}
Debt == IF Owing THEN 1 ELSE 0

\* FIFO records two events for each process.  In SJF and STCF each event but
\* the last is paid for by a completion or by an arrival.
Counting ==
  IF algo = "FIFO" THEN Len(timeline) <= 2 * completed_count
  ELSE /\ completed_count + Cardinality(Pending) <= n
       /\ Len(timeline) <= completed_count + Cardinality(Arrived) + Debt

\* While the array has room its last event tells who ran last; in STCF that
\* process still leads all those it was chosen from.
Leader ==
  algo # "FIFO" /\ HasRoom =>
    /\ LastPid = IDLE => Pending \cap Arrived = {} /\ Ready # {}
    /\ LastPid \in Pending =>
         /\ algo = "STCF" /\ LastPid \in Ready
         /\ \A q \in Pending \cap Arrived : Before(LastPid, q, remaining_time)

\* Nobody has more left than its burst, nobody completes in the future.
Past == /\ \A p \in Process : remaining_time[p] <= burst_time[p]
        /\ algo # "FIFO" => \A p \in Process : completion_time[p] <= current_time

\* While the CPU idles, each process has completed or is still to arrive.
IdleSound ==
  algo # "FIFO" =>
    \A k \in 1 .. Len(timeline) : timeline[k].pid = IDLE =>
      \A p \in Ran : \/ arrival_time[p] >= EndOf(timeline[k])
                     \/ p \notin Pending /\ completion_time[p] <= timeline[k].time

\* SJF: a process that has started is no longer than those that were waiting
\* for it, whether they have started since or still wait.
ShortestFirst ==
  algo = "SJF" =>
    /\ \A p \in Process : start_time[p] <= current_time
    /\ \A p \in Ran : p \in Pending <=> start_time[p] = -1
    /\ \A p, q \in Ran : /\ p \notin Pending /\ arrival_time[q] <= start_time[p]
                         /\ q \in Pending \/ start_time[p] < start_time[q]
                         => burst_time[p] <= burst_time[q]

ServiceInv ==
  SchedInv /\ Counting /\ Leader /\ Past /\ IdleSound /\ ShortestFirst

-----------------------------------------------------------------------------
(* Lemmas that serve several steps.                                         *)

\* An event is dropped, merged into the last one, or added after it.
LEMMA EventCases ==
  ASSUME NEW tl \in Seq(Events), NEW t \in Nat, NEW p \in Process \cup {IDLE}, NEW d \in Nat,
         NEW new, new = add_timeline_event(tl, t, p, d)
  PROVE  \/ /\ d = 0 \/ Len(tl) >= MAX_TIMELINE_EVENTS
            /\ new = tl
         \/ /\ d > 0 /\ Len(tl) < MAX_TIMELINE_EVENTS /\ tl # << >> /\ tl[Len(tl)].pid = p
            /\ Len(new) = Len(tl) /\ new[Len(tl)].pid = p
            /\ \A k \in 1 .. Len(tl) : k # Len(tl) => new[k] = tl[k]
         \/ /\ d > 0 /\ Len(tl) < MAX_TIMELINE_EVENTS /\ (tl = << >> \/ tl[Len(tl)].pid # p)
            /\ Len(new) = Len(tl) + 1 /\ new[Len(tl) + 1] = Event(t, p, d)
            /\ \A k \in 1 .. Len(tl) : new[k] = tl[k]
<1>0. Len(tl) \in Nat /\ MAX_TIMELINE_EVENTS \in Nat
  BY SchedAssumption
<1>1. CASE d <= 0 \/ Len(tl) >= MAX_TIMELINE_EVENTS
  BY <1>0, <1>1 DEF add_timeline_event
<1>2. CASE ~(d <= 0 \/ Len(tl) >= MAX_TIMELINE_EVENTS) /\ tl # << >> /\ tl[Len(tl)].pid = p
  <2>1. new = [tl EXCEPT ![Len(tl)] = [tl[Len(tl)] EXCEPT !.duration = @ + d]]
    BY <1>2 DEF add_timeline_event
  <2>2. Len(tl) \in DOMAIN tl /\ tl[Len(tl)] \in Events
    BY <1>2
  <2>3. new[Len(tl)] = [tl[Len(tl)] EXCEPT !.duration = @ + d]
    BY <2>1, <2>2
  <2>4. new[Len(tl)].pid = p
    BY <1>2, <2>2, <2>3 DEF Events
  <2>5. Len(new) = Len(tl) /\ \A k \in 1 .. Len(tl) : k # Len(tl) => new[k] = tl[k]
    BY <2>1
  <2> QED
    BY <1>0, <1>2, <2>4, <2>5
<1>3. CASE ~(d <= 0 \/ Len(tl) >= MAX_TIMELINE_EVENTS) /\ ~(tl # << >> /\ tl[Len(tl)].pid = p)
  <2>1. new = Append(tl, Event(t, p, d))
    BY <1>3 DEF add_timeline_event
  <2> QED
    BY <1>0, <1>3, <2>1
<1> QED
  BY <1>1, <1>2, <1>3

\* The sets that are counted are finite.
LEMMA Finite ==
  ASSUME TypeOK
  PROVE  /\ n \in Nat /\ completed_count \in Nat /\ Len(timeline) \in Nat
         /\ IsFiniteSet(Process) /\ Cardinality(Process) = n
         /\ \A S \in SUBSET Process :
              IsFiniteSet(S) /\ Cardinality(S) \in Nat /\ Cardinality(S) <= n
<1>1. n \in Nat /\ completed_count \in Nat /\ Len(timeline) \in Nat
  BY SchedAssumption DEF TypeOK
<1>2. IsFiniteSet(Process) /\ Cardinality(Process) = n
  BY <1>1, FS_Interval DEF Process
<1>3. \A S \in SUBSET Process :
        IsFiniteSet(S) /\ Cardinality(S) \in Nat /\ Cardinality(S) <= n
  BY <1>2, FS_Subset, FS_CardinalityType
<1> QED
  BY <1>1, <1>2, <1>3

LEMMA InitService == InitAlgorithms => ServiceInv
<1> SUFFICES ASSUME InitAlgorithms PROVE ServiceInv
  OBVIOUS
<1>1. SchedInv
  BY SchedInit
<1>2. TypeOK /\ timeline = << >> /\ Len(timeline) = 0 /\ LastPid = 0 /\ completed_count = 0
      /\ 0 \notin Process /\ current_time = 0
  BY <1>1 DEF SchedInv, InitAlgorithms, LastPid, Process
<1>3. Counting
  <2>1. Pending \in SUBSET Process /\ Arrived \in SUBSET Process
    BY DEF Pending, Arrived
  <2>2. /\ n \in Nat /\ Cardinality(Pending) \in Nat /\ Cardinality(Pending) <= n
        /\ Cardinality(Arrived) \in Nat
    BY <1>2, <2>1, Finite
  <2> QED
    BY <1>2, <2>2 DEF Counting, Debt
<1>4. Leader
  BY <1>2 DEF Leader, Pending, IDLE
<1>5. Past
  BY <1>2 DEF Past, InitAlgorithms, TypeOK
<1>6. IdleSound
  BY <1>2 DEF IdleSound
<1>7. ShortestFirst
  <2>1. \A p \in Process : start_time[p] = -1
    BY DEF InitAlgorithms
  <2>2. \A p \in Ran : p \in Pending
    BY DEF InitAlgorithms, Ran, Pending
  <2> QED
    BY <1>2, <2>1, <2>2 DEF ShortestFirst, Ran
<1> QED
  BY <1>1, <1>3, <1>4, <1>5, <1>6, <1>7 DEF ServiceInv

\* Steps in which no time passes: the end of a loop.
LEMMA NothingRuns ==
  ASSUME ServiceInv, SchedInv',
         UNCHANGED <<workload, process, current_time, completed_count, timeline, algo>>
  PROVE  ServiceInv'
<1> USE DEF workload, process
<1>1. /\ Process' = Process /\ Pending' = Pending /\ Ready' = Ready /\ Ran' = Ran
      /\ Arrived' = Arrived /\ LastPid' = LastPid /\ HasRoom' = HasRoom
  BY DEF Process, Pending, Ready, Ran, Arrived, LastPid, HasRoom
<1>2. Owing' = Owing
  BY <1>1 DEF Owing
<1>3. Counting'
  BY <1>1, <1>2 DEF ServiceInv, Counting, Debt
<1>4. Leader' /\ Past'
  BY <1>1 DEF ServiceInv, Leader, Past, Before
<1>5. IdleSound' /\ ShortestFirst'
  BY <1>1 DEF ServiceInv, IdleSound, ShortestFirst, EndOf
<1> QED
  BY <1>3, <1>4, <1>5 DEF ServiceInv

-----------------------------------------------------------------------------
(* FIFO.                                                                    *)

LEMMA FifoService ==
  ASSUME ServiceInv, schedule_fifo
  PROVE  ServiceInv'
<1> DEFINE p      == completed_count + 1
           begins == IF current_time < arrival_time[p] THEN arrival_time[p] ELSE current_time
           gap    == add_timeline_event(timeline, current_time, IDLE, begins - current_time)
<1>1. SchedInv' /\ TypeOK /\ algo = "FIFO" /\ algo' = "FIFO"
  BY FifoStep DEF ServiceInv, SchedInv, schedule_fifo, Looping
<1>2. /\ completed_count \in Nat /\ current_time \in Nat /\ timeline \in Seq(Events)
      /\ p \in Process /\ arrival_time[p] \in Nat /\ burst_time[p] \in Nat
  BY <1>1, SchedAssumption DEF TypeOK, schedule_fifo, Process
<1>3. /\ timeline' = add_timeline_event(gap, begins, p, burst_time[p])
      /\ completed_count' = completed_count + 1
      /\ UNCHANGED <<workload, remaining_time>>
  BY DEF schedule_fifo
<1>4. begins \in Nat /\ begins - current_time \in Nat
  BY <1>2
<1> HIDE DEF p, begins
<1>5. gap \in Seq(Events) /\ Len(gap) <= Len(timeline) + 1
  <2> DEFINE d == begins - current_time
  <2>1. d \in Nat /\ d \in Int
    BY <1>4
  <2> HIDE DEF d
  <2>0. IDLE \in Process \cup {IDLE} /\ timeline \in Seq(Events) /\ current_time \in Nat
    BY <1>2
  <2>2. gap = add_timeline_event(timeline, current_time, IDLE, d)
    BY DEF d
  <2>3. Len(gap) \in {Len(timeline), Len(timeline) + 1}
    BY <2>0, <2>1, <2>2, EventCases
  <2>4. gap \in Seq(Events)
    BY <2>0, <2>1, <2>2, EventAdded
  <2> QED
    BY <1>2, <2>3, <2>4
<1> HIDE DEF gap
<1>6. Len(timeline') \in {Len(gap), Len(gap) + 1}
  BY <1>2, <1>3, <1>4, <1>5, EventCases
<1>7. Counting'
  <2>1. Len(timeline) \in Nat /\ Len(gap) \in Nat /\ Len(timeline) <= 2 * completed_count
    BY <1>1, <1>2, <1>5 DEF ServiceInv, Counting
  <2>2. Len(timeline') <= 2 * completed_count'
    BY <1>2, <1>3, <1>5, <1>6, <2>1
  <2> QED
    BY <1>1, <2>2 DEF Counting
<1>8. Leader' /\ IdleSound' /\ ShortestFirst'
  BY <1>1 DEF Leader, IdleSound, ShortestFirst
<1>9. Past'
  BY <1>1, <1>3 DEF ServiceInv, Past, workload, Process
<1> QED
  BY <1>1, <1>7, <1>8, <1>9 DEF ServiceInv

-----------------------------------------------------------------------------
(* SJF and STCF: a process runs, for its whole burst or for a unit.         *)

LEMMA Sums ==
  ASSUME NEW c \in Nat, NEW a \in Nat, NEW o \in Nat, NEW len \in Nat,
         NEW c1 \in Nat, NEW a1 \in Nat, NEW o1 \in Nat,
         c1 + o1 >= c + 1, a + o <= a1, len <= c + a + o + 1
  PROVE  len <= c1 + a1 + o1
OBVIOUS

\* What the two have in common.  A process that takes over from one that has
\* not finished has just arrived, and pays for its event.
LEMMA RunService ==
  ASSUME ServiceInv, algo # "FIFO", UNCHANGED <<workload, algo>>,
         NEW p \in Ready, NEW d \in Nat, d > 0,
         Record(current_time, p, d), current_time' = current_time + d,
         \/ Pending' = Pending /\ completed_count' = completed_count
         \/ Pending' = Pending \ {p} /\ completed_count' = completed_count + 1,
         \A q \in Process : q # p => completion_time'[q] = completion_time[q],
         HasRoom /\ LastPid \in Pending /\ LastPid # p => p \notin Arrived
  PROVE  /\ Counting' /\ IdleSound'
         /\ HasRoom' => LastPid' = p
<1>1. /\ TypeOK /\ timeline \in Seq(Events) /\ current_time \in Nat /\ current_time' \in Nat
      /\ p \in Process /\ p \in Pending /\ arrival_time[p] <= current_time
      /\ arrival_time \in [Process -> Nat] /\ Process' = Process /\ p # IDLE
      /\ Len(timeline) \in Nat
  <2>1. /\ TypeOK /\ timeline \in Seq(Events) /\ current_time \in Nat
        /\ arrival_time \in [Process -> Nat] /\ Len(timeline) \in Nat /\ n \in Nat
    BY SchedAssumption DEF ServiceInv, SchedInv, TypeOK
  <2>2. p \in Process /\ p \in Pending /\ arrival_time[p] <= current_time
    BY DEF Ready, Pending
  <2>3. Process' = Process /\ p # IDLE
    BY <2>1, <2>2 DEF workload, Process, IDLE
  <2> QED
    BY <2>1, <2>2, <2>3
<1>2. \/ /\ ~HasRoom
         /\ timeline' = timeline
      \/ /\ HasRoom /\ LastPid = p
         /\ Len(timeline') = Len(timeline) /\ LastPid' = p
         /\ \A k \in 1 .. Len(timeline) : timeline[k].pid # p => timeline'[k] = timeline[k]
         /\ \A k \in 1 .. Len(timeline) : timeline[k].pid = p => timeline'[k].pid = p
      \/ /\ HasRoom /\ LastPid # p
         /\ Len(timeline') = Len(timeline) + 1 /\ LastPid' = p
         /\ timeline'[Len(timeline) + 1].pid = p
         /\ \A k \in 1 .. Len(timeline) : timeline'[k] = timeline[k]
  <2>1. timeline' = add_timeline_event(timeline, current_time, p, d)
    BY DEF Record
  <2>2. p \in Process \cup {IDLE} /\ p # 0
    BY <1>1 DEF Process
  <2>3. \/ /\ d = 0 \/ Len(timeline) >= MAX_TIMELINE_EVENTS
           /\ timeline' = timeline
        \/ /\ d > 0 /\ Len(timeline) < MAX_TIMELINE_EVENTS /\ timeline # << >>
           /\ timeline[Len(timeline)].pid = p
           /\ Len(timeline') = Len(timeline) /\ timeline'[Len(timeline)].pid = p
           /\ \A k \in 1 .. Len(timeline) : k # Len(timeline) => timeline'[k] = timeline[k]
        \/ /\ d > 0 /\ Len(timeline) < MAX_TIMELINE_EVENTS
           /\ timeline = << >> \/ timeline[Len(timeline)].pid # p
           /\ Len(timeline') = Len(timeline) + 1
           /\ timeline'[Len(timeline) + 1] = Event(current_time, p, d)
           /\ \A k \in 1 .. Len(timeline) : timeline'[k] = timeline[k]
    BY <1>1, <2>1, <2>2, EventCases
  <2>4. Event(current_time, p, d).pid = p
    BY DEF Event
  <2>5. timeline' \in Seq(Events)
    BY <1>1, <2>1, <2>2, EventAdded
  <2> QED
    BY <1>1, <2>2, <2>3, <2>4, <2>5, SchedAssumption DEF HasRoom, LastPid
<1>3. HasRoom' => LastPid' = p
  BY <1>2 DEF HasRoom
<1>4. /\ Pending \in SUBSET Process /\ Arrived \in SUBSET Process /\ Arrived' \in SUBSET Process
      /\ Arrived \subseteq Arrived' /\ p \in Arrived'
  BY <1>1 DEF Pending, Arrived, workload
<1>5. /\ n \in Nat /\ completed_count \in Nat /\ n' = n
      /\ IsFiniteSet(Pending) /\ IsFiniteSet(Arrived) /\ IsFiniteSet(Arrived')
      /\ Cardinality(Pending) \in Nat /\ Cardinality(Arrived) \in Nat
      /\ Cardinality(Arrived') \in Nat
  BY <1>1, <1>4, Finite DEF workload
<1>6. /\ Cardinality(Arrived) <= Cardinality(Arrived')
      /\ p \notin Arrived => Cardinality(Arrived) + 1 <= Cardinality(Arrived')
  <2>1. Cardinality(Arrived) <= Cardinality(Arrived')
    BY <1>4, <1>5, FS_Subset
  <2>2. ASSUME p \notin Arrived
        PROVE  Cardinality(Arrived) + 1 <= Cardinality(Arrived')
    <3>1. Arrived \cup {p} \subseteq Arrived'
      BY <1>4
    <3>2. Cardinality(Arrived \cup {p}) = Cardinality(Arrived) + 1
      BY <1>5, <2>2, FS_AddElement
    <3> QED
      BY <1>5, <3>1, <3>2, FS_Subset
  <2> QED
    BY <2>1, <2>2
<1>7. completed_count' + Cardinality(Pending') <= n'
  <2>1. completed_count + Cardinality(Pending) <= n
    BY DEF ServiceInv, Counting
  <2>2. Cardinality(Pending \ {p}) = Cardinality(Pending) - 1
    BY <1>1, <1>5, FS_RemoveElement
  <2> QED
    BY <1>5, <2>1, <2>2
<1>8. Len(timeline') <= completed_count' + Cardinality(Arrived') + Debt'
  <2>1. Debt \in {0, 1} /\ Debt' \in {0, 1} /\ (Debt = 1 <=> Owing) /\ (Debt' = 1 <=> Owing')
    BY DEF Debt
  <2>2. Len(timeline) <= completed_count + Cardinality(Arrived) + Debt
    BY DEF ServiceInv, Counting
  <2>3. completed_count' \in Nat /\ completed_count <= completed_count'
    BY <1>5
  <2>4. ASSUME Owing, LastPid \notin Pending
        PROVE  p \notin Arrived
    BY <1>1, <2>4 DEF Owing
  <2>5. LastPid' = p => completed_count' + Debt' >= completed_count + 1
    <3>1. ASSUME LastPid' = p, Pending' = Pending
          PROVE  Owing'
      BY <1>1, <3>1 DEF Owing
    <3> QED
      BY <1>5, <2>1, <3>1
  <2>6. CASE ~HasRoom /\ timeline' = timeline
    <3>1. LastPid' = LastPid
      BY <2>6 DEF LastPid
    <3>2. CASE ~Owing
      BY <1>5, <1>6, <2>1, <2>2, <2>3, <2>6, <3>2
    <3>3. CASE Owing /\ LastPid \notin Pending
      BY <1>5, <1>6, <2>1, <2>2, <2>3, <2>4, <2>6, <3>3
    <3>4. CASE LastPid \in Pending /\ LastPid \in Pending'
      <4>1. Owing'
        BY <3>1, <3>4 DEF Owing
      <4> QED
        BY <1>5, <1>6, <2>1, <2>2, <2>3, <2>6, <4>1
    <3>5. CASE LastPid \in Pending /\ LastPid \notin Pending'
      <4>1. completed_count' = completed_count + 1
        BY <3>5
      <4> QED
        BY <1>5, <1>6, <2>1, <2>2, <2>6, <4>1
    <3> QED
      BY <3>2, <3>3, <3>4, <3>5
  <2>7. CASE HasRoom /\ LastPid = p /\ Len(timeline') = Len(timeline) /\ LastPid' = p
    <3>1. completed_count' + Debt' >= completed_count + 1
      BY <2>5, <2>7
    <3>2. Len(timeline') <= completed_count + Cardinality(Arrived) + 0 + 1
      BY <1>5, <2>1, <2>2, <2>7, <1>1
    <3>3. Len(timeline') \in Nat
      BY <1>1, <2>7
    <3>4. Cardinality(Arrived) + 0 <= Cardinality(Arrived') /\ 0 \in Nat
      BY <1>5, <1>6
    <3>5. /\ completed_count \in Nat /\ completed_count' \in Nat
          /\ Cardinality(Arrived) \in Nat /\ Cardinality(Arrived') \in Nat
          /\ Debt' \in Nat
      BY <1>5, <2>1, <2>3
    <3> HIDE DEF Debt, Arrived, Pending, Ready
    <3> QED
      BY <3>1, <3>2, <3>3, <3>4, <3>5, Sums
  <2>8. CASE HasRoom /\ LastPid # p /\ Len(timeline') = Len(timeline) + 1 /\ LastPid' = p
    <3>1. Owing => p \notin Arrived
      BY <2>4, <2>8
    <3>2. completed_count' + Debt' >= completed_count + 1
      BY <2>5, <2>8
    <3>3. Cardinality(Arrived) + Debt <= Cardinality(Arrived')
      BY <1>5, <1>6, <2>1, <3>1
    <3>4. Len(timeline') <= completed_count + Cardinality(Arrived) + Debt + 1 /\ Len(timeline') \in Nat
      BY <1>1, <1>5, <2>1, <2>2, <2>8
    <3>5. /\ completed_count \in Nat /\ completed_count' \in Nat
          /\ Cardinality(Arrived) \in Nat /\ Cardinality(Arrived') \in Nat
          /\ Debt \in Nat /\ Debt' \in Nat
      BY <1>5, <2>1, <2>3
    <3> HIDE DEF Debt, Arrived, Pending, Ready
    <3> QED
      BY <3>2, <3>3, <3>4, <3>5, Sums
  <2>9. Len(timeline') <= completed_count' + Cardinality(Arrived') + Debt'
    <3>1. \/ ~HasRoom /\ timeline' = timeline
          \/ HasRoom /\ LastPid = p /\ Len(timeline') = Len(timeline) /\ LastPid' = p
          \/ HasRoom /\ LastPid # p /\ Len(timeline') = Len(timeline) + 1 /\ LastPid' = p
      BY <1>2
    <3> QED
      BY <2>6, <2>7, <2>8, <3>1
  <2> QED
    BY <2>9
<1>9. Counting'
  BY <1>7, <1>8 DEF Counting
<1>10. IdleSound'
  <2>1. Ran' = Ran /\ Ran \subseteq Process /\ Pending' \subseteq Pending
    BY <1>1 DEF Ran, workload
  <2>2. ASSUME NEW k \in 1 .. Len(timeline'), timeline'[k].pid = IDLE
        PROVE  k \in 1 .. Len(timeline) /\ timeline'[k] = timeline[k]
    BY <1>1, <1>2, <2>2
  <2>3. ASSUME NEW k \in 1 .. Len(timeline'), timeline'[k].pid = IDLE, NEW r \in Ran
        PROVE  \/ arrival_time[r] >= EndOf(timeline[k])
               \/ r \notin Pending' /\ completion_time'[r] <= timeline[k].time
    <3>1. \/ arrival_time[r] >= EndOf(timeline[k])
          \/ r \notin Pending /\ completion_time[r] <= timeline[k].time
      BY <2>2, <2>3 DEF ServiceInv, IdleSound
    <3>2. r \notin Pending => completion_time'[r] = completion_time[r]
      BY <1>1, <2>1, <2>3
    <3> QED
      BY <2>1, <3>1, <3>2
  <2> QED
    BY <2>1, <2>2, <2>3 DEF IdleSound, EndOf, workload
<1> QED
  BY <1>3, <1>9, <1>10

\* The next arrival is later than now, and nobody that is pending comes first.
LEMMA IdleService ==
  ASSUME ServiceInv, SchedInv', algo # "FIFO", Ready = {}, Idle,
         UNCHANGED <<workload, process, completed_count, algo>>
  PROVE  ServiceInv'
<1> USE DEF workload, process
<1>1. CASE UNCHANGED <<current_time, timeline>>
  BY <1>1, NothingRuns
<1>2. ASSUME NEW t \in next_arrival, Record(current_time, IDLE, t - current_time),
             current_time' = t
      PROVE  ServiceInv'
  <2>1. /\ TypeOK /\ timeline \in Seq(Events) /\ current_time \in Nat /\ Len(timeline) \in Nat
        /\ arrival_time \in [Process -> Nat] /\ n \in Nat /\ algo' # "FIFO"
    BY SchedAssumption DEF ServiceInv, SchedInv, TypeOK
  <2>2. PICK a \in Pending : t = arrival_time[a] /\ \A q \in Pending : t <= arrival_time[q]
    BY <1>2 DEF next_arrival
  <2>3. t \in Nat /\ t > current_time /\ a \in Process
    BY <2>1, <2>2 DEF Ready, Pending
  <2>4. /\ Process' = Process /\ Pending' = Pending /\ Ran' = Ran /\ a \in Ready'
        /\ Pending \subseteq Process /\ Ran \subseteq Process
    BY <1>2, <2>2 DEF Process, Pending, Ran, Ready
  <2>5. Pending' \cap Arrived' = {} /\ Arrived \subseteq Arrived'
    <3>1. \A q \in Pending : arrival_time[q] \in Nat /\ t <= arrival_time[q]
      BY <2>1, <2>2, <2>4
    <3> QED
      BY <1>2, <2>1, <2>3, <2>4, <3>1 DEF Arrived
  <2>6. HasRoom => LastPid # IDLE /\ LastPid \notin Pending
    BY DEF ServiceInv, Leader
  <2>7. \/ ~HasRoom /\ timeline' = timeline
        \/ /\ HasRoom /\ Len(timeline') = Len(timeline) + 1 /\ LastPid' = IDLE
           /\ timeline'[Len(timeline) + 1] = Event(current_time, IDLE, t - current_time)
           /\ \A k \in 1 .. Len(timeline) : timeline'[k] = timeline[k]
    <3> DEFINE d == t - current_time
    <3>1. d \in Nat /\ d > 0
      BY <2>1, <2>3
    <3> HIDE DEF d
    <3>2. timeline' = add_timeline_event(timeline, current_time, IDLE, d)
      BY <1>2 DEF Record, d
    <3>3. \/ /\ d = 0 \/ Len(timeline) >= MAX_TIMELINE_EVENTS
             /\ timeline' = timeline
          \/ /\ Len(timeline) < MAX_TIMELINE_EVENTS /\ timeline # << >>
             /\ timeline[Len(timeline)].pid = IDLE
          \/ /\ Len(timeline) < MAX_TIMELINE_EVENTS
             /\ Len(timeline') = Len(timeline) + 1
             /\ timeline'[Len(timeline) + 1] = Event(current_time, IDLE, d)
             /\ \A k \in 1 .. Len(timeline) : timeline'[k] = timeline[k]
      <4>1. IDLE \in Process \cup {IDLE} /\ timeline \in Seq(Events) /\ current_time \in Nat
        BY <2>1
      <4> QED
        BY <3>1, <3>2, <4>1, EventCases
    <3>4. ~(HasRoom /\ timeline # << >> /\ timeline[Len(timeline)].pid = IDLE)
      BY <2>6 DEF LastPid
    <3>5. ASSUME Len(timeline') = Len(timeline) + 1,
                 timeline'[Len(timeline) + 1] = Event(current_time, IDLE, d)
          PROVE  LastPid' = IDLE
      <4>1. timeline' # << >>
        BY <2>1, <3>5
      <4> QED
        BY <3>5, <4>1 DEF LastPid, Event
    <3> QED
      BY <2>1, <3>1, <3>3, <3>4, <3>5, SchedAssumption DEF HasRoom, d
  <2>8. Counting'
    <3>1. /\ completed_count \in Nat /\ Cardinality(Pending) \in Nat
          /\ Cardinality(Arrived) \in Nat /\ Cardinality(Arrived') \in Nat
          /\ Cardinality(Arrived) <= Cardinality(Arrived')
      <4>1. Arrived \in SUBSET Process /\ Arrived' \in SUBSET Process
            /\ Pending \in SUBSET Process
        BY <2>4 DEF Arrived, Pending
      <4>2. IsFiniteSet(Arrived')
        BY <2>1, <4>1, Finite
      <4> QED
        BY <2>1, <2>5, <4>1, <4>2, Finite, FS_Subset
    <3>2. completed_count' + Cardinality(Pending') <= n'
      BY <2>4 DEF ServiceInv, Counting
    <3>3. Len(timeline) <= completed_count + Cardinality(Arrived) + Debt
      BY DEF ServiceInv, Counting
    <3>4. Debt \in {0, 1} /\ (Debt = 1 <=> Owing) /\ Debt' \in {0, 1} /\ (Debt' = 1 <=> Owing')
      BY DEF Debt
    <3>5. CASE ~HasRoom /\ timeline' = timeline
      <4>1. LastPid' = LastPid
        BY <3>5 DEF LastPid
      <4>2. Owing => Owing'
        BY <2>2, <2>4, <2>5, <4>1 DEF Owing
      <4>3. Len(timeline') <= completed_count' + Cardinality(Arrived') + Debt'
        BY <2>1, <3>1, <3>3, <3>4, <3>5, <4>2
      <4> QED
        BY <2>1, <3>2, <4>3 DEF Counting
    <3>6. CASE HasRoom /\ Len(timeline') = Len(timeline) + 1 /\ LastPid' = IDLE
      <4>1. ~Owing
        BY <2>6, <3>6 DEF Owing
      <4>2. Owing'
        BY <2>2, <2>4, <2>5, <3>6 DEF Owing
      <4>3. Len(timeline') <= completed_count' + Cardinality(Arrived') + Debt'
        BY <2>1, <3>1, <3>3, <3>4, <3>6, <4>1, <4>2
      <4> QED
        BY <2>1, <3>2, <4>3 DEF Counting
    <3> QED
      BY <2>7, <3>5, <3>6
  <2>9. Leader'
    <3>1. HasRoom' => LastPid' = IDLE
      BY <2>7 DEF HasRoom
    <3>2. IDLE \notin Pending'
      BY <2>4, <2>1 DEF IDLE, Process
    <3> QED
      BY <2>4, <2>5, <3>1, <3>2 DEF Leader
  <2>10. Past'
    <3>1. \A p \in Process : completion_time[p] \in Nat /\ completion_time[p] <= current_time
      BY <2>1 DEF TypeOK, ServiceInv, Past
    <3>2. \A p \in Process : completion_time[p] <= t
      BY <2>1, <2>3, <3>1
    <3> QED
      BY <1>2, <2>4, <3>2 DEF ServiceInv, Past
  <2>11. IdleSound'
    <3>1. ASSUME NEW k \in 1 .. Len(timeline'), timeline'[k].pid = IDLE, NEW r \in Ran
          PROVE  \/ arrival_time[r] >= EndOf(timeline'[k])
                 \/ r \notin Pending /\ completion_time[r] <= timeline'[k].time
      <4>1. CASE k \in 1 .. Len(timeline) /\ timeline'[k] = timeline[k]
        BY <3>1, <4>1 DEF ServiceInv, IdleSound
      <4>2. CASE timeline'[k] = Event(current_time, IDLE, t - current_time)
        <5>1. timeline'[k].time = current_time /\ EndOf(timeline'[k]) = t
          BY <2>1, <2>3, <4>2 DEF Event, EndOf
        <5>2. r \in Pending => arrival_time[r] >= t
          BY <2>1, <2>2, <2>3, <2>4
        <5>3. completion_time[r] <= current_time
          BY <2>4 DEF ServiceInv, Past
        <5> QED
          BY <5>1, <5>2, <5>3
      <4> QED
        BY <2>1, <2>7, <3>1, <4>1, <4>2
    <3>2. \A k \in 1 .. Len(timeline') : EndOf(timeline[k])' = EndOf(timeline'[k])
      BY DEF EndOf
    <3> QED
      BY <2>4, <3>1, <3>2 DEF IdleSound
  <2>12. ShortestFirst'
    <3>1. algo = "SJF" => \A p \in Process : start_time[p] <= t
      <4>1. algo = "SJF" => \A p \in Process : start_time[p] \in Int /\ start_time[p] <= current_time
        BY <2>1 DEF TypeOK, Times, ServiceInv, ShortestFirst
      <4> QED
        BY <2>1, <2>3, <4>1
    <3> QED
      BY <1>2, <2>4, <3>1 DEF ServiceInv, ShortestFirst
  <2> QED
    BY <2>8, <2>9, <2>10, <2>11, <2>12 DEF ServiceInv
<1> QED
  BY <1>1, <1>2 DEF Idle

\* SJF: whoever starts is the shortest of those that are ready, and nobody
\* that is ready has started before.
LEMMA SjfService ==
  ASSUME ServiceInv, schedule_sjf
  PROVE  ServiceInv'
<1>1. /\ SchedInv' /\ TypeOK /\ algo = "SJF" /\ algo # "FIFO" /\ UNCHANGED <<workload, algo>>
      /\ algo' = "SJF"
  BY SjfStep DEF ServiceInv, SchedInv, schedule_sjf, Looping
<1>2. CASE Ready = {} /\ Idle /\ UNCHANGED <<process, completed_count>>
  BY <1>1, <1>2, IdleService
<1>3. ASSUME NEW p \in Shortest(Ready, burst_time),
             start_time' = [start_time EXCEPT ![p] = IF @ = -1 THEN current_time ELSE @],
             completion_time' = [completion_time EXCEPT ![p] = current_time + burst_time[p]],
             remaining_time' = [remaining_time EXCEPT ![p] = 0],
             Record(current_time, p, burst_time[p]),
             current_time' = current_time + burst_time[p],
             completed_count' = completed_count + 1
      PROVE  ServiceInv'
  <2>1. /\ p \in Ready /\ p \in Pending /\ p \in Process /\ arrival_time[p] <= current_time
        /\ \A q \in Ready : burst_time[p] <= burst_time[q]
    <3>1. p \in Ready /\ p \in Process /\ p \in Pending /\ arrival_time[p] <= current_time
      BY <1>3 DEF Shortest, Ready, Pending
    <3>2. \A q \in Ready : burst_time[p] \in Nat /\ burst_time[q] \in Nat
      BY <1>1, <3>1 DEF TypeOK, Ready, Pending
    <3> QED
      BY <1>3, <3>1, <3>2 DEF Shortest
  <2>2. /\ current_time \in Nat /\ burst_time \in [Process -> Nat]
        /\ remaining_time \in [Process -> Nat] /\ completion_time \in [Process -> Nat]
        /\ start_time \in [Process -> Times] /\ arrival_time \in [Process -> Nat]
    BY <1>1 DEF TypeOK
  <2>3. burst_time[p] \in Nat /\ burst_time[p] > 0
    <3>1. remaining_time[p] > 0 /\ remaining_time[p] <= burst_time[p]
      BY <2>1 DEF Pending, ServiceInv, Past
    <3> QED
      BY <2>1, <2>2, <3>1
  <2>4. Process' = Process /\ Ran' = Ran /\ p \in Ran /\ Pending' = Pending \ {p}
        /\ Ran \subseteq Process
    BY <1>1, <1>3, <2>1, <2>2, <2>3 DEF Process, Ran, Pending, workload
  <2>5. /\ completion_time'[p] = current_time' /\ remaining_time'[p] = 0
        /\ \A q \in Process : q # p => /\ completion_time'[q] = completion_time[q]
                                       /\ remaining_time'[q] = remaining_time[q]
                                       /\ start_time'[q] = start_time[q]
    BY <1>3, <2>1, <2>2
  <2>6. start_time[p] = -1 /\ start_time'[p] = current_time
    <3>1. start_time[p] = -1
      BY <1>1, <2>1, <2>4 DEF ServiceInv, ShortestFirst
    <3> QED
      BY <1>3, <2>1, <2>2, <3>1
  <2>7. ~(HasRoom /\ LastPid \in Pending)
    BY <1>1 DEF ServiceInv, Leader
  <2>8. Counting' /\ IdleSound' /\ (HasRoom' => LastPid' = p)
    BY <1>1, <1>3, <2>1, <2>3, <2>4, <2>5, <2>7, RunService
  <2>9. Leader'
    BY <2>1, <2>4, <2>8 DEF Leader, Process, IDLE
  <2>10. Past'
    <3>1. \A q \in Process : /\ completion_time[q] \in Nat /\ completion_time[q] <= current_time
                             /\ remaining_time[q] <= burst_time[q] /\ burst_time[q] \in Nat
      BY <1>1, <2>2 DEF ServiceInv, Past
    <3>2. current_time' \in Nat /\ current_time <= current_time'
      BY <1>3, <2>2, <2>3
    <3>3. \A q \in Process : completion_time'[q] <= current_time'
      BY <2>2, <2>5, <3>1, <3>2
    <3>4. \A q \in Process : remaining_time'[q] <= burst_time[q]
      BY <2>5, <3>1
    <3> QED
      BY <1>1, <2>4, <3>3, <3>4 DEF Past, workload
  <2>11. ShortestFirst'
    <3>1. \A q \in Process : start_time[q] \in Int /\ start_time[q] <= current_time
      BY <1>1, <2>2 DEF ServiceInv, ShortestFirst, Times
    <3>2. \A q \in Process : start_time'[q] <= current_time'
      BY <1>3, <2>2, <2>3, <2>5, <2>6, <3>1
    <3>3. \A q \in Ran : q \in Pending' <=> start_time'[q] = -1
      BY <1>1, <2>2, <2>4, <2>5, <2>6 DEF ServiceInv, ShortestFirst
    <3>4. ASSUME NEW q \in Ran, NEW r \in Ran, q \notin Pending', arrival_time[r] <= start_time'[q],
                 r \in Pending' \/ start_time'[q] < start_time'[r]
          PROVE  burst_time[q] <= burst_time[r]
      <4>1. CASE q = p
        <5>1. r # p
          BY <2>2, <2>4, <2>6, <3>4, <4>1
        <5>2. start_time'[r] = start_time[r] /\ start_time[r] <= current_time
              /\ start_time[r] \in Int
          BY <2>4, <2>5, <3>1, <5>1
        <5>3. r \in Pending'
          BY <2>2, <2>6, <3>4, <4>1, <5>2
        <5>4. r \in Ready
          BY <2>4, <2>6, <3>4, <4>1, <5>3 DEF Ready
        <5> QED
          BY <2>1, <4>1, <5>4
      <4>2. CASE q # p
        <5>1. q \notin Pending /\ start_time'[q] = start_time[q]
          BY <2>4, <2>5, <3>4, <4>2
        <5>2. r \in Pending \/ start_time[q] < start_time[r]
          BY <2>1, <2>4, <2>5, <3>4, <5>1
        <5> QED
          BY <1>1, <3>4, <5>1, <5>2 DEF ServiceInv, ShortestFirst
      <4> QED
        BY <4>1, <4>2
    <3> QED
      BY <1>1, <2>4, <3>2, <3>3, <3>4 DEF ShortestFirst, workload
  <2> QED
    BY <1>1, <2>8, <2>9, <2>10, <2>11 DEF ServiceInv
<1> QED
  BY <1>2, <1>3 DEF schedule_sjf

\* STCF: whoever runs for a unit leads all that were ready, and a fortiori
\* with a unit less to go.
LEMMA StcfService ==
  ASSUME ServiceInv, schedule_stcf
  PROVE  ServiceInv'
<1>1. /\ SchedInv' /\ TypeOK /\ algo = "STCF" /\ algo # "FIFO" /\ UNCHANGED <<workload, algo>>
      /\ algo' = "STCF"
  BY StcfStep DEF ServiceInv, SchedInv, schedule_stcf, Looping
<1>2. CASE Ready = {} /\ Idle /\ UNCHANGED <<process, completed_count>>
  BY <1>1, <1>2, IdleService
<1>3. ASSUME NEW p \in Shortest(Ready, remaining_time), Tick(p)
      PROVE  ServiceInv'
  <2>1. /\ p \in Ready /\ p \in Pending /\ p \in Process /\ arrival_time[p] <= current_time
        /\ \A q \in Ready : Before(p, q, remaining_time)
    BY <1>3 DEF Shortest, Ready, Pending, Before
  <2>2. /\ current_time \in Nat /\ burst_time \in [Process -> Nat] /\ n \in Nat
        /\ remaining_time \in [Process -> Nat] /\ completion_time \in [Process -> Nat]
        /\ arrival_time \in [Process -> Nat] /\ completed_count \in Nat
    BY <1>1, SchedAssumption DEF TypeOK
  <2>3. /\ remaining_time'[p] = remaining_time[p] - 1 /\ current_time' = current_time + 1
        /\ \A q \in Process : q # p => remaining_time'[q] = remaining_time[q]
        /\ Record(current_time, p, 1) /\ remaining_time[p] > 0
    BY <1>3, <2>1, <2>2 DEF Tick, Pending
  <2>4. /\ \A q \in Process : q # p => completion_time'[q] = completion_time[q]
        /\ completion_time'[p] \in {completion_time[p], current_time + 1}
        /\ remaining_time[p] = 1 => completed_count' = completed_count + 1
        /\ remaining_time[p] # 1 => completed_count' = completed_count
    <3>1. CASE remaining_time[p] = 1
      BY <1>3, <2>1, <2>2, <3>1 DEF Tick
    <3>2. CASE remaining_time[p] # 1
      BY <1>3, <3>2 DEF Tick
    <3> QED
      BY <3>1, <3>2
  <2>5. Process' = Process /\ \A q \in Process : q # p => (q \in Pending' <=> q \in Pending)
    BY <1>1, <2>3 DEF Process, Pending, workload
  <2>6. p \in Pending' <=> remaining_time[p] # 1
    BY <2>1, <2>2, <2>3, <2>5 DEF Pending
  <2>7. \/ Pending' = Pending /\ completed_count' = completed_count
        \/ Pending' = Pending \ {p} /\ completed_count' = completed_count + 1
    <3>1. Pending \subseteq Process /\ Pending' \subseteq Process
      BY <2>5 DEF Pending
    <3> QED
      BY <2>1, <2>4, <2>5, <2>6, <3>1
  <2>8. ASSUME HasRoom, LastPid \in Pending, LastPid # p, p \in Arrived
        PROVE  FALSE
    <3>1. Before(LastPid, p, remaining_time) /\ LastPid \in Ready
      BY <1>1, <2>1, <2>8 DEF ServiceInv, Leader
    <3>2. Before(p, LastPid, remaining_time)
      BY <2>1, <3>1
    <3>3. LastPid \in Nat /\ p \in Nat /\ remaining_time[LastPid] \in Nat /\ remaining_time[p] \in Nat
      BY <2>1, <2>2, <2>8 DEF Pending, Process
    <3> QED
      BY <2>8, <3>1, <3>2, <3>3 DEF Before
  <2>9. Counting' /\ IdleSound' /\ (HasRoom' => LastPid' = p)
    BY <1>1, <2>1, <2>3, <2>4, <2>7, <2>8, RunService
  <2>10. Leader'
    <3>1. p # IDLE
      BY <2>1, <2>2 DEF Process, IDLE
    <3>2. p \in Pending' => p \in Ready'
      BY <1>1, <2>1, <2>2, <2>3 DEF Ready, workload
    <3>3. ASSUME NEW q \in Pending' \cap Arrived'
          PROVE  Before(p, q, remaining_time)'
      <4>1. q \in Process /\ q \in Pending /\ arrival_time[q] \in Nat
            /\ arrival_time[q] < current_time + 1
        <5>1. q \in Process /\ q \in Pending
          BY <2>1, <2>5, <3>3 DEF Pending
        <5>2. arrival_time'[q] < current_time'
          BY <3>3 DEF Arrived
        <5> QED
          BY <1>1, <2>2, <2>3, <5>1, <5>2 DEF workload
      <4>2. q \in Ready
        BY <2>2, <4>1 DEF Ready
      <4>3. Before(p, q, remaining_time)
        BY <2>1, <4>2
      <4>4. q = p \/ remaining_time'[q] = remaining_time[q]
        BY <2>3, <4>1
      <4>5. remaining_time[p] \in Nat /\ remaining_time[q] \in Nat /\ p \in Nat
        BY <2>1, <2>2, <4>1 DEF Process
      <4> QED
        BY <2>3, <4>3, <4>4, <4>5 DEF Before
    <3> QED
      BY <1>1, <2>9, <3>1, <3>2, <3>3 DEF Leader, Before
  <2>11. Past'
    <3>1. \A q \in Process : /\ completion_time[q] \in Nat /\ completion_time[q] <= current_time
                             /\ remaining_time[q] <= burst_time[q]
                             /\ remaining_time[q] \in Nat /\ burst_time[q] \in Nat
      BY <1>1, <2>2 DEF ServiceInv, Past
    <3>2. \A q \in Process : completion_time'[q] <= current_time'
      BY <2>2, <2>3, <2>4, <3>1
    <3>3. \A q \in Process : remaining_time'[q] <= burst_time[q]
      BY <2>3, <3>1
    <3> QED
      BY <1>1, <2>5, <3>2, <3>3 DEF Past, workload
  <2>12. ShortestFirst'
    BY <1>1 DEF ShortestFirst
  <2> QED
    BY <1>1, <2>9, <2>10, <2>11, <2>12 DEF ServiceInv
<1> QED
  BY <1>2, <1>3 DEF schedule_stcf

\* The invariant holds from one step of an algorithm to the next.
LEMMA ServiceStep ==
  ASSUME ServiceInv, [Simulate]_simVars
  PROVE  ServiceInv'
<1>1. ASSUME NEW a \in {"FIFO", "SJF", "STCF"}, Finish(a)
      PROVE  ServiceInv'
  <2>1. SchedInv' /\ timeline' = timeline
    BY <1>1, FinishStep DEF ServiceInv, Finish, Record, add_timeline_event
  <2> QED
    BY <1>1, <2>1, NothingRuns DEF Finish
<1>2. CASE UNCHANGED simVars
  <2>1. SchedInv'
    BY <1>2 DEF ServiceInv, SchedInv, TypeOK, Times, Events, Process, TimelineContiguous,
       Contiguous, EndOf, simVars, workload, process, clock
  <2> QED
    BY <1>2, <2>1, NothingRuns DEF simVars, clock
<1> QED
  BY <1>1, <1>2, FifoService, SjfService, StcfService DEF Simulate

\* The account of events bounds their number.
LEMMA ServiceIsBounded == ServiceInv => EventsBounded
<1> SUFFICES ASSUME ServiceInv PROVE EventsBounded
  OBVIOUS
<1>1. TypeOK /\ n \in Nat /\ completed_count \in 0 .. n /\ Len(timeline) \in Nat
  BY Finite DEF ServiceInv, SchedInv, TypeOK
<1>2. CASE algo = "FIFO"
  BY <1>1, <1>2 DEF ServiceInv, Counting, EventsBounded
<1>3. CASE algo # "FIFO"
  <2>1. Pending \in SUBSET Process /\ Arrived \in SUBSET Process
    BY DEF Pending, Arrived
  <2>2. /\ Cardinality(Pending) \in Nat /\ Cardinality(Arrived) \in Nat
        /\ Cardinality(Arrived) <= n /\ IsFiniteSet(Pending)
    BY <1>1, <2>1, Finite
  <2>3. Owing => Cardinality(Pending) # 0
    BY <2>2, FS_EmptySet DEF Owing
  <2>4. /\ completed_count + Cardinality(Pending) <= n
        /\ Len(timeline) <= completed_count + Cardinality(Arrived) + Debt
    BY <1>3 DEF ServiceInv, Counting
  <2>5. Debt \in {0, 1} /\ (Debt = 1 => Owing)
    BY DEF Debt
  <2> QED
    BY <1>1, <2>2, <2>3, <2>4, <2>5 DEF EventsBounded
<1> QED
  BY <1>2, <1>3

\* Sound idle time is idle time in which nobody waits.
LEMMA ServiceIsSound == ServiceInv => NoIdleWhileReady
<1> SUFFICES ASSUME ServiceInv, algo # "FIFO", NEW k \in 1 .. Len(timeline),
                    timeline[k].pid = IDLE, NEW p \in Ran,
                    arrival_time[p] < EndOf(timeline[k]), completion_time[p] > timeline[k].time
             PROVE  FALSE
  BY DEF NoIdleWhileReady
<1>1. /\ arrival_time[p] \in Nat /\ completion_time[p] \in Nat
      /\ timeline[k].time \in Nat /\ EndOf(timeline[k]) \in Nat
  <2>1. timeline[k] \in Events /\ p \in Process
    BY DEF ServiceInv, SchedInv, TypeOK, Ran
  <2> QED
    BY <2>1 DEF ServiceInv, SchedInv, TypeOK, Events, EndOf
<1>2. arrival_time[p] >= EndOf(timeline[k]) \/ completion_time[p] <= timeline[k].time
  BY DEF ServiceInv, IdleSound
<1> QED
  BY <1>1, <1>2

\* In SJF whoever has started was no longer than all that waited then.
LEMMA ServiceIsShortest == ServiceInv => SjfPicksShortest
<1> SUFFICES ASSUME ServiceInv, algo = "SJF", NEW p \in Ran, NEW q \in Ran,
                    arrival_time[q] <= start_time[p], start_time[p] < start_time[q]
             PROVE  burst_time[p] <= burst_time[q]
  BY DEF SjfPicksShortest
<1>1. arrival_time[q] \in Nat /\ start_time[p] \in Int
  BY DEF ServiceInv, SchedInv, TypeOK, Times, Ran
<1>2. p \notin Pending
  BY <1>1 DEF ServiceInv, ShortestFirst
<1> QED
  BY <1>2 DEF ServiceInv, ShortestFirst

-----------------------------------------------------------------------------
(* The theorems.                                                            *)

\* Each event is paid for, each idle period is justified, each choice of SJF
\* is right, at every step of the three algorithms on every workload.
THEOREM ServiceInvariance == SpecAlgorithms => []ServiceInv
BY ServiceStep, InitService, PTL DEF SpecAlgorithms

\* add_timeline_event is never called for more than two events per process,
\* merges apart: the array of 1000 has room for the events of 100 processes.
THEOREM TimelineIsShort == SpecAlgorithms => []EventsBounded
BY ServiceInvariance, ServiceIsBounded, PTL

\* With room for two events per process, as in scheduler.h, the timeline has
\* no gap and no overlap in any state: nothing is ever dropped.
THEOREM TimelineIsWhole ==
  ASSUME 2 * MAX_PROCESSES < MAX_TIMELINE_EVENTS
  PROVE  SpecAlgorithms => []Contiguous(timeline, current_time)
<1>1. SchedInv /\ EventsBounded => Contiguous(timeline, current_time)
  <2> SUFFICES ASSUME SchedInv, EventsBounded PROVE Contiguous(timeline, current_time)
    OBVIOUS
  <2>1. n \in Nat /\ n <= MAX_PROCESSES /\ Len(timeline) \in Nat
    BY SchedAssumption DEF SchedInv, TypeOK
  <2>2. Len(timeline) < MAX_TIMELINE_EVENTS
    BY <2>1, SchedAssumption DEF EventsBounded
  <2> QED
    BY <2>2 DEF SchedInv, TimelineContiguous
<1> QED
  BY <1>1, SchedInvariance, TimelineIsShort, PTL

\* schedule_sjf and schedule_stcf record idle time only up to the next arrival
\* and only when nobody that has arrived is left to run.
THEOREM NobodyWaitsIdle == SpecAlgorithms => []NoIdleWhileReady
BY ServiceInvariance, ServiceIsSound, PTL

\* The scan of schedule_sjf for the shortest job never passes over a shorter
\* one that has arrived, and so none that starts later was shorter.
THEOREM SjfIsShortestFirst == SpecAlgorithms => []SjfPicksShortest
BY ServiceInvariance, ServiceIsShortest, PTL

=============================================================================
