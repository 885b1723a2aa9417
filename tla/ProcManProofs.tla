--------------------------- MODULE ProcManProofs ---------------------------
(***************************************************************************)
(* For any table size, any set of children and any interleaving of the     *)
(* shell with its two signal handlers, Inv is an invariant of ProcMan, and *)
(* with it the type invariant and the four safety properties.              *)
(***************************************************************************)
EXTENDS ProcMan, TLAPS

\* The sets the type invariant is written with, and the tuples of variables.
USE DEF Slot, Thread, Status, ExitStatus, Label, Entry, SIGKILL, SIGTERM,
        kernel, memory, control

-----------------------------------------------------------------------------
(* The two operations on the table, seen from one slot.                    *)

\* find_process_slot returns the one slot that holds the pid.
LEMMA FoundSlot ==
  ASSUME TablePids, NEW s \in Occupied
  PROVE  find_process_slot(process_table[s].pid) = {s}
<1> DEFINE p == process_table[s].pid
<1>1. s \in Slot /\ p # NoPid
  BY DEF Occupied
<1>2. \A t \in Slot : process_table[t].pid = p => t = s
  BY <1>1 DEF TablePids, Occupied
<1>3. \A t \in 1 .. s - 1 : t \in Slot /\ t # s
  BY <1>1, ProcManAssumption
<1>4. s \in find_process_slot(p)
  BY <1>1, <1>2, <1>3 DEF find_process_slot, First
<1>5. find_process_slot(p) \subseteq {s}
  BY <1>2 DEF find_process_slot, First
<1> QED
  BY <1>4, <1>5

\* update_process_status changes no pid, and what it changes it marks
\* terminated with the given exit code.
LEMMA UpdatedEntry ==
  ASSUME TypeOK, NEW p \in Pid, NEW code \in ExitStatus,
         update_process_status(p, code)
  PROVE  /\ process_table' \in [Slot -> Entry]
         /\ \A s \in Slot :
              /\ process_table'[s].pid = process_table[s].pid
              /\ \/ process_table'[s] = process_table[s]
                 \/ /\ process_table[s].pid = p
                    /\ process_table'[s].status = "terminated"
                    /\ process_table'[s].exit_status = code
<1> DEFINE e == [pid |-> p, status |-> "terminated", exit_status |-> code]
<1>1. e \in Entry
  OBVIOUS
<1>2. CASE find_process_slot(p) = {}
  BY <1>2 DEF TypeOK, update_process_status
<1>3. ASSUME NEW t \in find_process_slot(p),
             process_table' = [process_table EXCEPT ![t] = e]
      PROVE  /\ process_table' \in [Slot -> Entry]
             /\ \A s \in Slot :
                  \/ process_table'[s] = process_table[s]
                  \/ process_table[s].pid = p /\ process_table'[s] = e
  <2>1. t \in Slot /\ process_table[t].pid = p
    BY <1>3 DEF find_process_slot, First
  <2> QED
    BY <1>1, <1>3, <2>1 DEF TypeOK
<1>4. /\ process_table' \in [Slot -> Entry]
      /\ \A s \in Slot : \/ process_table'[s] = process_table[s]
                         \/ process_table[s].pid = p /\ process_table'[s] = e
  BY <1>2, <1>3 DEF TypeOK, update_process_status
<1> QED
  BY <1>4

\* remove_process_from_table frees the slot of p and leaves the others alone.
LEMMA RemovedEntry ==
  ASSUME TypeOK, TablePids, NEW p \in Pid \cup Foreign,
         remove_process_from_table(p)
  PROVE  /\ process_table' \in [Slot -> Entry]
         /\ process_count' \in Int
         /\ \A s \in Slot :
              /\ process_table'[s].status = process_table[s].status
              /\ process_table'[s].exit_status = process_table[s].exit_status
              /\ process_table'[s].pid =
                   IF process_table[s].pid = p THEN NoPid
                                               ELSE process_table[s].pid
<1>1. p # NoPid
  BY ProcManAssumption
<1>2. CASE find_process_slot(p) = {}
  <2>1. \A s \in Slot : process_table[s].pid # p
    BY <1>1, <1>2, FoundSlot DEF Occupied
  <2> QED
    BY <1>2, <2>1 DEF TypeOK, remove_process_from_table
<1>3. ASSUME NEW s \in find_process_slot(p),
             process_table' = [process_table EXCEPT ![s].pid = NoPid],
             process_count' = process_count - 1
      PROVE  /\ process_table' \in [Slot -> Entry]
             /\ process_count' \in Int
             /\ \A t \in Slot :
                  /\ process_table'[t].status = process_table[t].status
                  /\ process_table'[t].exit_status = process_table[t].exit_status
                  /\ process_table'[t].pid = IF process_table[t].pid = p
                                             THEN NoPid ELSE process_table[t].pid
  <2>1. s \in Slot /\ process_table[s].pid = p
    BY <1>3 DEF find_process_slot, First
  <2>2. \A t \in Slot : process_table[t].pid = p => t = s
    BY <1>1, <2>1 DEF TablePids, Occupied
  <2> QED
    BY <1>3, <2>1, <2>2 DEF TypeOK
<1> QED
  BY <1>2, <1>3 DEF remove_process_from_table

-----------------------------------------------------------------------------
(* The steps.                                                              *)

USE DEF Inv, Contexts, TablePids, InHand, Swept, ZombieCovered,
        TerminatedTruthful, NoLiveChildForgotten, ShutdownReapsTracked,
        Occupied, Running, HalfAdded, Zombies, Children,
        At, Goto, GotoAt, ToPrompt

\* Children dying and signals arriving.
LEMMA EnvironmentStep == Inv /\ Environment => Inv'
<1> SUFFICES ASSUME Inv, Environment
             PROVE  Inv'
  OBVIOUS
<1> USE ProcManAssumption DEF TypeOK
<1>1. ASSUME NEW p \in Pid, NEW code \in ExitStatus, Dies(p, code)
      PROVE  Inv'
  <2>1. TypeOK'
    BY <1>1 DEF Dies
  <2>2. (Contexts /\ TablePids /\ InHand /\ Swept)'
    BY <1>1 DEF Dies
  <2>3. (ZombieCovered /\ TerminatedTruthful /\ NoLiveChildForgotten)'
    BY <1>1 DEF Dies
  <2>4. ShutdownReapsTracked'
    BY <1>1 DEF Dies
  <2> QED
    BY <2>1, <2>2, <2>3, <2>4
<1>2. ASSUME NEW p \in Pid, ChildExits(p) \/ ChildKilled(p)
      PROVE  Inv'
  <2>1. \A sig \in pend[p] : -sig \in ExitStatus
    OBVIOUS
  <2>2. \E code \in ExitStatus : Dies(p, code)
    BY <1>2, <2>1 DEF ChildExits, ChildKilled
  <2> HIDE DEF Inv
  <2> QED
    BY <1>1, <2>2
<1>3. CASE CtrlC
  BY <1>3 DEF CtrlC
<1>4. CASE DeliverSigchld
  <2>1. cpu # "chld"
    BY <1>4 DEF DeliverSigchld
  <2>2. TypeOK'
    BY <1>4, <2>1 DEF DeliverSigchld
  <2>3. (Contexts /\ ZombieCovered)'
    BY <1>4, <2>1 DEF DeliverSigchld
  <2> QED
    BY <1>4, <2>2, <2>3 DEF DeliverSigchld
<1>5. CASE DeliverSigint
  <2>1. /\ pc' \in [Thread -> Label]
        /\ idx' \in [Thread -> 1 .. MAX_PROCESSES + 1]
    BY <1>5 DEF DeliverSigint
  <2>2. TypeOK'
    BY <1>5, <2>1 DEF DeliverSigint
  <2>3. (Contexts /\ TablePids /\ InHand /\ Swept)'
    BY <1>5 DEF DeliverSigint
  <2>4. (ZombieCovered /\ TerminatedTruthful /\ NoLiveChildForgotten)'
    BY <1>5 DEF DeliverSigint
  <2> QED
    BY <1>5, <2>2, <2>3, <2>4 DEF DeliverSigint
<1> HIDE DEF Inv
<1> QED
  BY <1>2, <1>3, <1>4, <1>5 DEF Environment

\* The user's commands, up to the first step of the code behind them.
LEMMA CommandStep == Inv /\ Command => Inv'
<1> SUFFICES ASSUME Inv, Command
             PROVE  Inv'
  OBVIOUS
<1> USE ProcManAssumption DEF TypeOK
<1>1. ASSUME NEW p \in Pid, proc[p] = "unborn", create_process,
             proc' = [proc EXCEPT ![p] = "alive"],
             cur' = [cur EXCEPT !["main"] = p]
      PROVE  Inv'
  <2>1. TypeOK'
    BY <1>1 DEF create_process
  <2>2. \A s \in Slot : process_table[s].pid # p
    BY <1>1
  <2>3. (Contexts /\ TablePids /\ Swept)'
    BY <1>1, <2>2 DEF create_process
  <2>4. pc["int"] = "idle"
    BY <1>1 DEF create_process
  <2>5. InHand'
    BY <1>1, <2>2, <2>4 DEF create_process
  <2>6. (ZombieCovered /\ TerminatedTruthful /\ NoLiveChildForgotten)'
    BY <1>1, <2>2 DEF create_process
  <2> QED
    BY <1>1, <2>1, <2>3, <2>5, <2>6 DEF create_process
<1>2. CASE create_process
  <2>1. PICK p \in Pid : /\ proc[p] = "unborn"
                         /\ proc' = [proc EXCEPT ![p] = "alive"]
                         /\ cur' = [cur EXCEPT !["main"] = p]
    BY <1>2 DEF create_process
  <2> HIDE DEF Inv
  <2> QED
    BY <1>1, <1>2, <2>1
<1>3. ASSUME NEW p \in Pid \cup Foreign, NEW sig \in {SIGTERM, SIGKILL},
             terminate_process(p, sig)
      PROVE  Inv'
  <2>1. pend' \in [Pid -> SUBSET {SIGKILL, SIGTERM}]
    <3>1. \/ pend' = pend
          \/ p \in Pid /\ pend' = [pend EXCEPT ![p] = pend[p] \cup {sig}]
      BY <1>3 DEF terminate_process, Signal
    <3>2. pend \in [Pid -> SUBSET {SIGKILL, SIGTERM}]
      OBVIOUS
    <3> HIDE DEF Inv, TypeOK
    <3> QED
      BY <1>3, <3>1, <3>2
  <2>2. TypeOK'
    BY <1>3, <2>1 DEF terminate_process
  <2>3. pc["int"] = "idle" /\ pc'["int"] = "idle"
    BY <1>3 DEF terminate_process
  <2>4. (Contexts /\ TablePids /\ Swept)'
    BY <1>3, <2>3 DEF terminate_process
  <2>5. InHand'
    BY <1>3, <2>3 DEF terminate_process, Exists
  <2>6. (ZombieCovered /\ TerminatedTruthful /\ NoLiveChildForgotten)'
    BY <1>3 DEF terminate_process
  <2> QED
    BY <1>3, <2>2, <2>4, <2>5, <2>6 DEF terminate_process
<1>4. ASSUME NEW sig \in {SIGTERM, SIGKILL}, kill_own_group(sig)
      PROVE  Inv'
  BY <1>4 DEF kill_own_group
<1>5. CASE list_start
  BY <1>5 DEF list_start
<1>6. CASE wait_start
  BY <1>6 DEF wait_start
<1>7. CASE quit
  BY <1>7 DEF quit
<1>8. CASE end_of_input
  BY <1>8 DEF end_of_input
<1> HIDE DEF Inv
<1> QED
  BY <1>2, <1>3, <1>4, <1>5, <1>6, <1>7, <1>8 DEF Command

\* The SIGCHLD handler.
LEMMA HandlerStep == Inv /\ sigchld_handler => Inv'
<1> SUFFICES ASSUME Inv, sigchld_handler
             PROVE  Inv'
  OBVIOUS
<1> USE ProcManAssumption DEF TypeOK
<1>1. ASSUME shutdown = "up", cpu = "chld",
             NEW p \in Zombies, Reap(p), update_process_status(p, wstat[p]),
             UNCHANGED <<errno, control, pend, wstat, chld_pending, int_pending,
                         process_count>>
      PROVE  Inv'
  <2>1. /\ p \in Pid /\ proc[p] = "zombie" /\ wstat[p] \in ExitStatus
        /\ resume # "none"
    BY <1>1
  <2>2. /\ process_table' \in [Slot -> Entry]
        /\ \A s \in Slot :
             /\ process_table'[s].pid = process_table[s].pid
             /\ \/ process_table'[s] = process_table[s]
                \/ /\ process_table[s].pid = p
                   /\ process_table'[s].status = "terminated"
                   /\ process_table'[s].exit_status = wstat[p]
    <3>1. TypeOK
      OBVIOUS
    <3> HIDE DEF Inv, TypeOK
    <3> QED
      BY <1>1, <2>1, <3>1, UpdatedEntry
  <2>3. /\ proc' \in [Pid -> {"unborn", "alive", "zombie", "reaped"}]
        /\ proc'[p] = "reaped"
        /\ \A q \in Pid : q # p => proc'[q] = proc[q]
    BY <1>1, <2>1 DEF Reap
  <2>4. TypeOK'
    BY <1>1, <2>2, <2>3
  <2>5. (Contexts /\ TablePids)'
    BY <1>1, <2>1, <2>2, <2>3
  <2>6. (InHand /\ Swept)'
    BY <1>1, <2>1, <2>2, <2>3
  <2>7. (ZombieCovered /\ NoLiveChildForgotten)'
    BY <1>1, <2>1, <2>2, <2>3
  <2>8. TerminatedTruthful'
    <3> SUFFICES ASSUME NEW s \in Occupied',
                        process_table'[s].status = "terminated",
                        ~HalfAdded(s)'
                 PROVE  /\ proc'[process_table'[s].pid] = "reaped"
                        /\ process_table'[s].exit_status =
                             wstat'[process_table'[s].pid]
      OBVIOUS
    <3>1. /\ s \in Occupied /\ ~HalfAdded(s) /\ process_table[s].pid \in Pid
          /\ process_table'[s].pid = process_table[s].pid /\ wstat' = wstat
      BY <1>1, <2>2
    <3>2. \/ process_table[s].pid = p /\ process_table'[s].exit_status = wstat[p]
          \/ /\ process_table'[s] = process_table[s]
             /\ proc[process_table[s].pid] = "reaped"
             /\ process_table[s].exit_status = wstat[process_table[s].pid]
      BY <2>2, <3>1
    <3> HIDE DEF Inv, TypeOK
    <3> QED
      BY <2>3, <3>1, <3>2
  <2>9. ShutdownReapsTracked'
    BY <1>1, <2>1, <2>2, <2>3
  <2> HIDE DEF TypeOK, Contexts, TablePids, InHand, Swept, ZombieCovered,
               TerminatedTruthful, NoLiveChildForgotten, ShutdownReapsTracked
  <2> QED
    BY <2>4, <2>5, <2>6, <2>7, <2>8, <2>9
<1>2. ASSUME Zombies = {}, Return, errno' \in {"ECHILD", errno},
             UNCHANGED <<proc, process_table, pend, wstat, chld_pending, int_pending,
                         process_count>>,
             shutdown = "up", cpu = "chld"
      PROVE  Inv'
  BY <1>2 DEF Return
<1> HIDE DEF Inv
<1> QED
  BY <1>1, <1>2 DEF sigchld_handler

\* The shell's own code: create, kill and list.
LEMMA ShellStep ==
  Inv /\ (\/ add_pid \/ add_status \/ kill_errno \/ kill_wait \/ kill_remove
          \/ list_processes) => Inv'
<1> SUFFICES ASSUME Inv,
                    \/ add_pid \/ add_status \/ kill_errno \/ kill_wait
                    \/ kill_remove \/ list_processes
             PROVE  Inv'
  OBVIOUS
<1> USE ProcManAssumption DEF TypeOK
<1>1. ASSUME add_pid, find_free_slot = {}
      PROVE  Inv'
  <2>1. (TypeOK /\ Contexts)'
    BY <1>1 DEF add_pid
  <2>2. (TablePids /\ InHand /\ Swept)'
    BY <1>1 DEF add_pid
  <2>3. (ZombieCovered /\ TerminatedTruthful /\ NoLiveChildForgotten)'
    BY <1>1 DEF add_pid
  <2> QED
    BY <1>1, <2>1, <2>2, <2>3 DEF add_pid
<1>2. ASSUME add_pid, find_free_slot # {}
      PROVE  Inv'
  <2>1. PICK s \in Slot :
          /\ process_table[s].pid = NoPid
          /\ process_table' = [process_table EXCEPT ![s].pid = cur["main"]]
          /\ GotoAt("main", "add_status", s)
          /\ UNCHANGED <<cur, refused>>
    BY <1>2 DEF add_pid, find_free_slot, First
  <2>2. /\ pc["int"] = "idle"
        /\ UNCHANGED <<kernel, process_count, errno, cpu, resume, quitting,
                       shutdown>>
    BY <1>2 DEF add_pid
  <2>3. /\ process_table' \in [Slot -> Entry]
        /\ process_table'[s].pid = cur["main"]
        /\ process_table'[s].status = process_table[s].status
        /\ \A t \in Slot : t # s => process_table'[t] = process_table[t]
    <3> DEFINE p == cur["main"]
    <3>1. p \in Pid /\ process_table \in [Slot -> Entry]
      BY <1>2 DEF add_pid
    <3>2. process_table' = [process_table EXCEPT ![s].pid = p]
      BY <2>1
    <3> HIDE DEF p, Inv, TypeOK
    <3>3. /\ process_table' \in [Slot -> Entry]
          /\ process_table'[s].pid = p
          /\ process_table'[s].status = process_table[s].status
          /\ \A t \in Slot : t # s => process_table'[t] = process_table[t]
      BY <3>1, <3>2
    <3> QED
      BY <3>3 DEF p
  <2>4. /\ shutdown = "up" /\ cpu = "main" /\ pc["main"] = "add_pid"
        /\ s \in Slot /\ process_table[s].pid = NoPid
        /\ GotoAt("main", "add_status", s) /\ UNCHANGED <<cur, refused>>
    BY <1>2, <2>1 DEF add_pid
  <2>5. TypeOK'
    BY <2>2, <2>3, <2>4
  <2>6. Contexts' /\ TablePids'
    <3>1. Contexts'
      BY <2>2, <2>4
    <3>2. pc'["main"] = "add_status" /\ idx'["main"] = s
      BY <2>4
    <3>3. /\ cur["main"] \in Pid /\ proc[cur["main"]] # "unborn"
          /\ \A t \in Slot : process_table[t].pid # cur["main"]
          /\ ~HalfAdded(s) /\ proc' = proc
      BY <2>2, <2>4
    <3>4. \A t \in Occupied' : \/ t = s
                               \/ t \in Occupied /\ process_table'[t] = process_table[t]
      BY <2>3, Zenon
    <3>5. TablePids'
      <4>1. \A t \in Occupied' : proc'[process_table'[t].pid] # "unborn"
        BY <2>3, <3>3, <3>4
      <4>2. \A t, u \in Occupied' : process_table'[t].pid = process_table'[u].pid => t = u
        BY <2>3, <3>3, <3>4
      <4>3. \A t \in Occupied' : process_table'[t].status = "zeroed" => HalfAdded(t)'
        BY <2>3, <2>4, <3>2, <3>4
      <4> QED
        BY <4>1, <4>2, <4>3
    <3> QED
      BY <3>1, <3>5
  <2>7. (InHand /\ Swept)'
    BY <2>2, <2>3, <2>4
  <2>8. (ZombieCovered /\ TerminatedTruthful)'
    BY <2>2, <2>3, <2>4
  <2>9. NoLiveChildForgotten'
    BY <2>2, <2>3, <2>4
  <2>10. ShutdownReapsTracked'
    BY <2>2, <2>4
  <2> HIDE DEF TypeOK, Contexts, TablePids, InHand, Swept, ZombieCovered,
               TerminatedTruthful, NoLiveChildForgotten, ShutdownReapsTracked
  <2> QED
    BY <2>5, <2>6, <2>7, <2>8, <2>9, <2>10
<1>3. CASE add_status
  <2> DEFINE i == idx["main"]
  <2>1. /\ i \in Slot /\ pc["int"] = "idle"
        /\ process_table \in [Slot -> Entry]
    BY <1>3 DEF add_status
  <2>2. process_table' = [process_table EXCEPT ![i].status = "running"]
    BY <1>3 DEF add_status
  <2>3. /\ process_table' \in [Slot -> Entry]
        /\ process_table'[i].pid = process_table[i].pid
        /\ process_table'[i].status = "running"
        /\ \A t \in Slot : t # i => process_table'[t] = process_table[t]
    <3> HIDE DEF i, Inv, TypeOK
    <3> QED
      BY <2>1, <2>2
  <2>4. /\ shutdown = "up" /\ cpu = "main" /\ pc["main"] = "add_status"
        /\ process_count' = process_count + 1 /\ ToPrompt
        /\ UNCHANGED <<kernel, errno, cpu, resume, quitting, shutdown, refused>>
    BY <1>3 DEF add_status
  <2>5. \A t \in Slot : process_table'[t].pid = process_table[t].pid
    BY <2>1, <2>3
  <2>6. TypeOK'
    BY <2>3, <2>4
  <2>7. Contexts'
    BY <2>1, <2>4
  <2>8. TablePids'
    <3>1. Occupied' = Occupied /\ proc' = proc
      BY <2>4, <2>5
    <3>2. \A s \in Occupied : process_table[s].status = "zeroed" => s = i
      BY <2>4
    <3>3. /\ \A s \in Occupied : proc[process_table[s].pid] # "unborn"
          /\ \A s, t \in Occupied :
               process_table[s].pid = process_table[t].pid => s = t
      OBVIOUS
    <3>4. \A s \in Occupied : s \in Slot
      OBVIOUS
    <3>5. \A s \in Occupied : process_table'[s].status # "zeroed"
      BY ONLY <2>3, <3>2, <3>4
    <3>6. /\ \A s \in Occupied' : proc'[process_table'[s].pid] # "unborn"
          /\ \A s, t \in Occupied' :
               process_table'[s].pid = process_table'[t].pid => s = t
      BY ONLY <2>5, <3>1, <3>3, <3>4
    <3> QED
      BY <3>1, <3>5, <3>6
  <2>9. InHand'
    BY <2>1, <2>3, <2>4, <2>5
  <2>10. Swept'
    BY <2>1, <2>4
  <2>11. ZombieCovered' /\ NoLiveChildForgotten'
    <3>1. /\ ZombieCovered' /\ proc' = proc /\ refused' = refused
      BY <2>1, <2>4
    <3>2. \A q \in Children : (\E t \in Slot : process_table[t].pid = q) \/ q \in refused
      BY <2>4
    <3>3. Children' = Children
      BY <3>1
    <3> HIDE DEF Inv, TypeOK, ZombieCovered, Children
    <3> QED
      BY <2>5, <3>1, <3>2, <3>3
  <2>12. TerminatedTruthful'
    <3> SUFFICES ASSUME NEW s \in Occupied',
                        process_table'[s].status = "terminated"
                 PROVE  /\ proc'[process_table'[s].pid] = "reaped"
                        /\ process_table'[s].exit_status =
                             wstat'[process_table'[s].pid]
      OBVIOUS
    <3>1. /\ s \in Occupied /\ s # i /\ process_table'[s] = process_table[s]
          /\ proc' = proc /\ wstat' = wstat
      BY <2>3, <2>4, <2>5
    <3>2. /\ proc[process_table[s].pid] = "reaped"
          /\ process_table[s].exit_status = wstat[process_table[s].pid]
      BY <2>4, <3>1
    <3> QED
      BY <3>1, <3>2
  <2>13. ShutdownReapsTracked'
    BY <2>4
  <2> HIDE DEF TypeOK, Contexts, TablePids, InHand, Swept, ZombieCovered,
               TerminatedTruthful, NoLiveChildForgotten, ShutdownReapsTracked
  <2> QED
    BY <2>6, <2>7, <2>8, <2>9, <2>10, <2>11, <2>12, <2>13
<1>4. CASE kill_errno
  BY <1>4 DEF kill_errno
<1>5. CASE kill_wait
  <2>1. TypeOK'
    BY <1>5 DEF kill_wait, waitpid, Reap
  <2>2. (Contexts /\ TablePids /\ InHand /\ Swept)'
    BY <1>5 DEF kill_wait, waitpid, Reap
  <2>3. (ZombieCovered /\ TerminatedTruthful /\ NoLiveChildForgotten)'
    BY <1>5 DEF kill_wait, waitpid, Reap
  <2> QED
    BY <1>5, <2>1, <2>2, <2>3 DEF kill_wait
<1>6. CASE kill_remove
  <2> DEFINE p == cur["main"]
  <2>1. /\ p \in Pid \cup Foreign /\ p \notin Children
        /\ pc["int"] = "idle"
    BY <1>6 DEF kill_remove
  <2>2. /\ process_table' \in [Slot -> Entry]
        /\ process_count' \in Int
        /\ \A s \in Slot :
             /\ process_table'[s].status = process_table[s].status
             /\ process_table'[s].exit_status = process_table[s].exit_status
             /\ process_table'[s].pid = IF process_table[s].pid = p
                                        THEN NoPid ELSE process_table[s].pid
    BY <1>6, <2>1, RemovedEntry DEF kill_remove
  <2> HIDE DEF p
  <2>3. TypeOK'
    BY <1>6, <2>2 DEF kill_remove
  <2>4. (Contexts /\ TablePids /\ InHand /\ Swept)'
    BY <1>6, <2>1, <2>2 DEF kill_remove
  <2>5. (ZombieCovered /\ TerminatedTruthful /\ NoLiveChildForgotten)'
    BY <1>6, <2>1, <2>2 DEF kill_remove
  <2> QED
    BY <1>6, <2>3, <2>4, <2>5 DEF kill_remove
<1>7. ASSUME list_processes, idx["main"] \in Occupied, ~Running(idx["main"])
      PROVE  Inv'
  <2> DEFINE p == process_table[idx["main"]].pid
  <2>1. /\ p \in Pid /\ proc[p] = "reaped"
        /\ pc["int"] = "idle"
    BY <1>7 DEF list_processes
  <2>2. /\ process_table' \in [Slot -> Entry]
        /\ process_count' \in Int
        /\ \A s \in Slot :
             /\ process_table'[s].status = process_table[s].status
             /\ process_table'[s].exit_status = process_table[s].exit_status
             /\ process_table'[s].pid = IF process_table[s].pid = p
                                        THEN NoPid ELSE process_table[s].pid
    BY <1>7, <2>1, RemovedEntry DEF list_processes
  <2> HIDE DEF p
  <2>3. TypeOK'
    BY <1>7, <2>2 DEF list_processes
  <2>4. (Contexts /\ TablePids /\ InHand /\ Swept)'
    BY <1>7, <2>1, <2>2 DEF list_processes
  <2>5. (ZombieCovered /\ TerminatedTruthful /\ NoLiveChildForgotten)'
    BY <1>7, <2>1, <2>2 DEF list_processes
  <2> QED
    BY <1>7, <2>3, <2>4, <2>5 DEF list_processes
<1>8. ASSUME list_processes, ~(idx["main"] \in Occupied /\ ~Running(idx["main"]))
      PROVE  Inv'
  <2>1. TypeOK'
    BY <1>8 DEF list_processes
  <2>2. (Contexts /\ TablePids)'
    BY <1>8 DEF list_processes
  <2>3. (InHand /\ Swept)'
    BY <1>8 DEF list_processes
  <2>4. (ZombieCovered /\ TerminatedTruthful /\ NoLiveChildForgotten)'
    BY <1>8 DEF list_processes
  <2> QED
    BY <1>8, <2>1, <2>2, <2>3, <2>4 DEF list_processes
<1> HIDE DEF Inv
<1> QED
  BY <1>1, <1>2, <1>3, <1>4, <1>5, <1>6, <1>7, <1>8

\* wait_all_processes and sigint_handler, run by the shell or by the handler.
LEMMA SweepStep ==
  ASSUME Inv, NEW w \in Thread,
         \/ wait_scan(w) \/ wait_pid(w) \/ wait_remove(w) \/ wait_done(w)
         \/ sigint_handler(w)
  PROVE  Inv'
<1> USE ProcManAssumption DEF TypeOK
<1>1. CASE wait_scan(w)
  <2>1. TypeOK'
    BY <1>1 DEF wait_scan
  <2>2. (Contexts /\ TablePids)'
    BY <1>1 DEF wait_scan
  <2>3. (InHand /\ Swept)'
    BY <1>1 DEF wait_scan
  <2>4. (ZombieCovered /\ TerminatedTruthful /\ NoLiveChildForgotten)'
    BY <1>1 DEF wait_scan
  <2> QED
    BY <1>1, <2>1, <2>2, <2>3, <2>4 DEF wait_scan
<1>2. CASE wait_pid(w)
  <2> DEFINE p == cur[w]
  <2>1. p \in Pid /\ wstat[p] \in ExitStatus /\ proc[p] # "unborn"
    BY <1>2 DEF wait_pid
  <2>2. /\ proc' \in [Pid -> {"unborn", "alive", "zombie", "reaped"}]
        /\ proc'[p] = "reaped"
        /\ \A q \in Pid : q # p => proc'[q] = proc[q]
        /\ errno' \in {"none", "ESRCH", "ECHILD", "EPERM"}
    <3>1. \/ proc' = [proc EXCEPT ![p] = "reaped"] /\ errno' = errno
          \/ p \notin Children /\ proc' = proc /\ errno' = "ECHILD"
      BY <1>2 DEF wait_pid, waitpid, Reap
    <3>2. /\ proc \in [Pid -> {"unborn", "alive", "zombie", "reaped"}]
          /\ errno \in {"none", "ESRCH", "ECHILD", "EPERM"}
      OBVIOUS
    <3>3. p \notin Children => proc[p] = "reaped"
      BY <2>1, <3>2
    <3> HIDE DEF Inv, TypeOK, Children
    <3> QED
      BY <2>1, <3>1, <3>2, <3>3
  <2>3. /\ process_table' \in [Slot -> Entry]
        /\ \A s \in Slot :
             /\ process_table'[s].pid = process_table[s].pid
             /\ \/ process_table'[s] = process_table[s]
                \/ /\ process_table[s].pid = p
                   /\ process_table'[s].status = "terminated"
                   /\ process_table'[s].exit_status = wstat[p]
    <3>1. CASE p \in Zombies
      <4>1. update_process_status(p, wstat[p])
        BY <1>2, <3>1 DEF wait_pid
      <4>2. TypeOK
        OBVIOUS
      <4> HIDE DEF p, Inv, TypeOK
      <4> QED
        BY <2>1, <4>1, <4>2, UpdatedEntry
    <3>2. CASE p \notin Zombies
      BY <1>2, <3>2 DEF wait_pid
    <3> QED
      BY <3>1, <3>2
  <2>4. UNCHANGED <<pend, wstat, chld_pending, int_pending, process_count, cpu,
                   resume, cur, idx, quitting, shutdown, refused>>
        /\ pc' = [pc EXCEPT ![w] = "wait_rm"]
        /\ shutdown = "up" /\ cpu = w /\ pc[w] = "wait_pid"
    BY <1>2 DEF wait_pid
  <2> HIDE DEF p
  <2>5. TypeOK'
    BY <2>2, <2>3, <2>4
  <2>6. (Contexts /\ TablePids)'
    BY <2>1, <2>2, <2>3, <2>4
  <2>7. InHand'
    BY <2>1, <2>2, <2>3, <2>4 DEF p
  <2>8. Swept'
    BY <2>3, <2>4
  <2>9. (ZombieCovered /\ NoLiveChildForgotten)'
    BY <2>1, <2>2, <2>3, <2>4
  <2>10. TerminatedTruthful'
    <3> SUFFICES ASSUME NEW s \in Occupied',
                        process_table'[s].status = "terminated",
                        ~HalfAdded(s)'
                 PROVE  /\ proc'[process_table'[s].pid] = "reaped"
                        /\ process_table'[s].exit_status =
                             wstat'[process_table'[s].pid]
      OBVIOUS
    <3>1. s \in Occupied /\ ~HalfAdded(s)
      BY <2>1, <2>3, <2>4
    <3>2. \/ process_table[s].pid = p /\ process_table'[s].exit_status = wstat[p]
          \/ /\ process_table'[s] = process_table[s]
             /\ proc[process_table[s].pid] = "reaped"
             /\ process_table[s].exit_status = wstat[process_table[s].pid]
      BY <2>3, <3>1
    <3>3. process_table[s].pid \in Pid
      BY <3>1
    <3> QED
      BY <2>1, <2>2, <2>3, <2>4, <3>2, <3>3
  <2> QED
    BY <2>4, <2>5, <2>6, <2>7, <2>8, <2>9, <2>10
<1>3. CASE wait_remove(w)
  <2> DEFINE p == cur[w]
  <2>1. /\ p \in Pid /\ proc[p] = "reaped"
        /\ idx[w] \in Slot /\ process_table[idx[w]].pid \in {p, NoPid}
    BY <1>3 DEF wait_remove
  <2>2. /\ process_table' \in [Slot -> Entry]
        /\ process_count' \in Int
        /\ \A s \in Slot :
             /\ process_table'[s].status = process_table[s].status
             /\ process_table'[s].exit_status = process_table[s].exit_status
             /\ process_table'[s].pid = IF process_table[s].pid = p
                                        THEN NoPid ELSE process_table[s].pid
    BY <1>3, <2>1, RemovedEntry DEF wait_remove
  <2>3. UNCHANGED <<kernel, errno, cpu, resume, cur, quitting, shutdown, refused>>
        /\ pc' = [pc EXCEPT ![w] = "wait"]
        /\ idx' = [idx EXCEPT ![w] = idx[w] + 1]
        /\ shutdown = "up" /\ cpu = w /\ pc[w] = "wait_rm"
    BY <1>3 DEF wait_remove
  <2> HIDE DEF p
  <2>4. TypeOK'
    BY <2>1, <2>2, <2>3
  <2>5. (Contexts /\ TablePids)'
    BY <2>1, <2>2, <2>3
  <2>6. InHand'
    BY <2>1, <2>2, <2>3
  <2>7. Swept'
    BY <2>1, <2>2, <2>3
  <2>8. (ZombieCovered /\ TerminatedTruthful /\ NoLiveChildForgotten)'
    BY <2>1, <2>2, <2>3
  <2> QED
    BY <2>3, <2>4, <2>5, <2>6, <2>7, <2>8
<1>4. CASE wait_done(w)
  <2>1. \A s \in Slot : ~Running(s)
    BY <1>4 DEF wait_done
  <2>2. \A s \in Occupied : HalfAdded(s) \/ proc[process_table[s].pid] = "reaped"
    BY <2>1
  <2>3. TypeOK'
    BY <1>4 DEF wait_done, Exiting
  <2>4. (Contexts /\ TablePids /\ InHand /\ Swept)'
    BY <1>4 DEF wait_done, Exiting
  <2>5. (ZombieCovered /\ TerminatedTruthful /\ NoLiveChildForgotten)'
    BY <1>4 DEF wait_done, Exiting
  <2>6. ShutdownReapsTracked'
    BY <1>4, <2>2 DEF wait_done, Exiting
  <2> QED
    BY <2>3, <2>4, <2>5, <2>6
<1>5. CASE sigint_handler(w)
  <2>1. pend' \in [Pid -> SUBSET {SIGKILL, SIGTERM}]
    <3>1. \/ pend' = pend
          \/ \E p \in Pid : pend' = [pend EXCEPT ![p] = pend[p] \cup {SIGTERM}]
      BY <1>5 DEF sigint_handler, Signal
    <3> QED
      BY <3>1
  <2>2. TypeOK'
    BY <1>5, <2>1 DEF sigint_handler
  <2>3. (Contexts /\ TablePids)'
    BY <1>5 DEF sigint_handler
  <2>4. (InHand /\ Swept)'
    BY <1>5 DEF sigint_handler
  <2>5. (ZombieCovered /\ TerminatedTruthful /\ NoLiveChildForgotten)'
    BY <1>5 DEF sigint_handler
  <2> QED
    BY <1>5, <2>2, <2>3, <2>4, <2>5 DEF sigint_handler
<1> HIDE DEF Inv
<1> QED
  BY <1>1, <1>2, <1>3, <1>4, <1>5

-----------------------------------------------------------------------------
(* The theorems.                                                           *)

\* Inv is inductive: it holds in every reachable state of ProcMan, whatever
\* the number of slots and children and wherever the handlers preempt.
THEOREM Invariance == Spec => []Inv
<1>1. Init => Inv
  <2> SUFFICES ASSUME Init
               PROVE  Inv
    OBVIOUS
  <2> USE ProcManAssumption DEF Init
  <2>1. TypeOK
    <3>1. process_table \in [Slot -> Entry]
      OBVIOUS
    <3>2. 1 \in 1 .. MAX_PROCESSES + 1
      OBVIOUS
    <3>3. /\ pc \in [Thread -> Label]
          /\ idx \in [Thread -> 1 .. MAX_PROCESSES + 1]
          /\ cur \in [Thread -> Pid \cup Foreign \cup {NoPid}]
      BY <3>2
    <3>4. /\ proc \in [Pid -> {"unborn", "alive", "zombie", "reaped"}]
          /\ pend \in [Pid -> SUBSET {SIGKILL, SIGTERM}]
          /\ wstat \in [Pid -> ExitStatus]
      OBVIOUS
    <3>5. /\ chld_pending \in BOOLEAN /\ int_pending \in BOOLEAN
          /\ quitting \in BOOLEAN
      OBVIOUS
    <3>6. /\ process_count \in Int /\ refused \subseteq Pid
          /\ errno \in {"none", "ESRCH", "ECHILD", "EPERM"}
          /\ cpu \in {"main", "chld", "int"}
          /\ resume \in {"none", "main", "int"}
          /\ shutdown \in {"up", "safe", "eof", "killed"}
      OBVIOUS
    <3> HIDE DEF Init
    <3> QED
      BY <3>1, <3>3, <3>4, <3>5, <3>6 DEF TypeOK
  <2>2. Occupied = {} /\ Children = {}
    OBVIOUS
  <2> QED
    BY <2>1, <2>2
<1>2. Inv /\ [Next]_vars => Inv'
  <2> SUFFICES ASSUME Inv, [Next]_vars
               PROVE  Inv'
    OBVIOUS
  <2>1. CASE UNCHANGED vars
    BY <2>1 DEF vars, TypeOK
  <2> HIDE DEF Inv
  <2>2. CASE Environment
    BY <2>2, EnvironmentStep
  <2>3. CASE Command
    BY <2>3, CommandStep
  <2>4. CASE Program
    BY <2>4, HandlerStep, ShellStep, SweepStep DEF Program
  <2> QED
    BY <2>1, <2>2, <2>3, <2>4 DEF Next
<1> HIDE DEF Inv
<1> QED
  BY <1>1, <1>2, PTL DEF Spec

\* Every variable keeps its type; in particular no sweep runs off the table.
THEOREM TypeCorrect == Spec => []TypeOK
<1>1. Inv => TypeOK
  OBVIOUS
<1> HIDE DEF Inv
<1> QED
  BY <1>1, Invariance, PTL

\* No zombie is left without a SIGCHLD to come or a handler at work.
THEOREM ZombiesAreCovered == Spec => []ZombieCovered
<1>1. Inv => ZombieCovered
  OBVIOUS
<1> HIDE DEF Inv, ZombieCovered
<1> QED
  BY <1>1, Invariance, PTL

\* A terminated entry shows the exit code of a child that was collected.
THEOREM TerminatedIsTruthful == Spec => []TerminatedTruthful
<1>1. Inv => TerminatedTruthful
  OBVIOUS
<1> HIDE DEF Inv, TerminatedTruthful
<1> QED
  BY <1>1, Invariance, PTL

\* No child that lives, or waits to be collected, is dropped from the table.
THEOREM NoChildForgotten == Spec => []NoLiveChildForgotten
<1>1. Inv => NoLiveChildForgotten
  OBVIOUS
<1> HIDE DEF Inv, NoLiveChildForgotten
<1> QED
  BY <1>1, Invariance, PTL

\* A finished shutdown has collected every child left in the table.
THEOREM ShutdownIsComplete == Spec => []ShutdownReapsTracked
<1>1. Inv => ShutdownReapsTracked
  OBVIOUS
<1> HIDE DEF Inv, ShutdownReapsTracked
<1> QED
  BY <1>1, Invariance, PTL

-----------------------------------------------------------------------------
(* The refinement: every step moves the entry of at most one child, along  *)
(* one arrow of ChildLedger.                                               *)

HIDE DEF Inv, Contexts, TablePids, InHand, Swept, ZombieCovered, Status, Label,
         TerminatedTruthful, NoLiveChildForgotten, ShutdownReapsTracked

\* What the entry of q depends on stays as it is.
Keeps(q) ==
  /\ proc[q] = "unborn" <=> proc'[q] = "unborn"
  /\ Adding(q) <=> Adding(q)'
  /\ q \in refused <=> q \in refused'
  /\ \/ Adding(q)
     \/ \A s \in Slot :
          /\ process_table[s].pid = q <=> process_table'[s].pid = q
          /\ process_table[s].pid = q =>
               /\ process_table'[s].status = process_table[s].status
               /\ process_table'[s].exit_status = process_table[s].exit_status

\* The shell neither begins nor ends an addition.
SameAddition == \A q \in Pid : Adding(q) <=> Adding(q)'

LEMMA KeptEntry ==
  ASSUME NEW q \in Pid, Keeps(q)
  PROVE  EntryOf(q)' = EntryOf(q) /\ Shown(q)' = Shown(q)
<1>1. SlotsOf(q)' = SlotsOf(q)
  BY DEF Keeps, SlotsOf
<1>2. Finished(q)' = Finished(q)
  BY <1>1 DEF Keeps, SlotsOf, Finished
<1>3. EntryOf(q)' = EntryOf(q)
  BY <1>1, <1>2 DEF Keeps, EntryOf
<1>4. Shown(q)' = Shown(q)
  <2>1. \A s \in Finished(q) : process_table'[s].exit_status = process_table[s].exit_status
    BY DEF Keeps, SlotsOf, Finished
  <2> QED
    BY <1>2, <2>1 DEF Shown
<1> QED
  BY <1>3, <1>4

\* When every other child keeps its entry, only p's has moved.
LEMMA OneMoves ==
  ASSUME NEW p \in Pid, \A q \in Pid : q # p => Keeps(q)
  PROVE  /\ entry' = [entry EXCEPT ![p] = EntryOf(p)']
         /\ shown' = [shown EXCEPT ![p] = Shown(p)']
<1>1. \A q \in Pid : q # p => EntryOf(q)' = EntryOf(q) /\ Shown(q)' = Shown(q)
  BY KeptEntry
<1> HIDE DEF EntryOf, Shown
<1> QED
  BY <1>1 DEF entry, shown

LEMMA NoneMoves ==
  ASSUME \A q \in Pid : Keeps(q)
  PROVE  entry' = entry /\ shown' = shown
<1>1. \A q \in Pid : EntryOf(q)' = EntryOf(q) /\ Shown(q)' = Shown(q)
  BY KeptEntry
<1> QED
  BY <1>1 DEF entry, shown

\* A step that leaves children, table and refusals alone leaves the ledger alone.
LEMMA Aside ==
  ASSUME UNCHANGED <<proc, process_table, refused>>, SameAddition
  PROVE  entry' = entry /\ shown' = shown
<1>1. \A q \in Pid : Keeps(q)
  BY DEF Keeps, SameAddition
<1> QED
  BY <1>1, NoneMoves

\* A half-added entry is the one of the child being added.
LEMMA HalfAddedIsAdding ==
  ASSUME Inv, NEW p \in Pid, NEW s \in Slot, process_table[s].pid = p, HalfAdded(s)
  PROVE  Adding(p)
  BY ProcManAssumption DEF Inv, InHand, HalfAdded, Adding

\* update_process_status finds the entry of a child that has one.
LEMMA UpdatedSlot ==
  ASSUME Inv, NEW p \in Pid, NEW code \in ExitStatus, NEW s \in Slot,
         process_table[s].pid = p, update_process_status(p, code)
  PROVE  /\ process_table'[s].pid = p
         /\ process_table'[s].status = "terminated"
         /\ process_table'[s].exit_status = code
<1>1. s \in Occupied /\ TablePids /\ process_table \in [Slot -> Entry]
  BY ProcManAssumption DEF Occupied, Inv, TypeOK
<1>2. find_process_slot(p) = {s}
  BY <1>1, FoundSlot
<1>3. process_table' = [process_table EXCEPT ![s] =
         [pid |-> p, status |-> "terminated", exit_status |-> code]]
  BY <1>2 DEF update_process_status
<1> QED
  BY <1>1, <1>3

\* Who collects a child writes what it ended with into its entry, if it has one.
LEMMA Collects ==
  ASSUME Inv, NEW p \in Pid, proc[p] = "zombie", Reap(p),
         update_process_status(p, wstat[p]),
         UNCHANGED <<wstat, refused>>, SameAddition
  PROVE  Ledger!Collect(p)
<1>1. /\ TypeOK /\ TablePids /\ TerminatedTruthful /\ wstat[p] \in ExitStatus
      /\ proc' = [proc EXCEPT ![p] = "reaped"]
  BY DEF Inv, TypeOK, Reap
<1>2. /\ proc'[p] = "reaped"
      /\ \A q \in Pid : q # p => proc'[q] = proc[q]
  BY <1>1 DEF TypeOK
<1>3. \A s \in Slot :
        /\ process_table'[s].pid = process_table[s].pid
        /\ process_table'[s] = process_table[s] \/ process_table[s].pid = p
  BY <1>1, UpdatedEntry
<1>4. \A q \in Pid : q # p => Keeps(q)
  BY <1>2, <1>3 DEF Keeps, SameAddition
<1>5. Adding(p) <=> Adding(p)'
  BY DEF SameAddition
<1>6. entry[p] = EntryOf(p) /\ shown[p] = Shown(p)
  BY DEF entry, shown
<1>7. CASE SlotsOf(p) = {}
  <2>1. SlotsOf(p)' = {}
    BY <1>3, <1>5, <1>7 DEF SlotsOf
  <2>2. Finished(p) = {} /\ Finished(p)' = {}
    BY <1>7, <2>1 DEF Finished
  <2>3. EntryOf(p)' = EntryOf(p) /\ EntryOf(p) # "listed"
    BY <1>2, <1>5, <1>7, <2>1, <2>2 DEF EntryOf
  <2>4. Shown(p)' = {} /\ Shown(p) = {}
    BY <2>2 DEF Shown
  <2>5. entry' = [entry EXCEPT ![p] = entry[p]] /\ shown' = [shown EXCEPT ![p] = shown[p]]
    BY <1>4, <1>6, <2>3, <2>4, OneMoves
  <2>6. entry' = entry /\ shown' = shown
    BY <2>5 DEF entry, shown
  <2> QED
    BY <1>1, <1>6, <2>3, <2>6 DEF Ledger!Collect
<1>8. CASE SlotsOf(p) # {}
  <2>1. PICK s \in Slot : process_table[s].pid = p /\ ~Adding(p) /\ p \notin refused
    BY <1>8 DEF SlotsOf
  <2>2. s \in Occupied /\ \A t \in Slot : process_table[t].pid = p => t = s
    BY <1>1, <2>1, ProcManAssumption DEF TablePids, Occupied
  <2>3. SlotsOf(p) = {s} /\ SlotsOf(p)' = {s}
    BY <1>3, <1>5, <2>1, <2>2 DEF SlotsOf
  <2>4. process_table[s].status # "terminated"
    BY <1>1, <2>1, <2>2, HalfAddedIsAdding DEF TerminatedTruthful
  <2>5. /\ process_table'[s].status = "terminated"
        /\ process_table'[s].exit_status = wstat[p]
    BY <1>1, <2>1, UpdatedSlot
  <2>6. Finished(p) = {} /\ Finished(p)' = {s}
    BY <2>3, <2>4, <2>5 DEF Finished
  <2>7. EntryOf(p) = "listed"
    BY <2>1, <2>3, <2>6 DEF EntryOf
  <2>8. EntryOf(p)' = "finished"
    BY <1>2, <1>5, <2>1, <2>6 DEF EntryOf
  <2>9. Shown(p)' = {wstat[p]}
    BY <2>5, <2>6 DEF Shown
  <2>10. /\ entry' = [entry EXCEPT ![p] = "finished"]
         /\ shown' = [shown EXCEPT ![p] = {wstat[p]}]
    BY <1>4, <2>8, <2>9, OneMoves
  <2> QED
    BY <1>1, <1>6, <2>7, <2>10 DEF Ledger!Collect
<1> QED
  BY <1>7, <1>8

\* A removal removes the entry of a child that is gone, or finds no entry.
LEMMA Removes ==
  ASSUME Inv, NEW p \in Pid \cup Foreign, p \notin Children,
         remove_process_from_table(p),
         UNCHANGED <<proc, wstat, refused>>, SameAddition
  PROVE  \/ p \in Pid /\ Ledger!Remove(p)
         \/ entry' = entry /\ shown' = shown
<1>1. TypeOK /\ TablePids /\ proc' = proc /\ wstat' = wstat
  BY DEF Inv
<1>2. \A s \in Slot :
        /\ process_table'[s].status = process_table[s].status
        /\ process_table'[s].exit_status = process_table[s].exit_status
        /\ process_table'[s].pid = IF process_table[s].pid = p
                                   THEN NoPid ELSE process_table[s].pid
  BY <1>1, RemovedEntry
<1>3. \A q \in Pid : q # NoPid
  BY ProcManAssumption
<1>4. \A q \in Pid : q # p => Keeps(q)
  BY <1>2, <1>3 DEF Keeps, SameAddition
<1>5. CASE p \notin Pid
  BY <1>4, <1>5, NoneMoves
<1>6. CASE p \in Pid /\ SlotsOf(p) = {}
  <2>1. SlotsOf(p)' = {}
    BY <1>2, <1>3, <1>6 DEF SlotsOf
  <2>2. Finished(p) = {} /\ Finished(p)' = {}
    BY <1>6, <2>1 DEF Finished
  <2>3. EntryOf(p)' = EntryOf(p)
    BY <1>6, <2>1, <2>2 DEF EntryOf, SameAddition
  <2>4. Shown(p)' = Shown(p)
    BY <2>2 DEF Shown
  <2>5. /\ entry' = [entry EXCEPT ![p] = EntryOf(p)]
        /\ shown' = [shown EXCEPT ![p] = Shown(p)]
    BY <1>4, <1>6, <2>3, <2>4, OneMoves
  <2> QED
    BY <1>6, <2>5 DEF entry, shown
<1>7. CASE p \in Pid /\ SlotsOf(p) # {}
  <2>1. PICK s \in Slot : process_table[s].pid = p /\ ~Adding(p) /\ p \notin refused
    BY <1>7 DEF SlotsOf
  <2>2. proc[p] = "reaped"
    BY <1>1, <1>3, <1>7, <2>1 DEF TypeOK, TablePids, Occupied, Children
  <2>3. EntryOf(p) \in {"listed", "finished"} /\ entry[p] = EntryOf(p)
    BY <1>7, <2>1, <2>2 DEF EntryOf, entry
  <2>4. SlotsOf(p)' = {}
    BY <1>2, <1>3, <1>7 DEF SlotsOf
  <2>5. Finished(p)' = {}
    BY <2>4 DEF Finished
  <2>6. EntryOf(p)' = "removed"
    BY <1>7, <2>1, <2>2, <2>4, <2>5 DEF EntryOf, SameAddition
  <2>7. Shown(p)' = {}
    BY <2>5 DEF Shown
  <2>8. entry' = [entry EXCEPT ![p] = "removed"] /\ shown' = [shown EXCEPT ![p] = {}]
    BY <1>4, <1>7, <2>6, <2>7, OneMoves
  <2> QED
    BY <1>1, <1>7, <2>2, <2>3, <2>8 DEF Ledger!Remove
<1> QED
  BY <1>5, <1>6, <1>7

-----------------------------------------------------------------------------
(* The steps, seen in the ledger.                                          *)

\* Birth, addition and refusal: the shell runs, so no handler is at work.
LEMMA Creates ==
  ASSUME Inv, create_process
  PROVE  \E p \in Pid : Ledger!Create(p)
<1>1. PICK p \in Pid : /\ proc[p] = "unborn"
                       /\ proc' = [proc EXCEPT ![p] = "alive"]
                       /\ cur' = [cur EXCEPT !["main"] = p]
  BY DEF create_process
<1>2. /\ TypeOK /\ TablePids /\ pc["main"] = "prompt"
      /\ pc' = [pc EXCEPT !["main"] = "add_pid"]
      /\ UNCHANGED <<wstat, process_table, refused>>
  BY DEF Inv, create_process
<1>3. \A q \in Pid : ~Adding(q) /\ (Adding(q)' <=> q = p)
  BY <1>1, <1>2 DEF Adding, TypeOK
<1>4. \A s \in Slot : process_table[s].pid # p
  BY <1>1, <1>2, ProcManAssumption DEF TablePids, Occupied
<1>5. \A q \in Pid : q # p => Keeps(q)
  BY <1>1, <1>2, <1>3 DEF Keeps, TypeOK
<1>6. SlotsOf(p) = {} /\ SlotsOf(p)' = {}
  BY <1>2, <1>4 DEF SlotsOf
<1>7. Shown(p) = {} /\ Shown(p)' = {}
  BY <1>6 DEF Shown, Finished
<1>8. EntryOf(p)' = "adding"
  BY <1>1, <1>2, <1>3 DEF EntryOf, TypeOK
<1>9. entry' = [entry EXCEPT ![p] = "adding"] /\ shown' = [shown EXCEPT ![p] = {}]
  BY <1>5, <1>7, <1>8, OneMoves
<1>10. shown' = shown
  BY <1>7, <1>9 DEF shown
<1>11. \A q \in Pid : entry[q] # "adding"
  BY <1>3 DEF entry, EntryOf
<1> QED
  BY <1>1, <1>2, <1>9, <1>10, <1>11 DEF Ledger!Create

LEMMA Refuses ==
  ASSUME Inv, add_pid, find_free_slot = {}
  PROVE  cur["main"] \in Pid /\ Ledger!Add(cur["main"])
<1>1. PICK p \in Pid : p = cur["main"]
  BY DEF Inv, InHand, add_pid
<1>2. /\ TypeOK /\ proc[p] # "unborn"
      /\ \A s \in Slot : process_table[s].pid # p
      /\ pc["main"] = "add_pid" /\ refused' = refused \cup {p}
      /\ pc' = [pc EXCEPT !["main"] = "prompt"]
      /\ UNCHANGED <<proc, wstat, process_table>>
  BY <1>1 DEF Inv, InHand, add_pid, kernel
<1>3. \A q \in Pid : (Adding(q) <=> q = p) /\ ~Adding(q)'
  BY <1>1, <1>2 DEF Adding, TypeOK
<1>4. \A q \in Pid : q # p => Keeps(q)
  BY <1>2, <1>3 DEF Keeps
<1>5. SlotsOf(p) = {} /\ SlotsOf(p)' = {}
  BY <1>2 DEF SlotsOf
<1>6. Finished(p) = {} /\ Finished(p)' = {}
  BY <1>5 DEF Finished
<1>7. EntryOf(p) = "adding" /\ EntryOf(p)' = "refused"
  BY <1>2, <1>3, <1>5, <1>6 DEF EntryOf
<1>8. Shown(p) = {} /\ Shown(p)' = {}
  BY <1>6 DEF Shown
<1>9. entry' = [entry EXCEPT ![p] = "refused"] /\ shown' = [shown EXCEPT ![p] = {}]
  BY <1>2, <1>4, <1>7, <1>8, OneMoves
<1>10. shown' = shown
  BY <1>8, <1>9 DEF shown
<1>11. entry[p] = "adding"
  BY <1>2, <1>7 DEF entry
<1> QED
  BY <1>1, <1>2, <1>9, <1>10, <1>11 DEF Ledger!Add

LEMMA StoresPid ==
  ASSUME Inv, add_pid, find_free_slot # {}
  PROVE  entry' = entry /\ shown' = shown
<1>1. PICK s \in Slot :
        /\ process_table[s].pid = NoPid
        /\ process_table' = [process_table EXCEPT ![s].pid = cur["main"]]
        /\ GotoAt("main", "add_status", s)
        /\ UNCHANGED <<cur, refused>>
  BY DEF add_pid, find_free_slot, First
<1>2. /\ TypeOK /\ cur["main"] \in Pid /\ pc["main"] = "add_pid" /\ proc' = proc
      /\ pc' = [pc EXCEPT !["main"] = "add_status"]
  BY <1>1 DEF Inv, InHand, add_pid, kernel
<1>3. \A q \in Pid : (Adding(q) <=> q = cur["main"]) /\ (Adding(q) <=> Adding(q)')
  BY <1>1, <1>2 DEF Adding, TypeOK
<1>4. \A t \in Slot : \/ process_table'[t] = process_table[t]
                      \/ /\ process_table[t].pid = NoPid
                         /\ process_table'[t].pid = cur["main"]
  BY <1>1, <1>2 DEF TypeOK
<1>5. \A q \in Pid : Keeps(q)
  BY <1>1, <1>2, <1>3, <1>4, ProcManAssumption DEF Keeps
<1> QED
  BY <1>5, NoneMoves

LEMMA Adds ==
  ASSUME Inv, add_status
  PROVE  cur["main"] \in Pid /\ Ledger!Add(cur["main"])
<1>1. PICK p \in Pid, i \in Slot : p = cur["main"] /\ i = idx["main"]
  BY DEF Inv, InHand, add_status
<1>2. /\ TypeOK /\ TablePids
      /\ cpu = "main" /\ pc["main"] = "add_status"
      /\ process_table' = [process_table EXCEPT ![i].status = "running"]
      /\ pc' = [pc EXCEPT !["main"] = "prompt"]
      /\ UNCHANGED <<proc, wstat, refused>>
  BY <1>1 DEF Inv, add_status, kernel
<1>3. process_table[i].pid = p
  <2>1. pc["int"] = "idle"
    BY <1>2 DEF Inv, Contexts
  <2> QED
    BY <1>1, <1>2, <2>1 DEF Inv, InHand
<1>4. \A q \in Pid : (Adding(q) <=> q = p) /\ ~Adding(q)'
  BY <1>1, <1>2 DEF Adding, TypeOK
<1>5. /\ process_table'[i].pid = p /\ process_table'[i].status = "running"
      /\ \A t \in Slot : t # i => process_table'[t] = process_table[t]
  BY <1>2, <1>3 DEF TypeOK
<1>6. \A q \in Pid : q # p => Keeps(q)
  BY <1>2, <1>3, <1>4, <1>5 DEF Keeps
<1>7. \A t \in Slot : process_table'[t].pid = p => t = i
  BY <1>2, <1>3, <1>5, ProcManAssumption DEF TablePids, Occupied
<1>8. Finished(p) = {} /\ Finished(p)' = {}
  BY <1>2, <1>4, <1>5, <1>7 DEF Finished, SlotsOf
<1>9. p \notin refused => SlotsOf(p)' # {}
  <2>1. p \notin refused => i \in SlotsOf(p)'
    BY <1>2, <1>4, <1>5 DEF SlotsOf
  <2> QED
    BY <2>1
<1>10. proc[p] # "unborn" /\ proc' = proc /\ refused' = refused
  BY <1>2, <1>3, ProcManAssumption DEF TablePids, Occupied
<1>11. EntryOf(p) = "adding" /\ EntryOf(p)' \in {"listed", "refused"}
  BY <1>2, <1>4, <1>8, <1>9, <1>10 DEF EntryOf
<1>12. Shown(p) = {} /\ Shown(p)' = {}
  BY <1>8 DEF Shown
<1>13. /\ entry' = [entry EXCEPT ![p] = EntryOf(p)']
       /\ shown' = [shown EXCEPT ![p] = {}]
  BY <1>2, <1>6, <1>12, OneMoves
<1>14. shown' = shown
  BY <1>12, <1>13 DEF shown
<1>15. entry[p] = "adding"
  BY <1>2, <1>11 DEF entry
<1> QED
  BY <1>1, <1>2, <1>11, <1>13, <1>14, <1>15 DEF Ledger!Add

\* A step of one child's entry is a step of the ledger, and so is no step.
LEMMA LedgerStep ==
  ASSUME shutdown = "up", shutdown' = shutdown, NEW p \in Pid, Ledger!Step(p)
  PROVE  [Ledger!Next]_(Ledger!vars)
  BY DEF Ledger!Next

LEMMA LedgerRests ==
  ASSUME UNCHANGED <<proc, wstat, process_table, refused, shutdown>>, SameAddition
  PROVE  [Ledger!Next]_(Ledger!vars)
<1>1. entry' = entry /\ shown' = shown
  BY Aside
<1> QED
  BY <1>1 DEF Ledger!vars

LEMMA LedgerEnds ==
  ASSUME UNCHANGED <<proc, wstat, process_table, refused>>, SameAddition,
         shutdown = "up", shutdown' \in {"eof", "killed"}
  PROVE  [Ledger!Next]_(Ledger!vars)
<1>1. entry' = entry /\ shown' = shown
  BY Aside
<1> QED
  BY <1>1 DEF Ledger!Next, Ledger!End

LEMMA EnvironmentLedger ==
  ASSUME Inv, Environment
  PROVE  [Ledger!Next]_(Ledger!vars)
<1>1. ASSUME NEW p \in Pid, NEW code \in ExitStatus, Dies(p, code)
      PROVE  [Ledger!Next]_(Ledger!vars)
  <2>1. /\ TypeOK /\ shutdown = "up" /\ proc[p] = "alive"
        /\ proc' = [proc EXCEPT ![p] = "zombie"]
        /\ wstat' = [wstat EXCEPT ![p] = code]
        /\ UNCHANGED <<process_table, refused, pc, cur, shutdown>>
    BY <1>1 DEF Inv, Dies, memory, control
  <2>2. \A q \in Pid : Keeps(q)
    BY <2>1 DEF Keeps, Adding, TypeOK
  <2>3. entry' = entry /\ shown' = shown
    BY <2>2, NoneMoves
  <2>4. Ledger!Die(p)
    BY <2>1, <2>3 DEF Ledger!Die
  <2> QED
    BY <2>1, <2>4, LedgerStep DEF Ledger!Step
<1>2. ASSUME NEW p \in Pid, ChildExits(p) \/ ChildKilled(p)
      PROVE  [Ledger!Next]_(Ledger!vars)
  <2>1. \A sig \in pend[p] : -sig \in ExitStatus
    BY DEF Inv, TypeOK
  <2>2. \E code \in ExitStatus : Dies(p, code)
    BY <1>2, <2>1 DEF ChildExits, ChildKilled
  <2> QED
    BY <1>1, <2>2
<1>3. CASE CtrlC \/ DeliverSigchld
  <2>1. UNCHANGED <<proc, wstat, process_table, refused, pc, cur, shutdown>>
    BY <1>3 DEF CtrlC, DeliverSigchld, memory, control
  <2>2. SameAddition
    BY <2>1 DEF SameAddition, Adding
  <2> QED
    BY <2>1, <2>2, LedgerRests
<1>4. CASE DeliverSigint
  <2>1. /\ TypeOK /\ pc' = [pc EXCEPT !["int"] = "sigint"]
        /\ UNCHANGED <<proc, wstat, process_table, refused, cur, shutdown>>
    BY <1>4 DEF Inv, DeliverSigint, memory
  <2>2. SameAddition
    BY <2>1 DEF SameAddition, Adding, TypeOK
  <2> QED
    BY <2>1, <2>2, LedgerRests
<1> QED
  BY <1>2, <1>3, <1>4 DEF Environment

LEMMA CommandLedger ==
  ASSUME Inv, Command
  PROVE  [Ledger!Next]_(Ledger!vars)
<1>1. CASE create_process
  <2>1. shutdown = "up" /\ shutdown' = shutdown
    BY <1>1 DEF create_process
  <2>2. PICK p \in Pid : Ledger!Create(p)
    BY <1>1, Creates
  <2> QED
    BY <2>1, <2>2, LedgerStep DEF Ledger!Step
<1>2. CASE \/ \E p \in Pid \cup Foreign, sig \in {SIGTERM, SIGKILL} :
                terminate_process(p, sig)
           \/ list_start \/ wait_start \/ quit
  <2>1. /\ TypeOK /\ pc["main"] = "prompt"
        /\ UNCHANGED <<proc, wstat, process_table, refused, shutdown>>
        /\ \E l \in {"kill_wait", "kill_errno", "list", "wait", "sigint"} :
             pc' = [pc EXCEPT !["main"] = l]
    BY <1>2 DEF Inv, terminate_process, list_start, wait_start, quit, kernel, memory
  <2>2. SameAddition
    BY <2>1 DEF SameAddition, Adding, TypeOK
  <2> QED
    BY <2>1, <2>2, LedgerRests
<1>3. CASE end_of_input \/ \E sig \in {SIGTERM, SIGKILL} : kill_own_group(sig)
  <2>1. /\ shutdown = "up" /\ shutdown' \in {"eof", "killed"}
        /\ UNCHANGED <<proc, wstat, process_table, refused, pc, cur>>
    BY <1>3 DEF end_of_input, kill_own_group, kernel, memory
  <2>2. SameAddition
    BY <2>1 DEF SameAddition, Adding
  <2> QED
    BY <2>1, <2>2, LedgerEnds
<1> QED
  BY <1>1, <1>2, <1>3 DEF Command

LEMMA HandlerLedger ==
  ASSUME Inv, sigchld_handler
  PROVE  [Ledger!Next]_(Ledger!vars)
<1>1. /\ UNCHANGED <<wstat, pc, cur, refused, shutdown>> /\ shutdown = "up"
  BY DEF sigchld_handler, control, Return
<1>2. SameAddition
  BY <1>1 DEF SameAddition, Adding
<1>3. ASSUME NEW p \in Zombies, Reap(p), update_process_status(p, wstat[p])
      PROVE  [Ledger!Next]_(Ledger!vars)
  <2>1. p \in Pid /\ proc[p] = "zombie"
    BY DEF Zombies
  <2>2. Ledger!Collect(p)
    BY <1>1, <1>2, <1>3, <2>1, Collects
  <2> QED
    BY <1>1, <2>1, <2>2, LedgerStep DEF Ledger!Step
<1>4. CASE UNCHANGED <<proc, process_table>>
  BY <1>1, <1>2, <1>4, LedgerRests
<1> QED
  BY <1>3, <1>4 DEF sigchld_handler

\* A removal, by whichever context.
LEMMA RemovalLedger ==
  ASSUME Inv, NEW p \in Pid \cup Foreign, p \notin Children,
         remove_process_from_table(p), shutdown = "up",
         UNCHANGED <<proc, wstat, refused, shutdown>>, SameAddition
  PROVE  [Ledger!Next]_(Ledger!vars)
<1>1. \/ p \in Pid /\ Ledger!Remove(p)
      \/ entry' = entry /\ shown' = shown
  BY Removes
<1>2. CASE p \in Pid /\ Ledger!Remove(p)
  BY <1>2, LedgerStep DEF Ledger!Step
<1>3. CASE entry' = entry /\ shown' = shown
  BY <1>3 DEF Ledger!vars
<1> QED
  BY <1>1, <1>2, <1>3

LEMMA ShellLedger ==
  ASSUME Inv,
         \/ add_pid \/ add_status \/ kill_errno \/ kill_wait \/ kill_remove
         \/ list_processes
  PROVE  [Ledger!Next]_(Ledger!vars)
<1>1. shutdown = "up" /\ shutdown' = shutdown /\ wstat' = wstat /\ TypeOK
  BY DEF Inv, add_pid, add_status, kill_errno, kill_wait, kill_remove,
         list_processes, kernel
<1>2. CASE add_pid \/ add_status
  <2>1. CASE add_pid /\ find_free_slot # {}
    <3>1. UNCHANGED <<proc, wstat>>
      BY <2>1 DEF add_pid, kernel
    <3>2. entry' = entry /\ shown' = shown
      BY <2>1, StoresPid
    <3> QED
      BY <1>1, <3>1, <3>2 DEF Ledger!vars
  <2>2. CASE ~(add_pid /\ find_free_slot # {})
    <3>1. cur["main"] \in Pid /\ Ledger!Add(cur["main"])
      BY <1>2, <2>2, Refuses, Adds
    <3> QED
      BY <1>1, <3>1, LedgerStep DEF Ledger!Step
  <2> QED
    BY <2>1, <2>2
<1>3. CASE kill_errno \/ kill_wait \/ kill_remove \/ list_processes
  <2>1. pc["main"] \in {"kill_errno", "kill_wait", "remove", "list"}
    BY <1>3 DEF kill_errno, kill_wait, kill_remove, list_processes
  <2>2. \E l \in {"remove", "prompt", "list"} : pc' = [pc EXCEPT !["main"] = l]
    BY <1>3 DEF kill_errno, kill_wait, kill_remove, list_processes
  <2>3. SameAddition
    BY <1>1, <2>1, <2>2 DEF SameAddition, Adding, TypeOK
  <2>4. refused' = refused
    BY <1>3 DEF kill_errno, kill_wait, kill_remove, list_processes
  <2>5. CASE kill_errno
    BY <1>1, <2>3, <2>4, <2>5, LedgerRests DEF kill_errno, kernel, memory
  <2>6. CASE kill_wait
    <3>1. PICK p : p = cur["main"]
      OBVIOUS
    <3>2. process_table' = process_table /\ waitpid(p)
      BY <2>6, <3>1 DEF kill_wait
    <3>3. CASE p \in Zombies /\ Reap(p)
      <4>1. /\ p \in Pid /\ proc[p] = "zombie"
            /\ proc' = [proc EXCEPT ![p] = "reaped"]
        BY <3>3 DEF Zombies, Reap
      <4>2. \A q \in Pid : Keeps(q)
        BY <1>1, <2>3, <2>4, <3>2, <4>1 DEF Keeps, SameAddition, TypeOK
      <4>3. entry' = entry /\ shown' = shown
        BY <4>2, NoneMoves
      <4>4. Ledger!CollectKilled(p)
        BY <1>1, <4>1, <4>3 DEF Ledger!CollectKilled
      <4> QED
        BY <1>1, <4>1, <4>4, LedgerStep DEF Ledger!Step
    <3>4. CASE proc' = proc
      BY <1>1, <2>3, <2>4, <3>2, <3>4, LedgerRests
    <3> QED
      BY <3>2, <3>3, <3>4 DEF waitpid
  <2>7. CASE kill_remove
    <3>1. PICK p : p = cur["main"]
      OBVIOUS
    <3>2. /\ remove_process_from_table(p) /\ proc' = proc
          /\ p \in Pid \cup Foreign /\ p \notin Children
      BY <1>1, <2>7, <3>1 DEF Inv, InHand, TypeOK, kill_remove, kernel
    <3> QED
      BY <1>1, <2>3, <2>4, <3>2, RemovalLedger
  <2>8. CASE list_processes
    <3>1. PICK i : i = idx["main"]
      OBVIOUS
    <3>2. proc' = proc
      BY <2>8 DEF list_processes, kernel
    <3>3. CASE process_table' = process_table
      BY <1>1, <2>3, <2>4, <3>2, <3>3, LedgerRests
    <3>4. CASE /\ i \in Occupied /\ ~Running(i)
               /\ remove_process_from_table(process_table[i].pid)
      <4>1. PICK p : p = process_table[i].pid
        OBVIOUS
      <4>2. i \in Slot /\ p \in Pid
        BY <1>1, <3>4, <4>1 DEF TypeOK, Occupied
      <4>3. process_table[i].status = "terminated"
        <5>1. process_table[i].status # "zeroed"
          BY <2>8, <3>4 DEF Inv, TablePids, HalfAdded, list_processes
        <5>2. process_table[i].status # "running"
          BY <3>4, <4>1, <4>2, ProcManAssumption DEF Running
        <5> QED
          BY <1>1, <4>2, <5>1, <5>2 DEF TypeOK, Status
      <4>4. proc[p] = "reaped"
        BY <2>8, <3>4, <4>1, <4>3 DEF Inv, TerminatedTruthful, HalfAdded, list_processes
      <4>5. p \notin Children
        BY <4>4 DEF Children
      <4> QED
        BY <1>1, <2>3, <2>4, <3>2, <3>4, <4>1, <4>2, <4>5, RemovalLedger
    <3> QED
      BY <2>8, <3>1, <3>3, <3>4 DEF list_processes
  <2> QED
    BY <1>3, <2>5, <2>6, <2>7, <2>8
<1> QED
  BY <1>2, <1>3

LEMMA SweepLedger ==
  ASSUME Inv, Inv', NEW w \in Thread,
         \/ wait_scan(w) \/ wait_pid(w) \/ wait_remove(w) \/ wait_done(w)
         \/ sigint_handler(w)
  PROVE  [Ledger!Next]_(Ledger!vars)
<1>1. /\ TypeOK /\ shutdown = "up" /\ UNCHANGED <<wstat, refused>>
      /\ pc[w] \in {"wait", "wait_pid", "wait_rm", "sigint"}
  BY DEF Inv, wait_scan, wait_pid, wait_remove, wait_done, sigint_handler, kernel
<1>2. SameAddition
  <2>1. CASE wait_done(w)
    <3>1. \/ UNCHANGED <<pc, cur>>
          \/ w = "main" /\ pc' = [pc EXCEPT !["main"] = "prompt"]
      BY <2>1 DEF wait_done, Exiting
    <3> QED
      BY <1>1, <3>1 DEF SameAddition, Adding, TypeOK
  <2>2. CASE ~wait_done(w)
    <3>1. \E l \in {"wait", "wait_pid", "wait_rm", "sigint"} :
             pc' = [pc EXCEPT ![w] = l]
      BY <2>2 DEF wait_scan, wait_pid, wait_remove, sigint_handler
    <3>2. \A v \in Thread : v # w => cur'[v] = cur[v]
      BY <1>1, <2>2 DEF wait_scan, wait_pid, wait_remove, sigint_handler, TypeOK
    <3> QED
      BY <1>1, <3>1, <3>2 DEF SameAddition, Adding, TypeOK
  <2> QED
    BY <2>1, <2>2
<1>3. CASE wait_scan(w) \/ sigint_handler(w)
  BY <1>1, <1>2, <1>3, LedgerRests DEF wait_scan, sigint_handler, kernel, memory
<1>4. CASE wait_pid(w)
  <2>1. PICK p : p = cur[w]
    OBVIOUS
  <2>2. shutdown' = shutdown /\ waitpid(p)
    BY <1>4, <2>1 DEF wait_pid
  <2>3. CASE p \in Zombies
    <3>1. p \in Pid /\ proc[p] = "zombie" /\ p \in Children
      BY <2>3 DEF Zombies, Children
    <3>2. Reap(p) /\ update_process_status(p, wstat[p])
      BY <1>4, <2>1, <2>2, <2>3, <3>1 DEF waitpid, wait_pid
    <3>3. Ledger!Collect(p)
      BY <1>1, <1>2, <3>1, <3>2, Collects
    <3> QED
      BY <1>1, <2>2, <3>1, <3>3, LedgerStep DEF Ledger!Step
  <2>4. CASE p \notin Zombies
    <3>1. UNCHANGED <<proc, process_table>>
      BY <1>4, <2>1, <2>2, <2>4 DEF waitpid, wait_pid
    <3> QED
      BY <1>1, <1>2, <2>2, <3>1, LedgerRests
  <2> QED
    BY <2>3, <2>4
<1>5. CASE wait_remove(w)
  <2>1. PICK p : p = cur[w]
    OBVIOUS
  <2>2. /\ p \in Pid /\ proc[p] = "reaped"
        /\ remove_process_from_table(p) /\ UNCHANGED <<proc, shutdown>>
    BY <1>5, <2>1 DEF Inv, InHand, wait_remove, kernel
  <2>3. p \notin Children
    BY <2>2 DEF Children
  <2> QED
    BY <1>1, <1>2, <2>2, <2>3, RemovalLedger
<1>6. CASE wait_done(w)
  <2>1. UNCHANGED <<proc, process_table>>
    BY <1>6 DEF wait_done, kernel
  <2>2. CASE shutdown' = shutdown
    BY <1>1, <1>2, <2>1, <2>2, LedgerRests
  <2>3. CASE shutdown' = "safe"
    <3>1. UNCHANGED <<pc, cur, idx>>
      BY <1>1, <1>6, <2>3 DEF wait_done
    <3>2. ASSUME NEW p \in Pid, entry[p] \in {"listed", "finished"}
          PROVE  proc[p] = "reaped"
      <4>1. EntryOf(p) \in {"listed", "finished"}
        BY <3>2 DEF entry
      <4>2. SlotsOf(p) # {}
        BY <4>1 DEF EntryOf, Finished
      <4>3. PICK s \in Slot : process_table[s].pid = p /\ ~Adding(p)
        BY <4>2 DEF SlotsOf
      <4>4. s \in Occupied' /\ ~HalfAdded(s)'
        BY <2>1, <3>1, <4>3, HalfAddedIsAdding, ProcManAssumption DEF Occupied, HalfAdded
      <4>5. proc'[process_table'[s].pid] = "reaped"
        BY <2>3, <4>4 DEF Inv, ShutdownReapsTracked
      <4> QED
        BY <2>1, <4>3, <4>5
    <3>3. entry' = entry /\ shown' = shown
      BY <1>1, <1>2, <2>1, Aside
    <3>4. Ledger!End
      BY <1>1, <2>1, <2>3, <3>2, <3>3 DEF Ledger!End
    <3> QED
      BY <1>1, <3>4 DEF Ledger!Next
  <2> QED
    BY <1>6, <2>2, <2>3 DEF wait_done
<1> QED
  BY <1>3, <1>4, <1>5, <1>6

LEMMA InitLedger == Init => Ledger!Init
<1> SUFFICES ASSUME Init
             PROVE  Ledger!Init
  OBVIOUS
<1>1. \A p \in Pid : EntryOf(p) = "none"
  BY DEF Init, EntryOf
<1>2. \A p \in Pid : SlotsOf(p) = {}
  BY ProcManAssumption DEF Init, SlotsOf
<1>3. \A p \in Pid : Shown(p) = {}
  BY <1>2 DEF Shown, Finished
<1>4. entry = [p \in Pid |-> "none"] /\ shown = [p \in Pid |-> {}]
  BY <1>1, <1>3 DEF entry, shown
<1>5. wstat \in [Pid -> ExitStatus]
  BY DEF Init
<1> QED
  BY <1>4, <1>5 DEF Init, Ledger!Init

\* Every run of ProcMan is a run of ChildLedger: whichever of the shell and
\* its handlers collects a child, and whatever they preempt, the entry of the
\* child is added once, shows only what the child ended with, and is removed
\* only once the child is gone.
THEOREM ProcManImplementsLedger == Spec => ImplementsLedger
<1>1. Init => Ledger!Init
  BY InitLedger
<1>2. Inv /\ Inv' /\ [Next]_vars => [Ledger!Next]_(Ledger!vars)
  <2> SUFFICES ASSUME Inv, Inv', [Next]_vars
               PROVE  [Ledger!Next]_(Ledger!vars)
    OBVIOUS
  <2>1. CASE UNCHANGED vars
    <3>1. UNCHANGED <<proc, wstat, process_table, refused, shutdown, pc, cur>>
      BY <2>1 DEF vars, kernel, memory, control
    <3>2. SameAddition
      BY <3>1 DEF SameAddition, Adding
    <3> QED
      BY <3>1, <3>2, LedgerRests
  <2>2. CASE Environment
    BY <2>2, EnvironmentLedger
  <2>3. CASE Command
    BY <2>3, CommandLedger
  <2>4. CASE Program
    BY <2>4, HandlerLedger, ShellLedger, SweepLedger DEF Program
  <2> QED
    BY <2>1, <2>2, <2>3, <2>4 DEF Next
<1> QED
  BY <1>1, <1>2, Invariance, PTL DEF Spec, ImplementsLedger, Ledger!Spec

=============================================================================
