----------------------------- MODULE ChildLedger -----------------------------
(***************************************************************************)
(* What the process manager of lab2.2_procmangC/homework1 promises of each *)
(* child, whoever collects it and in whatever order: its entry is added,   *)
(* perhaps marked finished with the code the child ended with, and removed *)
(* once the child is gone; it never takes a step back.                     *)
(***************************************************************************)
EXTENDS Integers

CONSTANTS Pid, Code

VARIABLES
  life,    \* each child: unborn, alive, zombie or reaped
  code,    \* what a child that is no longer alive ended with
  entry,   \* its entry: none, adding, refused, listed, finished or removed
  shown,   \* the codes its entry shows: none until it is finished
  ending   \* how the program ended, or "up"

vars == <<life, code, entry, shown, ending>>

Init ==
  /\ life = [p \in Pid |-> "unborn"]
  /\ code \in [Pid -> Code]
  /\ entry = [p \in Pid |-> "none"]
  /\ shown = [p \in Pid |-> {}]
  /\ ending = "up"

\* One child at a time: it is born before it has an entry.
Create(p) ==
  /\ life[p] = "unborn" /\ \A q \in Pid : entry[q] # "adding"
  /\ life' = [life EXCEPT ![p] = "alive"]
  /\ entry' = [entry EXCEPT ![p] = "adding"]
  /\ UNCHANGED <<code, shown>>

\* It gets its entry, dead or alive by now, or finds no room for one.
Add(p) ==
  /\ entry[p] = "adding"
  /\ \E e \in {"listed", "refused"} : entry' = [entry EXCEPT ![p] = e]
  /\ UNCHANGED <<life, code, shown>>

Die(p) ==
  /\ life[p] = "alive"
  /\ life' = [life EXCEPT ![p] = "zombie"]
  /\ \E c \in Code : code' = [code EXCEPT ![p] = c]
  /\ UNCHANGED <<entry, shown>>

\* Collected by a handler or by `wait`: a complete entry shows it.
Collect(p) ==
  /\ life[p] = "zombie"
  /\ life' = [life EXCEPT ![p] = "reaped"]
  /\ IF entry[p] = "listed"
     THEN /\ entry' = [entry EXCEPT ![p] = "finished"]
          /\ shown' = [shown EXCEPT ![p] = {code[p]}]
     ELSE UNCHANGED <<entry, shown>>
  /\ UNCHANGED code

\* Collected by `kill`, which removes the entry without another word.
CollectKilled(p) ==
  /\ life[p] = "zombie"
  /\ life' = [life EXCEPT ![p] = "reaped"]
  /\ UNCHANGED <<code, entry, shown>>

\* Only what is gone is removed.
Remove(p) ==
  /\ life[p] = "reaped" /\ entry[p] \in {"listed", "finished"}
  /\ entry' = [entry EXCEPT ![p] = "removed"]
  /\ shown' = [shown EXCEPT ![p] = {}]
  /\ UNCHANGED <<life, code>>

\* A shutdown that calls itself safe leaves no child it knows of behind.
End ==
  /\ ending' \in {"safe", "eof", "killed"}
  /\ ending' = "safe" =>
       \A p \in Pid : entry[p] \in {"listed", "finished"} => life[p] = "reaped"
  /\ UNCHANGED <<life, code, entry, shown>>

Step(p) == \/ Create(p) \/ Add(p) \/ Die(p)
           \/ Collect(p) \/ CollectKilled(p) \/ Remove(p)

Next ==
  /\ ending = "up"
  /\ \/ End
     \/ UNCHANGED ending /\ \E p \in Pid : Step(p)

Spec == Init /\ [][Next]_vars

=============================================================================
