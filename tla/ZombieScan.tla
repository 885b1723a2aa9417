----------------------------- MODULE ZombieScan -----------------------------
(***************************************************************************)
(* zombie_creator.c, which leaves its children as zombies until its user   *)
(* presses Enter, and zombie_detector.c, which walks /proc meanwhile.      *)
(* Processes come and go between two steps of the detector.  Other is the  *)
(* set of the processes on the machine that are no children of the creator.*)
(***************************************************************************)
EXTENDS ForkKernel, Sequences, FiniteSetsExt

CONSTANTS
  Other,       \* pids of other processes
  MAX_ZOMBIES  \* size of zombie_list (1024 in the code)

ASSUME ScanAssumption ==
  /\ Other \subseteq Nat \ {0} /\ Other \cap Child = {}
  /\ MAX_ZOMBIES \in Nat

Pid     == Child \cup Other
Garbage == -1  \* a pid that was never stored

VARIABLES
  other,       \* each other process: alive, zombie or gone
  name,        \* its name: one word, two words, or two with a Z as in "a Zb"
  scan,        \* the detector: before, reading, opened or done
  pos,         \* the pid readdir has come to
  state, pid,  \* the locals of these names: never initialized, kept when
               \* fscanf stores nothing
  zombie_list, \* the pids found
  old          \* history: the zombies there were when the scan began

detectorVars == <<scan, pos, state, pid, zombie_list, old>>
scanVars == <<other, name, detectorVars>>

ScanInit ==
  /\ other \in [Other -> {"alive", "zombie"}]
  /\ name \in [Other -> {"one", "two", "twoZ"}]
  /\ scan = "before" /\ pos = 0
  /\ state \in {"Z", "S"} /\ pid = Garbage
  /\ zombie_list = <<>> /\ old = {}

\* create_zombies, and getchar(), which returns when the user presses Enter.
create_zombies ==
  At("creator", "fork") /\ ForkLoop("getchar") /\ UNCHANGED scanVars

creator_enter == At("creator", "getchar") /\ Exit("end") /\ UNCHANGED scanVars

\* Another process becomes a zombie, or a zombie is collected.
OtherMoves ==
  /\ program = "creator" /\ scan # "done"
  /\ \E p \in Other :
       \/ other[p] = "alive"  /\ other' = [other EXCEPT ![p] = "zombie"]
       \/ other[p] = "zombie" /\ other' = [other EXCEPT ![p] = "gone"]
  /\ UNCHANGED <<kernelVars, name, detectorVars>>

-----------------------------------------------------------------------------
(* The detector.                                                           *)

Life(p) == IF p \in Child THEN proc[p] ELSE other[p]

Exists(p) == Life(p) \in {"alive", "zombie"}

Detecting(s) == program = "creator" /\ scan = s

OneWord(p) == p \in Child \/ name[p] = "one"

\* "%d %s %c": the third field is the state, unless the name has a space in
\* it; then it is the letter that its second word begins with.
Letter(p) ==
  IF OneWord(p) THEN (IF Life(p) = "zombie" THEN "Z" ELSE "S")
                ELSE (IF name[p] = "twoZ" THEN "Z" ELSE "S")

\* opendir
open_proc ==
  /\ Detecting("before")
  /\ scan' = "reading"
  /\ old' = {p \in Pid : Life(p) = "zombie"}
  /\ UNCHANGED <<kernelVars, other, name, pos, state, pid, zombie_list>>

\* readdir gives the next process, whose file fopen opens; closedir after the
\* last one.
open_stat ==
  /\ Detecting("reading")
  /\ LET left == {p \in Pid : p > pos /\ Exists(p)} IN
       \/ left # {} /\ pos' = Min(left) /\ scan' = "opened"
       \/ left = {} /\ UNCHANGED pos /\ scan' = "done"
  /\ UNCHANGED <<kernelVars, other, name, state, pid, zombie_list, old>>

\* Fault: the list keeps its last slot free.
find_one_less ==
  /\ Detecting("opened")
  /\ scan' = "reading"
  /\ IF Exists(pos) THEN pid' = pos /\ state' = Letter(pos)
                    ELSE UNCHANGED <<pid, state>>
  /\ zombie_list' = IF state' = "Z" /\ Len(zombie_list) + 1 < MAX_ZOMBIES
                    THEN Append(zombie_list, pid') ELSE zombie_list
  /\ UNCHANGED <<kernelVars, other, name, pos, old>>

\* Fault: the pid is the name of the directory, whatever was read.
find_by_name ==
  /\ Detecting("opened")
  /\ scan' = "reading"
  /\ pid' = pos
  /\ state' = IF Exists(pos) THEN Letter(pos) ELSE state
  /\ zombie_list' = IF state' = "Z" /\ Len(zombie_list) < MAX_ZOMBIES
                    THEN Append(zombie_list, pid') ELSE zombie_list
  /\ UNCHANGED <<kernelVars, other, name, pos, old>>

\* fscanf stores nothing when the process has gone; then the test of state.
find_zombies ==
  /\ Detecting("opened")
  /\ scan' = "reading"
  /\ IF Exists(pos) THEN pid' = pos /\ state' = Letter(pos)
                    ELSE UNCHANGED <<pid, state>>
  /\ zombie_list' = IF state' = "Z" /\ Len(zombie_list) < MAX_ZOMBIES
                    THEN Append(zombie_list, pid') ELSE zombie_list
  /\ UNCHANGED <<kernelVars, other, name, pos, old>>

ScanNext ==
  \/ create_zombies \/ creator_enter \/ OtherMoves
  \/ open_proc \/ open_stat \/ find_zombies

=============================================================================
