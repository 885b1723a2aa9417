------------------------------ MODULE ChatRoom ------------------------------
(***************************************************************************)
(* What the chat of 2.5_chatsystem promises: a message is published to all *)
(* the members of the room in one step, so that all of them hear the same  *)
(* messages in the same order.  Only the message under way when the room   *)
(* closes may reach some members and not others.                           *)
(***************************************************************************)
EXTENDS Sequences, Integers, FiniteSets

CONSTANTS Client, Message, Name

VARIABLES
  member,   \* the clients registered in the room
  name,     \* the name each client is registered under
  present,  \* the clients that have not gone
  inbox,    \* what each client has heard, or will if it goes on listening
  log,      \* every message published, in order
  since,    \* how much of the log came before each client registered
  open      \* whether the room is open

vars == <<member, name, present, inbox, log, since, open>>

Init ==
  /\ member = {} /\ present = Client
  /\ name \in [Client -> Name]
  /\ inbox = [c \in Client |-> << >>]
  /\ log = << >>
  /\ since = [c \in Client |-> 0]
  /\ open = TRUE

\* A client hears what is published under another name than its own.
Hears(c, m) == name[c] # m.from

\* A client comes in with nothing in its inbox.
Enter(c) ==
  /\ open /\ c \notin member /\ inbox[c] = << >>
  /\ member' = member \cup {c}
  /\ name' \in [Client -> Name]
  /\ \A d \in Client \ {c} : name'[d] = name[d]
  /\ since' = [since EXCEPT ![c] = Len(log)]
  /\ UNCHANGED <<present, inbox, log, open>>

Publish(m) ==
  /\ open
  /\ log' = Append(log, m)
  /\ inbox' = [c \in Client |-> IF c \in member \cap present /\ Hears(c, m)
                                THEN Append(inbox[c], m) ELSE inbox[c]]
  /\ UNCHANGED <<member, name, present, since, open>>

Exit(c) ==
  /\ open /\ c \in member
  /\ member' = member \ {c}
  /\ UNCHANGED <<name, present, inbox, log, since, open>>

\* A client goes away without reading the rest of its inbox.
Depart(c) ==
  /\ c \in present
  /\ present' = present \ {c}
  /\ \E k \in 0 .. Len(inbox[c]) :
       inbox' = [inbox EXCEPT ![c] = SubSeq(@, 1, k)]
  /\ UNCHANGED <<member, name, log, since, open>>

\* The room closes, perhaps in the middle of a message.
Close ==
  /\ open /\ open' = FALSE
  /\ member' = {}
  /\ \E cut \in SUBSET {c \in Client : inbox[c] # << >>} :
       inbox' = [c \in Client |-> IF c \in cut THEN SubSeq(inbox[c], 1, Len(inbox[c]) - 1)
                                               ELSE inbox[c]]
  /\ UNCHANGED <<name, present, log, since>>

Next ==
  \/ \E c \in Client : Enter(c) \/ Exit(c) \/ Depart(c)
  \/ \E m \in Message : Publish(m)
  \/ Close

Spec == Init /\ [][Next]_vars

\* The messages that c should have heard, by their positions in the log.
Owed(c) == {k \in since[c] + 1 .. Len(log) : Hears(c, log[k])}

\* q holds the messages of ms at the positions H, in order, and no other.
Holds(q, ms, H) ==
  /\ Len(q) = Cardinality(H)
  /\ \A k \in H : q[Cardinality({j \in H : j <= k})] = ms[k]

\* A member that is present has heard exactly what has been published since
\* it registered, under other names than its own and in the same order.
HeardTheLog == open => \A c \in member \cap present : Holds(inbox[c], log, Owed(c))

=============================================================================
