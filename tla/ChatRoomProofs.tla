--------------------------- MODULE ChatRoomProofs ---------------------------
(***************************************************************************)
(* For any clients, messages and names, whoever is in the room has heard   *)
(* what the log owes it.                                                   *)
(***************************************************************************)
EXTENDS ChatRoom, FiniteSetTheorems, TLAPS

\* The inductive invariant: the log reaches past the point where each client
\* registered, and HeardTheLog.
RoomInv ==
  /\ log \in Seq(Message) /\ inbox \in [Client -> Seq(Message)]
  /\ since \in [Client -> Nat] /\ \A c \in Client : since[c] <= Len(log)
  /\ name \in [Client -> Name]
  /\ member \subseteq Client
  /\ HeardTheLog

\* The positions owed form a finite set, and so do those up to one of them.
LEMMA OwedIsFinite ==
  ASSUME NEW a \in Nat, NEW b \in Nat, NEW S \in SUBSET (a .. b)
  PROVE  IsFiniteSet(S) /\ Cardinality(S) \in Nat
<1>1. IsFiniteSet(a .. b)
  BY FS_Interval
<1> QED
  BY <1>1, FS_Subset, FS_CardinalityType

\* When m is published nothing changes for the earlier messages, and m, if it
\* is owed, is the last.
LEMMA HoldsOneMore ==
  ASSUME NEW ms \in Seq(Message), NEW q \in Seq(Message), NEW m \in Message,
         NEW from \in Nat, NEW H \in SUBSET (from + 1 .. Len(ms)), Holds(q, ms, H)
  PROVE  Holds(Append(q, m), Append(ms, m), H \cup {Len(ms) + 1})
<1> DEFINE n == Len(ms)
           H1 == H \cup {n + 1}
<1>1. /\ n \in Nat /\ IsFiniteSet(H) /\ Cardinality(H) \in Nat
      /\ n + 1 \notin H /\ \A k \in H : k \in 1 .. n /\ k <= n + 1
  <2>1. n \in Nat /\ from + 1 \in Nat /\ H \in SUBSET (from + 1 .. n)
    OBVIOUS
  <2>2. IsFiniteSet(H) /\ Cardinality(H) \in Nat
    BY <2>1, OwedIsFinite
  <2> QED
    BY <2>1, <2>2
<1>2. Cardinality(H1) = Cardinality(H) + 1
  BY <1>1, FS_AddElement
<1>3. Len(q) = Cardinality(H) /\ \A k \in H : q[Cardinality({j \in H : j <= k})] = ms[k]
  BY DEF Holds
<1>4. ASSUME NEW k \in H
      PROVE  Append(q, m)[Cardinality({j \in H1 : j <= k})] = Append(ms, m)[k]
  <2> DEFINE U == {j \in H : j <= k}
  <2>1. {j \in H1 : j <= k} = U
    BY <1>1
  <2>2. IsFiniteSet(U) /\ Cardinality(U) \in Nat /\ Cardinality(U) <= Cardinality(H)
    BY <1>1, FS_Subset, FS_CardinalityType
  <2>3. Cardinality(U) # 0
    <3>1. k \in U
      BY <1>1
    <3> QED
      BY <2>2, <3>1, FS_EmptySet
  <2>4. q[Cardinality(U)] = ms[k]
    BY <1>3
  <2> HIDE DEF U
  <2>5. Append(q, m)[Cardinality(U)] = q[Cardinality(U)]
    BY <1>3, <2>2, <2>3
  <2>6. Append(ms, m)[k] = ms[k]
    BY <1>1
  <2> QED
    BY <2>1, <2>4, <2>5, <2>6 DEF U
<1>5. Append(q, m)[Cardinality({j \in H1 : j <= n + 1})] = Append(ms, m)[n + 1]
  <2>1. {j \in H1 : j <= n + 1} = H1
    <3>1. n + 1 <= n + 1 /\ \A j \in H : j <= n + 1
      BY <1>1
    <3> QED
      BY <3>1
  <2>2. Append(q, m)[Cardinality(H1)] = m /\ Append(ms, m)[n + 1] = m
    BY <1>1, <1>2, <1>3
  <2> QED
    BY <2>1, <2>2
<1>6. Len(Append(q, m)) = Cardinality(H1)
  BY <1>2, <1>3
<1> QED
  BY <1>4, <1>5, <1>6 DEF Holds

\* What is owed at earlier positions does not depend on later messages.
LEMMA HoldsStill ==
  ASSUME NEW ms, NEW ms1, NEW q, NEW H, Holds(q, ms, H), \A k \in H : ms1[k] = ms[k]
  PROVE  Holds(q, ms1, H)
BY DEF Holds

\* A step that leaves the log and what a member is owed and has alone.
LEMMA HeardStill ==
  ASSUME RoomInv, log' = log, open' = open, member' \cap present' \subseteq member \cap present,
         \A c \in member' \cap present' : inbox'[c] = inbox[c] /\ Owed(c)' = Owed(c)
  PROVE  HeardTheLog'
<1> SUFFICES ASSUME open', NEW c \in member' \cap present'
             PROVE  Holds(inbox'[c], log', Owed(c)')
  BY Zenon DEF HeardTheLog, Holds
<1>1. Holds(inbox[c], log, Owed(c))
  BY DEF RoomInv, HeardTheLog
<1>2. inbox'[c] = inbox[c] /\ Owed(c)' = Owed(c)
  OBVIOUS
<1> QED
  BY <1>1, <1>2

LEMMA RoomInit == Init => RoomInv
BY DEF Init, RoomInv, HeardTheLog

LEMMA RoomStep == RoomInv /\ [Next]_vars => RoomInv'
<1> SUFFICES ASSUME RoomInv, [Next]_vars PROVE RoomInv'
  OBVIOUS
<1>1. ASSUME NEW c \in Client, Enter(c)
      PROVE  RoomInv'
  <2>1. /\ log' = log /\ inbox' = inbox /\ present' = present /\ open
        /\ name' \in [Client -> Name] /\ \A d \in Client \ {c} : name'[d] = name[d]
        /\ since' = [since EXCEPT ![c] = Len(log)] /\ member' = member \cup {c}
        /\ inbox[c] = << >>
    BY <1>1 DEF Enter
  <2>2. since' \in [Client -> Nat] /\ \A d \in Client : since'[d] <= Len(log')
    BY <2>1 DEF RoomInv
  <2>3. Owed(c)' = {}
    BY <2>1 DEF RoomInv, Owed
  <2>4. ASSUME NEW d \in member, d # c
        PROVE  Owed(d)' = Owed(d)
    BY <2>1, <2>4 DEF RoomInv, Owed, Hears
  <2>5. HeardTheLog'
    <3> SUFFICES ASSUME NEW d \in member' \cap present'
                 PROVE  Holds(inbox'[d], log', Owed(d)')
      BY Zenon DEF HeardTheLog, Holds
    <3>1. CASE d = c
      BY <2>1, <2>3, <3>1, FS_EmptySet DEF Holds
    <3>2. CASE d # c
      <4>1. d \in member \cap present /\ Owed(d)' = Owed(d)
        BY <2>1, <2>4, <3>2
      <4>2. Holds(inbox[d], log, Owed(d))
        BY <2>1, <4>1 DEF RoomInv, HeardTheLog
      <4> QED
        BY <2>1, <4>1, <4>2
    <3> QED
      BY <3>1, <3>2
  <2> QED
    BY <2>1, <2>2, <2>5 DEF RoomInv
<1>2. ASSUME NEW m \in Message, Publish(m)
      PROVE  RoomInv'
  <2>1. /\ open /\ log' = Append(log, m)
        /\ inbox' = [c \in Client |-> IF c \in member \cap present /\ Hears(c, m)
                                      THEN Append(inbox[c], m) ELSE inbox[c]]
        /\ UNCHANGED <<member, name, present, since>>
    BY <1>2 DEF Publish
  <2>2. /\ log' \in Seq(Message) /\ inbox' \in [Client -> Seq(Message)]
        /\ Len(log') = Len(log) + 1 /\ \A c \in Client : since[c] <= Len(log')
    BY <2>1 DEF RoomInv
  <2>3. ASSUME NEW c \in member
        PROVE  /\ Owed(c)' = Owed(c) \cup (IF Hears(c, m) THEN {Len(log) + 1} ELSE {})
               /\ Owed(c) \subseteq since[c] + 1 .. Len(log)
    <3>1. /\ Len(log) \in Nat /\ since[c] \in Nat /\ since[c] <= Len(log)
          /\ log'[Len(log) + 1] = m /\ \A k \in 1 .. Len(log) : log'[k] = log[k]
      BY <2>1 DEF RoomInv
    <3> QED
      BY <2>1, <2>2, <3>1 DEF Owed, Hears
  <2>4. HeardTheLog'
    <3> SUFFICES ASSUME NEW c \in member \cap present
                 PROVE  Holds(inbox'[c], log', Owed(c)')
      BY <2>1, Zenon DEF HeardTheLog, Holds
    <3>1. /\ c \in Client /\ log \in Seq(Message) /\ inbox[c] \in Seq(Message)
          /\ since[c] \in Nat /\ Owed(c) \in SUBSET (since[c] + 1 .. Len(log))
          /\ Holds(inbox[c], log, Owed(c))
      BY <2>1, <2>3 DEF RoomInv, HeardTheLog
    <3>2. CASE Hears(c, m)
      <4>1. Holds(Append(inbox[c], m), Append(log, m), Owed(c) \cup {Len(log) + 1})
        BY <3>1, HoldsOneMore
      <4> QED
        BY <2>1, <2>3, <3>1, <3>2, <4>1
    <3>3. CASE ~Hears(c, m)
      <4>1. \A k \in Owed(c) : log'[k] = log[k]
        BY <2>1, <3>1
      <4>2. Holds(inbox[c], log', Owed(c))
        BY <3>1, <4>1, HoldsStill
      <4> QED
        BY <2>1, <2>3, <3>1, <3>3, <4>2
    <3> QED
      BY <3>2, <3>3
  <2> QED
    BY <2>1, <2>2, <2>4 DEF RoomInv
<1>3. ASSUME NEW c \in Client, Exit(c)
      PROVE  RoomInv'
  <2>1. \A d \in Client : Owed(d)' = Owed(d)
    BY <1>3 DEF Exit, Owed, Hears
  <2> QED
    BY <1>3, <2>1, HeardStill DEF Exit, RoomInv
<1>4. ASSUME NEW c \in Client, Depart(c)
      PROVE  RoomInv'
  <2>1. PICK k \in 0 .. Len(inbox[c]) : inbox' = [inbox EXCEPT ![c] = SubSeq(@, 1, k)]
    BY <1>4 DEF Depart
  <2>2. UNCHANGED <<member, name, log, since, open>> /\ present' = present \ {c}
    BY <1>4 DEF Depart
  <2>3. SubSeq(inbox[c], 1, k) \in Seq(Message)
    BY DEF RoomInv
  <2>4. inbox' \in [Client -> Seq(Message)] /\ \A d \in Client : d # c => inbox'[d] = inbox[d]
    BY <2>1, <2>3 DEF RoomInv
  <2>5. \A d \in Client : Owed(d)' = Owed(d)
    BY <2>2 DEF Owed, Hears
  <2> QED
    BY <2>2, <2>4, <2>5, HeardStill DEF RoomInv
<1>5. CASE Close
  <2>1. PICK cut \in SUBSET {c \in Client : inbox[c] # << >>} :
          inbox' = [c \in Client |-> IF c \in cut THEN SubSeq(inbox[c], 1, Len(inbox[c]) - 1)
                                                  ELSE inbox[c]]
    BY <1>5 DEF Close
  <2>2. ASSUME NEW c \in Client, inbox[c] # << >>
        PROVE  SubSeq(inbox[c], 1, Len(inbox[c]) - 1) \in Seq(Message)
    BY <2>2 DEF RoomInv
  <2>3. inbox' \in [Client -> Seq(Message)]
    BY <2>1, <2>2 DEF RoomInv
  <2> QED
    BY <1>5, <2>3 DEF Close, RoomInv, HeardTheLog
<1>6. CASE UNCHANGED vars
  <2>1. \A d \in Client : Owed(d)' = Owed(d)
    BY <1>6 DEF vars, Owed, Hears
  <2> QED
    BY <1>6, <2>1, HeardStill DEF vars, RoomInv
<1> QED
  BY <1>1, <1>2, <1>3, <1>4, <1>5, <1>6 DEF Next

\* In the room a message is published to all the members in one step: as long
\* as the room is open each has heard what the log owes it, in its order.
THEOREM RoomHears == Spec => []HeardTheLog
<1>1. RoomInv => HeardTheLog
  BY DEF RoomInv
<1> QED
  BY <1>1, RoomInit, RoomStep, PTL DEF Spec
=============================================================================
