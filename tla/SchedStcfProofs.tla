--------------------------- MODULE SchedStcfProofs ---------------------------
(* STCF is optimal: on every workload the sum of its completion times is the *)
(* least that any schedule reaches, preemptive or not, whatever it knows of  *)
(* what is still to arrive.  The proof compares it, unit by unit of time,    *)
(* with an arbitrary schedule.  The last part does the same for the          *)
(* schedules that TLC generates, and for SJF without later arrivals.         *)
EXTENDS SchedServedProofs

-----------------------------------------------------------------------------
(* More about sums.                                                         *)

\* Sums add up, term by term.
LEMMA SumPlus ==
  ASSUME NEW f, NEW g, NEW h, NEW S, IsFiniteSet(S),
         \A x \in S : f[x] \in Int /\ g[x] \in Int /\ h[x] = f[x] + g[x]
  PROVE  Sum(h, S) = Sum(f, S) + Sum(g, S)
<1> DEFINE D == {T \in SUBSET S : Sum(h, T) = Sum(f, T) + Sum(g, T)}
<1>1. {} \in D
  <2>1. Sum(f, {}) = 0 /\ Sum(g, {}) = 0 /\ Sum(h, {}) = 0
    BY SumUnfolds
  <2> QED
    BY <2>1
<1>2. ASSUME NEW T \in D, NEW x \in S \ T
      PROVE  T \cup {x} \in D
  <2>1. IsFiniteSet(T) /\ x \notin T /\ T \cup {x} \in SUBSET S /\ T \in SUBSET S
    BY <1>2, FS_Subset
  <2>2. \A y \in T \cup {x} : f[y] \in Int /\ g[y] \in Int /\ h[y] \in Int
    BY <2>1
  <2>3. /\ Sum(f, T \cup {x}) = f[x] + Sum(f, T)
        /\ Sum(g, T \cup {x}) = g[x] + Sum(g, T)
        /\ Sum(h, T \cup {x}) = h[x] + Sum(h, T)
    BY <2>1, <2>2, SumAdd
  <2>4. Sum(f, T) \in Int /\ Sum(g, T) \in Int
    BY <2>1, <2>2, SumRemove
  <2>5. Sum(h, T) = Sum(f, T) + Sum(g, T) /\ h[x] = f[x] + g[x]
    BY <1>2
  <2> QED
    BY <2>1, <2>2, <2>3, <2>4, <2>5
<1> HIDE DEF D
<1>3. S \in D
  BY <1>1, <1>2, SetInduct
<1> QED
  BY <1>3 DEF D

\* A sum of natural numbers is one, and zero only when each of them is.
LEMMA SumNat ==
  ASSUME NEW f, NEW S, IsFiniteSet(S), \A x \in S : f[x] \in Nat
  PROVE  /\ Sum(f, S) \in Nat
         /\ \A x \in S : f[x] <= Sum(f, S)
<1> DEFINE D == {T \in SUBSET S : Sum(f, T) \in Nat}
<1>1. {} \in D
  <2>1. Sum(f, {}) = 0
    BY SumUnfolds
  <2> QED
    BY <2>1
<1>2. ASSUME NEW T \in D, NEW x \in S \ T
      PROVE  T \cup {x} \in D
  <2>1. IsFiniteSet(T) /\ x \notin T /\ T \cup {x} \in SUBSET S
    BY <1>2, FS_Subset
  <2>2. \A y \in T \cup {x} : f[y] \in Int
    BY <2>1
  <2>3. Sum(f, T \cup {x}) = f[x] + Sum(f, T)
    BY <2>1, <2>2, SumAdd
  <2> QED
    BY <1>2, <2>1, <2>3
<1>3. ASSUME NEW T \in SUBSET S
      PROVE  Sum(f, T) \in Nat
  <2>1. IsFiniteSet(T)
    BY FS_Subset
  <2> DEFINE E == D \cap SUBSET T
  <2>2. {} \in E
    BY <1>1
  <2>3. \A U \in E : \A x \in T \ U : U \cup {x} \in E
    BY <1>2
  <2> HIDE DEF E
  <2>4. T \in E
    BY <2>1, <2>2, <2>3, SetInduct
  <2> QED
    BY <2>4 DEF E
<1>4. ASSUME NEW x \in S
      PROVE  f[x] <= Sum(f, S)
  <2>1. Sum(f, S) = f[x] + Sum(f, S \ {x})
    <3>1. \A y \in S : f[y] \in Int
      OBVIOUS
    <3> QED
      BY <3>1, SumRemove
  <2>2. Sum(f, S \ {x}) \in Nat /\ f[x] \in Nat
    BY <1>3
  <2> QED
    BY <2>1, <2>2
<1> QED
  BY <1>3, <1>4

\* A sum of zeros.
LEMMA SumZero ==
  ASSUME NEW f, NEW S, IsFiniteSet(S), \A x \in S : f[x] = 0
  PROVE  Sum(f, S) = 0
<1> DEFINE D == {T \in SUBSET S : Sum(f, T) = 0}
<1>1. {} \in D
  <2>1. Sum(f, {}) = 0
    BY SumUnfolds
  <2> QED
    BY <2>1
<1>2. ASSUME NEW T \in D, NEW x \in S \ T
      PROVE  T \cup {x} \in D
  <2>1. IsFiniteSet(T) /\ x \notin T /\ T \cup {x} \in SUBSET S
    BY <1>2, FS_Subset
  <2>2. \A y \in T \cup {x} : f[y] \in Int
    BY <2>1
  <2>3. Sum(f, T \cup {x}) = f[x] + Sum(f, T)
    BY <2>1, <2>2, SumAdd
  <2>4. Sum(f, T) = 0 /\ f[x] = 0
    BY <1>2
  <2> QED
    BY <2>1, <2>3, <2>4
<1> HIDE DEF D
<1>3. S \in D
  BY <1>1, <1>2, SetInduct
<1> QED
  BY <1>3 DEF D

\* Smaller terms, smaller sum.
LEMMA SumMonotone ==
  ASSUME NEW f, NEW g, NEW S, IsFiniteSet(S),
         \A x \in S : f[x] \in Int /\ g[x] \in Int /\ f[x] <= g[x]
  PROVE  Sum(f, S) <= Sum(g, S)
<1> DEFINE h == [x \in S |-> g[x] - f[x]]
<1>1. \A x \in S : f[x] \in Int /\ h[x] \in Int /\ g[x] = f[x] + h[x] /\ h[x] \in Nat
  OBVIOUS
<1> HIDE DEF h
<1>2. Sum(g, S) = Sum(f, S) + Sum(h, S)
  BY <1>1, SumPlus
<1>3. Sum(h, S) \in Nat
  BY <1>1, SumNat
<1>4. Sum(f, S) \in Int
  BY SumRemove
<1> QED
  BY <1>2, <1>3, <1>4

\* The sum over two parts.
LEMMA SumUnion ==
  ASSUME NEW f, NEW S, NEW U, IsFiniteSet(S), IsFiniteSet(U), S \cap U = {},
         \A x \in S \cup U : f[x] \in Int
  PROVE  Sum(f, S \cup U) = Sum(f, S) + Sum(f, U)
<1> DEFINE D == {T \in SUBSET U : Sum(f, S \cup T) = Sum(f, S) + Sum(f, T)}
<1>0. Sum(f, S) \in Int
  BY SumRemove
<1>1. {} \in D
  <2>1. Sum(f, {}) = 0 /\ S \cup {} = S
    BY SumUnfolds
  <2> QED
    BY <1>0, <2>1
<1>2. ASSUME NEW T \in D, NEW x \in U \ T
      PROVE  T \cup {x} \in D
  <2>1. IsFiniteSet(T) /\ x \notin T /\ T \cup {x} \in SUBSET U /\ T \in SUBSET U
    BY <1>2, FS_Subset
  <2>2. IsFiniteSet(S \cup T) /\ x \notin S \cup T /\ (S \cup T) \cup {x} = S \cup (T \cup {x})
    BY <1>2, <2>1, FS_Union
  <2>3. \A y \in (S \cup T) \cup {x} : f[y] \in Int
    BY <2>1
  <2>4. Sum(f, T \cup {x}) = f[x] + Sum(f, T)
    <3>1. \A y \in T \cup {x} : f[y] \in Int
      BY <2>3
    <3> QED
      BY <2>1, <3>1, SumAdd
  <2>5. Sum(f, (S \cup T) \cup {x}) = f[x] + Sum(f, S \cup T)
    BY <2>2, <2>3, SumAdd
  <2>6. Sum(f, T) \in Int /\ f[x] \in Int
    <3>1. \A y \in T : f[y] \in Int
      BY <2>3
    <3> QED
      BY <2>1, <2>3, <3>1, SumRemove
  <2>7. Sum(f, S \cup T) = Sum(f, S) + Sum(f, T)
    BY <1>2
  <2>8. Sum(f, S \cup (T \cup {x})) = Sum(f, S) + Sum(f, T \cup {x})
    <3>1. Sum(f, S \cup (T \cup {x})) = f[x] + Sum(f, S \cup T)
      BY <2>2, <2>5
    <3> QED
      BY <1>0, <2>4, <2>6, <2>7, <3>1
  <2> QED
    BY <2>1, <2>8
<1> HIDE DEF D
<1>3. U \in D
  BY <1>1, <1>2, SetInduct
<1> QED
  BY <1>3 DEF D

\* The sum that grows by one on T.
LEMMA SumBump ==
  ASSUME NEW f, NEW g, NEW S, IsFiniteSet(S), NEW T \in SUBSET S,
         \A x \in S : f[x] \in Int /\ g[x] = f[x] + (IF x \in T THEN 1 ELSE 0)
  PROVE  Sum(g, S) = Sum(f, S) + Cardinality(T)
<1> DEFINE h == [x \in S |-> IF x \in T THEN 1 ELSE 0]
           D == {U \in SUBSET S : Sum(h, U) = Cardinality(U \cap T)}
<1>1. \A x \in S : f[x] \in Int /\ h[x] \in Int /\ g[x] = f[x] + h[x]
  OBVIOUS
<1>2. Sum(g, S) = Sum(f, S) + Sum(h, S)
  <2> HIDE DEF h
  <2> QED
    BY <1>1, SumPlus
<1>3. {} \in D
  <2>1. Sum(h, {}) = 0 /\ {} \cap T = {} /\ Cardinality({}) = 0
    BY SumUnfolds, FS_EmptySet
  <2> QED
    BY <2>1
<1>4. ASSUME NEW U \in D, NEW x \in S \ U
      PROVE  U \cup {x} \in D
  <2>1. /\ IsFiniteSet(U) /\ x \notin U /\ U \cup {x} \in SUBSET S /\ IsFiniteSet(U \cap T)
        /\ U \in SUBSET S
    BY <1>4, FS_Subset
  <2>2. \A y \in U \cup {x} : h[y] \in Int
    BY <1>1, <2>1
  <2>3. Sum(h, U \cup {x}) = h[x] + Sum(h, U)
    <3> HIDE DEF h
    <3> QED
      BY <2>1, <2>2, SumAdd
  <2>4. Sum(h, U) = Cardinality(U \cap T) /\ Cardinality(U \cap T) \in Nat
    BY <1>4, <2>1, FS_CardinalityType
  <2>5. CASE x \in T
    <3>1. (U \cup {x}) \cap T = (U \cap T) \cup {x} /\ x \notin U \cap T
      BY <2>1, <2>5
    <3>2. Cardinality((U \cup {x}) \cap T) = Cardinality(U \cap T) + 1
      BY <2>1, <3>1, FS_AddElement
    <3>3. h[x] = 1
      BY <1>4, <2>5
    <3> HIDE DEF h
    <3> QED
      BY <2>1, <2>3, <2>4, <3>2, <3>3
  <2>6. CASE x \notin T
    <3>1. (U \cup {x}) \cap T = U \cap T
      BY <2>6
    <3>2. h[x] = 0
      BY <1>4, <2>6
    <3> HIDE DEF h
    <3>3. Sum(h, U \cup {x}) = Cardinality(U \cap T)
      BY <2>3, <2>4, <3>2
    <3>4. Cardinality((U \cup {x}) \cap T) = Cardinality(U \cap T)
      BY <3>1
    <3> QED
      BY <2>1, <3>3, <3>4
  <2> QED
    BY <2>5, <2>6
<1> HIDE DEF D
<1>5. S \in D
  BY <1>3, <1>4, SetInduct
<1>6. Sum(h, S) = Cardinality(T)
  <2>1. S \cap T = T
    OBVIOUS
  <2> QED
    BY <1>5, <2>1 DEF D
<1> QED
  BY <1>2, <1>6

-----------------------------------------------------------------------------
(* Schedules.                                                               *)

\* All the schedules of the workload: o[t][p] is what p has left at time t.
\* In each unit of time at most one process runs, none before it arrives.
Schedules ==
  {o \in [Nat -> [Process -> Nat]] :
     /\ o[0] = burst_time
     /\ \A t \in Nat :
          \/ o[t + 1] = o[t]
          \/ \E p \in Process : /\ arrival_time[p] <= t /\ o[t][p] > 0
                                /\ o[t + 1] = [o[t] EXCEPT ![p] = @ - 1]}

\* By E[p] at the latest, p has nothing left in o.
Meets(o, E) == \A p \in Process : o[E[p]][p] = 0

\* Nobody runs before it arrives, and what has nothing left keeps nothing.
LEMMA ScheduleFacts ==
  ASSUME NEW o \in Schedules, NEW p \in Process, arrival_time[p] \in Nat
  PROVE  /\ \A t \in Nat : o[t] \in [Process -> Nat]
         /\ \A t \in Nat : t <= arrival_time[p] => o[t][p] = burst_time[p]
         /\ \A e, t \in Nat : e <= t /\ o[e][p] = 0 => o[t][p] = 0
<1>1. o \in [Nat -> [Process -> Nat]] /\ o[0] = burst_time
  BY DEF Schedules
<1>2. \A t \in Nat : o[t] \in [Process -> Nat] /\ o[t][p] \in Nat
  BY <1>1
<1>3. ASSUME NEW t \in Nat
      PROVE  \/ o[t + 1][p] = o[t][p]
             \/ arrival_time[p] <= t /\ o[t][p] > 0 /\ o[t + 1][p] = o[t][p] - 1
  <2>1. \/ o[t + 1] = o[t]
        \/ \E q \in Process : /\ arrival_time[q] <= t /\ o[t][q] > 0
                              /\ o[t + 1] = [o[t] EXCEPT ![q] = @ - 1]
    BY DEF Schedules
  <2>2. CASE o[t + 1] = o[t]
    BY <2>2
  <2>3. ASSUME NEW q \in Process, arrival_time[q] <= t, o[t][q] > 0,
               o[t + 1] = [o[t] EXCEPT ![q] = @ - 1]
        PROVE  \/ o[t + 1][p] = o[t][p]
               \/ arrival_time[p] <= t /\ o[t][p] > 0 /\ o[t + 1][p] = o[t][p] - 1
    <3>0. o[t] \in [Process -> Nat] /\ o[t][p] \in Nat
      BY <1>2
    <3>1. CASE q = p
      <4>1. o[t + 1][p] = o[t][p] - 1
        BY <2>3, <3>0, <3>1
      <4> QED
        BY <2>3, <3>1, <4>1
    <3>2. CASE q # p
      <4>1. o[t + 1][p] = o[t][p]
        BY <2>3, <3>0, <3>2
      <4> QED
        BY <4>1
    <3> QED
      BY <3>1, <3>2
  <2> QED
    BY ONLY <2>1, <2>2, <2>3
<1>4. \A t \in Nat : t <= arrival_time[p] => o[t][p] = burst_time[p]
  <2> DEFINE D == {t \in Nat : t <= arrival_time[p] => o[t][p] = burst_time[p]}
  <2>1. 0 \in D
    BY <1>1
  <2>2. ASSUME NEW t \in Nat, t \in D
        PROVE  t + 1 \in D
    <3> SUFFICES ASSUME t + 1 <= arrival_time[p] PROVE o[t + 1][p] = burst_time[p]
      OBVIOUS
    <3>1. t <= arrival_time[p] /\ ~ (arrival_time[p] <= t)
      OBVIOUS
    <3>2. o[t + 1][p] = o[t][p]
      BY <1>3, <3>1
    <3>3. o[t][p] = burst_time[p]
      BY <2>2, <3>1
    <3> QED
      BY <3>2, <3>3
  <2> HIDE DEF D
  <2>3. Nat \subseteq D
    BY <2>1, <2>2, NatInduct
  <2> QED
    BY <2>3 DEF D
<1>5. ASSUME NEW e \in Nat, o[e][p] = 0
      PROVE  \A t \in Nat : e <= t => o[t][p] = 0
  <2> DEFINE D == {t \in Nat : e <= t => o[t][p] = 0}
  <2>1. 0 \in D
    BY <1>5
  <2>2. ASSUME NEW t \in Nat, t \in D
        PROVE  t + 1 \in D
    <3> SUFFICES ASSUME e <= t + 1 PROVE o[t + 1][p] = 0
      OBVIOUS
    <3>1. CASE e = t + 1
      BY <1>5, <3>1
    <3>2. CASE e <= t
      BY <1>2, <1>3, <2>2, <3>2
    <3> QED
      BY <3>1, <3>2
  <2> HIDE DEF D
  <2>3. Nat \subseteq D
    BY <2>1, <2>2, NatInduct
  <2> QED
    BY <2>3 DEF D
<1> QED
  BY <1>2, <1>4, <1>5

\* STCF is ahead of a schedule when, whichever processes one takes of it, as
\* many can be taken of STCF that have no more left, the same among those that
\* are still to arrive.  R is what is left in STCF, O in the schedule.
Ahead(S, Here, R, O) ==
  \A A \in SUBSET S : \E B \in SUBSET S :
    /\ Cardinality(B) = Cardinality(A)
    /\ B \ Here = A \ Here
    /\ Sum(R, B) <= Sum(O, A)

\* A unit of time for nobody or for one of H; for the one with the least left.
AnyStep(H, O, O1)   == \/ O1 = O
                       \/ \E q \in H : O[q] > 0 /\ O1 = [O EXCEPT ![q] = @ - 1]
LeastStep(H, R, R1) == \E p \in H : /\ R[p] > 0 /\ R1 = [R EXCEPT ![p] = @ - 1]
                                    /\ \A r \in H : R[r] > 0 => R[p] <= R[r]


\* The exchange: where the schedule runs some process and STCF the one with
\* the least left, STCF stays ahead.
LEMMA Exchange ==
  ASSUME NEW S, IsFiniteSet(S), NEW Here \in SUBSET S,
         NEW R \in [S -> Nat], NEW O \in [S -> Nat], NEW R1, NEW O1,
         LeastStep(Here, R, R1), AnyStep(Here, O, O1), Ahead(S, Here, R, O),
         \A r \in S \ Here : R[r] = O[r]
  PROVE  Ahead(S, Here, R1, O1)
<1> PICK p \in Here : /\ R[p] > 0 /\ R1 = [R EXCEPT ![p] = @ - 1]
                      /\ \A r \in Here : R[r] > 0 => R[p] <= R[r]
  BY DEF LeastStep
<1>0. \/ O1 = O
      \/ \E q \in Here : O[q] > 0 /\ O1 = [O EXCEPT ![q] = @ - 1]
  BY DEF AnyStep
<1> SUFFICES ASSUME NEW A \in SUBSET S
             PROVE  \E B \in SUBSET S : /\ Cardinality(B) = Cardinality(A)
                                        /\ B \ Here = A \ Here
                                        /\ Sum(R1, B) <= Sum(O1, A)
  BY DEF Ahead
<1>1. PICK B \in SUBSET S : /\ Cardinality(B) = Cardinality(A)
                            /\ B \ Here = A \ Here
                            /\ Sum(R, B) <= Sum(O, A)
  BY DEF Ahead
<1>2. \A T \in SUBSET S : IsFiniteSet(T)
  BY FS_Subset
<1>3. /\ R1 \in [S -> Nat] /\ R1[p] = R[p] - 1 /\ \A r \in S : r # p => R1[r] = R[r]
      /\ R[p] \in Nat /\ p \in S
  OBVIOUS
<1>4. O1 \in [S -> Nat] /\ \A r \in S : O1[r] \in Nat /\ O[r] \in Nat /\ R[r] \in Nat /\ R1[r] \in Nat
  <2>1. CASE O1 = O
    BY <1>3, <2>1
  <2>2. ASSUME NEW q \in Here, O[q] > 0, O1 = [O EXCEPT ![q] = @ - 1]
        PROVE  O1 \in [S -> Nat]
    BY <2>2
  <2> QED
    BY <1>0, <1>3, <2>1, <2>2
<1>5. \A T \in SUBSET S : /\ Sum(R, T) \in Nat /\ Sum(O, T) \in Nat
                          /\ Sum(R1, T) \in Nat /\ Sum(O1, T) \in Nat
  BY <1>2, <1>4, SumNat
\* The sum of STCF over T falls by one if p is in it.
<1>6. ASSUME NEW T \in SUBSET S
      PROVE  /\ p \in T => Sum(R1, T) = Sum(R, T) - 1
             /\ p \notin T => Sum(R1, T) = Sum(R, T)
  <2>1. CASE p \in T
    <3>1. \A x \in T : R[x] \in Int /\ R1[x] \in Int
      BY <1>4
    <3>0. IsFiniteSet(T)
      BY <1>2
    <3>2. Sum(R, T) = R[p] + Sum(R, T \ {p}) /\ Sum(R1, T) = R1[p] + Sum(R1, T \ {p})
      BY ONLY <2>1, <3>0, <3>1, SumRemove
    <3>3. \A x \in T \ {p} : R[x] \in Int /\ R[x] = R1[x]
      BY <1>3, <3>1
    <3>4. Sum(R, T \ {p}) = Sum(R1, T \ {p}) /\ Sum(R, T \ {p}) \in Nat
      <4>1. IsFiniteSet(T \ {p}) /\ T \ {p} \in SUBSET S
        BY <1>2
      <4>2. Sum(R, T \ {p}) \in Nat
        BY <1>5, <4>1
      <4>3. Sum(R, T \ {p}) = Sum(R1, T \ {p})
        BY ONLY <3>3, <4>1, SumSame
      <4> QED
        BY <4>2, <4>3
    <3> QED
      BY ONLY <1>3, <2>1, <3>2, <3>4
  <2>2. CASE p \notin T
    <3>1. \A x \in T : R[x] \in Int /\ R[x] = R1[x]
      BY <1>3, <1>4, <2>2
    <3>2. IsFiniteSet(T)
      BY <1>2
    <3>3. Sum(R, T) = Sum(R1, T)
      BY ONLY <3>1, <3>2, SumSame
    <3> QED
      BY <2>2, <3>3
  <2> QED
    BY ONLY <2>1, <2>2
<1>a. /\ Sum(R, B) \in Nat /\ Sum(O, A) \in Nat
      /\ Sum(R1, B) \in Nat /\ Sum(O1, A) \in Nat
  BY <1>5
<1>b. /\ p \in B => Sum(R1, B) = Sum(R, B) - 1
      /\ p \notin B => Sum(R1, B) = Sum(R, B)
  BY <1>6
<1>7. Sum(R1, B) <= Sum(R, B)
  BY ONLY <1>a, <1>b
<1>8. CASE O1 = O
  <2>1. Sum(R1, B) <= Sum(O1, A)
    <3>1. Sum(O1, A) = Sum(O, A)
      BY <1>8
    <3>2. Sum(R, B) <= Sum(O, A)
      BY <1>1
    <3> QED
      BY ONLY <1>a, <1>7, <3>1, <3>2
  <2> QED
    BY <1>1, <2>1
<1>9. ASSUME NEW q \in Here, O[q] > 0, O1 = [O EXCEPT ![q] = @ - 1]
      PROVE  \E C \in SUBSET S : /\ Cardinality(C) = Cardinality(A)
                                 /\ C \ Here = A \ Here
                                 /\ Sum(R1, C) <= Sum(O1, A)
  <2>1. /\ q \in A => Sum(O1, A) = Sum(O, A) - 1
        /\ q \notin A => Sum(O1, A) = Sum(O, A)
    <3>1. O1[q] = O[q] - 1 /\ \A r \in S : r # q => O1[r] = O[r]
      BY <1>9
    <3>2. CASE q \in A
      <4>1. \A x \in A : O[x] \in Int /\ O1[x] \in Int
        BY <1>4
      <4>0. IsFiniteSet(A)
        BY <1>2
      <4>2. Sum(O, A) = O[q] + Sum(O, A \ {q}) /\ Sum(O1, A) = O1[q] + Sum(O1, A \ {q})
        BY ONLY <3>2, <4>0, <4>1, SumRemove
      <4>3. \A x \in A \ {q} : O[x] \in Int /\ O[x] = O1[x]
        BY <3>1, <4>1
      <4>4. Sum(O, A \ {q}) = Sum(O1, A \ {q}) /\ Sum(O, A \ {q}) \in Nat
        <5>1. IsFiniteSet(A \ {q}) /\ A \ {q} \in SUBSET S
          BY <1>2
        <5>2. Sum(O, A \ {q}) \in Nat
          BY <1>5, <5>1
        <5>3. Sum(O, A \ {q}) = Sum(O1, A \ {q})
          BY ONLY <4>3, <5>1, SumSame
        <5> QED
          BY <5>2, <5>3
      <4>5. O[q] \in Nat
        BY <1>4
      <4>6. O1[q] = O[q] - 1
        BY <3>1
      <4> QED
        BY ONLY <3>2, <4>2, <4>4, <4>5, <4>6
    <3>3. CASE q \notin A
      <4>1. \A x \in A : O[x] \in Int /\ O[x] = O1[x]
        BY <1>4, <3>1, <3>3
      <4>2. IsFiniteSet(A)
        BY <1>2
      <4>3. Sum(O, A) = Sum(O1, A)
        BY ONLY <4>1, <4>2, SumSame
      <4> QED
        BY <3>3, <4>3
    <3> QED
      BY ONLY <3>2, <3>3
  <2>0. Sum(R, B) <= Sum(O, A)
    BY <1>1
  <2>2. CASE q \notin A
    <3>1. Sum(R1, B) <= Sum(O1, A)
      BY ONLY <1>a, <1>7, <2>0, <2>1, <2>2
    <3> QED
      BY <1>1, <3>1
  <2>3. CASE q \in A /\ p \in B
    <3>1. Sum(R1, B) <= Sum(O1, A)
      BY ONLY <1>a, <1>b, <2>0, <2>1, <2>3
    <3> QED
      BY <1>1, <3>1
  <2>4. ASSUME q \in A, p \notin B, NEW r \in B \cap Here, R[r] > 0
        PROVE  \E C \in SUBSET S : /\ Cardinality(C) = Cardinality(A)
                                   /\ C \ Here = A \ Here
                                   /\ Sum(R1, C) <= Sum(O1, A)
    <3> DEFINE C == (B \ {r}) \cup {p}
    <3>1. C \in SUBSET S /\ C \ Here = A \ Here /\ p \in C /\ B \ {r} \in SUBSET S
          /\ p \notin B \ {r}
      BY <1>1, <2>4
    <3>2. Cardinality(C) = Cardinality(A)
      <4>1. IsFiniteSet(B) /\ IsFiniteSet(B \ {r}) /\ Cardinality(B) \in Nat
        BY <1>2, FS_CardinalityType
      <4>2. Cardinality(B \ {r}) = Cardinality(B) - 1
        BY <2>4, <4>1, FS_RemoveElement
      <4>3. Cardinality(C) = Cardinality(B \ {r}) + 1
        BY <3>1, <4>1, FS_AddElement
      <4> QED
        BY <1>1, <4>1, <4>2, <4>3
    <3>3. Sum(R, B) = R[r] + Sum(R, B \ {r})
      <4>1. \A x \in B : R[x] \in Int
        BY <1>4
      <4> QED
        BY <1>2, <2>4, <4>1, SumRemove
    <3>4. Sum(R, C) = R[p] + Sum(R, B \ {r})
      <4>1. \A x \in (B \ {r}) \cup {p} : R[x] \in Int
        BY <1>4, <3>1
      <4>2. IsFiniteSet(B \ {r})
        BY <1>2
      <4> QED
        BY <3>1, <4>1, <4>2, SumAdd
    <3>5. R[p] <= R[r] /\ R[r] \in Nat
      BY <1>4, <2>4
    <3> HIDE DEF C
    <3>6. Sum(R1, C) = Sum(R, C) - 1
      BY <1>6, <3>1
    <3>7. Sum(R, B \ {r}) \in Nat
      BY <1>5, <3>1
    <3>9. R[p] \in Nat /\ Sum(O1, A) = Sum(O, A) - 1
      BY <1>3, <2>1, <2>4
    <3>10. Sum(R, C) = R[p] + Sum(R, B \ {r})
      BY <3>4 DEF C
    <3>8. Sum(R1, C) <= Sum(O1, A)
      BY ONLY <1>a, <2>0, <3>3, <3>5, <3>6, <3>7, <3>9, <3>10
    <3> QED
      BY <3>1, <3>2, <3>8
  <2>5. ASSUME q \in A, p \notin B, \A r \in B \cap Here : R[r] = 0
        PROVE  \E C \in SUBSET S : /\ Cardinality(C) = Cardinality(A)
                                   /\ C \ Here = A \ Here
                                   /\ Sum(R1, C) <= Sum(O1, A)
    <3>1. Sum(R, B) <= Sum(O, A \ Here)
      <4>1. Sum(R, B) = Sum(R, B \cap Here) + Sum(R, B \ Here)
        <5>1. B = (B \cap Here) \cup (B \ Here) /\ (B \cap Here) \cap (B \ Here) = {}
          OBVIOUS
        <5>2. IsFiniteSet(B \cap Here) /\ IsFiniteSet(B \ Here)
          BY <1>2
        <5>3. \A x \in (B \cap Here) \cup (B \ Here) : R[x] \in Int
          BY <1>4
        <5> QED
          BY <5>1, <5>2, <5>3, SumUnion
      <4>2. Sum(R, B \cap Here) = 0
        <5>1. IsFiniteSet(B \cap Here) /\ \A x \in B \cap Here : R[x] = 0
          BY <1>2, <2>5
        <5> QED
          BY ONLY <5>1, SumZero
      <4>3. Sum(R, A \ Here) = Sum(O, A \ Here)
        <5>1. \A x \in A \ Here : R[x] \in Int /\ R[x] = O[x]
          BY <1>4
        <5>2. IsFiniteSet(A \ Here)
          BY <1>2
        <5> QED
          BY <5>1, <5>2, SumSame
      <4>4. Sum(O, A \ Here) \in Nat
        <5>1. A \ Here \in SUBSET S
          OBVIOUS
        <5> QED
          BY <1>5, <5>1
      <4>5. Sum(R, B \ Here) = Sum(R, A \ Here)
        BY <1>1
      <4> QED
        BY ONLY <4>1, <4>2, <4>3, <4>4, <4>5
    <3>2. Sum(O, A) = Sum(O, A \cap Here) + Sum(O, A \ Here)
      <4>1. A = (A \cap Here) \cup (A \ Here) /\ (A \cap Here) \cap (A \ Here) = {}
        OBVIOUS
      <4>2. IsFiniteSet(A \cap Here) /\ IsFiniteSet(A \ Here)
        BY <1>2
      <4>3. \A x \in (A \cap Here) \cup (A \ Here) : O[x] \in Int
        BY <1>4
      <4> QED
        BY <4>1, <4>2, <4>3, SumUnion
    <3>3. Sum(O, A \cap Here) >= 1
      <4>1. q \in A \cap Here /\ O[q] \in Nat /\ IsFiniteSet(A \cap Here)
        BY <1>2, <1>4, <2>5
      <4>2. \A x \in A \cap Here : O[x] \in Nat
        BY <1>4
      <4>3. O[q] <= Sum(O, A \cap Here) /\ Sum(O, A \cap Here) \in Nat
        BY <4>1, <4>2, SumNat
      <4> QED
        BY <1>9, <4>1, <4>3
    <3>4. Sum(R1, B) <= Sum(O1, A)
      <4>1. Sum(R1, B) = Sum(R, B)
        BY <1>6, <2>5
      <4>2. Sum(O, A \cap Here) \in Nat /\ Sum(O, A \ Here) \in Nat
        <5>1. A \ Here \in SUBSET S /\ A \cap Here \in SUBSET S
          OBVIOUS
        <5> QED
          BY <1>5, <5>1
      <4>3. Sum(O1, A) = Sum(O, A) - 1
        BY <2>1, <2>5
      <4>4. Sum(R, B) \in Nat /\ Sum(O, A) \in Nat
        BY <1>5
      <4> QED
        BY <3>1, <3>2, <3>3, <4>1, <4>2, <4>3, <4>4
    <3> QED
      BY <1>1, <3>4
  <2>6. \A r \in B \cap Here : R[r] = 0 \/ R[r] > 0
    BY <1>4
  <2> QED
    BY <2>2, <2>3, <2>4, <2>5, <2>6
<1> QED
  BY <1>0, <1>8, <1>9

\* Those that are no longer to arrive may differ.
LEMMA AheadMore ==
  ASSUME NEW S, NEW H, NEW R, NEW O, Ahead(S, H, R, O), NEW More, H \subseteq More
  PROVE  Ahead(S, More, R, O)
<1> SUFFICES ASSUME NEW A \in SUBSET S
             PROVE  \E B \in SUBSET S : /\ Cardinality(B) = Cardinality(A)
                                        /\ B \ More = A \ More
                                        /\ Sum(R, B) <= Sum(O, A)
  BY DEF Ahead
<1>1. PICK B \in SUBSET S : /\ Cardinality(B) = Cardinality(A)
                            /\ B \ H = A \ H
                            /\ Sum(R, B) <= Sum(O, A)
  BY DEF Ahead
<1> QED
  BY <1>1

\* What has no more left, process by process, is ahead.
LEMMA AheadEach ==
  ASSUME NEW S, IsFiniteSet(S), NEW H, NEW R, NEW O,
         \A r \in S : R[r] \in Int /\ O[r] \in Int /\ R[r] <= O[r]
  PROVE  Ahead(S, H, R, O)
<1> SUFFICES ASSUME NEW A \in SUBSET S
             PROVE  Sum(R, A) <= Sum(O, A)
  BY DEF Ahead
<1>1. IsFiniteSet(A) /\ \A r \in A : R[r] \in Int /\ O[r] \in Int /\ R[r] <= O[r]
  BY FS_Subset
<1> QED
  BY ONLY <1>1, SumMonotone

\* Where the schedule has nothing left of A, STCF is done with as many.
LEMMA AsManyDone ==
  ASSUME NEW S, IsFiniteSet(S), NEW H, NEW R \in [S -> Nat], NEW O \in [S -> Nat],
         Ahead(S, H, R, O), NEW A \in SUBSET S, \A r \in A : O[r] = 0
  PROVE  Cardinality({r \in S : R[r] > 0}) <= Cardinality(S \ A)
<1> PICK Open : Open = {r \in S : R[r] > 0}
  OBVIOUS
<1>1. PICK B \in SUBSET S : /\ Cardinality(B) = Cardinality(A)
                            /\ Sum(R, B) <= Sum(O, A)
  BY DEF Ahead
<1>2. IsFiniteSet(A) /\ IsFiniteSet(B) /\ IsFiniteSet(S \ A) /\ IsFiniteSet(S \ B)
      /\ Open \in SUBSET S
  BY FS_Subset
<1>3. Sum(O, A) = 0
  BY <1>2, SumZero
<1>4. \A x \in B : R[x] = 0
  <2>1. \A x \in B : R[x] \in Nat
    OBVIOUS
  <2>2. \A x \in B : R[x] <= Sum(R, B)
    BY ONLY <1>2, <2>1, SumNat
  <2>3. Sum(R, B) <= 0 /\ Sum(R, B) \in Nat
    BY <1>1, <1>2, <1>3, <2>1, SumNat
  <2> TAKE x \in B
  <2>4. R[x] \in Nat /\ R[x] <= Sum(R, B)
    BY <2>1, <2>2
  <2> QED
    BY ONLY <2>3, <2>4
<1>5. Open \subseteq S \ B
  BY <1>4
<1>6. Cardinality(Open) <= Cardinality(S \ B)
  BY <1>2, <1>5, FS_Subset
<1>7. Cardinality(S \ B) = Cardinality(S) - Cardinality(B)
      /\ Cardinality(S \ A) = Cardinality(S) - Cardinality(A)
  <2>1. S \cap A = A /\ S \cap B = B
    OBVIOUS
  <2>2. Cardinality(S \ B) = Cardinality(S) - Cardinality(S \cap B)
        /\ Cardinality(S \ A) = Cardinality(S) - Cardinality(S \cap A)
    BY ONLY IsFiniteSet(S), FS_Difference
  <2> QED
    BY <2>1, <2>2
<1> QED
  BY <1>1, <1>6, <1>7

-----------------------------------------------------------------------------
(* The inductive invariant.                                                 *)

Here(t)      == {p \in Process : arrival_time[p] <= t}
Spent        == [p \in Process |-> Until(p)]
Capped(E, t) == [p \in Process |-> IF E[p] <= t THEN E[p] ELSE t]

\* STCF is ahead of o, and nobody has waited longer, in total, than in o.
Leads(o)  == Ahead(Process, Here(current_time), remaining_time, o[current_time])
Sooner(o) == \A E \in [Process -> Nat] :
               Meets(o, E) => Sum(Spent, Process) <= Sum(Capped(E, current_time), Process)

StcfInv == /\ ServedInv
           /\ algo = "STCF" => \A o \in Schedules : Leads(o) /\ Sooner(o)

\* Who is still to arrive has its whole burst left.
LEMMA WholeLeft ==
  ASSUME ServedInv, algo # "FIFO", NEW p \in Process, arrival_time[p] > current_time
  PROVE  remaining_time[p] = burst_time[p]
<1>1. TypeOK
  BY DEF ServedInv, ServiceInv, SchedInv
<1>2. /\ current_time \in Nat /\ arrival_time[p] \in Nat /\ burst_time[p] \in Nat
      /\ remaining_time[p] \in Nat /\ start_time[p] \in Int /\ Until(p) \in Nat
  BY <1>1, ServedTypes
<1>3. Share(p) /\ remaining_time[p] <= burst_time[p]
  BY DEF ServedInv, ServiceInv, Past
<1>4. Got(p) = burst_time[p] - remaining_time[p]
  BY DEF Got
<1>5. ~Began(p)
  <2> SUFFICES ASSUME Began(p) PROVE FALSE
    OBVIOUS
  <2>1. /\ arrival_time[p] <= start_time[p] /\ start_time[p] + Got(p) <= Until(p)
        /\ Until(p) <= current_time
    BY <1>3 DEF Share
  <2> QED
    BY <1>2, <1>3, <1>4, <2>1
<1>6. Got(p) = 0
  BY <1>3, <1>5 DEF Share
<1> QED
  BY <1>2, <1>4, <1>6

\* So it has in any other schedule.
LEMMA StillToArrive ==
  ASSUME ServedInv, algo = "STCF", NEW o \in Schedules, NEW t \in Nat, current_time <= t,
         NEW p \in Process, arrival_time[p] > current_time, arrival_time[p] >= t
  PROVE  remaining_time[p] = o[t][p] /\ remaining_time[p] = burst_time[p]
<1>1. TypeOK
  BY DEF ServedInv, ServiceInv, SchedInv
<1>2. o[t][p] = burst_time[p]
  BY <1>1, ServedTypes, ScheduleFacts
<1> QED
  BY <1>2, WholeLeft

\* A unit of time for the process with the least left.
LEMMA TickLeads ==
  ASSUME StcfInv, algo = "STCF", UNCHANGED <<workload, algo>>,
         NEW p \in Shortest(Ready, remaining_time), Tick(p), NEW o \in Schedules
  PROVE  Leads(o)' /\ Sooner(o)'
<1> USE DEF workload
<1> PICK t : t = current_time
  OBVIOUS
<1> PICK R : R = remaining_time
  OBVIOUS
<1> PICK R1 : R1 = remaining_time'
  OBVIOUS
<1>1. /\ ServedInv /\ TypeOK /\ Leads(o) /\ Sooner(o) /\ Process' = Process
      /\ arrival_time' = arrival_time
  BY DEF StcfInv, ServedInv, ServiceInv, SchedInv, Process
<1>2. /\ p \in Process /\ R[p] > 0 /\ arrival_time[p] <= t
      /\ \A r \in Ready : R[p] <= R[r]
  <2>1. p \in Ready /\ \A r \in Ready : R[p] < R[r] \/ R[p] = R[r]
    BY DEF Shortest
  <2>2. \A r \in Ready : R[r] \in Nat
    BY <1>1, ServedTypes DEF Ready, Pending
  <2> QED
    BY <2>1, <2>2 DEF Ready, Pending
<1>3. /\ t \in Nat /\ t + 1 \in Nat /\ R \in [Process -> Nat] /\ IsFiniteSet(Process)
      /\ \A r \in Process : arrival_time[r] \in Nat /\ completion_time[r] \in Nat
  <2>1. IsFiniteSet(Process)
    BY <1>1, Finite
  <2> QED
    BY <1>1, <2>1, ServedTypes DEF TypeOK
<1>4. /\ R1 = [R EXCEPT ![p] = @ - 1] /\ current_time' = t + 1
      /\ \A r \in Process : r # p => completion_time'[r] = completion_time[r]
      /\ R[p] = 1 => completion_time'[p] = t + 1
  <2>1. R1 = [R EXCEPT ![p] = @ - 1] /\ current_time' = t + 1
    BY DEF Tick
  <2>2. CASE R[p] = 1
    BY <1>1, <1>2, <2>1, <2>2 DEF Tick, TypeOK
  <2>3. CASE R[p] # 1
    BY <2>1, <2>3 DEF Tick
  <2> QED
    BY <2>1, <2>2, <2>3
<1>5. o[t] \in [Process -> Nat] /\ o[t + 1] \in [Process -> Nat]
  BY <1>3 DEF Schedules
<1>6. Leads(o)'
  <2> DEFINE H == Here(t)
  <2>1. H \in SUBSET Process /\ p \in H
    BY <1>2 DEF Here
  <2>2. \A r \in H : R[r] > 0 => R[p] <= R[r]
    <3>1. \A r \in H : R[r] > 0 => r \in Ready
      BY DEF Here, Ready, Pending
    <3> QED
      BY <1>2, <3>1
  <2>3. \A r \in Process \ H : R[r] = o[t][r]
    <3> TAKE r \in Process \ H
    <3>1. arrival_time[r] > current_time /\ arrival_time[r] >= t /\ current_time <= t
      BY <1>3 DEF Here
    <3> QED
      BY <1>1, <1>3, <3>1, StillToArrive
  <2>4. \/ o[t + 1] = o[t]
        \/ \E q \in H : o[t][q] > 0 /\ o[t + 1] = [o[t] EXCEPT ![q] = @ - 1]
    BY <1>3 DEF Schedules, Here
  <2>5. Ahead(Process, H, R, o[t])
    BY <1>1 DEF Leads
  <2>6. p \in H /\ R[p] > 0
    BY <1>2, <2>1
  <2> HIDE DEF H
  <2>7. Ahead(Process, H, R1, o[t + 1])
    <3> PICK O : O = o[t]
      OBVIOUS
    <3> PICK O1 : O1 = o[t + 1]
      OBVIOUS
    <3>0. R \in [Process -> Nat] /\ R1 = [R EXCEPT ![p] = @ - 1] /\ IsFiniteSet(Process)
      BY <1>3, <1>4
    <3>1. O \in [Process -> Nat] /\ Ahead(Process, H, R, O)
      BY <1>5, <2>5
    <3>2. \A r \in Process \ H : R[r] = O[r]
      BY <2>3
    <3>3. AnyStep(H, O, O1) /\ H \in SUBSET Process
      BY <2>1, <2>4 DEF AnyStep
    <3>4. LeastStep(H, R, R1)
      BY <2>2, <2>6, <3>0 DEF LeastStep
    <3>5. Ahead(Process, H, R1, O1)
      BY ONLY <3>0, <3>1, <3>2, <3>3, <3>4, Exchange
    <3> QED
      BY <3>5
  <2>8. H \subseteq Here(t + 1)
    <3>1. \A r \in Process : arrival_time[r] \in Nat /\ t \in Nat
      BY <1>3
    <3> QED
      BY <3>1 DEF H, Here
  <2>9. Ahead(Process, Here(t + 1), R1, o[t + 1])
    BY <2>7, <2>8, AheadMore
  <2>10. Here(current_time)' = Here(t + 1)
    BY <1>1, <1>4 DEF Here
  <2> QED
    BY <1>1, <1>4, <2>9, <2>10 DEF Leads
<1>7. Sooner(o)'
  <2>0. \A E \in [Process -> Nat] : /\ Capped(E, current_time)' = Capped(E, t + 1)
                                    /\ Meets(o, E)' <=> Meets(o, E)
    BY <1>1, <1>4 DEF Capped, Meets
  <2> SUFFICES ASSUME NEW E \in [Process -> Nat], Meets(o, E)
               PROVE  Sum(Spent', Process) <= Sum(Capped(E, t + 1), Process)
    BY <1>1, <2>0 DEF Sooner
  <2> DEFINE A    == {r \in Process : E[r] <= t}
             Late == Process \ A
             Open == {r \in Process : R[r] > 0}
  <2>1. Sum(Spent, Process) <= Sum(Capped(E, t), Process)
    BY <1>1 DEF Sooner
  <2>2. Cardinality(Open) <= Cardinality(Late)
    <3>1. \A r \in A : o[t][r] = 0
      <4> TAKE r \in A
      <4>1. o[E[r]][r] = 0 /\ E[r] \in Nat /\ E[r] <= t /\ r \in Process
        BY DEF Meets
      <4> QED
        BY <1>3, <4>1, ScheduleFacts
    <3>2. A \in SUBSET Process
      OBVIOUS
    <3>3. Ahead(Process, Here(t), R, o[t])
      BY <1>1 DEF Leads
    <3> HIDE DEF A
    <3> QED
      BY ONLY <1>3, <1>5, <3>1, <3>2, <3>3, AsManyDone
  <2>3. Sum(Spent', Process) = Sum(Spent, Process) + Cardinality(Open)
    <3>1. ASSUME NEW r \in Process
          PROVE  Spent[r] \in Int /\ Spent'[r] = Spent[r] + (IF r \in Open THEN 1 ELSE 0)
      <4>1. Spent[r] = Until(r) /\ Spent'[r] = Until(r)'
        BY <1>1 DEF Spent
      <4>2. R[r] \in Nat /\ R1[r] = IF r = p THEN R[p] - 1 ELSE R[r]
        BY <1>2, <1>3, <1>4
      <4>3. (Over(r) <=> R[r] = 0) /\ (Over(r)' <=> R1[r] = 0)
        BY DEF Over
      <4>4. CASE R[r] = 0
        <5>1. r # p /\ R1[r] = 0
          BY <1>2, <4>2, <4>4
        <5>2. Until(r) = completion_time[r] /\ Until(r)' = completion_time[r]
          BY <1>4, <4>3, <4>4, <5>1 DEF Until
        <5> QED
          BY <1>3, <4>1, <4>4, <5>2
      <4>5. CASE R[r] > 0
        <5>1. Until(r) = t
          BY <4>3, <4>5 DEF Until
        <5>2. Until(r)' = t + 1
          <6>1. CASE R1[r] = 0
            <7>1. r = p /\ R[p] = 1
              BY <1>3, <4>2, <4>5, <6>1
            <7> QED
              BY <1>4, <4>3, <6>1, <7>1 DEF Until
          <6>2. CASE R1[r] # 0
            BY <1>4, <4>3, <6>2 DEF Until
          <6> QED
            BY <6>1, <6>2
        <5> QED
          BY <1>3, <4>1, <4>5, <5>1, <5>2
      <4> QED
        BY <4>2, <4>4, <4>5
    <3>2. Open \in SUBSET Process
      OBVIOUS
    <3> HIDE DEF Open
    <3> QED
      BY ONLY <1>3, <3>1, <3>2, SumBump
  <2>4. Sum(Capped(E, t + 1), Process) = Sum(Capped(E, t), Process) + Cardinality(Late)
    <3>1. \A r \in Process : /\ Capped(E, t)[r] \in Int
                             /\ Capped(E, t + 1)[r] = Capped(E, t)[r] + (IF r \in Late THEN 1 ELSE 0)
      BY <1>3 DEF Capped
    <3>2. Late \in SUBSET Process
      OBVIOUS
    <3> HIDE DEF Late
    <3> QED
      BY ONLY <1>3, <3>1, <3>2, SumBump
  <2>5. Sum(Spent, Process) \in Int /\ Sum(Capped(E, t), Process) \in Int
    <3>1. \A r \in Process : Spent[r] \in Int /\ Capped(E, t)[r] \in Int
      BY <1>1, <1>3, ServedTypes DEF Spent, Capped
    <3> QED
      BY ONLY <1>3, <3>1, SumRemove
  <2>6. Cardinality(Open) \in Int /\ Cardinality(Late) \in Int
    <3>1. IsFiniteSet(Open) /\ IsFiniteSet(Late)
      BY <1>3, FS_Subset
    <3> QED
      BY <3>1, FS_CardinalityType
  <2> HIDE DEF A, Late, Open
  <2> QED
    BY ONLY <2>1, <2>2, <2>3, <2>4, <2>5, <2>6
<1> QED
  BY <1>6, <1>7

\* The clock jumps to the next arrival: until then o has run nobody that STCF
\* has not finished.
LEMMA JumpLeads ==
  ASSUME StcfInv, algo = "STCF", UNCHANGED <<workload, process, algo>>, Ready = {},
         NEW t \in next_arrival, current_time' = t, NEW o \in Schedules
  PROVE  Leads(o)' /\ Sooner(o)'
<1> USE DEF workload, process
<1> PICK now : now = current_time
  OBVIOUS
<1>1. /\ ServedInv /\ TypeOK /\ Sooner(o) /\ Process' = Process
      /\ arrival_time' = arrival_time /\ remaining_time' = remaining_time
      /\ completion_time' = completion_time
  BY DEF StcfInv, ServedInv, ServiceInv, SchedInv, Process
<1>2. /\ now \in Nat /\ IsFiniteSet(Process)
      /\ \A r \in Process : /\ arrival_time[r] \in Nat /\ completion_time[r] \in Nat
                            /\ remaining_time[r] \in Nat /\ Until(r) \in Nat
                            /\ burst_time[r] \in Nat
  <2>1. IsFiniteSet(Process)
    BY <1>1, Finite
  <2> QED
    BY <1>1, <2>1, ServedTypes
<1>3. /\ \A r \in Pending : arrival_time[r] > now /\ t <= arrival_time[r]
      /\ t \in Nat /\ t > now
  <2>1. \A r \in Pending : r \in Process /\ ~(arrival_time[r] <= now)
    BY DEF Ready, Pending
  <2>2. PICK a \in Pending : t = arrival_time[a] /\ \A r \in Pending : arrival_time[a] <= arrival_time[r]
    BY DEF next_arrival
  <2> QED
    BY <1>2, <2>1, <2>2
<1>4. ASSUME NEW r \in Pending
      PROVE  /\ r \in Process /\ remaining_time[r] > 0
             /\ \A s \in Nat : now <= s /\ s <= arrival_time[r] => o[s][r] = remaining_time[r]
  <2>1. r \in Process /\ remaining_time[r] > 0 /\ arrival_time[r] > current_time
    BY <1>3 DEF Pending
  <2> QED
    BY <1>1, <1>2, <2>1, StillToArrive
<1>5. Leads(o)'
  <2>1. o[t] \in [Process -> Nat]
    BY <1>3 DEF Schedules
  <2>2. ASSUME NEW r \in Process
        PROVE  /\ remaining_time[r] \in Int /\ o[t][r] \in Int
               /\ remaining_time[r] <= o[t][r]
    <3>1. CASE r \in Pending
      BY <1>2, <1>3, <1>4, <3>1
    <3>2. CASE r \notin Pending
      BY <1>2, <2>1, <3>2 DEF Pending
    <3> QED
      BY <3>1, <3>2
  <2>3. Ahead(Process, Here(t), remaining_time, o[t])
    BY <1>2, <2>2, AheadEach
  <2>4. Here(current_time)' = Here(t)
    BY <1>1 DEF Here
  <2> QED
    BY <1>1, <2>3, <2>4 DEF Leads
<1>6. Sooner(o)'
  <2>0. \A E \in [Process -> Nat] : /\ Capped(E, current_time)' = Capped(E, t)
                                    /\ Meets(o, E)' <=> Meets(o, E)
    BY <1>1 DEF Capped, Meets
  <2> SUFFICES ASSUME NEW E \in [Process -> Nat], Meets(o, E)
               PROVE  Sum(Spent', Process) <= Sum(Capped(E, t), Process)
    BY <1>1, <2>0 DEF Sooner
  <2> PICK wait : wait = [r \in Process |-> IF r \in Pending THEN t - now ELSE 0]
    OBVIOUS
  <2> PICK most : most = [r \in Process |-> Capped(E, now)[r] + wait[r]]
    OBVIOUS
  <2>1. Sum(Spent, Process) <= Sum(Capped(E, now), Process)
    BY <1>1 DEF Sooner
  <2>2. \A r \in Process : Spent[r] \in Int /\ wait[r] \in Int /\ Spent'[r] = Spent[r] + wait[r]
    <3> TAKE r \in Process
    <3>1. /\ Spent[r] = Until(r) /\ Spent'[r] = Until(r)'
          /\ wait[r] = IF r \in Pending THEN t - now ELSE 0
      BY <1>1 DEF Spent
    <3>2. CASE r \in Pending
      <4>1. ~Over(r) /\ ~Over(r)'
        BY <1>1, <1>4, <3>2 DEF Over
      <4>2. Until(r) = now /\ Until(r)' = t
        BY <4>1 DEF Until
      <4> QED
        BY <1>2, <1>3, <3>1, <3>2, <4>2
    <3>3. CASE r \notin Pending
      <4>1. remaining_time[r] = 0
        BY <1>2, <3>3 DEF Pending
      <4>2. Until(r) = completion_time[r] /\ Until(r)' = completion_time[r]
        BY <1>1, <4>1 DEF Over, Until
      <4> QED
        BY <1>2, <3>1, <3>3, <4>2
    <3> QED
      BY <3>2, <3>3
  <2>3. \A r \in Process : /\ Capped(E, now)[r] \in Int /\ most[r] = Capped(E, now)[r] + wait[r]
                           /\ most[r] \in Int /\ Capped(E, t)[r] \in Int
                           /\ most[r] <= Capped(E, t)[r]
    <3> TAKE r \in Process
    <3>1. /\ Capped(E, now)[r] = (IF E[r] <= now THEN E[r] ELSE now)
          /\ Capped(E, t)[r] = (IF E[r] <= t THEN E[r] ELSE t)
          /\ E[r] \in Nat
      BY DEF Capped
    <3>2. CASE r \in Pending
      <4>1. E[r] > arrival_time[r]
        <5> SUFFICES ASSUME ~(E[r] > arrival_time[r]) PROVE FALSE
          OBVIOUS
        <5>1. o[E[r]][r] = 0
          BY DEF Meets
        <5>2. E[r] <= arrival_time[r] /\ arrival_time[r] \in Nat /\ now <= arrival_time[r]
          BY <1>2, <1>3, <3>1, <3>2
        <5>3. o[arrival_time[r]][r] = 0
          BY <3>1, <5>1, <5>2, ScheduleFacts
        <5>4. o[arrival_time[r]][r] = remaining_time[r] /\ remaining_time[r] > 0
          BY <1>4, <3>2, <5>2
        <5> QED
          BY <1>2, <5>3, <5>4
      <4>2. t <= arrival_time[r] /\ arrival_time[r] \in Nat /\ wait[r] = t - now
        BY <1>2, <1>3, <3>2
      <4>3. Capped(E, t)[r] = t /\ Capped(E, now)[r] = now
        BY <1>2, <1>3, <3>1, <4>1, <4>2
      <4> QED
        BY <1>2, <1>3, <4>2, <4>3
    <3>3. CASE r \notin Pending
      BY <1>2, <1>3, <3>1, <3>3
    <3> QED
      BY <3>2, <3>3
  <2>4. Sum(Spent', Process) = Sum(Spent, Process) + Sum(wait, Process)
    BY ONLY <1>2, <2>2, SumPlus
  <2>5. Sum(most, Process) = Sum(Capped(E, now), Process) + Sum(wait, Process)
    BY ONLY <1>2, <2>2, <2>3, SumPlus
  <2>6. Sum(most, Process) <= Sum(Capped(E, t), Process)
    BY ONLY <1>2, <2>3, SumMonotone
  <2>7. /\ Sum(Spent, Process) \in Int /\ Sum(wait, Process) \in Int
        /\ Sum(Capped(E, now), Process) \in Int /\ Sum(Capped(E, t), Process) \in Int
    BY ONLY <1>2, <2>2, <2>3, SumRemove
  <2> QED
    BY ONLY <2>1, <2>4, <2>5, <2>6, <2>7
<1> QED
  BY <1>5, <1>6

\* Nothing that the comparison reads has changed.
LEMMA SameLead ==
  ASSUME StcfInv, algo = "STCF",
         UNCHANGED <<workload, process, current_time, algo>>, NEW o \in Schedules
  PROVE  Leads(o)' /\ Sooner(o)'
<1> USE DEF workload, process
<1>1. Leads(o) /\ Sooner(o) /\ Process' = Process
  BY DEF StcfInv, Process
<1>2. Spent' = Spent
  BY <1>1 DEF Spent, Until, Over
<1>3. Here(current_time)' = Here(current_time)
  BY <1>1 DEF Here
<1>4. Leads(o)'
  BY <1>1, <1>3 DEF Leads
<1>5. \A E \in [Process -> Nat] : /\ Capped(E, current_time)' = Capped(E, current_time)
                                  /\ Meets(o, E)' <=> Meets(o, E)
  BY <1>1 DEF Capped, Meets
<1>6. Sooner(o)'
  BY <1>1, <1>2, <1>5 DEF Sooner
<1> QED
  BY <1>4, <1>6

LEMMA InitStcf == InitAlgorithms => StcfInv
<1> SUFFICES ASSUME InitAlgorithms PROVE StcfInv
  OBVIOUS
<1>1. /\ ServedInv /\ TypeOK /\ current_time = 0 /\ remaining_time = burst_time
      /\ \A r \in Process : burst_time[r] \in Nat
  <2>1. ServedInv
    BY InitServed
  <2>2. TypeOK
    BY <2>1 DEF ServedInv, ServiceInv, SchedInv
  <2> QED
    BY <2>1, <2>2, ServedTypes DEF InitAlgorithms
<1>2. IsFiniteSet(Process)
  BY <1>1, Finite
<1>3. ASSUME NEW o \in Schedules, algo = "STCF"
      PROVE  Leads(o) /\ Sooner(o)
  <2>1. o[0] = burst_time
    BY DEF Schedules
  <2>2. Leads(o)
    <3>1. \A r \in Process : burst_time[r] \in Int /\ burst_time[r] <= burst_time[r]
      BY <1>1
    <3>2. Ahead(Process, Here(0), burst_time, burst_time)
      BY ONLY <1>2, <3>1, AheadEach
    <3> QED
      BY <1>1, <2>1, <3>2 DEF Leads
  <2>3. Sooner(o)
    <3> SUFFICES ASSUME NEW E \in [Process -> Nat]
                 PROVE  Sum(Spent, Process) <= Sum(Capped(E, 0), Process)
      BY <1>1 DEF Sooner
    <3>1. \A r \in Process : /\ Spent[r] \in Int /\ Capped(E, 0)[r] \in Int
                             /\ Spent[r] <= Capped(E, 0)[r]
      <4> TAKE r \in Process
      <4>1. completion_time[r] = 0
        BY DEF InitAlgorithms
      <4>2. Spent[r] = 0
        BY <1>1, <4>1 DEF Spent, Until
      <4>3. Capped(E, 0)[r] = 0
        BY DEF Capped
      <4> QED
        BY <4>2, <4>3
    <3> QED
      BY ONLY <1>2, <3>1, SumMonotone
  <2> QED
    BY <2>2, <2>3
<1> QED
  BY <1>1, <1>3 DEF StcfInv

LEMMA StcfOrderStep ==
  ASSUME StcfInv, [Simulate]_simVars
  PROVE  StcfInv'
<1>1. ServedInv' /\ UNCHANGED <<workload, algo>>
  <2>1. ServedInv'
    BY ServedStep DEF StcfInv
  <2> QED
    BY <2>1 DEF Simulate, schedule_fifo, schedule_sjf, schedule_stcf, Finish, simVars, workload
<1> SUFFICES ASSUME algo = "STCF", NEW o \in Schedules
             PROVE  Leads(o)' /\ Sooner(o)'
  <2>1. Schedules' = Schedules
    BY <1>1 DEF Schedules, Process, workload
  <2> QED
    BY <1>1, <2>1 DEF StcfInv
<1>2. CASE UNCHANGED simVars
  BY <1>1, <1>2, SameLead DEF simVars, clock
<1>3. CASE schedule_stcf
  <2>1. ASSUME NEW p \in Shortest(Ready, remaining_time), Tick(p)
        PROVE  Leads(o)' /\ Sooner(o)'
    BY <1>1, <2>1, TickLeads
  <2>2. CASE Ready = {} /\ Idle /\ UNCHANGED <<process, completed_count>>
    <3>1. CASE UNCHANGED current_time
      BY <1>1, <2>2, <3>1, SameLead
    <3>2. ASSUME NEW t \in next_arrival, current_time' = t
          PROVE  Leads(o)' /\ Sooner(o)'
      BY <1>1, <2>2, <3>2, JumpLeads
    <3> QED
      BY <2>2, <3>1, <3>2 DEF Idle
  <2> QED
    BY <1>3, <2>1, <2>2 DEF schedule_stcf
<1>4. ASSUME NEW a \in {"FIFO", "SJF", "STCF"}, Finish(a)
      PROVE  Leads(o)' /\ Sooner(o)'
  BY <1>1, <1>4, SameLead DEF Finish
<1> QED
  BY <1>2, <1>3, <1>4 DEF Simulate, schedule_fifo, schedule_sjf, Looping

-----------------------------------------------------------------------------
(* The theorem.                                                             *)

\* The completion times that some schedule of the workload meets.
Attainable == {E \in [Process -> Nat] : \E o \in Schedules : Meets(o, E)}

\* No schedule of the workload, preemptive or not, has a smaller sum of
\* completion times than the one schedule_stcf has come to.
StcfIsBest ==
  Ended /\ algo = "STCF" =>
    \A E \in Attainable : Sum(completion_time, Process) <= Sum(E, Process)

\* In the end everyone has spent what it took to complete.
LEMMA SpentInTheEnd ==
  ASSUME ServedInv, Ended, algo # "FIFO"
  PROVE  /\ \A r \in Process : Spent[r] \in Int /\ Spent[r] = completion_time[r]
         /\ Sum(Spent, Process) = Sum(completion_time, Process)
<1>1. TypeOK
  BY DEF ServedInv, ServiceInv, SchedInv
<1>2. IsFiniteSet(Process)
  BY <1>1, Finite
<1>3. \A r \in Process : Spent[r] \in Int /\ Spent[r] = completion_time[r]
  <2> TAKE r \in Process
  <2>1. /\ remaining_time[r] \in Nat /\ burst_time[r] \in Nat /\ completion_time[r] \in Nat
        /\ remaining_time[r] <= burst_time[r]
    BY <1>1, ServedTypes DEF ServedInv, ServiceInv, Past
  <2>2. Over(r)
    <3>1. CASE r \in Ran
      BY <1>1, <3>1 DEF ServedInv, AllOver
    <3>2. CASE r \notin Ran
      BY <2>1, <3>2 DEF Ran, Over
    <3> QED
      BY <3>1, <3>2
  <2> QED
    BY <2>1, <2>2 DEF Spent, Until
<1>4. Sum(Spent, Process) = Sum(completion_time, Process)
  BY ONLY <1>2, <1>3, SumSame
<1> QED
  BY <1>3, <1>4

LEMMA BestInTheEnd ==
  ASSUME StcfInv
  PROVE  StcfIsBest
<1> SUFFICES ASSUME Ended, algo = "STCF", NEW o \in Schedules,
                    NEW E \in [Process -> Nat], Meets(o, E)
             PROVE  Sum(completion_time, Process) <= Sum(E, Process)
  BY DEF StcfIsBest, Attainable
<1>1. ServedInv /\ TypeOK /\ Sooner(o)
  BY DEF StcfInv, ServedInv, ServiceInv, SchedInv
<1>2. IsFiniteSet(Process) /\ current_time \in Nat
  BY <1>1, Finite, ServedTypes
<1>3. \A r \in Process : Spent[r] \in Int
  BY <1>1, SpentInTheEnd
<1>4. Sum(Spent, Process) = Sum(completion_time, Process)
  BY <1>1, SpentInTheEnd
<1>5. \A r \in Process : /\ Capped(E, current_time)[r] \in Int /\ E[r] \in Int
                         /\ Capped(E, current_time)[r] <= E[r]
  BY <1>2 DEF Capped
<1>6. Sum(Capped(E, current_time), Process) <= Sum(E, Process)
  BY ONLY <1>2, <1>5, SumMonotone
<1>7. Sum(Spent, Process) <= Sum(Capped(E, current_time), Process)
  BY <1>1 DEF Sooner
<1>8. /\ Sum(Spent, Process) \in Int /\ Sum(Capped(E, current_time), Process) \in Int
      /\ Sum(E, Process) \in Int
  BY ONLY <1>2, <1>3, <1>5, SumRemove
<1> QED
  BY ONLY <1>4, <1>6, <1>7, <1>8

\* schedule_stcf is ahead of every schedule at every step.
THEOREM StcfStaysAhead == SpecAlgorithms => []StcfInv
BY InitStcf, StcfOrderStep, PTL DEF SpecAlgorithms

\* STCF is optimal, on every workload and against every schedule: what the
\* report recommends it for.
THEOREM StcfIsOptimal == SpecAlgorithms => []StcfIsBest
<1>1. StcfInv => StcfIsBest
  BY BestInTheEnd
<1> QED
  BY <1>1, StcfStaysAhead, PTL

-----------------------------------------------------------------------------
(* What each algorithm comes to is itself a schedule.                       *)

\* Until t as in o, then a pause until b, then p for d units.
Continued(o, t, b, p, d) ==
  [s \in Nat |-> IF s <= t THEN o[s]
                 ELSE IF s <= b THEN o[t]
                 ELSE [o[t] EXCEPT ![p] = IF s <= b + d THEN @ - (s - b) ELSE @ - d]]

LEMMA ContinuedIsSchedule ==
  ASSUME NEW o \in Schedules, NEW t \in Nat, NEW b \in Nat, t <= b,
         NEW p \in Process, arrival_time[p] \in Nat, NEW d \in Nat, d <= o[t][p],
         d > 0 => arrival_time[p] <= b
  PROVE  /\ Continued(o, t, b, p, d) \in Schedules
         /\ \A s \in Nat : s <= t => Continued(o, t, b, p, d)[s] = o[s]
         /\ Continued(o, t, b, p, d)[b + d] = [o[t] EXCEPT ![p] = @ - d]
<1> PICK c : c = Continued(o, t, b, p, d)
  OBVIOUS
<1> PICK x : x = o[t]
  OBVIOUS
<1>1. /\ o \in [Nat -> [Process -> Nat]] /\ o[0] = burst_time
      /\ x \in [Process -> Nat] /\ x[p] \in Nat /\ d <= x[p]
  BY DEF Schedules
<1>2. /\ \A s \in Nat : s <= t => c[s] = o[s]
      /\ \A s \in Nat : t <= s /\ s <= b => c[s] = x
      /\ \A s \in Nat : b <= s /\ s <= b + d => c[s] = [x EXCEPT ![p] = @ - (s - b)]
      /\ \A s \in Nat : b + d <= s => c[s] = [x EXCEPT ![p] = @ - d]
  <2>0. [x EXCEPT ![p] = @ - 0] = x
    BY <1>1
  <2>1. \A s \in Nat : c[s] = IF s <= t THEN o[s]
                              ELSE IF s <= b THEN x
                              ELSE [x EXCEPT ![p] = IF s <= b + d THEN @ - (s - b) ELSE @ - d]
    BY DEF Continued
  <2>2. \A s \in Nat : s <= t => c[s] = o[s]
    BY <2>1
  <2>3. \A s \in Nat : t <= s /\ s <= b => c[s] = x
    <3> TAKE s \in Nat
    <3> HAVE t <= s /\ s <= b
    <3>1. CASE s = t
      BY <2>1, <3>1
    <3>2. CASE s # t
      <4>1. ~(s <= t) /\ s <= b
        BY <3>2
      <4> QED
        BY <2>1, <4>1
    <3> QED
      BY <3>1, <3>2
  <2>4. ASSUME NEW s \in Nat, b <= s, s <= b + d
        PROVE  c[s] = [x EXCEPT ![p] = @ - (s - b)]
    <3>1. CASE s = b
      <4>1. c[s] = x /\ s - b = 0
        BY <2>3, <3>1
      <4> QED
        BY <2>0, <4>1
    <3>2. CASE s # b
      <4>1. ~(s <= t) /\ ~(s <= b)
        BY <2>4, <3>2
      <4> QED
        BY <2>1, <2>4, <4>1
    <3> QED
      BY <3>1, <3>2
  <2>5. ASSUME NEW s \in Nat, b + d <= s
        PROVE  c[s] = [x EXCEPT ![p] = @ - d]
    <3>1. CASE s = b + d
      <4>1. c[s] = [x EXCEPT ![p] = @ - (s - b)] /\ s - b = d
        BY <2>4, <3>1
      <4> QED
        BY <4>1
    <3>2. CASE s # b + d
      <4>1. ~(s <= t) /\ ~(s <= b) /\ ~(s <= b + d)
        BY <2>5, <3>2
      <4> QED
        BY <2>1, <4>1
    <3> QED
      BY <3>1, <3>2
  <2> QED
    BY <2>2, <2>3, <2>4, <2>5
<1>3. ASSUME NEW e \in 0 .. d
      PROVE  /\ [x EXCEPT ![p] = @ - e] \in [Process -> Nat]
             /\ [x EXCEPT ![p] = @ - e][p] = x[p] - e
  BY <1>1
<1>4. c \in [Nat -> [Process -> Nat]]
  <2>1. ASSUME NEW s \in Nat PROVE c[s] \in [Process -> Nat]
    <3>1. CASE s <= t
      BY <1>1, <1>2, <3>1
    <3>2. CASE t <= s /\ s <= b
      BY <1>1, <1>2, <3>2
    <3>3. CASE b <= s /\ s <= b + d
      <4>1. c[s] = [x EXCEPT ![p] = @ - (s - b)] /\ s - b \in 0 .. d
        BY <1>2, <3>3
      <4> QED
        BY <1>3, <4>1
    <3>4. CASE b + d <= s
      <4>1. c[s] = [x EXCEPT ![p] = @ - d] /\ d \in 0 .. d
        BY <1>2, <3>4
      <4> QED
        BY <1>3, <4>1
    <3> QED
      BY <3>1, <3>2, <3>3, <3>4
  <2>2. c = [s \in Nat |-> c[s]]
    BY DEF Continued
  <2> QED
    BY <2>1, <2>2
<1>5. c[0] = burst_time
  BY <1>1, <1>2
<1>6. ASSUME NEW s \in Nat
      PROVE  \/ c[s + 1] = c[s]
             \/ \E q \in Process : /\ arrival_time[q] <= s /\ c[s][q] > 0
                                   /\ c[s + 1] = [c[s] EXCEPT ![q] = @ - 1]
  <2>1. CASE s + 1 <= t
    <3>1. c[s] = o[s] /\ c[s + 1] = o[s + 1]
      BY <1>2, <2>1
    <3>2. \/ o[s + 1] = o[s]
          \/ \E q \in Process : /\ arrival_time[q] <= s /\ o[s][q] > 0
                                /\ o[s + 1] = [o[s] EXCEPT ![q] = @ - 1]
      BY DEF Schedules
    <3> QED
      BY <3>1, <3>2
  <2>2. CASE t <= s /\ s + 1 <= b
    BY <1>2, <2>2
  <2>3. CASE b <= s /\ s + 1 <= b + d
    <3>1. /\ c[s] = [x EXCEPT ![p] = @ - (s - b)]
          /\ c[s + 1] = [x EXCEPT ![p] = @ - (s + 1 - b)]
          /\ s - b \in 0 .. d - 1 /\ arrival_time[p] <= s
      BY <1>2, <2>3
    <3>2. c[s][p] = x[p] - (s - b) /\ c[s][p] > 0
      BY <1>1, <1>3, <3>1
    <3>3. c[s + 1] = [c[s] EXCEPT ![p] = @ - 1]
      <4>1. [c[s] EXCEPT ![p] = @ - 1] = [x EXCEPT ![p] = x[p] - (s - b) - 1]
        BY <1>1, <3>1
      <4>2. x[p] - (s - b) - 1 = x[p] - (s + 1 - b)
        BY <1>1
      <4> QED
        BY <3>1, <4>1, <4>2
    <3> QED
      BY <3>1, <3>2, <3>3
  <2>4. CASE b + d <= s
    <3>1. b + d <= s + 1
      BY <2>4
    <3> QED
      BY <1>2, <2>4, <3>1
  <2> QED
    BY <2>1, <2>2, <2>3, <2>4
<1>7. c \in Schedules
  BY <1>4, <1>5, <1>6 DEF Schedules
<1> QED
  BY <1>2, <1>7

\* There is a schedule that leaves what the algorithm has left, and that meets
\* the completion times it has recorded.
Left == [p \in Process |-> burst_time[p] - Got(p)]
Follows(o) == /\ o[current_time] = Left
              /\ \A p \in Process : Over(p) => /\ completion_time[p] <= current_time
                                               /\ o[completion_time[p]][p] = 0
Traced == \E o \in Schedules : Follows(o)
TracedInv == ServedInv /\ Traced

\* A step that gives d units of time to p, from b on.
LEMMA StepFollows ==
  ASSUME TracedInv, UNCHANGED <<n, arrival_time, burst_time>>, current_time' \in Nat,
         NEW b \in Nat, current_time <= b, NEW p \in Process, NEW d \in Nat,
         Got(p) + d <= burst_time[p], d > 0 => arrival_time[p] <= b,
         current_time' = b + d,
         \A q \in Process : Got(q)' = Got(q) + (IF q = p THEN d ELSE 0),
         \A q \in Process : Over(q)' =>
           \/ Over(q) /\ completion_time'[q] = completion_time[q]
           \/ q = p /\ completion_time'[q] = b + d /\ Got(p) + d = burst_time[p]
  PROVE  Traced'
<1> PICK t : t = current_time
  OBVIOUS
<1>1. TypeOK /\ Process' = Process
  BY DEF TracedInv, ServedInv, ServiceInv, SchedInv, Process
<1>2. /\ t \in Nat
      /\ \A q \in Process : /\ arrival_time[q] \in Nat /\ completion_time[q] \in Nat
                            /\ burst_time[q] \in Nat /\ Got(q) \in Int
  BY <1>1, ServedTypes
<1>3. PICK o \in Schedules : Follows(o)
  BY DEF TracedInv, Traced
<1>4. /\ o[t] = Left /\ o[t][p] = burst_time[p] - Got(p) /\ d <= o[t][p]
      /\ \A q \in Process : Over(q) => completion_time[q] <= t /\ o[completion_time[q]][q] = 0
  <2>1. /\ o[t] = Left
        /\ \A q \in Process : Over(q) => completion_time[q] <= t /\ o[completion_time[q]][q] = 0
    BY <1>3 DEF Follows
  <2>2. o[t][p] = burst_time[p] - Got(p)
    BY <2>1 DEF Left
  <2> QED
    BY <1>2, <2>1, <2>2
<1> PICK c : c = Continued(o, t, b, p, d)
  OBVIOUS
<1>5. /\ c \in Schedules
      /\ \A s \in Nat : s <= t => c[s] = o[s]
      /\ c[b + d] = [o[t] EXCEPT ![p] = @ - d]
  BY <1>2, <1>4, ContinuedIsSchedule
<1>6. c[b + d] = Left'
  <2>1. Left' = [q \in Process |-> burst_time[q] - Got(q)']
    BY <1>1 DEF Left
  <2>2. c[b + d] = [q \in Process |-> IF q = p THEN Left[p] - d ELSE Left[q]]
    BY <1>4, <1>5 DEF Left
  <2>3. \A q \in Process : burst_time[q] - Got(q)' = IF q = p THEN Left[p] - d ELSE Left[q]
    BY <1>2 DEF Left
  <2> HIDE DEF Left
  <2> QED
    BY <2>1, <2>2, <2>3
<1>7. ASSUME NEW q \in Process, Over(q)'
      PROVE  completion_time'[q] <= b + d /\ c[completion_time'[q]][q] = 0
  <2>1. CASE Over(q) /\ completion_time'[q] = completion_time[q]
    BY <1>2, <1>4, <1>5, <2>1
  <2>2. CASE q = p /\ completion_time'[q] = b + d /\ Got(p) + d = burst_time[p]
    <3>1. c[b + d][p] = 0
      <4>1. o[t] \in [Process -> Nat]
        BY <1>2 DEF Schedules
      <4>2. c[b + d][p] = o[t][p] - d
        BY <1>5, <4>1
      <4> QED
        BY <1>2, <1>4, <2>2, <4>2
    <3> QED
      BY <2>2, <3>1
  <2> QED
    BY <1>7, <2>1, <2>2
<1>8. Schedules' = Schedules
  BY <1>1 DEF Schedules
<1>9. Follows(c)'
  BY <1>1, <1>6, <1>7 DEF Follows
<1> QED
  BY <1>5, <1>8, <1>9 DEF Traced

LEMMA InitTraced == InitAlgorithms => TracedInv
<1> SUFFICES ASSUME InitAlgorithms PROVE TracedInv
  OBVIOUS
<1>1. ServedInv
  BY InitServed
<1>2. TypeOK
  BY <1>1 DEF ServedInv, ServiceInv, SchedInv
<1> PICK o : o = [t \in Nat |-> burst_time]
  OBVIOUS
<1>3. o \in Schedules
  <2>1. burst_time \in [Process -> Nat]
    BY <1>2 DEF TypeOK
  <2>2. o \in [Nat -> [Process -> Nat]] /\ o[0] = burst_time /\ \A t \in Nat : o[t + 1] = o[t]
    BY <2>1
  <2> QED
    BY <2>2 DEF Schedules
<1>4. o[current_time] = Left
  <2>1. \A q \in Process : Got(q) = 0 /\ burst_time[q] \in Nat
    BY <1>2, ServedTypes DEF InitAlgorithms, Got
  <2>2. burst_time = [q \in Process |-> burst_time[q]]
    BY <1>2 DEF TypeOK
  <2>3. Left = burst_time
    BY <2>1, <2>2 DEF Left
  <2> QED
    BY <2>3 DEF InitAlgorithms
<1>5. ASSUME NEW q \in Process, Over(q)
      PROVE  completion_time[q] <= current_time /\ o[completion_time[q]][q] = 0
  <2>1. completion_time[q] = 0 /\ current_time = 0 /\ completed_count = 0 /\ q # 0 /\ q \in Nat
    BY <1>2, ServedTypes DEF InitAlgorithms
  <2>2. burst_time[q] = 0
    BY <1>5, <2>1 DEF Over, InitAlgorithms
  <2> QED
    BY <2>1, <2>2
<1> QED
  BY <1>1, <1>3, <1>4, <1>5 DEF TracedInv, Traced, Follows

\* Nothing that the comparison reads has changed.
LEMMA SameTrace ==
  ASSUME Traced, UNCHANGED <<workload, process, current_time, completed_count, algo>>
  PROVE  Traced'
<1> USE DEF workload, process
<1>1. Process' = Process
  BY DEF Process
<1>2. Schedules' = Schedules
  BY <1>1 DEF Schedules
<1>3. Left' = Left
  BY <1>1 DEF Left, Got
<1>4. PICK o \in Schedules : Follows(o)
  BY DEF Traced
<1>5. \A q \in Process : Over(q)' <=> Over(q)
  BY DEF Over
<1>6. Follows(o)'
  BY <1>1, <1>3, <1>4, <1>5 DEF Follows
<1> QED
  BY <1>2, <1>4, <1>6 DEF Traced

LEMMA JumpTraced ==
  ASSUME TracedInv, algo # "FIFO", Ready = {}, Idle,
         UNCHANGED <<workload, process, completed_count, algo>>
  PROVE  Traced'
<1> USE DEF workload, process
<1>1. CASE UNCHANGED current_time
  BY <1>1, SameTrace DEF TracedInv
<1>2. ASSUME NEW t \in next_arrival, current_time' = t
      PROVE  Traced'
  <2>1. TypeOK
    BY DEF TracedInv, ServedInv, ServiceInv, SchedInv
  <2>2. PICK a \in Pending : t = arrival_time[a]
    BY <1>2 DEF next_arrival
  <2>3. a \in Process /\ ~(arrival_time[a] <= current_time)
    BY <2>2 DEF Ready, Pending
  <2>4. /\ current_time \in Nat /\ t \in Nat /\ current_time <= t /\ 0 \in Nat /\ t + 0 = t
        /\ Got(a) \in Int /\ burst_time[a] \in Nat
    BY <2>1, <2>2, <2>3, ServedTypes
  <2>5. Got(a) + 0 <= burst_time[a]
    <3>1. Got(a) = burst_time[a] - remaining_time[a] /\ remaining_time[a] \in Nat
      BY <2>1, <2>3, ServedTypes DEF Got
    <3> QED
      BY <2>4, <3>1
  <2>6. \A q \in Process : Got(q)' = Got(q) + (IF q = a THEN 0 ELSE 0)
    <3> TAKE q \in Process
    <3>1. Got(q)' = Got(q) /\ Got(q) \in Int
      BY <2>1, ServedTypes DEF Got
    <3> QED
      BY <3>1
  <2>7. \A q \in Process : Over(q)' => Over(q) /\ completion_time'[q] = completion_time[q]
    BY DEF Over
  <2> QED
    BY <1>2, <2>3, <2>4, <2>5, <2>6, <2>7, StepFollows
<1> QED
  BY <1>1, <1>2 DEF Idle

\* SJF and STCF: a ready process runs for d units, to its end or not.
LEMMA RunTraced ==
  ASSUME TracedInv, algo # "FIFO", UNCHANGED <<workload, algo>>,
         NEW p \in Ready, NEW d \in Nat, 0 < d, d <= remaining_time[p],
         current_time' = current_time + d,
         remaining_time'[p] = remaining_time[p] - d,
         d = remaining_time[p] => completion_time'[p] = current_time + d,
         \A q \in Process : q # p => /\ remaining_time'[q] = remaining_time[q]
                                     /\ completion_time'[q] = completion_time[q]
  PROVE  Traced'
<1> USE DEF workload
<1>1. TypeOK
  BY DEF TracedInv, ServedInv, ServiceInv, SchedInv
<1>2. /\ current_time \in Nat /\ current_time <= current_time
      /\ \A q \in Process : /\ remaining_time[q] \in Nat /\ burst_time[q] \in Nat
                            /\ Got(q) \in Int
                            /\ Got(q) = burst_time[q] - remaining_time[q]
                            /\ Got(q)' = burst_time[q] - remaining_time'[q]
                            /\ Over(q) <=> remaining_time[q] = 0
                            /\ Over(q)' <=> remaining_time'[q] = 0
  BY <1>1, ServedTypes DEF Got, Over
<1>3. p \in Process /\ arrival_time[p] <= current_time
  BY DEF Ready, Pending
<1>4. Got(p) + d <= burst_time[p]
  BY <1>2, <1>3
<1>5. \A q \in Process : Got(q)' = Got(q) + (IF q = p THEN d ELSE 0)
  BY <1>2, <1>3
<1>6. ASSUME NEW q \in Process, Over(q)'
      PROVE  \/ Over(q) /\ completion_time'[q] = completion_time[q]
             \/ /\ q = p /\ completion_time'[q] = current_time + d
                /\ Got(p) + d = burst_time[p]
  <2>1. CASE q = p
    <3>0. remaining_time'[p] = 0 /\ remaining_time[p] \in Nat
      BY <1>2, <1>3, <1>6, <2>1
    <3>1. d = remaining_time[p]
      BY <3>0
    <3> QED
      BY <1>2, <1>3, <2>1, <3>1
  <2>2. CASE q # p
    BY <1>2, <1>6, <2>2
  <2> QED
    BY <2>1, <2>2
<1>7. current_time' \in Nat
  BY <1>2
<1> QED
  BY <1>2, <1>3, <1>4, <1>5, <1>6, <1>7, StepFollows

LEMMA FifoTraced ==
  ASSUME TracedInv, schedule_fifo
  PROVE  Traced'
<1> PICK p : p = completed_count + 1
  OBVIOUS
<1> PICK b : b = IF current_time < arrival_time[p] THEN arrival_time[p] ELSE current_time
  OBVIOUS
<1> PICK d : d = burst_time[p]
  OBVIOUS
<1>1. /\ TypeOK /\ algo = "FIFO" /\ algo' = "FIFO"
      /\ UNCHANGED <<n, arrival_time, burst_time>>
  BY DEF TracedInv, ServedInv, ServiceInv, SchedInv, schedule_fifo, Looping, workload
<1>2. /\ current_time \in Nat /\ completed_count \in Nat
      /\ \A q \in Process : /\ arrival_time[q] \in Nat /\ burst_time[q] \in Nat /\ q \in Nat
                            /\ Got(q) \in Int
  BY <1>1, ServedTypes
<1>3. p \in Process
  BY <1>1, <1>2, SchedAssumption DEF TypeOK, schedule_fifo, Process
<1>4. /\ completion_time' = [completion_time EXCEPT ![p] = b + d]
      /\ current_time' = b + d /\ completed_count' = p
  BY DEF schedule_fifo
<1>5. b \in Nat /\ d \in Nat /\ current_time <= b /\ arrival_time[p] <= b /\ b + d \in Nat
  BY <1>2, <1>3
<1>6. \A q \in Process : /\ Got(q) = (IF q <= completed_count THEN burst_time[q] ELSE 0)
                         /\ Got(q)' = (IF q <= p THEN burst_time[q] ELSE 0)
                         /\ Over(q) <=> q <= completed_count
                         /\ Over(q)' <=> q <= p
  BY <1>1, <1>4 DEF Got, Over
<1>7. Got(p) = 0 /\ Got(p) + d = burst_time[p] /\ Got(p) + d <= burst_time[p]
  BY <1>2, <1>3, <1>5, <1>6
<1>8. \A q \in Process : Got(q)' = Got(q) + (IF q = p THEN d ELSE 0)
  BY <1>2, <1>3, <1>5, <1>6
<1>9. ASSUME NEW q \in Process, Over(q)'
      PROVE  \/ Over(q) /\ completion_time'[q] = completion_time[q]
             \/ q = p /\ completion_time'[q] = b + d /\ Got(p) + d = burst_time[p]
  <2>1. CASE q = p
    BY <1>1, <1>3, <1>4, <1>7, <2>1 DEF TypeOK
  <2>2. CASE q # p
    BY <1>1, <1>2, <1>4, <1>6, <1>9, <2>2 DEF TypeOK
  <2> QED
    BY <2>1, <2>2
<1> QED
  BY <1>1, <1>3, <1>4, <1>5, <1>7, <1>8, <1>9, StepFollows

LEMMA TraceStep ==
  ASSUME TracedInv, [Simulate]_simVars
  PROVE  TracedInv'
<1>1. ServedInv' /\ ServedInv /\ Traced /\ TypeOK
  BY ServedStep DEF TracedInv, ServedInv, ServiceInv, SchedInv
<1> SUFFICES Traced'
  BY <1>1 DEF TracedInv
<1>2. CASE UNCHANGED simVars
  BY <1>1, <1>2, SameTrace DEF simVars, clock
<1>3. CASE schedule_fifo
  BY <1>3, FifoTraced
<1>4. CASE schedule_sjf
  <2>1. algo # "FIFO" /\ UNCHANGED <<workload, algo>> /\ algo = "SJF"
    BY <1>4 DEF schedule_sjf, Looping
  <2>2. CASE Ready = {} /\ Idle /\ UNCHANGED <<process, completed_count>>
    BY <2>1, <2>2, JumpTraced
  <2>3. ASSUME NEW p \in Shortest(Ready, burst_time),
               completion_time' = [completion_time EXCEPT ![p] = current_time + burst_time[p]],
               remaining_time' = [remaining_time EXCEPT ![p] = 0],
               current_time' = current_time + burst_time[p]
        PROVE  Traced'
    <3>1. p \in Ready /\ p \in Process /\ p \in Pending
      BY <2>3 DEF Shortest, Ready, Pending
    <3>2. /\ current_time \in Nat /\ burst_time[p] \in Nat /\ remaining_time[p] \in Nat
          /\ remaining_time[p] > 0 /\ remaining_time[p] <= burst_time[p]
      BY <1>1, <3>1, ServedTypes DEF Pending, ServedInv, ServiceInv, Past
    <3>3. remaining_time[p] = burst_time[p]
      <4>1. p \in Ran
        BY <3>1, <3>2 DEF Ran
      <4>2. start_time[p] = -1
        BY <1>1, <2>1, <3>1, <4>1 DEF ServedInv, ServiceInv, ShortestFirst
      <4>3. ~Began(p) /\ Got(p) = burst_time[p] - remaining_time[p]
        BY <2>1, <4>2 DEF Began, Got
      <4>4. Got(p) = 0
        BY <1>1, <3>1, <4>3 DEF ServedInv, Share
      <4> QED
        BY <3>2, <4>3, <4>4
    <3>4. /\ remaining_time'[p] = remaining_time[p] - burst_time[p]
          /\ completion_time'[p] = current_time + burst_time[p]
          /\ \A q \in Process : q # p => /\ remaining_time'[q] = remaining_time[q]
                                         /\ completion_time'[q] = completion_time[q]
      BY <1>1, <2>3, <3>1, <3>2, <3>3 DEF TypeOK
    <3>5. 0 < burst_time[p] /\ burst_time[p] <= remaining_time[p]
      BY <3>2, <3>3
    <3> QED
      BY <2>1, <2>3, <3>1, <3>2, <3>4, <3>5, RunTraced
  <2> QED
    BY <1>4, <2>2, <2>3 DEF schedule_sjf
<1>5. CASE schedule_stcf
  <2>1. algo # "FIFO" /\ UNCHANGED <<workload, algo>>
    BY <1>5 DEF schedule_stcf, Looping
  <2>2. CASE Ready = {} /\ Idle /\ UNCHANGED <<process, completed_count>>
    BY <2>1, <2>2, JumpTraced
  <2>3. ASSUME NEW p \in Shortest(Ready, remaining_time), Tick(p)
        PROVE  Traced'
    <3>1. p \in Ready /\ p \in Process /\ p \in Pending
      BY <2>3 DEF Shortest, Ready, Pending
    <3>2. remaining_time[p] \in Nat /\ remaining_time[p] > 0 /\ current_time \in Nat
      BY <1>1, <3>1, ServedTypes DEF Pending
    <3>3. /\ remaining_time'[p] = remaining_time[p] - 1 /\ current_time' = current_time + 1
          /\ \A q \in Process : q # p => remaining_time'[q] = remaining_time[q]
      BY <1>1, <2>3, <3>1 DEF Tick, TypeOK
    <3>4. /\ 1 = remaining_time[p] => completion_time'[p] = current_time + 1
          /\ \A q \in Process : q # p => completion_time'[q] = completion_time[q]
      <4>1. CASE remaining_time[p] = 1
        BY <1>1, <2>3, <3>1, <4>1 DEF Tick, TypeOK
      <4>2. CASE remaining_time[p] # 1
        BY <2>3, <4>2 DEF Tick
      <4> QED
        BY <4>1, <4>2
    <3>5. 1 \in Nat /\ 0 < 1 /\ 1 <= remaining_time[p]
      BY <3>2
    <3> QED
      BY <2>1, <3>1, <3>3, <3>4, <3>5, RunTraced
  <2> QED
    BY <1>5, <2>2, <2>3 DEF schedule_stcf
<1>6. ASSUME NEW a \in {"FIFO", "SJF", "STCF"}, Finish(a)
      PROVE  Traced'
  BY <1>1, <1>6, SameTrace DEF Finish
<1> QED
  BY <1>2, <1>3, <1>4, <1>5, <1>6 DEF Simulate

\* The completion times recorded in the end are those of a schedule.
EndsAttained == Ended => completion_time \in Attainable

LEMMA AttainedInTheEnd ==
  ASSUME TracedInv
  PROVE  EndsAttained
<1> SUFFICES ASSUME Ended PROVE completion_time \in Attainable
  BY DEF EndsAttained
<1>1. ServedInv /\ TypeOK /\ completion_time \in [Process -> Nat]
  BY DEF TracedInv, ServedInv, ServiceInv, SchedInv, TypeOK
<1>2. PICK o \in Schedules : Follows(o)
  BY DEF TracedInv, Traced
<1>3. ASSUME NEW p \in Process
      PROVE  o[completion_time[p]][p] = 0
  <2>1. CASE p \in Ran
    BY <1>1, <1>2, <2>1 DEF ServedInv, AllOver, Follows
  <2>2. CASE p \notin Ran
    <3>1. burst_time[p] = 0 /\ completion_time[p] \in Nat /\ arrival_time[p] \in Nat
      BY <1>1, <2>2, ServedTypes DEF Ran
    <3>2. o[0][p] = 0
      BY <3>1 DEF Schedules
    <3>3. 0 \in Nat /\ 0 <= completion_time[p]
      BY <3>1
    <3> QED
      BY <3>1, <3>2, <3>3, ScheduleFacts
  <2> QED
    BY <2>1, <2>2
<1> QED
  BY <1>1, <1>3 DEF Attainable, Meets

\* FIFO, SJF and STCF each come to a schedule of the workload: with
\* StcfIsOptimal, the one STCF comes to is the least of all.
THEOREM EveryEndIsASchedule == SpecAlgorithms => []EndsAttained
<1>1. TracedInv => EndsAttained
  BY AttainedInTheEnd
<1> QED
  BY <1>1, InitTraced, TraceStep, PTL DEF SpecAlgorithms

-----------------------------------------------------------------------------
(* The outcomes of all schedules, as the runs compute them.                 *)

\* A recursion over the natural numbers has a solution.
Solves(V, b, F, f) == /\ f \in [Nat -> V] /\ f[0] = b
                      /\ \A t \in Nat : f[t + 1] = F[t][f[t]]

LEMMA Recursion ==
  ASSUME NEW V, NEW b \in V, NEW F \in [Nat -> [V -> V]]
  PROVE  \E f : Solves(V, b, F, f)
<1> DEFINE Up(k, g) == /\ g \in [0 .. k -> V] /\ g[0] = b
                       /\ \A t \in 0 .. k : t < k => g[t + 1] = F[t][g[t]]
           D == {k \in Nat : \E g : Up(k, g)}
<1>1. 0 \in D
  <2> DEFINE g == [t \in 0 .. 0 |-> b]
  <2>1. Up(0, g)
    OBVIOUS
  <2> QED
    BY <2>1
<1>2. ASSUME NEW k \in Nat, k \in D
      PROVE  k + 1 \in D
  <2>1. PICK g : Up(k, g)
    BY <1>2
  <2> DEFINE h == [t \in 0 .. k + 1 |-> IF t <= k THEN g[t] ELSE F[k][g[k]]]
  <2>2. \A t \in 0 .. k : g[t] \in V /\ F[t][g[t]] \in V
    BY <2>1
  <2>3. h \in [0 .. k + 1 -> V] /\ h[0] = b
    BY <2>1, <2>2
  <2>4. ASSUME NEW t \in 0 .. k + 1, t < k + 1
        PROVE  h[t + 1] = F[t][h[t]]
    <3>1. t \in 0 .. k /\ h[t] = g[t]
      BY <2>4
    <3>2. CASE t = k
      BY <2>4, <3>1, <3>2
    <3>3. CASE t < k
      <4>1. h[t + 1] = g[t + 1]
        BY <3>1, <3>3
      <4> QED
        BY <2>1, <3>1, <3>3, <4>1
    <3> QED
      BY <3>1, <3>2, <3>3
  <2> HIDE DEF h
  <2>5. Up(k + 1, h)
    BY <2>3, <2>4
  <2> HIDE DEF Up
  <2> QED
    BY <2>5
<1>3. ASSUME NEW k \in Nat
      PROVE  \E g : Up(k, g)
  <2> HIDE DEF D
  <2>1. Nat \subseteq D
    BY <1>1, <1>2, NatInduct
  <2> QED
    BY <2>1 DEF D
<1>4. ASSUME NEW j \in Nat, NEW k \in Nat, NEW g, NEW h, Up(j, g), Up(k, h)
      PROVE  \A t \in Nat : t <= j /\ t <= k => g[t] = h[t]
  <2> DEFINE E == {t \in Nat : t <= j /\ t <= k => g[t] = h[t]}
  <2>1. 0 \in E
    BY <1>4
  <2>2. ASSUME NEW t \in Nat, t \in E
        PROVE  t + 1 \in E
    <3> SUFFICES ASSUME t + 1 <= j, t + 1 <= k PROVE g[t + 1] = h[t + 1]
      OBVIOUS
    <3>1. t \in 0 .. j /\ t \in 0 .. k /\ t < j /\ t < k /\ g[t] = h[t]
      BY <2>2
    <3> QED
      BY <1>4, <3>1
  <2> HIDE DEF E
  <2>3. Nat \subseteq E
    BY <2>1, <2>2, NatInduct
  <2> QED
    BY <2>3 DEF E
<1> DEFINE G(k) == CHOOSE g : Up(k, g)
           f    == [k \in Nat |-> G(k)[k]]
<1>5. \A k \in Nat : Up(k, G(k))
  <2> HIDE DEF Up
  <2> QED
    BY <1>3
<1> HIDE DEF G
<1>6. \A k \in Nat : G(k)[k] \in V
  BY <1>5
<1>7. f \in [Nat -> V] /\ f[0] = b
  BY <1>5, <1>6
<1>8. ASSUME NEW t \in Nat
      PROVE  f[t + 1] = F[t][f[t]]
  <2>1. Up(t, G(t)) /\ Up(t + 1, G(t + 1))
    BY <1>5
  <2>2. G(t)[t] = G(t + 1)[t]
    <3> HIDE DEF Up
    <3> QED
      BY <1>4, <2>1
  <2>3. G(t + 1)[t + 1] = F[t][G(t + 1)[t]]
    BY <2>1
  <2> QED
    BY <2>2, <2>3
<1> HIDE DEF f
<1>9. Solves(V, b, F, f)
  BY <1>7, <1>8 DEF Solves
<1> QED
  BY <1>9

\* W holds, at each t, the outcomes of all schedules until t.
Generated(W) ==
  /\ W[0] = {[left |-> burst_time, total |-> 0]}
  /\ \A t \in Nat : W[t + 1] = UNION {OneUnit(s, t) : s \in W[t]}

OpenIn(left) == {p \in Process : left[p] > 0}
States == [left : [Process -> Nat], total : Nat]

LEMMA UnitTypes ==
  ASSUME TypeOK, NEW s \in States, NEW t \in Nat, NEW s1 \in OneUnit(s, t)
  PROVE  /\ AnyStep(Here(t), s.left, s1.left)
         /\ s1.total = s.total + Cardinality(OpenIn(s.left))
         /\ s1 \in States
<1> DEFINE ready == {p \in OpenIn(s.left) : arrival_time[p] <= t}
<1>1. PICK l \in IF ready = {} THEN {s.left} ELSE {[s.left EXCEPT ![p] = @ - 1] : p \in ready} :
        s1 = [left |-> l, total |-> s.total + Cardinality(OpenIn(s.left))]
  BY DEF OneUnit, OpenIn
<1>2. s.left \in [Process -> Nat] /\ s.total \in Nat
  BY DEF States
<1>3. Cardinality(OpenIn(s.left)) \in Nat
  BY Finite DEF OpenIn
<1>4. AnyStep(Here(t), s.left, l) /\ l \in [Process -> Nat]
  <2>1. CASE l = s.left
    BY <1>2, <2>1 DEF AnyStep
  <2>2. ASSUME NEW q \in ready, l = [s.left EXCEPT ![q] = @ - 1]
        PROVE  AnyStep(Here(t), s.left, l) /\ l \in [Process -> Nat]
    <3>1. q \in Here(t) /\ s.left[q] > 0
      BY DEF OpenIn, Here
    <3>2. AnyStep(Here(t), s.left, l)
      BY <2>2, <3>1 DEF AnyStep
    <3>3. l \in [Process -> Nat]
      <4>1. q \in Process /\ s.left[q] - 1 \in Nat
        BY <1>2, <3>1 DEF Here
      <4> QED
        BY <1>2, <2>2, <4>1
    <3> QED
      BY <3>2, <3>3
  <2> QED
    BY <1>1, <2>1, <2>2
<1> QED
  BY <1>1, <1>2, <1>3, <1>4 DEF States

LEMMA OutcomesGenerated ==
  ASSUME TypeOK
  PROVE  Generated(Outcomes)
<1> DEFINE V    == SUBSET States
           b    == {[left |-> burst_time, total |-> 0]}
           F    == [t \in Nat |-> [X \in V |-> UNION {OneUnit(s, t) : s \in X}]]
           R(f) == [t \in Nat |-> IF t = 0 THEN b ELSE UNION {OneUnit(s, t - 1) : s \in f[t - 1]}]
<1>1. b \in V
  BY DEF States, TypeOK
<1>2. F \in [Nat -> [V -> V]]
  <2>1. \A t \in Nat : \A X \in V : UNION {OneUnit(s, t) : s \in X} \in V
    BY UnitTypes
  <2> HIDE DEF V
  <2> QED
    BY <2>1
<1>3. PICK f : Solves(V, b, F, f)
  <2> HIDE DEF V, b, F
  <2> QED
    BY <1>1, <1>2, Recursion
<1>4. f = [t \in Nat |-> f[t]] /\ f[0] = b
      /\ \A t \in Nat : f[t + 1] = UNION {OneUnit(s, t) : s \in f[t]}
  <2> HIDE DEF V, b
  <2> QED
    BY <1>3 DEF Solves
<1>5. f = R(f)
  <2> HIDE DEF V, b
  <2>1. \A t \in Nat : t # 0 => t - 1 \in Nat /\ (t - 1) + 1 = t
    OBVIOUS
  <2>2. \A t \in Nat : t # 0 => f[t] = UNION {OneUnit(s, t - 1) : s \in f[t - 1]}
    BY <1>4, <2>1
  <2> QED
    BY <1>4, <2>2
<1>6. Outcomes = R(Outcomes)
  <2>1. Outcomes = CHOOSE g : g = R(g)
    BY DEF Outcomes
  <2> HIDE DEF R
  <2> QED
    BY <1>5, <2>1
<1>7. Outcomes[0] = b
  BY <1>6
<1>8. ASSUME NEW t \in Nat
      PROVE  Outcomes[t + 1] = UNION {OneUnit(s, t) : s \in Outcomes[t]}
  <2>1. t + 1 \in Nat /\ t + 1 # 0 /\ (t + 1) - 1 = t
    OBVIOUS
  <2> HIDE DEF b
  <2>2. R(Outcomes)[t + 1] = UNION {OneUnit(s, t) : s \in Outcomes[t]}
    BY <2>1
  <2> QED
    BY <1>6, <2>2
<1> QED
  BY <1>7, <1>8 DEF Generated

\* Who is still to arrive has its whole burst left in every outcome.
LEMMA OutcomeFacts ==
  ASSUME TypeOK, NEW W, Generated(W)
  PROVE  \A t \in Nat : \A s \in W[t] :
           s \in States /\ \A p \in Process \ Here(t) : s.left[p] = burst_time[p]
<1> DEFINE Whole(s, t) == \A p \in Process \ Here(t) : s.left[p] = burst_time[p]
           D == {t \in Nat : \A s \in W[t] : s \in States /\ Whole(s, t)}
<1>1. 0 \in D
  <2>1. \A s \in W[0] : s = [left |-> burst_time, total |-> 0]
    BY DEF Generated
  <2> QED
    BY <2>1 DEF States, TypeOK
<1>2. ASSUME NEW t \in Nat, t \in D
      PROVE  t + 1 \in D
  <2> SUFFICES ASSUME NEW s1 \in W[t + 1]
               PROVE  s1 \in States /\ Whole(s1, t + 1)
    OBVIOUS
  <2>1. PICK s \in W[t] : s1 \in OneUnit(s, t)
    BY DEF Generated
  <2>2. s \in States /\ Whole(s, t)
    BY <1>2
  <2>3. AnyStep(Here(t), s.left, s1.left) /\ s1 \in States
    BY <2>1, <2>2, UnitTypes
  <2>4. ASSUME NEW p \in Process \ Here(t + 1)
        PROVE  s1.left[p] = burst_time[p]
    <3>1. p \in Process \ Here(t)
      BY ServedTypes DEF Here
    <3>2. s.left[p] = burst_time[p] /\ s.left \in [Process -> Nat]
      BY <2>2, <3>1 DEF States
    <3> QED
      BY <2>3, <3>1, <3>2 DEF AnyStep
  <2> QED
    BY <2>3, <2>4
<1> HIDE DEF D
<1>3. Nat \subseteq D
  BY <1>1, <1>2, NatInduct
<1> QED
  BY <1>3 DEF D

\* At time t STCF, which has R left and x spent, is one of the schedules; it is
\* ahead of each of them, and none has spent less.
Cheapest(W, t, R, x) ==
  /\ [left |-> R, total |-> x] \in W[t]
  /\ \A s \in W[t] : Ahead(Process, Here(t), R, s.left) /\ x <= s.total

\* A unit of time in which the CPU is idle, because nobody is ready.
PauseStep(H, R, R1) == R1 = R /\ \A p \in H : R[p] = 0

\* One unit later it still is.
LEMMA UnitLeads ==
  ASSUME TypeOK, NEW W, Generated(W), NEW t \in Nat,
         NEW R \in [Process -> Nat], NEW R1, NEW x \in Nat, Cheapest(W, t, R, x),
         \A p \in Process \ Here(t) : R[p] = burst_time[p],
         LeastStep(Here(t), R, R1) \/ PauseStep(Here(t), R, R1)
  PROVE  Cheapest(W, t + 1, R1, x + Cardinality(OpenIn(R)))
<1> PICK H : H = Here(t)
  OBVIOUS
<1>0. /\ H \in SUBSET Process /\ IsFiniteSet(Process)
      /\ Cardinality(OpenIn(R)) \in Nat /\ H \subseteq Here(t + 1)
  <2>1. H \in SUBSET Process /\ H \subseteq Here(t + 1)
    BY ServedTypes DEF Here
  <2> QED
    BY <2>1, Finite DEF OpenIn
<1>1. [left |-> R1, total |-> x + Cardinality(OpenIn(R))] \in W[t + 1]
  <2> PICK s : s = [left |-> R, total |-> x]
    OBVIOUS
  <2> DEFINE ready == {p \in OpenIn(R) : arrival_time[p] <= t}
             lefts == IF ready = {} THEN {R} ELSE {[R EXCEPT ![p] = @ - 1] : p \in ready}
  <2>1. OneUnit(s, t) = {[left |-> l, total |-> x + Cardinality(OpenIn(R))] : l \in lefts}
    BY DEF OneUnit, OpenIn
  <2>2. R1 \in lefts
    <3>1. CASE LeastStep(Here(t), R, R1)
      <4>1. PICK p \in Here(t) : R[p] > 0 /\ R1 = [R EXCEPT ![p] = @ - 1]
        BY <3>1 DEF LeastStep
      <4>2. p \in ready
        BY <4>1 DEF Here, OpenIn
      <4> QED
        BY <4>1, <4>2
    <3>2. CASE PauseStep(Here(t), R, R1)
      <4>1. ready = {}
        BY <3>2 DEF Here, OpenIn, PauseStep
      <4> QED
        BY <3>2, <4>1 DEF PauseStep
    <3> QED
      BY <3>1, <3>2
  <2> HIDE DEF lefts
  <2>3. [left |-> R1, total |-> x + Cardinality(OpenIn(R))] \in OneUnit(s, t)
    BY <2>1, <2>2
  <2>4. s \in W[t]
    BY DEF Cheapest
  <2> QED
    BY <2>3, <2>4 DEF Generated
<1>2. ASSUME NEW s1 \in W[t + 1]
      PROVE  /\ Ahead(Process, Here(t + 1), R1, s1.left)
             /\ x + Cardinality(OpenIn(R)) <= s1.total
  <2>1. PICK s \in W[t] : s1 \in OneUnit(s, t)
    BY DEF Generated
  <2>2. s \in States /\ \A p \in Process \ H : s.left[p] = burst_time[p]
    BY OutcomeFacts
  <2>3. /\ AnyStep(H, s.left, s1.left)
        /\ s1.total = s.total + Cardinality(OpenIn(s.left)) /\ s1 \in States
    BY <2>1, <2>2, UnitTypes
  <2> PICK O : O = s.left
    OBVIOUS
  <2> PICK O1 : O1 = s1.left
    OBVIOUS
  <2>4. /\ O \in [Process -> Nat] /\ O1 \in [Process -> Nat] /\ s.total \in Nat
        /\ Ahead(Process, H, R, O) /\ x <= s.total /\ AnyStep(H, O, O1)
    BY <2>2, <2>3 DEF States, Cheapest
  <2>5. \A r \in Process \ H : R[r] = O[r]
    BY <2>2
  <2>6. Ahead(Process, H, R1, O1)
    <3>1. CASE LeastStep(H, R, R1)
      BY ONLY <1>0, <2>4, <2>5, <3>1, R \in [Process -> Nat], Exchange
    <3>2. CASE PauseStep(H, R, R1)
      <4>1. \A r \in Process : R1[r] \in Int /\ O1[r] \in Int /\ R1[r] <= O1[r]
        <5> TAKE r \in Process
        <5>1. R1[r] = R[r] /\ R[r] \in Nat /\ O1[r] \in Nat
          BY <2>4, <3>2 DEF PauseStep
        <5>2. CASE r \in H
          BY <3>2, <5>1, <5>2 DEF PauseStep
        <5>3. CASE r \notin H
          <6>1. O1[r] = O[r]
            BY <2>4, <5>3 DEF AnyStep
          <6> QED
            BY <2>5, <5>1, <5>3, <6>1
        <5> QED
          BY <5>2, <5>3
      <4> QED
        BY ONLY <1>0, <4>1, AheadEach
    <3> QED
      BY <3>1, <3>2
  <2>7. Ahead(Process, Here(t + 1), R1, s1.left)
    BY <1>0, <2>6, AheadMore
  <2>8. Cardinality(OpenIn(R)) <= Cardinality(OpenIn(O)) /\ Cardinality(OpenIn(O)) \in Nat
    <3> PICK A : A = {r \in Process : O[r] = 0}
      OBVIOUS
    <3>1. A \in SUBSET Process /\ \A r \in A : O[r] = 0
      OBVIOUS
    <3>2. Process \ A = OpenIn(O)
      <4>1. \A r \in Process : O[r] \in Nat
        BY <2>4
      <4> QED
        BY <4>1 DEF OpenIn
    <3>3. Cardinality({r \in Process : R[r] > 0}) <= Cardinality(Process \ A)
      BY ONLY <1>0, <2>4, <3>1, R \in [Process -> Nat], AsManyDone
    <3>4. Cardinality(OpenIn(O)) \in Nat
      BY Finite DEF OpenIn
    <3> QED
      BY <3>2, <3>3, <3>4 DEF OpenIn
  <2>9. x + Cardinality(OpenIn(R)) <= s1.total
    BY <1>0, <2>3, <2>4, <2>8
  <2> QED
    BY <2>7, <2>9
<1> QED
  BY <1>1, <1>2 DEF Cheapest

\* What has been spent at time t when R is left and C are the completions.
Wait(R, C, t) == [p \in Process |-> IF R[p] = 0 THEN C[p] ELSE t]

\* A unit of time adds one for everyone who is not done.
LEMMA WaitMore ==
  ASSUME TypeOK, NEW R \in [Process -> Nat], NEW C \in [Process -> Nat], NEW t \in Nat
  PROVE  /\ Sum(Wait(R, C, t), Process) \in Nat
         /\ Sum(Wait(R, C, t + 1), Process)
              = Sum(Wait(R, C, t), Process) + Cardinality(OpenIn(R))
<1> PICK f : f = Wait(R, C, t)
  OBVIOUS
<1> PICK g : g = Wait(R, C, t + 1)
  OBVIOUS
<1> PICK T : T = OpenIn(R)
  OBVIOUS
<1>1. IsFiniteSet(Process) /\ T \in SUBSET Process
  BY Finite DEF OpenIn
<1>2. \A p \in Process : f[p] \in Nat
  BY DEF Wait
<1>3. \A p \in Process : f[p] \in Int /\ g[p] = f[p] + (IF p \in T THEN 1 ELSE 0)
  <2> TAKE p \in Process
  <2>1. R[p] \in Nat /\ C[p] \in Nat /\ (p \in T <=> R[p] > 0)
    BY DEF OpenIn
  <2>2. f[p] = (IF R[p] = 0 THEN C[p] ELSE t) /\ g[p] = (IF R[p] = 0 THEN C[p] ELSE t + 1)
    BY DEF Wait
  <2> QED
    BY <2>1, <2>2
<1>4. Sum(g, Process) = Sum(f, Process) + Cardinality(T)
  BY ONLY <1>1, <1>3, SumBump
<1>5. Sum(f, Process) \in Nat
  BY ONLY <1>1, <1>2, SumNat
<1> QED
  BY <1>4, <1>5

LEMMA SpentIsWait ==
  ASSUME algo # "FIFO"
  PROVE  Spent = Wait(remaining_time, completion_time, current_time)
BY DEF Spent, Wait, Until, Over

\* The inductive invariant: no schedule has spent less than STCF, at any time,
\* nor than SJF when all processes arrive together.
Frugal    == algo = "STCF" \/ (algo = "SJF" /\ Together)
Thrift(W) == Cheapest(W, current_time, remaining_time, Sum(Spent, Process))
LeastInv  == ServedInv /\ (Frugal => \A W : Generated(W) => Thrift(W))

\* A unit of time for the process with the least left.
LEMMA TickThrift ==
  ASSUME LeastInv, algo = "STCF", UNCHANGED <<workload, algo>>,
         NEW p \in Shortest(Ready, remaining_time), Tick(p), NEW W, Generated(W)
  PROVE  Thrift(W)'
<1> USE DEF workload
<1> PICK t : t = current_time
  OBVIOUS
<1> PICK R : R = remaining_time
  OBVIOUS
<1> PICK R1 : R1 = remaining_time'
  OBVIOUS
<1> PICK C : C = completion_time
  OBVIOUS
<1> PICK C1 : C1 = completion_time'
  OBVIOUS
<1>1. /\ ServedInv /\ TypeOK /\ Thrift(W) /\ Process' = Process
      /\ arrival_time' = arrival_time
  BY DEF LeastInv, Frugal, ServedInv, ServiceInv, SchedInv, Process
<1>2. /\ t \in Nat /\ R \in [Process -> Nat] /\ C \in [Process -> Nat]
      /\ \A r \in Process : arrival_time[r] \in Nat
  BY <1>1, ServedTypes DEF TypeOK
<1>3. /\ p \in Process /\ R[p] > 0 /\ arrival_time[p] <= t
      /\ \A r \in Ready : R[p] <= R[r]
  <2>1. p \in Ready /\ \A r \in Ready : R[p] < R[r] \/ R[p] = R[r]
    BY DEF Shortest
  <2>2. \A r \in Ready : R[r] \in Nat
    BY <1>2 DEF Ready, Pending
  <2> QED
    BY <2>1, <2>2 DEF Ready, Pending
<1>4. R1 = [R EXCEPT ![p] = @ - 1] /\ current_time' = t + 1
  BY DEF Tick
<1>5. LeastStep(Here(t), R, R1)
  <2>1. \A r \in Here(t) : R[r] > 0 => r \in Ready
    BY DEF Here, Ready, Pending
  <2>2. p \in Here(t)
    BY <1>3 DEF Here
  <2> QED
    BY <1>3, <1>4, <2>1, <2>2 DEF LeastStep
<1>6. \A r \in Process \ Here(t) : R[r] = burst_time[r]
  <2> TAKE r \in Process \ Here(t)
  <2>1. arrival_time[r] > current_time
    BY <1>2 DEF Here
  <2> QED
    BY <1>1, <2>1, WholeLeft
<1> PICK x : x = Sum(Wait(R, C, t), Process)
  OBVIOUS
<1>7. x \in Nat /\ Sum(Wait(R, C, t + 1), Process) = x + Cardinality(OpenIn(R))
  BY <1>1, <1>2, WaitMore
<1>8. Cheapest(W, t, R, x)
  BY <1>1, SpentIsWait DEF Thrift
<1>9. Cheapest(W, t + 1, R1, x + Cardinality(OpenIn(R)))
  BY <1>1, <1>2, <1>5, <1>6, <1>7, <1>8, UnitLeads
<1>10. Spent' = Wait(R, C, t + 1)
  <2>1. Spent' = [r \in Process |-> IF R1[r] = 0 THEN C1[r] ELSE t + 1]
    BY <1>1, <1>4 DEF Spent, Until, Over
  <2>2. ASSUME NEW r \in Process
        PROVE  (IF R1[r] = 0 THEN C1[r] ELSE t + 1) = (IF R[r] = 0 THEN C[r] ELSE t + 1)
    <3>1. CASE r # p
      <4>1. R1[r] = R[r] /\ C1[r] = C[r]
        BY <1>2, <1>4, <3>1 DEF Tick
      <4> QED
        BY <4>1
    <3>2. CASE r = p
      <4>1. R1[p] = R[p] - 1 /\ R[p] \in Nat
        BY <1>2, <1>3, <1>4
      <4>2. R[p] = 1 => C1[p] = t + 1
        BY <1>2, <1>3 DEF Tick
      <4> QED
        BY <1>3, <3>2, <4>1, <4>2
    <3> QED
      BY <3>1, <3>2
  <2> QED
    BY <2>1, <2>2 DEF Wait
<1>11. Thrift(W)' <=> Cheapest(W, t + 1, R1, Sum(Spent', Process))
  <2>1. \A u : Here(u)' = Here(u)
    BY <1>1 DEF Here
  <2> QED
    BY <1>1, <1>4, <2>1 DEF Thrift, Cheapest
<1> QED
  BY <1>7, <1>9, <1>10, <1>11

\* What SJF has not finished it has not begun.
LEMMA Untouched ==
  ASSUME ServedInv, algo = "SJF", NEW p \in Pending
  PROVE  remaining_time[p] = burst_time[p]
<1>1. TypeOK /\ p \in Process
  BY DEF ServedInv, ServiceInv, SchedInv, Pending
<1>2. /\ burst_time[p] \in Nat /\ remaining_time[p] \in Nat
      /\ remaining_time[p] > 0 /\ remaining_time[p] <= burst_time[p]
  BY <1>1, ServedTypes DEF Pending, ServedInv, ServiceInv, Past
<1>3. start_time[p] = -1
  <2>1. p \in Ran
    BY <1>1, <1>2 DEF Ran
  <2> QED
    BY <2>1 DEF ServedInv, ServiceInv, ShortestFirst
<1>4. ~Began(p) /\ Got(p) = burst_time[p] - remaining_time[p]
  BY <1>3 DEF Began, Got
<1>5. Got(p) = 0
  BY <1>1, <1>4 DEF ServedInv, Share
<1> QED
  BY <1>2, <1>4, <1>5

\* schedule_sjf gives p its whole burst.
SjfRuns(p) ==
  /\ completion_time' = [completion_time EXCEPT ![p] = current_time + burst_time[p]]
  /\ remaining_time' = [remaining_time EXCEPT ![p] = 0]
  /\ current_time' = current_time + burst_time[p]

\* When all have arrived, the shortest burst has the least left at each of its
\* units.
LEMMA SjfThrift ==
  ASSUME LeastInv, algo = "SJF", Together, UNCHANGED <<workload, algo>>,
         NEW p \in Shortest(Ready, burst_time), SjfRuns(p), NEW W, Generated(W)
  PROVE  Thrift(W)'
<1> USE DEF workload
<1> PICK t : t = current_time
  OBVIOUS
<1> PICK R : R = remaining_time
  OBVIOUS
<1> PICK C : C = completion_time
  OBVIOUS
<1> PICK C1 : C1 = completion_time'
  OBVIOUS
<1> PICK d : d = burst_time[p]
  OBVIOUS
<1>1. /\ ServedInv /\ TypeOK /\ Thrift(W) /\ Process' = Process
      /\ arrival_time' = arrival_time /\ algo # "FIFO"
  BY DEF LeastInv, Frugal, ServedInv, ServiceInv, SchedInv, Process
<1>2. /\ t \in Nat /\ R \in [Process -> Nat] /\ C \in [Process -> Nat]
      /\ \A r \in Process : arrival_time[r] \in Nat /\ burst_time[r] \in Nat
  BY <1>1, ServedTypes DEF TypeOK
<1>3. /\ p \in Process /\ R[p] = d /\ d \in Nat /\ d > 0 /\ arrival_time[p] <= t
      /\ \A r \in Pending : d <= R[r]
  <2>1. p \in Ready /\ \A r \in Ready : burst_time[p] < burst_time[r] \/ burst_time[p] = burst_time[r]
    BY DEF Shortest
  <2>2. p \in Pending /\ p \in Process /\ R[p] > 0 /\ arrival_time[p] <= t
    BY <2>1 DEF Ready, Pending
  <2>3. \A r \in Pending : r \in Ready /\ r \in Process /\ R[r] = burst_time[r]
    <3> TAKE r \in Pending
    <3>1. r \in Process
      BY DEF Pending
    <3>2. arrival_time[r] <= current_time
      BY <2>2, <3>1 DEF Together
    <3> QED
      BY <1>1, <3>1, <3>2, Untouched DEF Ready
  <2> QED
    BY <1>2, <2>1, <2>2, <2>3
<1>4. C1 \in [Process -> Nat] /\ C1[p] = t + d /\ \A r \in Process : r # p => C1[r] = C[r]
  BY <1>2, <1>3 DEF SjfRuns
\* R and the total after j of the d units.
<1> DEFINE Rest(j)  == [R EXCEPT ![p] = d - j]
           Still(j) == Cheapest(W, t + j, Rest(j), Sum(Wait(Rest(j), C1, t + j), Process))
           D        == {j \in Nat : j <= d => Still(j)}
<1>5. 0 \in D
  <2>1. Rest(0) = R /\ t + 0 = t
    BY <1>2, <1>3
  <2>2. Wait(R, C1, t) = Wait(R, C, t)
    <3>1. \A r \in Process : (IF R[r] = 0 THEN C1[r] ELSE t) = (IF R[r] = 0 THEN C[r] ELSE t)
      BY <1>3, <1>4
    <3> QED
      BY <3>1 DEF Wait
  <2>3. Cheapest(W, t, R, Sum(Wait(R, C, t), Process))
    BY <1>1, SpentIsWait DEF Thrift
  <2> HIDE DEF Rest
  <2>4. Still(0)
    BY <2>1, <2>2, <2>3
  <2> QED
    BY <2>4
<1>6. ASSUME NEW j \in Nat, j \in D
      PROVE  j + 1 \in D
  <2> SUFFICES ASSUME j + 1 <= d PROVE Still(j + 1)
    <3> HIDE DEF Still
    <3>1. j + 1 \in Nat
      OBVIOUS
    <3> QED
      BY <3>1
  <2> PICK S : S = Rest(j)
    OBVIOUS
  <2> PICK S1 : S1 = Rest(j + 1)
    OBVIOUS
  <2> PICK u : u = t + j
    OBVIOUS
  <2>1. u \in Nat /\ t <= u /\ t + (j + 1) = u + 1 /\ j <= d /\ j + 1 \in Nat
    BY <1>2, <1>3
  <2>2. /\ S \in [Process -> Nat] /\ S1 \in [Process -> Nat]
        /\ S[p] = d - j /\ S1[p] = d - (j + 1)
        /\ \A r \in Process : r # p => S[r] = R[r] /\ S1[r] = R[r]
    BY <1>2, <1>3, <2>1
  <2>3. S1 = [S EXCEPT ![p] = @ - 1]
    <3>1. [S EXCEPT ![p] = @ - 1] \in [Process -> Nat]
      BY <1>3, <2>1, <2>2
    <3>2. \A r \in Process : S1[r] = [S EXCEPT ![p] = @ - 1][r]
      BY <1>3, <2>1, <2>2
    <3> QED
      BY <2>2, <3>1, <3>2
  <2>4. LeastStep(Here(u), S, S1)
    <3>1. p \in Here(u)
      BY <1>2, <1>3, <2>1 DEF Here
    <3>2. S[p] > 0
      BY <1>3, <2>1, <2>2
    <3>3. \A r \in Here(u) : S[r] > 0 => S[p] <= S[r]
      <4> TAKE r \in Here(u)
      <4> HAVE S[r] > 0
      <4>1. r \in Process
        BY DEF Here
      <4>2. CASE r = p
        BY <1>3, <2>2, <4>2
      <4>3. CASE r # p
        <5>1. r \in Pending /\ S[r] = R[r]
          BY <2>2, <4>1, <4>3 DEF Pending
        <5> QED
          BY <1>2, <1>3, <2>1, <2>2, <4>1, <5>1
      <4> QED
        BY <4>2, <4>3
    <3> QED
      BY <2>3, <3>1, <3>2, <3>3 DEF LeastStep
  <2>5. \A r \in Process \ Here(u) : S[r] = burst_time[r]
    <3>1. \A r \in Process : arrival_time[r] = arrival_time[p]
      BY <1>3 DEF Together
    <3> QED
      BY <1>2, <1>3, <2>1, <3>1 DEF Here
  <2> PICK x : x = Sum(Wait(S, C1, u), Process)
    OBVIOUS
  <2>6. x \in Nat /\ Sum(Wait(S, C1, u + 1), Process) = x + Cardinality(OpenIn(S))
    <3> HIDE DEF Rest, Still, D
    <3>1. TypeOK /\ S \in [Process -> Nat] /\ C1 \in [Process -> Nat] /\ u \in Nat
      BY <1>1, <1>4, <2>1, <2>2
    <3>2. x = Sum(Wait(S, C1, u), Process)
      OBVIOUS
    <3> QED
      BY ONLY <3>1, <3>2, WaitMore
  <2>7. Cheapest(W, u, S, x)
    <3> HIDE DEF Rest
    <3> QED
      BY <1>6, <2>1
  <2>8. Cheapest(W, u + 1, S1, x + Cardinality(OpenIn(S)))
    BY <1>1, <2>1, <2>2, <2>4, <2>5, <2>6, <2>7, UnitLeads
  <2>9. Wait(S1, C1, u + 1) = Wait(S, C1, u + 1)
    <3>1. ASSUME NEW r \in Process
          PROVE  (IF S1[r] = 0 THEN C1[r] ELSE u + 1) = (IF S[r] = 0 THEN C1[r] ELSE u + 1)
      <4>1. CASE r # p
        BY <2>2, <4>1
      <4>2. CASE r = p
        BY <1>2, <1>3, <1>4, <2>1, <2>2, <4>2
      <4> QED
        BY <4>1, <4>2
    <3> QED
      BY <3>1 DEF Wait
  <2> HIDE DEF Rest
  <2> QED
    BY <2>1, <2>6, <2>8, <2>9
<1> HIDE DEF Still
<1>7. Nat \subseteq D
  <2> HIDE DEF D
  <2> QED
    BY <1>5, <1>6, NatInduct
<1>8. Still(d)
  BY <1>3, <1>7
<1> PICK R1 : R1 = remaining_time'
  OBVIOUS
<1>9. Rest(d) = R1 /\ current_time' = t + d
  <2>1. d - d = 0
    BY <1>3
  <2>2. R1 = [R EXCEPT ![p] = 0] /\ current_time' = t + d
    BY DEF SjfRuns
  <2> QED
    BY <2>1, <2>2
<1>10. Spent' = Wait(R1, C1, t + d)
  BY <1>1, <1>9 DEF Spent, Until, Over, Wait
<1>11. Thrift(W)' <=> Cheapest(W, t + d, R1, Sum(Spent', Process))
  <2>1. \A u : Here(u)' = Here(u)
    BY <1>1 DEF Here
  <2> QED
    BY <1>1, <1>9, <2>1 DEF Thrift, Cheapest
<1> HIDE DEF Rest
<1> QED
  BY <1>8, <1>9, <1>10, <1>11 DEF Still

\* The clock jumps to the next arrival: every unit until then is a pause.
LEMMA JumpThrift ==
  ASSUME LeastInv, Frugal, UNCHANGED <<workload, process, algo>>, Ready = {},
         NEW t \in next_arrival, current_time' = t, NEW W, Generated(W)
  PROVE  Thrift(W)'
<1> USE DEF workload, process
<1> PICK now : now = current_time
  OBVIOUS
<1> PICK R : R = remaining_time
  OBVIOUS
<1> PICK C : C = completion_time
  OBVIOUS
<1>1. /\ ServedInv /\ TypeOK /\ Thrift(W) /\ Process' = Process
      /\ arrival_time' = arrival_time /\ algo # "FIFO"
  BY DEF LeastInv, Frugal, ServedInv, ServiceInv, SchedInv, Process
<1>2. /\ now \in Nat /\ R \in [Process -> Nat] /\ C \in [Process -> Nat]
      /\ \A r \in Process : arrival_time[r] \in Nat /\ R[r] \in Nat
  BY <1>1, ServedTypes DEF TypeOK
<1>3. /\ t \in Nat /\ t > now /\ \A r \in Pending : t <= arrival_time[r]
  <2>1. \A r \in Pending : r \in Process /\ ~(arrival_time[r] <= now)
    BY DEF Ready, Pending
  <2>2. PICK a \in Pending : t = arrival_time[a] /\ \A r \in Pending : arrival_time[a] <= arrival_time[r]
    BY DEF next_arrival
  <2> QED
    BY <1>2, <2>1, <2>2
<1> DEFINE Still(s) == Cheapest(W, s, R, Sum(Wait(R, C, s), Process))
           D        == {s \in Nat : s <= t - now => Still(now + s)}
<1>4. 0 \in D
  <2>1. Still(now)
    BY <1>1, SpentIsWait DEF Thrift
  <2> QED
    BY <1>2, <2>1
<1>5. ASSUME NEW s \in Nat, s \in D
      PROVE  s + 1 \in D
  <2> SUFFICES ASSUME s + 1 <= t - now PROVE Still(now + (s + 1))
    OBVIOUS
  <2> PICK u : u = now + s
    OBVIOUS
  <2>1. u \in Nat /\ now <= u /\ u < t /\ now + (s + 1) = u + 1
    BY <1>2, <1>3
  <2>2. Still(u)
    BY <1>2, <1>3, <1>5
  <2>3. PauseStep(Here(u), R, R)
    <3>1. \A r \in Here(u) : R[r] = 0
      <4> TAKE r \in Here(u)
      <4>1. r \in Process /\ arrival_time[r] <= u /\ arrival_time[r] \in Nat /\ R[r] \in Nat
        BY <1>2 DEF Here
      <4>2. r \notin Pending
        BY <1>3, <2>1, <4>1
      <4> QED
        BY <4>1, <4>2 DEF Pending
    <3> QED
      BY <3>1 DEF PauseStep
  <2>4. \A r \in Process \ Here(u) : R[r] = burst_time[r]
    <3> TAKE r \in Process \ Here(u)
    <3>1. arrival_time[r] > current_time
      BY <1>2, <2>1 DEF Here
    <3> QED
      BY <1>1, <3>1, WholeLeft
  <2> PICK x : x = Sum(Wait(R, C, u), Process)
    OBVIOUS
  <2>5. x \in Nat /\ Sum(Wait(R, C, u + 1), Process) = x + Cardinality(OpenIn(R))
    BY <1>1, <1>2, <2>1, WaitMore
  <2>6. Cheapest(W, u, R, x)
    BY <2>2
  <2>7. Cheapest(W, u + 1, R, x + Cardinality(OpenIn(R)))
    BY <1>1, <1>2, <2>1, <2>3, <2>4, <2>5, <2>6, UnitLeads
  <2> QED
    BY <2>1, <2>5, <2>7
<1> HIDE DEF Still
<1>6. Nat \subseteq D
  <2> HIDE DEF D
  <2> QED
    BY <1>4, <1>5, NatInduct
<1>7. Still(t)
  <2>1. t - now \in Nat /\ now + (t - now) = t
    BY <1>2, <1>3
  <2>2. t - now \in D
    BY <1>6, <2>1
  <2> QED
    BY <2>1, <2>2
<1>8. Spent' = Wait(R, C, t)
  BY <1>1 DEF Spent, Until, Over, Wait
<1>9. Thrift(W)' <=> Cheapest(W, t, R, Sum(Spent', Process))
  <2>1. \A u : Here(u)' = Here(u)
    BY <1>1 DEF Here
  <2> QED
    BY <1>1, <2>1 DEF Thrift, Cheapest
<1> QED
  BY <1>7, <1>8, <1>9 DEF Still

\* Nothing that the comparison reads has changed.
LEMMA SameThrift ==
  ASSUME LeastInv, Frugal,
         UNCHANGED <<workload, process, current_time, algo>>, NEW W, Generated(W)
  PROVE  Thrift(W)'
<1> USE DEF workload, process
<1>1. Thrift(W) /\ Process' = Process
  BY DEF LeastInv, Process
<1>2. Spent' = Spent
  <2>1. algo # "FIFO" /\ algo' # "FIFO"
    BY DEF Frugal
  <2> QED
    BY <1>1, <2>1 DEF Spent, Until, Over
<1>3. Here(current_time)' = Here(current_time)
  BY <1>1 DEF Here
<1> QED
  BY <1>1, <1>2, <1>3 DEF Thrift, Cheapest

LEMMA InitLeast == InitAlgorithms => LeastInv
<1> SUFFICES ASSUME InitAlgorithms PROVE LeastInv
  OBVIOUS
<1>1. /\ ServedInv /\ TypeOK /\ current_time = 0 /\ remaining_time = burst_time
      /\ \A r \in Process : burst_time[r] \in Nat
  <2>1. ServedInv
    BY InitServed
  <2>2. TypeOK
    BY <2>1 DEF ServedInv, ServiceInv, SchedInv
  <2> QED
    BY <2>1, <2>2, ServedTypes DEF InitAlgorithms
<1>2. IsFiniteSet(Process)
  BY <1>1, Finite
<1>3. ASSUME Frugal, NEW W, Generated(W)
      PROVE  Thrift(W)
  <2>1. Sum(Spent, Process) = 0
    <3>1. \A r \in Process : Spent[r] = 0
      BY <1>1, <1>3 DEF Spent, Until, Over, Frugal, InitAlgorithms
    <3> QED
      BY ONLY <1>2, <3>1, SumZero
  <2>2. W[0] = {[left |-> burst_time, total |-> 0]}
    BY <1>3 DEF Generated
  <2>3. Ahead(Process, Here(0), burst_time, burst_time)
    <3>1. \A r \in Process : burst_time[r] \in Int /\ burst_time[r] <= burst_time[r]
      BY <1>1
    <3> QED
      BY ONLY <1>2, <3>1, AheadEach
  <2> QED
    BY <1>1, <2>1, <2>2, <2>3 DEF Thrift, Cheapest
<1> QED
  BY <1>1, <1>3 DEF LeastInv

LEMMA LeastInvStep ==
  ASSUME LeastInv, [Simulate]_simVars
  PROVE  LeastInv'
<1>1. ServedInv' /\ UNCHANGED <<workload, algo>>
  <2>1. ServedInv'
    BY ServedStep DEF LeastInv
  <2> QED
    BY <2>1 DEF Simulate, schedule_fifo, schedule_sjf, schedule_stcf, Finish, simVars, workload
<1> SUFFICES ASSUME Frugal, NEW W, Generated(W)
             PROVE  Thrift(W)'
  <2>1. \A W : Generated(W)' <=> Generated(W)
    BY <1>1 DEF Generated, OneUnit, Process, workload
  <2>2. Frugal' <=> Frugal
    BY <1>1 DEF Frugal, Together, Process, workload
  <2> QED
    BY <1>1, <2>1, <2>2 DEF LeastInv
<1>2. CASE UNCHANGED simVars
  BY <1>1, <1>2, SameThrift DEF simVars, clock
<1>3. CASE Ready = {} /\ Idle /\ UNCHANGED <<process, completed_count>>
  <2>1. CASE UNCHANGED current_time
    BY <1>1, <1>3, <2>1, SameThrift
  <2>2. ASSUME NEW t \in next_arrival, current_time' = t
        PROVE  Thrift(W)'
    BY <1>1, <1>3, <2>2, JumpThrift
  <2> QED
    BY <1>3, <2>1, <2>2 DEF Idle
<1>4. CASE schedule_stcf
  <2>1. ASSUME NEW p \in Shortest(Ready, remaining_time), Tick(p)
        PROVE  Thrift(W)'
    <3>1. algo = "STCF"
      BY <1>4 DEF schedule_stcf, Looping
    <3> QED
      BY <1>1, <2>1, <3>1, TickThrift
  <2> QED
    BY <1>4, <1>3, <2>1 DEF schedule_stcf
<1>5. CASE schedule_sjf
  <2>1. algo = "SJF" /\ Together
    BY <1>5 DEF schedule_sjf, Looping, Frugal
  <2>2. ASSUME NEW p \in Shortest(Ready, burst_time), SjfRuns(p)
        PROVE  Thrift(W)'
    BY <1>1, <2>1, <2>2, SjfThrift
  <2> QED
    BY <1>3, <1>5, <2>2 DEF schedule_sjf, SjfRuns
<1>6. ASSUME NEW a \in {"FIFO", "SJF", "STCF"}, Finish(a)
      PROVE  Thrift(W)'
  BY <1>1, <1>6, SameThrift DEF Finish
<1> QED
  BY <1>2, <1>4, <1>6, <1>5 DEF Simulate, schedule_fifo, Looping, Frugal

LEMMA LeastInTheEnd ==
  ASSUME LeastInv
  PROVE  LeastTotal
<1> SUFFICES ASSUME Ended, Frugal
             PROVE  LET totals == {s.total : s \in Outcomes[current_time]}
                        mine   == Sum(completion_time, Process)
                    IN mine \in totals /\ \A x \in totals : mine <= x
  BY DEF LeastTotal, Frugal
<1>1. ServedInv /\ Thrift(Outcomes) /\ algo # "FIFO"
  BY OutcomesGenerated DEF LeastInv, Frugal, ServedInv, ServiceInv, SchedInv
<1>2. Sum(Spent, Process) = Sum(completion_time, Process)
  BY <1>1, SpentInTheEnd
<1> QED
  BY <1>1, <1>2 DEF Thrift, Cheapest

\* At no time has any schedule spent less than schedule_stcf, or than
\* schedule_sjf on a workload whose processes arrive together.
THEOREM NoneSpendsLess == SpecAlgorithms => []LeastInv
BY InitLeast, LeastInvStep, PTL DEF SpecAlgorithms

\* What the runs compute holds on every workload: the completion times of STCF
\* add up to the least total of all schedules, and so do those of SJF when all
\* processes arrive together.
THEOREM TheLeastIsReached == SpecAlgorithms => []LeastTotal
<1>1. LeastInv => LeastTotal
  BY LeastInTheEnd
<1> QED
  BY <1>1, NoneSpendsLess, PTL

=============================================================================
