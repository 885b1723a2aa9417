-------------------------- MODULE SchedServedProofs --------------------------
(* What a workload gets, for every workload: the timeline serves each process *)
(* its whole burst, between its start and its completion and never before it  *)
(* arrives.  A process is served in many events, so the proof is about sums:  *)
(* the first section proves what it needs of them, by induction on the number *)
(* of terms.                                                                  *)
EXTENDS SchedProofs, WellFoundedInduction

-----------------------------------------------------------------------------
(* Sums over finite sets.  The induction theorems of the library take an      *)
(* operator; here the induction is over a set of numbers, from the well-      *)
(* foundedness of <.                                                          *)

LEMMA Least ==
  ASSUME NEW T \in SUBSET Nat, T # {}
  PROVE  \E x \in T : \A y \in T : ~ (y < x)
<1>1. IsWellFoundedOn(OpToRel(<,Nat), Nat)
  BY NatLessThanWellFounded
<1>2. \E x \in T : \A y \in T : ~(<<y, x>> \in OpToRel(<,Nat))
  BY <1>1, WFMin
<1> QED
  BY <1>2 DEF OpToRel

LEMMA NatInduct ==
  ASSUME NEW S, 0 \in S, \A k \in Nat : k \in S => k + 1 \in S
  PROVE  Nat \subseteq S
<1>1. SUFFICES ASSUME Nat \ S # {} PROVE FALSE
  OBVIOUS
<1>2. PICK x \in Nat \ S : \A y \in Nat \ S : ~(y < x)
  BY <1>1, Least
<1>3. x # 0 /\ x - 1 \in Nat /\ x - 1 < x
  BY <1>2
<1>4. x - 1 \in S
  BY <1>2, <1>3
<1> QED
  BY <1>2, <1>3, <1>4

\* A set of subsets that has the empty one, and with each subset those with an
\* element more, has them all.
LEMMA SetInduct ==
  ASSUME NEW S, IsFiniteSet(S), NEW D, {} \in D,
         \A T \in D : \A x \in S \ T : T \subseteq S => T \cup {x} \in D
  PROVE  S \in D
<1> DEFINE Done == {k \in Nat : \A T \in SUBSET S : Cardinality(T) <= k => T \in D}
<1>1. /\ Cardinality(S) \in Nat
      /\ \A T \in SUBSET S :
           /\ Cardinality(T) \in Nat
           /\ Cardinality(T) = 0 <=> T = {}
           /\ \A x \in T : Cardinality(T \ {x}) = Cardinality(T) - 1
  BY FS_Subset, FS_CardinalityType, FS_EmptySet, FS_RemoveElement
<1>2. 0 \in Done
  <2>1. \A T \in SUBSET S : Cardinality(T) <= 0 => T = {}
    BY <1>1
  <2> QED
    BY <2>1
<1>3. ASSUME NEW k \in Nat, k \in Done
      PROVE  k + 1 \in Done
  <2> SUFFICES ASSUME NEW T \in SUBSET S, Cardinality(T) <= k + 1
               PROVE  T \in D
    OBVIOUS
  <2>1. CASE T = {}
    BY <2>1
  <2>2. ASSUME NEW x \in T
        PROVE  T \in D
    <3>1. T \ {x} \in SUBSET S /\ Cardinality(T \ {x}) <= k
      BY <1>1
    <3>2. T \ {x} \in D
      BY <1>3, <3>1
    <3>3. (T \ {x}) \cup {x} \in D
      BY <3>1, <3>2
    <3>4. (T \ {x}) \cup {x} = T
      OBVIOUS
    <3> QED
      BY <3>3, <3>4
  <2> QED
    BY <2>1, <2>2
<1>4. Cardinality(S) \in Done
  <2> HIDE DEF Done
  <2> QED
    BY <1>1, <1>2, <1>3, NatInduct
<1> QED
  BY <1>1, <1>4

\* The element a fold takes first.
Pick(S) == CHOOSE x \in S : TRUE

\* What the fold is, element by element, on the subsets of S.
Folds(f, S, g) ==
  g = [T \in SUBSET S |-> IF T = {} THEN 0 ELSE f[Pick(T)] + g[T \ {Pick(T)}]]
Fold(f, S) == CHOOSE g : Folds(f, S, g)

LEMMA SumIsFold == ASSUME NEW f, NEW S PROVE Sum(f, S) = Fold(f, S)[S]
BY DEF Sum, FoldFunctionOnSet, MapThenFoldSet, Fold, Folds, Pick

\* The recursion has a solution on the subsets of a finite set.
LEMMA FoldExists ==
  ASSUME NEW f, NEW S, IsFiniteSet(S)
  PROVE  Folds(f, S, Fold(f, S))
<1> DEFINE Small(k) == {T \in SUBSET S : Cardinality(T) <= k}
           Next(g, T) == IF T = {} THEN 0 ELSE f[Pick(T)] + g[T \ {Pick(T)}]
           Done == {k \in Nat : \E g : g = [T \in Small(k) |-> Next(g, T)]}
<1>1. \A T \in SUBSET S : /\ IsFiniteSet(T) /\ Cardinality(T) \in Nat
                          /\ Cardinality(T) <= Cardinality(S)
                          /\ Cardinality(T) = 0 <=> T = {}
                          /\ \A x \in T : Cardinality(T \ {x}) = Cardinality(T) - 1
  BY FS_Subset, FS_CardinalityType, FS_EmptySet, FS_RemoveElement
<1>2. \A T : T # {} => Pick(T) \in T
  BY DEF Pick
<1>3. 0 \in Done
  <2> DEFINE g == [T \in Small(0) |-> 0]
  <2>1. \A T \in Small(0) : T = {}
    BY <1>1
  <2>2. g = [T \in Small(0) |-> Next(g, T)]
    BY <2>1
  <2> QED
    BY <2>2
<1>4. ASSUME NEW k \in Nat, k \in Done
      PROVE  k + 1 \in Done
  <2>1. PICK g : g = [T \in Small(k) |-> Next(g, T)]
    BY <1>4
  <2> DEFINE h == [T \in Small(k + 1) |-> Next(g, T)]
  <2>2. ASSUME NEW T \in Small(k + 1), T # {}
        PROVE  h[T \ {Pick(T)}] = g[T \ {Pick(T)}]
    <3> DEFINE U == T \ {Pick(T)}
    <3>1. U \in Small(k) /\ U \in Small(k + 1)
      BY <1>1, <1>2, <2>2
    <3>2. h[U] = Next(g, U)
      BY <3>1
    <3>3. g[U] = Next(g, U)
      <4> HIDE DEF Next, Small, U
      <4> QED
        BY <2>1, <3>1
    <3> QED
      BY <3>2, <3>3
  <2>3. h = [T \in Small(k + 1) |-> Next(h, T)]
    <3> HIDE DEF h, Small
    <3>1. \A T \in Small(k + 1) : Next(h, T) = Next(g, T)
      BY <2>2
    <3> HIDE DEF Next
    <3>2. h = [T \in Small(k + 1) |-> Next(g, T)]
      BY DEF h
    <3> QED
      BY <3>1, <3>2
  <2>4. k + 1 \in Nat
    OBVIOUS
  <2> HIDE DEF h, Small, Next
  <2> QED
    BY <2>3, <2>4
<1>5. Cardinality(S) \in Done
  <2> HIDE DEF Done
  <2> QED
    BY <1>1, <1>3, <1>4, NatInduct
<1>6. Small(Cardinality(S)) = SUBSET S
  BY <1>1
<1>7. \E g : Folds(f, S, g)
  <2>1. PICK g : g = [T \in Small(Cardinality(S)) |-> Next(g, T)]
    BY <1>5
  <2> HIDE DEF Small
  <2> QED
    BY <1>6, <2>1 DEF Folds
<1> QED
  BY <1>7 DEF Fold

\* The sum over a smaller set is found in the recursion of the larger.
LEMMA FoldAgrees ==
  ASSUME NEW f, NEW S, IsFiniteSet(S), NEW R \in SUBSET S
  PROVE  Fold(f, S)[R] = Sum(f, R)
<1> DEFINE g == Fold(f, S)
           h == Fold(f, R)
           Done == {k \in Nat : \A T \in SUBSET R : Cardinality(T) <= k => g[T] = h[T]}
<1>1. /\ IsFiniteSet(R) /\ Cardinality(R) \in Nat
      /\ \A T \in SUBSET R : /\ Cardinality(T) \in Nat
                             /\ Cardinality(T) <= Cardinality(R)
                             /\ Cardinality(T) = 0 <=> T = {}
                             /\ \A x \in T : Cardinality(T \ {x}) = Cardinality(T) - 1
  BY FS_Subset, FS_CardinalityType, FS_EmptySet, FS_RemoveElement
<1>2. Folds(f, S, g) /\ Folds(f, R, h)
  BY <1>1, FoldExists
<1> HIDE DEF g, h
<1>3. /\ \A T \in SUBSET R : g[T] = IF T = {} THEN 0 ELSE f[Pick(T)] + g[T \ {Pick(T)}]
      /\ \A T \in SUBSET R : h[T] = IF T = {} THEN 0 ELSE f[Pick(T)] + h[T \ {Pick(T)}]
  BY <1>2 DEF Folds
<1>4. 0 \in Done
  <2>1. g[{}] = 0 /\ h[{}] = 0
    BY <1>3
  <2>2. \A T \in SUBSET R : Cardinality(T) <= 0 => T = {}
    BY <1>1
  <2> QED
    BY <2>1, <2>2
<1>5. ASSUME NEW k \in Nat, k \in Done
      PROVE  k + 1 \in Done
  <2> SUFFICES ASSUME NEW T \in SUBSET R, Cardinality(T) <= k + 1, T # {}
               PROVE  g[T] = h[T]
    <3>1. g[{}] = 0 /\ h[{}] = 0
      BY <1>3
    <3>2. k + 1 \in Nat
      OBVIOUS
    <3> QED
      BY <3>1, <3>2
  <2> DEFINE U == T \ {Pick(T)}
  <2>1. Pick(T) \in T
    BY DEF Pick
  <2>2. U \in SUBSET R /\ Cardinality(U) <= k
    BY <1>1, <2>1
  <2>3. g[U] = h[U]
    BY <1>5, <2>2
  <2>4. g[T] = f[Pick(T)] + g[U] /\ h[T] = f[Pick(T)] + h[U]
    BY <1>3
  <2> QED
    BY <2>3, <2>4
<1>6. Cardinality(R) \in Done
  <2> HIDE DEF Done
  <2> QED
    BY <1>1, <1>4, <1>5, NatInduct
<1>7. g[R] = h[R]
  BY <1>1, <1>6
<1> QED
  BY <1>7, SumIsFold DEF g, h

LEMMA SumUnfolds ==
  ASSUME NEW f, NEW S, IsFiniteSet(S)
  PROVE  /\ Sum(f, {}) = 0
         /\ S # {} => Pick(S) \in S /\ Sum(f, S) = f[Pick(S)] + Sum(f, S \ {Pick(S)})
<1> DEFINE g == Fold(f, S)
<1>1. Folds(f, S, g)
  BY FoldExists
<1>2. \A R \in SUBSET S : g[R] = Sum(f, R)
  BY FoldAgrees
<1> HIDE DEF g
<1>3. \A R \in SUBSET S : g[R] = IF R = {} THEN 0 ELSE f[Pick(R)] + g[R \ {Pick(R)}]
  BY <1>1 DEF Folds
<1>4. S # {} => Pick(S) \in S
  BY DEF Pick
<1> QED
  BY <1>2, <1>3, <1>4

\* A sum of integers is one, and does not depend on the order.
LEMMA SumRemove ==
  ASSUME NEW f, NEW S, IsFiniteSet(S), \A x \in S : f[x] \in Int
  PROVE  /\ Sum(f, S) \in Int
         /\ \A x \in S : Sum(f, S) = f[x] + Sum(f, S \ {x})
<1> DEFINE Good(T) == /\ Sum(f, T) \in Int
                      /\ \A x \in T : Sum(f, T) = f[x] + Sum(f, T \ {x})
           Done == {k \in Nat : \A T \in SUBSET S : Cardinality(T) <= k => Good(T)}
<1>1. /\ Cardinality(S) \in Nat
      /\ \A T \in SUBSET S : /\ IsFiniteSet(T) /\ Cardinality(T) \in Nat
                             /\ Cardinality(T) <= Cardinality(S)
                             /\ Cardinality(T) = 0 <=> T = {}
                             /\ \A x \in T : Cardinality(T \ {x}) = Cardinality(T) - 1
  BY FS_Subset, FS_CardinalityType, FS_EmptySet, FS_RemoveElement
<1>2. Good({})
  <2>1. Sum(f, {}) = 0
    BY SumUnfolds
  <2> QED
    BY <2>1
<1>3. 0 \in Done
  <2>1. \A T \in SUBSET S : Cardinality(T) <= 0 => T = {}
    BY <1>1
  <2> HIDE DEF Good
  <2> QED
    BY <1>2, <2>1
<1>4. ASSUME NEW k \in Nat, k \in Done
      PROVE  k + 1 \in Done
  <2> SUFFICES ASSUME NEW T \in SUBSET S, Cardinality(T) <= k + 1, T # {}
               PROVE  Good(T)
    <3> HIDE DEF Good
    <3> QED
      BY <1>2
  <2> DEFINE y == Pick(T)
  <2>1. /\ y \in T /\ Sum(f, T) = f[y] + Sum(f, T \ {y})
    BY <1>1, SumUnfolds
  <2> HIDE DEF y
  <2>2. \A x \in T : T \ {x} \in SUBSET S /\ Cardinality(T \ {x}) <= k
    BY <1>1
  <2>3. \A x \in T : Good(T \ {x})
    <3> HIDE DEF Good
    <3> QED
      BY <1>4, <2>2
  <2>4. Sum(f, T) \in Int
    BY <2>1, <2>3
  <2>5. ASSUME NEW x \in T, x # y
        PROVE  Sum(f, T) = f[x] + Sum(f, T \ {x})
    <3>1. Sum(f, T \ {y}) = f[x] + Sum(f, (T \ {y}) \ {x})
      BY <2>1, <2>3, <2>5
    <3>2. Sum(f, T \ {x}) = f[y] + Sum(f, (T \ {x}) \ {y})
      BY <2>1, <2>3, <2>5
    <3>3. (T \ {x}) \ {y} = (T \ {y}) \ {x}
      OBVIOUS
    <3>4. f[x] \in Int /\ f[y] \in Int /\ Sum(f, T \ {x}) \in Int
          /\ Sum(f, (T \ {y}) \ {x}) \in Int
      <4>1. Good((T \ {y}) \ {x})
        <5>1. (T \ {y}) \ {x} \in SUBSET S /\ Cardinality((T \ {y}) \ {x}) <= k
          <6>1. T \ {y} \in SUBSET S /\ Cardinality(T \ {y}) <= k /\ x \in T \ {y}
            BY <2>1, <2>2, <2>5
          <6>2. /\ Cardinality((T \ {y}) \ {x}) = Cardinality(T \ {y}) - 1
                /\ Cardinality(T \ {y}) \in Nat
            BY <1>1, <6>1
          <6> QED
            BY <6>1, <6>2
        <5> HIDE DEF Good
        <5> QED
          BY <1>4, <5>1
      <4> QED
        BY <2>1, <2>3, <4>1
    <3>5. Sum(f, T \ {x}) = f[y] + Sum(f, (T \ {y}) \ {x})
      BY <3>2, <3>3
    <3>6. Sum(f, T) = f[y] + Sum(f, T \ {y})
      BY <2>1
    <3> DEFINE a == Sum(f, T)
               b == Sum(f, T \ {y})
               c == Sum(f, (T \ {y}) \ {x})
               d == Sum(f, T \ {x})
               fx == f[x]
               fy == f[y]
    <3>7. a = fy + b /\ b = fx + c /\ d = fy + c /\ fx \in Int /\ fy \in Int /\ c \in Int
      BY <3>1, <3>4, <3>5, <3>6
    <3> HIDE DEF a, b, c, d, fx, fy
    <3>8. a = fx + d
      BY <3>7
    <3> QED
      BY <3>8 DEF a, d, fx
  <2> QED
    BY <2>1, <2>4, <2>5
<1>5. Cardinality(S) \in Done
  <2> HIDE DEF Done
  <2> QED
    BY <1>1, <1>3, <1>4, NatInduct
<1>6. Good(S)
  <2> HIDE DEF Good
  <2> QED
    BY <1>1, <1>5
<1> QED
  BY <1>6

LEMMA SumAdd ==
  ASSUME NEW f, NEW S, IsFiniteSet(S), NEW x, x \notin S, \A y \in S \cup {x} : f[y] \in Int
  PROVE  Sum(f, S \cup {x}) = f[x] + Sum(f, S)
<1>1. IsFiniteSet(S \cup {x}) /\ (S \cup {x}) \ {x} = S
  BY FS_AddElement
<1> QED
  BY <1>1, SumRemove

\* A sum depends on its terms alone.
LEMMA SumSame ==
  ASSUME NEW f, NEW g, NEW S, IsFiniteSet(S), \A x \in S : f[x] \in Int /\ f[x] = g[x]
  PROVE  Sum(f, S) = Sum(g, S)
<1> DEFINE Done == {T \in SUBSET S : Sum(f, T) = Sum(g, T)}
<1>1. {} \in Done
  <2>1. Sum(f, {}) = 0 /\ Sum(g, {}) = 0
    BY SumUnfolds
  <2> QED
    BY <2>1
<1>2. ASSUME NEW T \in Done, NEW x \in S \ T
      PROVE  T \cup {x} \in Done
  <2>1. IsFiniteSet(T) /\ x \notin T /\ T \cup {x} \in SUBSET S
    BY <1>2, FS_Subset
  <2>2. \A y \in T \cup {x} : f[y] \in Int /\ g[y] \in Int
    BY <2>1
  <2>3. Sum(f, T \cup {x}) = f[x] + Sum(f, T)
    BY <2>1, <2>2, SumAdd
  <2>4. Sum(g, T \cup {x}) = g[x] + Sum(g, T)
    BY <2>1, <2>2, SumAdd
  <2>5. Sum(f, T) = Sum(g, T) /\ f[x] = g[x]
    BY <1>2
  <2> QED
    BY <2>1, <2>3, <2>4, <2>5
<1> HIDE DEF Done
<1>3. S \in Done
  BY <1>1, <1>2, SetInduct
<1> QED
  BY <1>3 DEF Done

-----------------------------------------------------------------------------
(* One event.                                                               *)

Duration(tl) == [k \in DOMAIN tl |-> tl[k].duration]
EventsOf(tl, q) == {k \in DOMAIN tl : tl[k].pid = q}

LEMMA Durations ==
  ASSUME NEW tl \in Seq(Events), NEW q
  PROVE  /\ Len(tl) \in Nat /\ DOMAIN tl = 1 .. Len(tl)
         /\ Served(tl, q) = Sum(Duration(tl), EventsOf(tl, q))
         /\ IsFiniteSet(EventsOf(tl, q)) /\ EventsOf(tl, q) \subseteq DOMAIN tl
         /\ \A k \in DOMAIN tl :
              Duration(tl)[k] = tl[k].duration /\ Duration(tl)[k] \in Nat
<1>1. Len(tl) \in Nat /\ DOMAIN tl = 1 .. Len(tl)
  OBVIOUS
<1>2. IsFiniteSet(DOMAIN tl)
  BY <1>1, FS_Interval
<1>3. EventsOf(tl, q) \subseteq DOMAIN tl
  BY DEF EventsOf
<1>4. IsFiniteSet(EventsOf(tl, q))
  BY <1>2, <1>3, FS_Subset
<1>5. \A k \in DOMAIN tl : tl[k].duration \in Nat
  <2>1. \A k \in DOMAIN tl : tl[k] \in Events
    BY <1>1
  <2> QED
    BY <2>1 DEF Events
<1> QED
  BY <1>1, <1>3, <1>4, <1>5 DEF Served, Duration, EventsOf

\* The last event of tl, of p, is extended by d; the others stay.
Merged(tl, new, p, d) ==
  /\ Len(new) = Len(tl) /\ \A k \in 1 .. Len(tl) : k # Len(tl) => new[k] = tl[k]
  /\ new[Len(tl)].pid = p /\ new[Len(tl)].time = tl[Len(tl)].time
  /\ new[Len(tl)].duration = tl[Len(tl)].duration + d

\* An event of the process that ran last extends the last event.
LEMMA EventMerged ==
  ASSUME NEW tl \in Seq(Events), NEW t \in Nat, NEW p \in Process \cup {IDLE}, NEW d \in Nat,
         NEW new, new = add_timeline_event(tl, t, p, d),
         d > 0, Len(tl) < MAX_TIMELINE_EVENTS, tl # << >>, tl[Len(tl)].pid = p
  PROVE  Merged(tl, new, p, d)
<1>1. Len(tl) \in Nat /\ MAX_TIMELINE_EVENTS \in Nat
  BY SchedAssumption
<1>2. new = [tl EXCEPT ![Len(tl)] = [tl[Len(tl)] EXCEPT !.duration = @ + d]]
  BY <1>1 DEF add_timeline_event
<1>3. Len(tl) \in DOMAIN tl /\ tl[Len(tl)] \in Events
  OBVIOUS
<1>4. new[Len(tl)] = [tl[Len(tl)] EXCEPT !.duration = @ + d]
  BY <1>2, <1>3
<1>5. /\ new[Len(tl)].pid = tl[Len(tl)].pid /\ new[Len(tl)].time = tl[Len(tl)].time
      /\ new[Len(tl)].duration = tl[Len(tl)].duration + d
  BY <1>3, <1>4 DEF Events
<1>6. Len(new) = Len(tl) /\ \A k \in 1 .. Len(tl) : k # Len(tl) => new[k] = tl[k]
  BY <1>2
<1> QED
  BY <1>5, <1>6 DEF Merged

\* A dropped event serves nobody; any other serves the process it is of, for
\* its duration, and nobody else.
LEMMA EventServed ==
  ASSUME NEW tl \in Seq(Events), NEW t \in Nat, NEW p \in Process \cup {IDLE}, NEW d \in Nat,
         Len(tl) < MAX_TIMELINE_EVENTS,
         NEW new, new = add_timeline_event(tl, t, p, d), NEW q
  PROVE  Served(new, q) = Served(tl, q) + (IF q = p THEN d ELSE 0)
<1> DEFINE len == Len(tl)
           f == Duration(tl)
           g == Duration(new)
           S == EventsOf(tl, q)
<1>1. new \in Seq(Events)
  <2>1. d \in Int
    OBVIOUS
  <2> QED
    BY <2>1, EventAdded
<1>2. /\ len \in Nat /\ DOMAIN tl = 1 .. len /\ Served(tl, q) = Sum(f, S)
      /\ IsFiniteSet(S) /\ S \subseteq DOMAIN tl
      /\ \A k \in DOMAIN tl : f[k] = tl[k].duration /\ f[k] \in Nat
  BY Durations
<1>3. /\ Len(new) \in Nat /\ DOMAIN new = 1 .. Len(new) /\ Served(new, q) = Sum(g, EventsOf(new, q))
      /\ \A k \in DOMAIN new : g[k] = new[k].duration /\ g[k] \in Nat
  BY <1>1, Durations
<1>4. \A T \in SUBSET S : Sum(f, T) \in Int
  <2> TAKE T \in SUBSET S
  <2>1. IsFiniteSet(T) /\ \A k \in T : f[k] \in Int
    BY <1>2, FS_Subset
  <2> HIDE DEF f
  <2> QED
    BY <2>1, SumRemove
<1> HIDE DEF f, g
<1>5. CASE d = 0 /\ new = tl
  BY <1>2, <1>4, <1>5
<1>6. CASE /\ d > 0 /\ tl # << >> /\ tl[len].pid = p
           /\ Len(new) = len /\ new[len].pid = p
           /\ new[len].duration = tl[len].duration + d
           /\ \A k \in 1 .. len : k # len => new[k] = tl[k]
  <2>1. DOMAIN new = DOMAIN tl /\ len \in DOMAIN tl
    <3>1. Len(new) = len /\ len # 0
      BY <1>6
    <3> QED
      BY <1>2, <1>3, <3>1
  <2>2. EventsOf(new, q) = S
    BY <1>2, <1>6, <2>1 DEF EventsOf
  <2>3. \A k \in S \ {len} : g[k] = f[k] /\ f[k] \in Int
    <3>1. \A k \in S \ {len} : k \in DOMAIN tl /\ new[k] = tl[k]
      BY <1>2, <1>6
    <3> QED
      BY <1>2, <1>3, <2>1, <3>1
  <2>4. IsFiniteSet(S \ {len})
    BY <1>2, FS_Subset
  <2>5. Sum(g, S \ {len}) = Sum(f, S \ {len})
    <3> HIDE DEF S, len
    <3> QED
      BY <2>3, <2>4, SumSame
  <2>6. CASE q = p
    <3>1. len \in S
      BY <1>6, <2>1, <2>6 DEF EventsOf
    <3>2. Sum(f, S) = f[len] + Sum(f, S \ {len})
      <4>1. \A k \in S : f[k] \in Int
        BY <1>2
      <4>2. IsFiniteSet(S)
        BY <1>2
      <4> HIDE DEF S, len
      <4> QED
        BY <3>1, <4>1, <4>2, SumRemove
    <3>3. Sum(g, S) = g[len] + Sum(g, S \ {len})
      <4>1. \A k \in S : g[k] \in Int
        BY <1>2, <1>3, <2>1
      <4>2. IsFiniteSet(S)
        BY <1>2
      <4> HIDE DEF S, len
      <4> QED
        BY <3>1, <4>1, <4>2, SumRemove
    <3>4. g[len] = f[len] + d /\ f[len] \in Int /\ Sum(f, S \ {len}) \in Int
      <4>1. g[len] = new[len].duration /\ f[len] = tl[len].duration /\ f[len] \in Nat
        BY <1>2, <1>3, <2>1
      <4>2. new[len].duration = tl[len].duration + d
        BY <1>6
      <4>3. Sum(f, S \ {len}) \in Int
        BY <1>4
      <4> QED
        BY <4>1, <4>2, <4>3
    <3> HIDE DEF S, len
    <3> QED
      BY <1>2, <1>3, <2>2, <2>5, <2>6, <3>2, <3>3, <3>4
  <2>7. CASE q # p
    <3>1. len \notin S
      BY <1>6, <2>7 DEF EventsOf
    <3>2. S \ {len} = S
      BY <3>1
    <3>3. Sum(f, S) \in Int
      BY <1>4
    <3>4. Served(new, q) = Sum(g, S) /\ Served(tl, q) = Sum(f, S)
      BY <1>2, <1>3, <2>2
    <3>5. Sum(g, S) = Sum(f, S)
      BY <2>5, <3>2
    <3> HIDE DEF S, len
    <3> QED
      BY <2>7, <3>3, <3>4, <3>5
  <2> QED
    BY <2>6, <2>7
<1>7. CASE /\ d > 0 /\ Len(new) = len + 1 /\ new[len + 1] = Event(t, p, d)
           /\ \A k \in 1 .. len : new[k] = tl[k]
  <2>1. /\ DOMAIN new = 1 .. len + 1 /\ len + 1 \in DOMAIN new /\ len + 1 \notin DOMAIN tl
        /\ DOMAIN tl \subseteq DOMAIN new /\ DOMAIN new = DOMAIN tl \cup {len + 1}
    BY <1>2, <1>3, <1>7
  <2>2. new[len + 1].pid = p /\ g[len + 1] = d
    BY <1>3, <1>7, <2>1 DEF Event
  <2>3. \A k \in S : g[k] = f[k] /\ f[k] \in Int /\ g[k] \in Int
    BY <1>2, <1>3, <1>7, <2>1
  <2>4. Sum(g, S) = Sum(f, S) /\ Sum(f, S) \in Int
    <3>1. Sum(f, S) \in Int
      BY <1>4
    <3> HIDE DEF S
    <3>2. Sum(f, S) = Sum(g, S)
      BY <1>2, <2>3, SumSame
    <3> QED
      BY <3>1, <3>2
  <2>5. CASE q = p
    <3>1. EventsOf(new, q) = S \cup {len + 1}
      BY <1>2, <1>7, <2>1, <2>2, <2>5 DEF EventsOf
    <3>2. len + 1 \notin S /\ \A k \in S \cup {len + 1} : g[k] \in Int
      BY <1>2, <2>1, <2>2, <2>3
    <3>3. Sum(g, S \cup {len + 1}) = g[len + 1] + Sum(g, S)
      <4> HIDE DEF S, len
      <4> QED
        BY <1>2, <3>2, SumAdd
    <3> HIDE DEF S, len
    <3> QED
      BY <1>2, <1>3, <2>2, <2>4, <2>5, <3>1, <3>3
  <2>6. CASE q # p
    <3>1. EventsOf(new, q) = S
      BY <1>2, <1>7, <2>1, <2>2, <2>6 DEF EventsOf
    <3> HIDE DEF S, len
    <3> QED
      BY <1>2, <1>3, <2>4, <2>6, <3>1
  <2> QED
    BY <2>5, <2>6
<1>8. CASE d > 0 /\ tl # << >> /\ tl[len].pid = p
  <2>1. Merged(tl, new, p, d)
    BY <1>8, EventMerged
  <2> QED
    BY <1>6, <1>8, <2>1, Zenon DEF Merged
<1>9. CASE ~(d > 0 /\ tl # << >> /\ tl[len].pid = p)
  <2>1. MAX_TIMELINE_EVENTS \in Nat
    BY SchedAssumption
  <2> QED
    BY <1>2, <1>5, <1>7, <1>9, <2>1, EventCases
<1> QED
  BY <1>8, <1>9

\* Only the events of p change: one is added at t or extended, up to t + d.
Grown(tl, new, t, p, d) ==
  \A k \in 1 .. Len(new) :
    \/ k \in 1 .. Len(tl) /\ new[k] = tl[k]
    \/ /\ d > 0 /\ new[k].pid = p /\ EndOf(new[k]) = t + d
       /\ \/ new[k].time = t
          \/ k \in 1 .. Len(tl) /\ tl[k].pid = p /\ tl[k].time = new[k].time

LEMMA EventSeen ==
  ASSUME NEW tl \in Seq(Events), NEW t \in Nat, NEW p \in Process \cup {IDLE}, NEW d \in Nat,
         NEW new, new = add_timeline_event(tl, t, p, d),
         Len(tl) < MAX_TIMELINE_EVENTS, Contiguous(tl, t)
  PROVE  Grown(tl, new, t, p, d)
<1> SUFFICES ASSUME NEW k \in 1 .. Len(new)
             PROVE  \/ k \in 1 .. Len(tl) /\ new[k] = tl[k]
                    \/ /\ d > 0 /\ new[k].pid = p /\ EndOf(new[k]) = t + d
                       /\ \/ new[k].time = t
                          \/ k \in 1 .. Len(tl) /\ tl[k].pid = p /\ tl[k].time = new[k].time
  BY DEF Grown
<1> DEFINE len == Len(tl)
<1>0. len \in Nat /\ MAX_TIMELINE_EVENTS \in Nat
  BY SchedAssumption
<1>1. CASE d > 0 /\ tl # << >> /\ tl[len].pid = p
  <2>1. /\ Len(new) = len /\ \A j \in 1 .. len : j # len => new[j] = tl[j]
        /\ new[len].pid = p /\ new[len].time = tl[len].time
        /\ new[len].duration = tl[len].duration + d
    <3>1. Merged(tl, new, p, d)
      BY <1>1, EventMerged
    <3> QED
      BY <3>1 DEF Merged
  <2>2. k \in 1 .. len
    BY <2>1
  <2>3. CASE k # len
    BY <2>1, <2>2, <2>3
  <2>4. CASE k = len
    <3>1. tl[len] \in Events
      BY <1>0, <2>2, <2>4
    <3>2. tl[len].time \in Nat /\ tl[len].duration \in Nat
      BY <3>1 DEF Events
    <3>3. EndOf(tl[len]) = t
      BY <1>1 DEF Contiguous
    <3>4. EndOf(new[len]) = t + d
      BY <2>1, <3>2, <3>3 DEF EndOf
    <3> QED
      BY <1>1, <2>1, <2>2, <2>4, <3>4
  <2> QED
    BY <2>3, <2>4
<1>2. CASE ~(d > 0 /\ tl # << >> /\ tl[len].pid = p)
  <2>1. \/ new = tl
        \/ /\ d > 0 /\ Len(new) = len + 1 /\ new[len + 1] = Event(t, p, d)
           /\ \A j \in 1 .. len : new[j] = tl[j]
    BY <1>0, <1>2, EventCases
  <2>2. CASE new = tl
    BY <2>2
  <2>3. CASE /\ d > 0 /\ Len(new) = len + 1 /\ new[len + 1] = Event(t, p, d)
             /\ \A j \in 1 .. len : new[j] = tl[j]
    <3>1. CASE k \in 1 .. len
      BY <2>3, <3>1
    <3>2. CASE k = len + 1
      <4>1. new[k] = Event(t, p, d)
        BY <2>3, <3>2
      <4>2. new[k].pid = p /\ new[k].time = t /\ EndOf(new[k]) = t + d
        BY <4>1 DEF Event, EndOf
      <4> QED
        BY <2>3, <4>2
    <3>3. k \in 1 .. len \/ k = len + 1
      BY <1>0, <2>3
    <3> QED
      BY <3>1, <3>2, <3>3
  <2> QED
    BY <2>1, <2>2, <2>3
<1> QED
  BY <1>1, <1>2

-----------------------------------------------------------------------------
(* The inductive invariant: what each process has got so far.               *)

Got(p)   == IF algo = "FIFO" THEN (IF p <= completed_count THEN burst_time[p] ELSE 0)
                             ELSE burst_time[p] - remaining_time[p]
Began(p) == IF algo = "FIFO" THEN p <= completed_count ELSE start_time[p] # -1
Over(p)  == IF algo = "FIFO" THEN p <= completed_count ELSE remaining_time[p] = 0
Until(p) == IF Over(p) THEN completion_time[p] ELSE current_time

\* A process has got nothing before it has begun, and what it has got fits
\* between its start and its end, or now.
Share(p) ==
  /\ ~Began(p) => Got(p) = 0
  /\ Began(p) => /\ arrival_time[p] <= start_time[p]
                 /\ start_time[p] + Got(p) <= Until(p)
                 /\ Until(p) <= current_time

\* The timeline says the same.
Seen(p) ==
  HasRoom =>
    /\ Served(timeline, p) = Got(p)
    /\ \A k \in 1 .. Len(timeline) : timeline[k].pid = p =>
         Began(p) /\ start_time[p] <= timeline[k].time /\ EndOf(timeline[k]) <= Until(p)

AllOver == Ended => \A p \in Ran : Over(p)

ServedInv == /\ ServiceInv
             /\ \A p \in Process : Share(p)
             /\ \A p \in Process : Seen(p)
             /\ AllOver

\* The quantities the invariant compares are numbers.
LEMMA ServedTypes ==
  ASSUME TypeOK
  PROVE  /\ current_time \in Nat /\ timeline \in Seq(Events) /\ n \in Nat
         /\ completed_count \in Nat /\ Len(timeline) \in Nat /\ IDLE \notin Process
         /\ MAX_TIMELINE_EVENTS \in Nat /\ Process \subseteq Nat \ {0}
         /\ \A p \in Process : /\ arrival_time[p] \in Nat /\ burst_time[p] \in Nat
                               /\ remaining_time[p] \in Nat /\ start_time[p] \in Int
                               /\ completion_time[p] \in Nat /\ Got(p) \in Int
                               /\ Until(p) \in Nat
<1>1. /\ current_time \in Nat /\ timeline \in Seq(Events) /\ n \in Nat
      /\ completed_count \in Nat /\ Len(timeline) \in Nat /\ IDLE \notin Process
      /\ MAX_TIMELINE_EVENTS \in Nat /\ Process \subseteq Nat \ {0}
  BY SchedAssumption DEF TypeOK, Process, IDLE
<1>2. \A p \in Process : /\ arrival_time[p] \in Nat /\ burst_time[p] \in Nat
                         /\ remaining_time[p] \in Nat /\ start_time[p] \in Int
                         /\ completion_time[p] \in Nat
  BY DEF TypeOK, Times
<1>3. \A p \in Process : Got(p) \in Int /\ Until(p) \in Nat
  BY <1>1, <1>2 DEF Got, Until
<1> QED
  BY <1>1, <1>2, <1>3

LEMMA InitServed == InitAlgorithms => ServedInv
<1> SUFFICES ASSUME InitAlgorithms PROVE ServedInv
  OBVIOUS
<1>1. ServiceInv /\ TypeOK
  BY InitService DEF ServiceInv, SchedInv
<1>2. timeline = << >> /\ completed_count = 0 /\ pc = "loop" /\ remaining_time = burst_time
  BY DEF InitAlgorithms
<1>3. ASSUME NEW p \in Process
      PROVE  Share(p) /\ Seen(p)
  <2>1. ~Began(p) /\ Got(p) = 0
    BY <1>1, <1>2, ServedTypes DEF Began, Got, InitAlgorithms
  <2>2. Served(timeline, p) = 0
    <3>1. EventsOf(timeline, p) = {}
      BY <1>2 DEF EventsOf
    <3>2. Sum(Duration(timeline), {}) = 0
      BY FS_EmptySet, SumUnfolds
    <3> QED
      BY <1>1, <3>1, <3>2, ServedTypes, Durations
  <2> QED
    BY <1>2, <2>1, <2>2 DEF Share, Seen
<1> QED
  BY <1>1, <1>2, <1>3 DEF ServedInv, AllOver, Ended

\* A step that ends at the end of its event keeps what the timeline says of
\* the others: those whose share it does not change.
LEMMA OthersSeen ==
  ASSUME TypeOK, TimelineContiguous, Process' = Process,
         NEW p \in Process \cup {IDLE}, NEW d \in Nat, Record(current_time, p, d),
         NEW q \in Process, q # p, Seen(q),
         Got(q)' = Got(q), Began(q)' <=> Began(q), start_time'[q] = start_time[q],
         Until(q) <= Until(q)', Until(q)' \in Nat
  PROVE  Seen(q)'
<1> SUFFICES ASSUME HasRoom' PROVE /\ (Served(timeline, q) = Got(q))'
                                   /\ (\A k \in 1 .. Len(timeline) : timeline[k].pid = q =>
                                         /\ Began(q) /\ start_time[q] <= timeline[k].time
                                         /\ EndOf(timeline[k]) <= Until(q))'
  BY DEF Seen
<1>1. /\ timeline \in Seq(Events) /\ current_time \in Nat /\ Len(timeline) \in Nat
      /\ MAX_TIMELINE_EVENTS \in Nat /\ start_time[q] \in Int /\ Got(q) \in Int
      /\ Until(q) \in Nat
  BY ServedTypes
<1>2. timeline' = add_timeline_event(timeline, current_time, p, d)
  BY DEF Record
<1>3. Len(timeline) <= Len(timeline') /\ timeline' \in Seq(Events)
  <2>1. d \in Int
    OBVIOUS
  <2> QED
    BY <1>1, <1>2, <2>1, EventAdded
<1>4. Len(timeline) < MAX_TIMELINE_EVENTS /\ Contiguous(timeline, current_time)
  BY <1>1, <1>3 DEF HasRoom, TimelineContiguous
<1>5. /\ Served(timeline, q) = Got(q)
      /\ \A k \in 1 .. Len(timeline) : timeline[k].pid = q =>
           Began(q) /\ start_time[q] <= timeline[k].time /\ EndOf(timeline[k]) <= Until(q)
  BY <1>4 DEF Seen, HasRoom
<1>0. /\ timeline \in Seq(Events) /\ current_time \in Nat /\ p \in Process \cup {IDLE}
      /\ d \in Nat /\ Len(timeline) < MAX_TIMELINE_EVENTS
      /\ Contiguous(timeline, current_time)
      /\ timeline' = add_timeline_event(timeline, current_time, p, d)
  BY <1>1, <1>2, <1>4
<1>6. Served(timeline', q) = Served(timeline, q) + 0
  <2>1. Served(timeline', q) = Served(timeline, q) + (IF q = p THEN d ELSE 0)
    BY ONLY <1>0, EventServed
  <2> QED
    BY <2>1
<1>7. ASSUME NEW k \in 1 .. Len(timeline'), timeline'[k].pid = q
      PROVE  Began(q)' /\ start_time'[q] <= timeline'[k].time /\ EndOf(timeline'[k]) <= Until(q)'
  <2>1. k \in 1 .. Len(timeline) /\ timeline'[k] = timeline[k]
    <3>1. Grown(timeline, timeline', current_time, p, d)
      BY <1>0, EventSeen
    <3> QED
      BY <1>7, <3>1 DEF Grown
  <2>2. timeline[k] \in Events
    BY <1>1, <2>1
  <2>3. EndOf(timeline[k]) \in Int
    BY <2>2 DEF Events, EndOf
  <2>4. Began(q) /\ start_time[q] <= timeline[k].time /\ EndOf(timeline[k]) <= Until(q)
    BY <1>5, <1>7, <2>1
  <2>5. EndOf(timeline[k]) <= Until(q)'
    BY <1>1, <2>3, <2>4
  <2> QED
    BY <2>1, <2>4, <2>5
<1>8. Served(timeline', q) = Got(q)'
  BY <1>1, <1>5, <1>6
<1> QED
  BY <1>7, <1>8 DEF Served, EndOf

\* And of the process that runs: it gets d more, from its start on.
LEMMA RunnerSeen ==
  ASSUME TypeOK, TimelineContiguous, Process' = Process,
         NEW p \in Process, NEW d \in Nat, Record(current_time, p, d),
         Seen(p), Share(p), Got(p) \in Nat, Got(p)' = Got(p) + d, Began(p)',
         Began(p) => start_time'[p] = start_time[p],
         ~Began(p) => start_time'[p] = current_time,
         Until(p) <= current_time, Until(p)' = current_time + d
  PROVE  Seen(p)'
<1> SUFFICES ASSUME HasRoom' PROVE /\ (Served(timeline, p) = Got(p))'
                                   /\ (\A k \in 1 .. Len(timeline) : timeline[k].pid = p =>
                                         /\ Began(p) /\ start_time[p] <= timeline[k].time
                                         /\ EndOf(timeline[k]) <= Until(p))'
  BY DEF Seen
<1>1. /\ timeline \in Seq(Events) /\ current_time \in Nat /\ Len(timeline) \in Nat
      /\ MAX_TIMELINE_EVENTS \in Nat /\ start_time[p] \in Int /\ Got(p) \in Int
      /\ Until(p) \in Nat /\ arrival_time[p] \in Nat
  BY ServedTypes
<1>2. timeline' = add_timeline_event(timeline, current_time, p, d)
  BY DEF Record
<1>3. Len(timeline) <= Len(timeline') /\ timeline' \in Seq(Events)
  <2>1. d \in Int
    OBVIOUS
  <2> QED
    BY <1>1, <1>2, <2>1, EventAdded
<1>4. Len(timeline) < MAX_TIMELINE_EVENTS /\ Contiguous(timeline, current_time)
  BY <1>1, <1>3 DEF HasRoom, TimelineContiguous
<1>5. /\ Served(timeline, p) = Got(p)
      /\ \A k \in 1 .. Len(timeline) : timeline[k].pid = p =>
           Began(p) /\ start_time[p] <= timeline[k].time /\ EndOf(timeline[k]) <= Until(p)
  BY <1>4 DEF Seen, HasRoom
<1>6. Served(timeline', p) = Served(timeline, p) + d
  BY <1>1, <1>2, <1>4, EventServed
<1>7. start_time'[p] <= current_time
  <2>1. CASE Began(p)
    <3>1. start_time[p] + Got(p) <= Until(p)
      BY <2>1 DEF Share
    <3> QED
      BY <1>1, <2>1, <3>1
  <2>2. CASE ~Began(p)
    BY <1>1, <2>2
  <2> QED
    BY <2>1, <2>2
<1>8. ASSUME NEW k \in 1 .. Len(timeline'), timeline'[k].pid = p
      PROVE  start_time'[p] <= timeline'[k].time /\ EndOf(timeline'[k]) <= current_time + d
  <2>1. \/ k \in 1 .. Len(timeline) /\ timeline'[k] = timeline[k]
        \/ /\ EndOf(timeline'[k]) = current_time + d
           /\ \/ timeline'[k].time = current_time
              \/ k \in 1 .. Len(timeline) /\ timeline[k].pid = p
                   /\ timeline[k].time = timeline'[k].time
    <3>1. Grown(timeline, timeline', current_time, p, d)
      BY <1>1, <1>2, <1>4, EventSeen
    <3> QED
      BY <3>1 DEF Grown
  <2>2. CASE k \in 1 .. Len(timeline) /\ timeline'[k] = timeline[k]
    <3>1. timeline[k] \in Events
      BY <1>1, <2>2
    <3>2. EndOf(timeline[k]) \in Int
      BY <3>1 DEF Events, EndOf
    <3>3. Began(p) /\ start_time[p] <= timeline[k].time /\ EndOf(timeline[k]) <= Until(p)
      BY <1>5, <1>8, <2>2
    <3> QED
      BY <1>1, <2>2, <3>2, <3>3
  <2>3. CASE EndOf(timeline'[k]) = current_time + d /\ timeline'[k].time = current_time
    BY <1>1, <1>7, <2>3
  <2>4. CASE /\ EndOf(timeline'[k]) = current_time + d
             /\ k \in 1 .. Len(timeline) /\ timeline[k].pid = p
             /\ timeline[k].time = timeline'[k].time
    <3>1. Began(p) /\ start_time[p] <= timeline[k].time
      BY <1>5, <2>4
    <3> QED
      BY <1>1, <2>4, <3>1
  <2> QED
    BY <2>1, <2>2, <2>3, <2>4
<1>9. Served(timeline', p) = Got(p)'
  BY <1>1, <1>5, <1>6
<1> QED
  BY <1>8, <1>9 DEF Served, EndOf

-----------------------------------------------------------------------------
(* Each step keeps it.                                                      *)

\* SJF and STCF: a ready process runs for d units, to its end or not.
LEMMA RunServed ==
  ASSUME ServedInv, algo # "FIFO", UNCHANGED <<workload, algo>>,
         NEW p \in Ready, NEW d \in Nat, 0 < d, d <= remaining_time[p],
         Record(current_time, p, d), current_time' = current_time + d,
         remaining_time'[p] = remaining_time[p] - d,
         start_time'[p] = IF start_time[p] = -1 THEN current_time ELSE start_time[p],
         d = remaining_time[p] => completion_time'[p] = current_time + d,
         \A q \in Process : q # p => /\ remaining_time'[q] = remaining_time[q]
                                     /\ start_time'[q] = start_time[q]
                                     /\ completion_time'[q] = completion_time[q]
  PROVE  \A q \in Process' : Share(q)' /\ Seen(q)'
<1> USE DEF workload
<1>1. /\ TypeOK /\ TimelineContiguous /\ Process' = Process
      /\ p \in Process /\ remaining_time[p] > 0 /\ arrival_time[p] <= current_time
      /\ \A q \in Process : remaining_time[q] <= burst_time[q]
  BY DEF ServedInv, ServiceInv, SchedInv, Past, Process, Ready, Pending
<1>2. \A q \in Process : Share(q) /\ Seen(q)
  BY DEF ServedInv
<1>3. /\ current_time \in Nat
      /\ \A q \in Process : /\ arrival_time[q] \in Nat /\ burst_time[q] \in Nat
                            /\ remaining_time[q] \in Nat /\ start_time[q] \in Int
                            /\ completion_time[q] \in Nat /\ Got(q) \in Int
                            /\ Until(q) \in Nat
  BY <1>1, ServedTypes
<1>4. ASSUME NEW q \in Process, q # p
      PROVE  Share(q)' /\ Seen(q)'
  <2>1. /\ Got(q)' = Got(q) /\ (Began(q)' <=> Began(q)) /\ start_time'[q] = start_time[q]
        /\ Over(q)' <=> Over(q)
    BY <1>4 DEF Got, Began, Over
  <2>2. Until(q) <= Until(q)' /\ Until(q)' \in Nat /\ (Began(q) => Until(q)' <= current_time')
    <3>1. Began(q) => Until(q) <= current_time
      BY <1>2 DEF Share
    <3>2. CASE Over(q)
      <4>1. Until(q) = completion_time[q] /\ Until(q)' = completion_time[q]
        BY <1>4, <2>1, <3>2 DEF Until
      <4> QED
        BY <1>3, <3>1, <4>1
    <3>3. CASE ~Over(q)
      <4>1. Until(q) = current_time /\ Until(q)' = current_time'
        BY <2>1, <3>3 DEF Until
      <4> QED
        BY <1>3, <4>1
    <3> QED
      BY <3>2, <3>3
  <2>3. Seen(q)'
    <3>1. p \in Process \cup {IDLE} /\ Seen(q)
      BY <1>1, <1>2
    <3> QED
      BY <1>1, <1>4, <2>1, <2>2, <3>1, OthersSeen
  <2>4. Share(q)'
    <3>1. Share(q) /\ arrival_time' = arrival_time
      BY <1>2
    <3> QED
      BY <1>3, <1>4, <2>1, <2>2, <3>1 DEF Share
  <2> QED
    BY <2>3, <2>4
<1>5. Share(p)' /\ Seen(p)'
  <2>1. /\ Got(p) = burst_time[p] - remaining_time[p]
        /\ Got(p)' = burst_time[p] - remaining_time'[p]
    BY DEF Got
  <2>2. Got(p) \in Nat /\ Got(p)' = Got(p) + d
    BY <1>1, <1>3, <2>1
  <2>3. Began(p)' /\ (Began(p) => start_time'[p] = start_time[p])
        /\ (~Began(p) => start_time'[p] = current_time)
    BY <1>3 DEF Began
  <2>4. Until(p) = current_time
    BY <1>1 DEF Until, Over
  <2>5. Until(p)' = current_time + d
    <3>1. CASE d = remaining_time[p]
      <4>1. Over(p)' /\ completion_time'[p] = current_time + d
        BY <1>1, <1>3, <3>1 DEF Over
      <4> QED
        BY <4>1 DEF Until
    <3>2. CASE d # remaining_time[p]
      <4>1. ~Over(p)'
        BY <1>1, <1>3, <3>2 DEF Over
      <4> QED
        BY <4>1 DEF Until
    <3> QED
      BY <3>1, <3>2
  <2>6. Seen(p)'
    BY <1>1, <1>2, <1>3, <2>2, <2>3, <2>4, <2>5, RunnerSeen
  <2>7. Share(p)'
    <3>1. /\ Began(p) => arrival_time[p] <= start_time[p] /\ start_time[p] + Got(p) <= Until(p)
          /\ ~Began(p) => Got(p) = 0
      BY <1>1, <1>2 DEF Share
    <3>2. start_time'[p] + Got(p)' <= current_time + d
      BY <1>1, <1>3, <2>2, <2>3, <2>4, <3>1
    <3>3. arrival_time[p] <= start_time'[p] /\ arrival_time' = arrival_time
      BY <1>1, <1>3, <2>3, <3>1
    <3>4. Until(p)' <= current_time'
      BY <1>3, <2>5
    <3> QED
      BY <2>3, <2>5, <3>2, <3>3, <3>4 DEF Share
  <2> QED
    BY <2>6, <2>7
<1> QED
  BY <1>1, <1>4, <1>5

\* Idle time serves nobody.
LEMMA IdleServed ==
  ASSUME ServedInv, algo # "FIFO", Ready = {}, Idle,
         UNCHANGED <<workload, process, completed_count, algo>>
  PROVE  \A q \in Process' : Share(q)' /\ Seen(q)'
<1> USE DEF workload, process
<1>1. TypeOK /\ TimelineContiguous /\ Process' = Process
  BY DEF ServedInv, ServiceInv, SchedInv, Process
<1>2. /\ current_time \in Nat /\ IDLE \notin Process
      /\ \A q \in Process : /\ arrival_time[q] \in Nat /\ start_time[q] \in Int
                            /\ completion_time[q] \in Nat /\ Got(q) \in Int
                            /\ Until(q) \in Nat
  BY <1>1, ServedTypes
<1>3. SUFFICES ASSUME NEW q \in Process
               PROVE  Share(q)' /\ Seen(q)'
  BY <1>1
<1>4. /\ Got(q)' = Got(q) /\ (Began(q)' <=> Began(q)) /\ (Over(q)' <=> Over(q))
      /\ start_time'[q] = start_time[q]
  BY DEF Got, Began, Over
<1>5. Share(q) /\ Seen(q)
  BY DEF ServedInv
<1>6. CASE UNCHANGED <<current_time, timeline>>
  <2>1. Until(q)' = Until(q)
    BY <1>4, <1>6 DEF Until
  <2>2. Share(q)'
    BY <1>4, <1>5, <1>6, <2>1 DEF Share
  <2>3. Seen(q)'
    BY <1>4, <1>5, <1>6, <2>1 DEF Seen, HasRoom, Served, EndOf
  <2> QED
    BY <2>2, <2>3
<1>7. ASSUME NEW t \in next_arrival, Record(current_time, IDLE, t - current_time),
             current_time' = t
      PROVE  Share(q)' /\ Seen(q)'
  <2>1. t \in Nat /\ t - current_time \in Nat
    <3>1. PICK a \in Pending : t = arrival_time[a]
      BY <1>7 DEF next_arrival
    <3>2. a \in Process /\ ~(arrival_time[a] <= current_time)
      BY <3>1 DEF Ready, Pending
    <3> QED
      BY <1>2, <3>1, <3>2
  <2>2. Until(q) <= Until(q)' /\ Until(q)' \in Nat /\ (Began(q) => Until(q)' <= current_time')
    <3>1. Began(q) => Until(q) <= current_time
      BY <1>5 DEF Share
    <3>2. CASE Over(q)
      <4>1. Until(q) = completion_time[q] /\ Until(q)' = completion_time[q]
        BY <1>4, <3>2 DEF Until
      <4> QED
        BY <1>2, <1>7, <2>1, <3>1, <4>1
    <3>3. CASE ~Over(q)
      <4>1. Until(q) = current_time /\ Until(q)' = current_time'
        BY <1>4, <3>3 DEF Until
      <4> QED
        BY <1>2, <1>7, <2>1, <4>1
    <3> QED
      BY <3>2, <3>3
  <2>3. Seen(q)'
    <3>1. IDLE \in Process \cup {IDLE} /\ q # IDLE
      BY <1>2
    <3>2. Until(q) <= Until(q)' /\ Until(q)' \in Nat
      BY <2>2
    <3> DEFINE d == t - current_time
    <3>3. d \in Nat /\ Record(current_time, IDLE, d)
      BY <1>7, <2>1
    <3> HIDE DEF d
    <3> QED
      BY <1>1, <1>4, <1>5, <3>1, <3>2, <3>3, OthersSeen
  <2>4. Share(q)'
    BY <1>2, <1>4, <1>5, <2>2 DEF Share
  <2> QED
    BY <2>3, <2>4
<1> QED
  BY <1>6, <1>7 DEF Idle

\* FIFO: the next process of the workload, after the gap.
LEMMA FifoServed ==
  ASSUME ServedInv, schedule_fifo
  PROVE  ServedInv'
<1> PICK p : p = completed_count + 1
  OBVIOUS
<1> DEFINE begins == IF current_time < arrival_time[p] THEN arrival_time[p] ELSE current_time
           gap    == add_timeline_event(timeline, current_time, IDLE, begins - current_time)
           d      == begins - current_time
<1>1. /\ ServiceInv' /\ TypeOK /\ TimelineContiguous /\ algo = "FIFO" /\ algo' = "FIFO"
      /\ UNCHANGED <<n, arrival_time, burst_time, remaining_time, pc>> /\ pc = "loop"
      /\ Process' = Process
  BY FifoService DEF ServedInv, ServiceInv, SchedInv, schedule_fifo, Looping, workload, Process
<1>2. /\ current_time \in Nat /\ timeline \in Seq(Events) /\ completed_count \in Nat
      /\ Len(timeline) \in Nat /\ IDLE \notin Process /\ MAX_TIMELINE_EVENTS \in Nat
      /\ \A q \in Process : /\ arrival_time[q] \in Nat /\ burst_time[q] \in Nat
                            /\ start_time[q] \in Int /\ completion_time[q] \in Nat
                            /\ Got(q) \in Int /\ q \in Nat
  BY <1>1, ServedTypes
<1>3. p \in Process /\ burst_time[p] \in Nat /\ arrival_time[p] \in Nat
  BY <1>1, <1>2, SchedAssumption DEF TypeOK, schedule_fifo, Process
<1>4. /\ timeline' = add_timeline_event(gap, begins, p, burst_time[p])
      /\ start_time' = [start_time EXCEPT ![p] = begins]
      /\ completion_time' = [completion_time EXCEPT ![p] = begins + burst_time[p]]
      /\ current_time' = begins + burst_time[p] /\ completed_count' = p
  BY Zenon DEF schedule_fifo
<1>5. /\ begins \in Nat /\ d \in Nat /\ current_time <= begins /\ arrival_time[p] <= begins
      /\ current_time + d = begins /\ gap = add_timeline_event(timeline, current_time, IDLE, d)
  BY <1>2, <1>3
<1>6. p # completed_count /\ ~(p <= completed_count)
      /\ \A q \in Process : q # p => (q <= p <=> q <= completed_count)
  BY <1>2
<1> HIDE DEF begins, gap, d
<1>7. /\ start_time'[p] = begins /\ completion_time'[p] = begins + burst_time[p]
      /\ \A q \in Process : q # p => /\ start_time'[q] = start_time[q]
                                     /\ completion_time'[q] = completion_time[q]
  BY <1>1, <1>3, <1>4 DEF TypeOK
<1>8. /\ gap \in Seq(Events) /\ Len(timeline) <= Len(gap) /\ Len(gap) \in Nat
      /\ Len(gap) < MAX_TIMELINE_EVENTS /\ Contiguous(timeline, current_time)
           => Contiguous(gap, begins)
  <2>1. d \in Int /\ d >= 0 /\ IDLE \in Process \cup {IDLE}
    BY <1>5
  <2> QED
    BY <1>2, <1>5, <2>1, EventAdded
<1>9. timeline' \in Seq(Events) /\ Len(gap) <= Len(timeline')
  <2>1. burst_time[p] \in Int /\ p \in Process \cup {IDLE}
    BY <1>3
  <2> QED
    BY <1>4, <1>5, <1>8, <2>1, EventAdded
<1>10. \A q \in Process : Share(q) /\ Seen(q)
  BY DEF ServedInv
<1>11. \A q \in Process : /\ Began(q) <=> q <= completed_count
                          /\ Over(q) <=> q <= completed_count
                          /\ Began(q)' <=> q <= p
                          /\ Over(q)' <=> q <= p
  BY <1>1, <1>4 DEF Began, Over
<1>12. /\ \A q \in Process : q # p => Got(q)' = Got(q)
       /\ Got(p) = 0 /\ Got(p)' = burst_time[p]
  BY <1>1, <1>2, <1>3, <1>4, <1>6 DEF Got
<1>13. ASSUME NEW q \in Process
       PROVE  Share(q)'
  <2>1. Until(q)' = IF q <= p THEN completion_time'[q] ELSE current_time'
    BY <1>11 DEF Until
  <2>2. CASE q = p
    <3>1. Until(p)' = begins + burst_time[p] /\ Began(p)'
      BY <1>2, <1>7, <1>11, <2>1, <2>2
    <3> QED
      BY <1>1, <1>2, <1>3, <1>4, <1>5, <1>7, <1>12, <2>2, <3>1 DEF Share
  <2>3. CASE q # p /\ q <= p
    <3>1. Began(q) /\ Until(q) = completion_time[q] /\ Until(q)' = completion_time[q]
      BY <1>6, <1>7, <1>11, <2>1, <2>3 DEF Until
    <3>2. /\ arrival_time[q] <= start_time[q] /\ start_time[q] + Got(q) <= completion_time[q]
          /\ completion_time[q] <= current_time
      BY <1>10, <3>1 DEF Share
    <3>3. completion_time[q] <= current_time'
      BY <1>2, <1>3, <1>4, <1>5, <3>2
    <3>4. Began(q)'
      BY <1>11, <2>3
    <3> QED
      BY <1>1, <1>7, <1>12, <2>3, <3>1, <3>2, <3>3, <3>4 DEF Share
  <2>4. CASE ~(q <= p)
    <3>1. ~Began(q) /\ ~Began(q)' /\ q # p
      BY <1>2, <1>3, <1>6, <1>11, <2>4
    <3> QED
      BY <1>10, <1>12, <3>1 DEF Share
  <2> QED
    BY <2>2, <2>3, <2>4
<1>14. ASSUME NEW q \in Process, HasRoom'
       PROVE  /\ Served(timeline', q) = Got(q)'
              /\ \A k \in 1 .. Len(timeline') : timeline'[k].pid = q =>
                   /\ Began(q)' /\ start_time'[q] <= timeline'[k].time
                   /\ EndOf(timeline'[k]) <= Until(q)'
  <2>1. /\ Len(timeline) < MAX_TIMELINE_EVENTS /\ Len(gap) < MAX_TIMELINE_EVENTS
        /\ HasRoom /\ Contiguous(timeline, current_time) /\ Contiguous(gap, begins)
    BY <1>1, <1>2, <1>8, <1>9, <1>14 DEF HasRoom, TimelineContiguous
  <2>2. Grown(timeline, gap, current_time, IDLE, d)
    <3>1. IDLE \in Process \cup {IDLE}
      OBVIOUS
    <3> QED
      BY <1>2, <1>5, <2>1, <3>1, EventSeen
  <2>3. Grown(gap, timeline', begins, p, burst_time[p])
    <3>1. p \in Process \cup {IDLE}
      BY <1>3
    <3> QED
      BY <1>3, <1>4, <1>5, <1>8, <2>1, <3>1, EventSeen
  <2>4. Served(gap, q) = Served(timeline, q) + (IF q = IDLE THEN d ELSE 0)
    <3>1. IDLE \in Process \cup {IDLE}
      OBVIOUS
    <3> QED
      BY <1>2, <1>5, <2>1, <3>1, EventServed
  <2>5. Served(timeline', q) = Served(gap, q) + (IF q = p THEN burst_time[p] ELSE 0)
    <3>1. p \in Process \cup {IDLE}
      BY <1>3
    <3> QED
      BY <1>3, <1>4, <1>5, <1>8, <2>1, <3>1, EventServed
  <2>6. /\ Served(timeline, q) = Got(q)
        /\ \A k \in 1 .. Len(timeline) : timeline[k].pid = q =>
             Began(q) /\ start_time[q] <= timeline[k].time /\ EndOf(timeline[k]) <= Until(q)
    BY <1>10, <2>1 DEF Seen
  <2>7. Served(timeline', q) = Got(q)'
    <3>1. q # IDLE /\ Got(q) \in Int /\ burst_time[p] \in Nat
      BY <1>2, <1>3
    <3>2. Served(gap, q) = Got(q)
      BY <2>4, <2>6, <3>1
    <3>3. CASE q = p
      BY <1>12, <2>5, <3>1, <3>2, <3>3
    <3>4. CASE q # p
      BY <1>12, <2>5, <3>1, <3>2, <3>4
    <3> QED
      BY <3>3, <3>4
  <2>8. ASSUME NEW k \in 1 .. Len(gap), gap[k].pid = q
        PROVE  k \in 1 .. Len(timeline) /\ timeline[k].pid = q /\ gap[k] = timeline[k]
    BY <1>2, <2>2, <2>8 DEF Grown
  <2>9. ASSUME NEW k \in 1 .. Len(timeline'), timeline'[k].pid = q
        PROVE  /\ Began(q)' /\ start_time'[q] <= timeline'[k].time
               /\ EndOf(timeline'[k]) <= Until(q)'
    <3>1. CASE q = p
      <4>1. ~\E j \in 1 .. Len(gap) : gap[j].pid = p
        BY <1>3, <1>6, <1>11, <2>6, <2>8, <3>1
      <4>2. timeline'[k].time = begins /\ EndOf(timeline'[k]) = begins + burst_time[p]
        BY <2>3, <2>9, <3>1, <4>1 DEF Grown
      <4>3. Began(p)' /\ Until(p)' = begins + burst_time[p]
        BY <1>2, <1>3, <1>7, <1>11 DEF Until
      <4> QED
        BY <1>3, <1>5, <1>7, <3>1, <4>2, <4>3
    <3>2. CASE q # p
      <4>1. k \in 1 .. Len(gap) /\ timeline'[k] = gap[k]
        BY <2>3, <2>9, <3>2 DEF Grown
      <4>2. k \in 1 .. Len(timeline) /\ timeline[k].pid = q /\ timeline'[k] = timeline[k]
        BY <2>8, <2>9, <4>1
      <4>3. Began(q) /\ start_time[q] <= timeline[k].time /\ EndOf(timeline[k]) <= Until(q)
        BY <2>6, <4>2
      <4>4. Began(q)' /\ Until(q)' = Until(q)
        BY <1>6, <1>7, <1>11, <3>2, <4>3 DEF Until
      <4> QED
        BY <1>7, <3>2, <4>2, <4>3, <4>4
    <3> QED
      BY <3>1, <3>2
  <2> QED
    BY <2>7, <2>9
<1>15. \A q \in Process : Seen(q)'
  BY <1>14 DEF Seen, Served, EndOf
<1>16. AllOver'
  BY <1>1 DEF AllOver, Ended
<1> QED
  BY <1>1, <1>13, <1>15, <1>16 DEF ServedInv

\* When no arrival is left nobody is pending.
LEMMA NoArrival ==
  ASSUME TypeOK, next_arrival = {}
  PROVE  Pending = {}
<1> SUFFICES ASSUME Pending # {} PROVE FALSE
  OBVIOUS
<1> DEFINE T == {arrival_time[q] : q \in Pending}
<1>1. Pending \subseteq Process /\ \A q \in Process : arrival_time[q] \in Nat
  BY ServedTypes DEF Pending
<1>2. T \in SUBSET Nat /\ T # {}
  BY <1>1
<1>3. PICK x \in T : \A y \in T : ~(y < x)
  <2> HIDE DEF T
  <2> QED
    BY <1>2, Least
<1>4. PICK q \in Pending : x = arrival_time[q]
  BY <1>3
<1>5. \A r \in Pending : arrival_time[q] <= arrival_time[r]
  <2> TAKE r \in Pending
  <2>1. ~(arrival_time[r] < arrival_time[q])
    BY <1>3, <1>4
  <2>2. arrival_time[r] \in Nat /\ arrival_time[q] \in Nat
    BY <1>1
  <2> QED
    BY <2>1, <2>2
<1> QED
  BY <1>5 DEF next_arrival

LEMMA NothingLeft ==
  ASSUME TypeOK, algo # "FIFO", Pending = {}
  PROVE  \A q \in Process : Over(q)
<1>1. \A q \in Process : remaining_time[q] \in Nat /\ ~(remaining_time[q] > 0)
  BY ServedTypes DEF Pending
<1> QED
  BY <1>1 DEF Over

LEMMA SjfServed ==
  ASSUME ServedInv, schedule_sjf
  PROVE  ServedInv'
<1>1. /\ ServiceInv' /\ TypeOK /\ algo = "SJF" /\ algo # "FIFO" /\ pc = "loop"
      /\ UNCHANGED <<workload, algo>> /\ Process' = Process
  BY SjfService DEF ServedInv, ServiceInv, SchedInv, schedule_sjf, Looping, workload, Process
<1>2. CASE Ready = {} /\ Idle /\ UNCHANGED <<process, completed_count>>
  <2>1. \A q \in Process' : Share(q)' /\ Seen(q)'
    BY <1>1, <1>2, IdleServed
  <2>2. AllOver'
    <3>1. CASE pc' # "end"
      BY <3>1 DEF AllOver, Ended
    <3>2. CASE next_arrival = {}
      <4>1. \A q \in Process : Over(q)
        BY <1>1, <3>2, NoArrival, NothingLeft
      <4> QED
        BY <1>1, <1>2, <4>1 DEF AllOver, Over, Ran, process, workload
    <3> QED
      BY <1>1, <1>2, <3>1, <3>2 DEF Idle
  <2> QED
    BY <1>1, <2>1, <2>2 DEF ServedInv
<1>3. ASSUME NEW p \in Shortest(Ready, burst_time),
             start_time' = [start_time EXCEPT ![p] = IF @ = -1 THEN current_time ELSE @],
             completion_time' = [completion_time EXCEPT ![p] = current_time + burst_time[p]],
             remaining_time' = [remaining_time EXCEPT ![p] = 0],
             Record(current_time, p, burst_time[p]),
             current_time' = current_time + burst_time[p],
             UNCHANGED pc
      PROVE  ServedInv'
  <2>1. p \in Ready /\ p \in Process /\ p \in Pending
    BY <1>3 DEF Shortest, Ready, Pending
  <2>2. /\ current_time \in Nat /\ burst_time[p] \in Nat /\ remaining_time[p] \in Nat
        /\ remaining_time[p] > 0 /\ remaining_time[p] <= burst_time[p]
    BY <1>1, <2>1, ServedTypes DEF Pending, ServedInv, ServiceInv, Past
  <2>3. remaining_time[p] = burst_time[p]
    <3>1. p \in Ran
      BY <2>1, <2>2 DEF Ran
    <3>2. start_time[p] = -1
      BY <1>1, <2>1, <3>1 DEF ServedInv, ServiceInv, ShortestFirst
    <3>3. ~Began(p) /\ Got(p) = burst_time[p] - remaining_time[p]
      BY <1>1, <3>2 DEF Began, Got
    <3>4. Got(p) = 0
      BY <2>1, <3>3 DEF ServedInv, Share
    <3> QED
      BY <2>2, <3>3, <3>4
  <2>4. /\ remaining_time'[p] = remaining_time[p] - burst_time[p]
        /\ start_time'[p] = IF start_time[p] = -1 THEN current_time ELSE start_time[p]
        /\ completion_time'[p] = current_time + burst_time[p]
        /\ \A q \in Process : q # p => /\ remaining_time'[q] = remaining_time[q]
                                       /\ start_time'[q] = start_time[q]
                                       /\ completion_time'[q] = completion_time[q]
    BY <1>1, <1>3, <2>1, <2>2, <2>3 DEF TypeOK
  <2>5. burst_time[p] \in Nat /\ 0 < burst_time[p] /\ burst_time[p] <= remaining_time[p]
    BY <2>2, <2>3
  <2>6. \A q \in Process' : Share(q)' /\ Seen(q)'
    BY <1>1, <1>3, <2>1, <2>4, <2>5, RunServed
  <2>7. AllOver'
    BY <1>1, <1>3 DEF AllOver, Ended
  <2> QED
    BY <1>1, <2>6, <2>7 DEF ServedInv
<1> QED
  BY <1>2, <1>3 DEF schedule_sjf

LEMMA StcfServed ==
  ASSUME ServedInv, schedule_stcf
  PROVE  ServedInv'
<1>1. /\ ServiceInv' /\ TypeOK /\ algo = "STCF" /\ algo # "FIFO" /\ pc = "loop"
      /\ UNCHANGED <<workload, algo>> /\ Process' = Process
  BY StcfService DEF ServedInv, ServiceInv, SchedInv, schedule_stcf, Looping, workload, Process
<1>2. CASE Ready = {} /\ Idle /\ UNCHANGED <<process, completed_count>>
  <2>1. \A q \in Process' : Share(q)' /\ Seen(q)'
    BY <1>1, <1>2, IdleServed
  <2>2. AllOver'
    <3>1. CASE pc' # "end"
      BY <3>1 DEF AllOver, Ended
    <3>2. CASE next_arrival = {}
      <4>1. \A q \in Process : Over(q)
        BY <1>1, <3>2, NoArrival, NothingLeft
      <4> QED
        BY <1>1, <1>2, <4>1 DEF AllOver, Over, Ran, process, workload
    <3> QED
      BY <1>1, <1>2, <3>1, <3>2 DEF Idle
  <2> QED
    BY <1>1, <2>1, <2>2 DEF ServedInv
<1>3. ASSUME NEW p \in Shortest(Ready, remaining_time), Tick(p), UNCHANGED pc
      PROVE  ServedInv'
  <2>1. p \in Ready /\ p \in Process /\ p \in Pending
    BY <1>3 DEF Shortest, Ready, Pending
  <2>2. remaining_time[p] \in Nat /\ remaining_time[p] > 0 /\ current_time \in Nat
    BY <1>1, <2>1, ServedTypes DEF Pending
  <2>3. /\ remaining_time'[p] = remaining_time[p] - 1
        /\ start_time'[p] = IF start_time[p] = -1 THEN current_time ELSE start_time[p]
        /\ \A q \in Process : q # p => /\ remaining_time'[q] = remaining_time[q]
                                       /\ start_time'[q] = start_time[q]
        /\ Record(current_time, p, 1) /\ current_time' = current_time + 1
    BY <1>1, <1>3, <2>1 DEF Tick, TypeOK
  <2>4. /\ 1 = remaining_time[p] => completion_time'[p] = current_time + 1
        /\ \A q \in Process : q # p => completion_time'[q] = completion_time[q]
    <3>1. CASE remaining_time[p] = 1
      BY <1>1, <1>3, <2>1, <3>1 DEF Tick, TypeOK
    <3>2. CASE remaining_time[p] # 1
      BY <1>3, <3>2 DEF Tick
    <3> QED
      BY <3>1, <3>2
  <2>5. 1 \in Nat /\ 0 < 1 /\ 1 <= remaining_time[p]
    BY <2>2
  <2>6. \A q \in Process' : Share(q)' /\ Seen(q)'
    BY <1>1, <2>1, <2>3, <2>4, <2>5, RunServed
  <2>7. AllOver'
    BY <1>1, <1>3 DEF AllOver, Ended
  <2> QED
    BY <1>1, <2>6, <2>7 DEF ServedInv
<1> QED
  BY <1>2, <1>3 DEF schedule_stcf

\* The loop ends when every process has been counted.
LEMMA FinishServed ==
  ASSUME ServedInv, NEW a \in {"FIFO", "SJF", "STCF"}, Finish(a)
  PROVE  ServedInv'
<1>1. /\ timeline' = timeline /\ TypeOK /\ Process' = Process /\ algo' = algo
      /\ UNCHANGED <<workload, process, current_time, completed_count>> /\ completed_count = n
  BY DEF Finish, Record, add_timeline_event, ServedInv, ServiceInv, SchedInv, workload, Process
<1>2. ServiceInv'
  BY ServiceStep DEF ServedInv, Simulate
<1>3. ASSUME NEW q \in Process
      PROVE  Share(q)' /\ Seen(q)'
  <2>1. Share(q) /\ Seen(q)
    BY DEF ServedInv
  <2>2. /\ Got(q)' = Got(q) /\ (Began(q)' <=> Began(q)) /\ Until(q)' = Until(q)
    BY <1>1 DEF Got, Began, Until, Over, workload, process
  <2> QED
    BY <1>1, <2>1, <2>2 DEF Share, Seen, HasRoom, Served, EndOf, workload, process
<1>4. \A q \in Process : Over(q)
  <2>1. CASE algo = "FIFO"
    BY <1>1, <2>1 DEF Over, Process
  <2>2. CASE algo # "FIFO"
    <3>1. Pending \in SUBSET Process
      BY DEF Pending
    <3>2. IsFiniteSet(Pending) /\ Cardinality(Pending) \in Nat /\ n \in Nat
      BY <1>1, <3>1, Finite
    <3>3. completed_count + Cardinality(Pending) <= n
      BY <2>2 DEF ServedInv, ServiceInv, Counting
    <3>4. Cardinality(Pending) = 0
      BY <1>1, <3>2, <3>3
    <3>5. Pending = {}
      BY <3>2, <3>4, FS_EmptySet
    <3> QED
      BY <1>1, <2>2, <3>5, NothingLeft
  <2> QED
    BY <2>1, <2>2
<1>5. AllOver'
  BY <1>1, <1>4 DEF AllOver, Over, Ran, workload, process
<1> QED
  BY <1>1, <1>2, <1>3, <1>5 DEF ServedInv

LEMMA ServedStep ==
  ASSUME ServedInv, [Simulate]_simVars
  PROVE  ServedInv'
<1>1. CASE UNCHANGED simVars
  <2>1. ServiceInv'
    BY <1>1, ServiceStep DEF ServedInv
  <2>2. /\ Process' = Process /\ Ran' = Ran
        /\ \A q : /\ Got(q)' = Got(q) /\ (Began(q)' <=> Began(q)) /\ Until(q)' = Until(q)
                  /\ (Over(q)' <=> Over(q))
    BY <1>1 DEF simVars, workload, process, clock, Process, Ran, Got, Began, Until, Over
  <2>3. \A q \in Process : Share(q)' /\ Seen(q)'
    BY <1>1, <2>2 DEF ServedInv, Share, Seen, HasRoom, Served, EndOf, simVars, workload,
       process, clock
  <2>4. AllOver'
    BY <1>1, <2>2 DEF ServedInv, AllOver, Ended, simVars
  <2> QED
    BY <2>1, <2>2, <2>3, <2>4 DEF ServedInv
<1> QED
  BY <1>1, FifoServed, SjfServed, StcfServed, FinishServed DEF Simulate

\* With room for two events per process nothing is dropped.
LEMMA ServedIsServed ==
  ASSUME ServedInv, 2 * MAX_PROCESSES < MAX_TIMELINE_EVENTS
  PROVE  EveryoneServed
<1> SUFFICES ASSUME Ended, NEW p \in Ran
             PROVE  /\ Served(timeline, p) = burst_time[p]
                    /\ arrival_time[p] <= start_time[p]
                    /\ start_time[p] + burst_time[p] <= completion_time[p]
                    /\ \A k \in 1 .. Len(timeline) : timeline[k].pid = p =>
                         /\ start_time[p] <= timeline[k].time
                         /\ EndOf(timeline[k]) <= completion_time[p]
  BY DEF EveryoneServed
<1>1. TypeOK /\ EventsBounded /\ p \in Process
  BY ServiceIsBounded DEF ServedInv, ServiceInv, SchedInv, Ran
<1>2. HasRoom
  BY <1>1, SchedAssumption DEF TypeOK, EventsBounded, HasRoom
<1>3. Share(p) /\ Seen(p) /\ Over(p)
  BY <1>1 DEF ServedInv, AllOver
<1>4. burst_time[p] \in Nat /\ burst_time[p] > 0 /\ remaining_time[p] \in Nat
  BY <1>1, ServedTypes DEF Ran
<1>5. Got(p) = burst_time[p] /\ Until(p) = completion_time[p]
  BY <1>3, <1>4 DEF Got, Over, Until
<1>6. Began(p)
  BY <1>3, <1>4, <1>5 DEF Share
<1> QED
  BY <1>2, <1>3, <1>5, <1>6 DEF Share, Seen

-----------------------------------------------------------------------------
(* The theorems.                                                            *)

\* At every step of the three algorithms the timeline, the counters and the
\* recorded times agree on what each process has got so far.
THEOREM ServedInvariance == SpecAlgorithms => []ServedInv
BY ServedStep, InitServed, PTL DEF SpecAlgorithms

\* With room for two events per process, as in scheduler.h, schedule_fifo,
\* schedule_sjf and schedule_stcf give each process its whole burst, between
\* its start and its completion and never before it arrives.
THEOREM AllAreServed ==
  ASSUME 2 * MAX_PROCESSES < MAX_TIMELINE_EVENTS
  PROVE  SpecAlgorithms => []EveryoneServed
<1>1. ServedInv => EveryoneServed
  BY ServedIsServed
<1> QED
  BY <1>1, ServedInvariance, PTL

=============================================================================
