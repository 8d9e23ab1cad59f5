-------------------------- MODULE StaleSweepProofs --------------------------
(***************************************************************************)
(* Which sources that still fail may be swept, for any loops, intervals    *)
(* and window, however many suspensions, restarts and settings changes     *)
(* there are and however they fall: none whose interval and a cycle fit    *)
(* between two ticks of the sweep; of the others only those in doubt.      *)
(***************************************************************************)
EXTENDS StaleSweep, FiniteSetTheorems, WellFoundedInduction, TLAPS

TypeOK ==
  /\ interval \in [Collectors -> Intervals]
  /\ failing \in [Collectors -> BOOLEAN]
  /\ open \in [Collectors -> BOOLEAN]
  /\ age \in [Collectors -> Nat]
  /\ timer \in [Collectors -> Nat]
  /\ cycle \in [Collectors -> Nat \cup {Idle}]
  /\ sweepTimer \in 0..Every
  /\ sinceTick \in {Never} \cup 0..GapCap
  /\ grace \in Nat
  /\ slow \subseteq Collectors /\ doubt \subseteq Collectors

----------------------------------------------------------------------------
(* Lemmas                                                                  *)

\* Every finite set of integers but the empty one has a largest member.
LEMMA LargestExists ==
  ASSUME NEW S \in SUBSET Int, IsFiniteSet(S), S # {}
  PROVE  \E m \in S : \A x \in S : m >= x
<1> DEFINE Without(T) == T \in SUBSET S /\ T # {} /\ ~ \E m \in T : \A x \in T : m >= x
           N == {n \in Nat : \E T \in SUBSET S : Without(T) /\ Cardinality(T) = n}
<1> SUFFICES ASSUME Without(S) PROVE FALSE
  OBVIOUS
<1>1. \A T \in SUBSET S : IsFiniteSet(T) /\ Cardinality(T) \in Nat
  BY FS_Subset, FS_CardinalityType
<1>2. N \subseteq Nat /\ N # {}
  BY <1>1
<1>3. PICK n \in N : \A k \in N : ~ (<<k, n>> \in OpToRel(<, Nat))
  BY <1>2, WFMin, NatLessThanWellFounded
<1>4. \A k \in N : k >= n
  <2> TAKE k \in N
  <2>1. k \in Nat /\ n \in Nat
    BY <1>2
  <2>2. ~ (k < n)
    <3>1. <<k, n>> \notin OpToRel(<, Nat)
      BY <1>3
    <3>2. <<k, n>> \in Nat \X Nat
      BY <2>1
    <3> QED
      BY <3>1, <3>2 DEF OpToRel
  <2> QED
    BY <2>1, <2>2
<1>5. PICK T \in SUBSET S : Without(T) /\ Cardinality(T) = n
  BY <1>3
<1>6. PICK a \in T : TRUE
  BY <1>5
<1> DEFINE U == T \ {a}
<1>7. U \in SUBSET S /\ Cardinality(U) = n - 1 /\ n \in Nat /\ Cardinality(U) \in Nat
  BY <1>1, <1>2, <1>5, <1>6, FS_RemoveElement
<1>8. ~Without(U)
  <2> HIDE DEF U, Without
  <2> SUFFICES ASSUME Without(U) PROVE FALSE
    OBVIOUS
  <2>1. Cardinality(U) \in N
    BY <1>7
  <2>2. Cardinality(U) >= n
    BY <1>4, <2>1
  <2> QED
    BY <1>7, <2>2
<1>9. CASE U = {}
  BY <1>5, <1>6, <1>9
<1>10. CASE U # {}
  <2>1. PICK m \in U : \A x \in U : m >= x
    BY <1>7, <1>8, <1>10
  <2>2. \A x \in T : x = a \/ x \in U
    OBVIOUS
  <2>3. a \in Int /\ m \in Int /\ \A x \in T : x \in Int
    BY <1>5, <1>6
  <2>4. CASE a >= m
    BY <1>5, <1>6, <2>1, <2>2, <2>3, <2>4
  <2>5. CASE m >= a
    BY <1>5, <1>6, <2>1, <2>2, <2>3, <2>5
  <2> QED
    BY <2>3, <2>4, <2>5
<1> QED
  BY <1>9, <1>10

LEMMA MaxFacts ==
  ASSUME NEW S \in SUBSET Int, IsFiniteSet(S), S # {}
  PROVE  Max(S) \in S /\ \A x \in S : Max(S) >= x
BY LargestExists DEF Max

\* The larger and the smaller of two.
LEMMA OfTwo ==
  ASSUME NEW a \in Int, NEW b \in Int
  PROVE  /\ Max({a, b}) \in {a, b} /\ Max({a, b}) >= a /\ Max({a, b}) >= b
         /\ Min({a, b}) \in {a, b} /\ Min({a, b}) <= a /\ Min({a, b}) <= b
<1>1. \E m \in {a, b} : \A x \in {a, b} : m >= x
  OBVIOUS
<1>2. \E m \in {a, b} : \A x \in {a, b} : m <= x
  OBVIOUS
<1> QED
  BY <1>1, <1>2 DEF Max, Min

LEMMA IntervalsAreNumbers ==
  ASSUME TypeOK
  PROVE  /\ \A c \in Collectors : interval[c] \in Nat \ {0}
         /\ Longest \in Intervals /\ Longest \in Nat
<1> DEFINE S == {interval[c] : c \in Collectors}
<1>1. S \subseteq Intervals /\ S # {} /\ Intervals \subseteq Nat \ {0}
  BY TimingAssumption DEF TypeOK
<1>2. IsFiniteSet(S)
  BY <1>1, FS_Subset, TimingAssumption
<1> HIDE DEF S
<1>3. S \in SUBSET Int
  BY <1>1
<1>4. Max(S) \in S
  BY <1>1, <1>2, <1>3, MaxFacts
<1>5. Longest = Max(S)
  BY DEF Longest, S
<1> QED
  BY <1>1, <1>4, <1>5, TimingAssumption DEF TypeOK

\* The window and the grace period are never below their floors.
LEMMA Floors ==
  ASSUME TypeOK
  PROVE  /\ StaleAfter \in Nat /\ StaleAfter >= MinStale
         /\ Grace \in Nat /\ Grace >= MinGrace /\ Grace > 0
<1>1. Longest \in Nat /\ MinStale \in Nat /\ MinGrace \in Nat \ {0}
  BY IntervalsAreNumbers, TimingAssumption
<1>2. 5 * Longest \in Nat /\ 2 * Longest \in Nat
  BY <1>1
<1>3. StaleAfter \in {MinStale, 5 * Longest} /\ StaleAfter >= MinStale
  BY <1>1, <1>2, OfTwo DEF StaleAfter
<1>4. Grace \in {MinGrace, 2 * Longest} /\ Grace >= MinGrace
  BY <1>1, <1>2, OfTwo DEF Grace
<1> QED
  BY <1>1, <1>2, <1>3, <1>4

LEMMA CapIsNumber == AgeCap \in Nat
<1> DEFINE f == [i \in Intervals |-> 5 * i]
           T == {5 * i : i \in Intervals}
           S == {MinStale} \cup T
<1>1. f \in Surjection(Intervals, T)
  BY DEF Surjection
<1>2. IsFiniteSet(T)
  BY <1>1, FS_Surjection, TimingAssumption
<1>3. S = T \cup {MinStale} /\ S \in SUBSET Nat
  BY TimingAssumption
<1>4. IsFiniteSet(S)
  BY <1>2, <1>3, FS_AddElement
<1> HIDE DEF S
<1>5. Max(S) \in S
  <2>1. S \in SUBSET Int /\ S # {}
    BY <1>3 DEF S
  <2> QED
    BY <1>4, <2>1, MaxFacts
<1>6. AgeCap = Max(S) + 1
  BY DEF AgeCap, S
<1> QED
  BY <1>3, <1>5, <1>6

\* How the clocks advance.
LEMMA ClockFacts ==
  ASSUME NEW d \in Nat
  PROVE  /\ \A a \in Nat : Older(a, d) \in Nat /\ Older(a, d) <= a + d
         /\ \A t \in Nat : Elapse(t, d) \in Nat /\ Elapse(t, d) = IF t >= d THEN t - d ELSE 0
         /\ GapAfter(Never, d) = Never
         /\ \A g \in 0..GapCap :
              /\ GapAfter(g, d) \in 0..GapCap
              /\ GapAfter(g, d) = IF g + d <= GapCap THEN g + d ELSE GapCap
<1>0. GapCap \in Nat /\ Every \in Nat \ {0} /\ GapCap = 2 * Every + 1
  BY TimingAssumption DEF GapCap
<1>1. ASSUME NEW a \in Nat PROVE Older(a, d) \in Nat /\ Older(a, d) <= a + d
  <2>1. a + d \in Nat /\ AgeCap \in Nat
    BY CapIsNumber
  <2> HIDE DEF AgeCap
  <2>2. Min({a + d, AgeCap}) \in {a + d, AgeCap} /\ Min({a + d, AgeCap}) <= a + d
    <3>1. \A x, y \in Int : Min({x, y}) \in {x, y} /\ Min({x, y}) <= x
      BY OfTwo
    <3> QED
      BY <2>1, <3>1
  <2> QED
    BY <2>1, <2>2 DEF Older
<1>2. ASSUME NEW t \in Nat
      PROVE  Elapse(t, d) \in Nat /\ Elapse(t, d) = IF t >= d THEN t - d ELSE 0
  <2>1. t - d \in Int
    OBVIOUS
  <2>2. Max({t - d, 0}) \in {t - d, 0} /\ Max({t - d, 0}) >= t - d /\ Max({t - d, 0}) >= 0
    BY <2>1, OfTwo
  <2> QED
    BY <2>2 DEF Elapse
<1>3. ASSUME NEW g \in 0..GapCap
      PROVE  /\ GapAfter(g, d) \in 0..GapCap
             /\ GapAfter(g, d) = IF g + d <= GapCap THEN g + d ELSE GapCap
  <2>1. g # Never /\ g + d \in Nat
    BY <1>0 DEF Never
  <2> HIDE DEF GapCap
  <2>2. /\ Min({g + d, GapCap}) \in {g + d, GapCap}
        /\ Min({g + d, GapCap}) <= g + d /\ Min({g + d, GapCap}) <= GapCap
    <3>1. \A x, y \in Int : Min({x, y}) \in {x, y} /\ Min({x, y}) <= x /\ Min({x, y}) <= y
      BY OfTwo
    <3>2. GapCap \in Int /\ g + d \in Int
      BY <1>0, <2>1
    <3> QED
      BY <3>1, <3>2
  <2> QED
    BY <1>0, <2>1, <2>2 DEF GapAfter
<1>4. GapAfter(Never, d) = Never
  BY DEF GapAfter
<1> QED
  BY <1>1, <1>2, <1>3, <1>4
----------------------------------------------------------------------------
(* Types                                                                   *)

LEMMA Constants ==
  /\ Every \in Nat \ {0} /\ MinStale \in Nat \ {0} /\ CycleTime \in Nat
  /\ Sleeps \subseteq Nat \ {0} /\ Intervals \subseteq Nat \ {0}
  /\ GapCap \in Nat /\ GapCap = 2 * Every + 1
  /\ Idle \notin Nat /\ Never \notin Nat /\ Never = -1
BY TimingAssumption DEF GapCap, Idle, Never

\* What a moment does.
LEMMA MomentFacts ==
  /\ \A a \in Nat : Older(a, 1) \in Nat /\ Older(a, 1) <= a + 1
  /\ \A t \in Nat : Elapse(t, 1) \in Nat /\ Elapse(t, 1) = IF t >= 1 THEN t - 1 ELSE 0
  /\ GapAfter(Never, 1) = Never
  /\ \A g \in 0..GapCap : /\ GapAfter(g, 1) \in 0..GapCap
                           /\ GapAfter(g, 1) = IF g + 1 <= GapCap THEN g + 1 ELSE GapCap
<1>1. 1 \in Nat
  OBVIOUS
<1> QED
  BY <1>1, ClockFacts

LEMMA InitType == Init => TypeOK
<1> SUFFICES ASSUME Init PROVE TypeOK
  OBVIOUS
<1>1. age \in [Collectors -> Nat]
  BY CapIsNumber DEF Init
<1> QED
  BY <1>1, Constants, TimingAssumption DEF Init, TypeOK

LEMMA StepType == TypeOK /\ [Next]_vars => TypeOK'
<1> SUFFICES ASSUME TypeOK, [Next]_vars PROVE TypeOK'
  OBVIOUS
<1> USE DEF TypeOK, collectorVars, sweepVars, history
<1>1. ASSUME NEW c \in Collectors, StartCycle(c) PROVE TypeOK'
  BY <1>1, Constants DEF StartCycle
<1>2. ASSUME NEW c \in Collectors, EndCycle(c) PROVE TypeOK'
  <2>1. timer' \in [Collectors -> Nat] /\ age' \in [Collectors -> Nat]
    BY <1>2, Constants DEF EndCycle
  <2>2. cycle' \in [Collectors -> Nat \cup {Idle}] /\ open' \in [Collectors -> BOOLEAN]
    BY <1>2 DEF EndCycle
  <2> QED
    BY <1>2, <2>1, <2>2 DEF EndCycle
<1>3. ASSUME NEW c \in Collectors, Vanish(c) PROVE TypeOK'
  BY <1>3 DEF Vanish
<1>4. CASE Tick
  <2>1. grace' \in Nat
    BY <1>4, Floors DEF Tick
  <2>2. open' \in [Collectors -> BOOLEAN]
    BY <1>4 DEF Tick, Sweep, Stale
  <2> QED
    BY <1>4, <2>1, <2>2, Constants DEF Tick
<1>5. CASE Pass
  <2>1. /\ age' \in [Collectors -> Nat] /\ timer' \in [Collectors -> Nat] /\ grace' \in Nat
        /\ sinceTick' \in {Never} \cup 0..GapCap
    BY <1>5, MomentFacts DEF Pass
  <2>2. cycle' \in [Collectors -> Nat \cup {Idle}]
    BY <1>5, Constants DEF Pass
  <2>3. sweepTimer' \in 0..Every
    BY <1>5, Constants DEF Pass
  <2> QED
    BY <1>5, <2>1, <2>2, <2>3 DEF Pass
<1>6. CASE Suspend
  <2>1. PICK d \in Sleeps :
          /\ age' = [c \in Collectors |-> Older(age[c], d)]
          /\ sinceTick' = GapAfter(sinceTick, d)
          /\ grace' = Elapse(grace, d)
    BY <1>6 DEF Suspend
  <2>2. d \in Nat
    BY Constants
  <2>3. /\ age' \in [Collectors -> Nat] /\ grace' \in Nat
        /\ sinceTick' \in {Never} \cup 0..GapCap
    BY <2>1, <2>2, ClockFacts
  <2> QED
    BY <1>6, <2>3 DEF Suspend
<1>7. CASE RestartDaemon
  <2>1. PICK d \in Sleeps \cup {0} : age' = [c \in Collectors |-> Older(age[c], d)]
    BY <1>7 DEF RestartDaemon
  <2>2. d \in Nat
    BY Constants
  <2>3. age' \in [Collectors -> Nat]
    BY <2>1, <2>2, ClockFacts
  <2> QED
    BY <1>7, <2>3, Constants DEF RestartDaemon
<1>8. ASSUME NEW c \in Collectors, Reconfigure(c) PROVE TypeOK'
  BY <1>8 DEF Reconfigure
<1>9. CASE UNCHANGED vars
  BY <1>9 DEF vars
<1> QED
  BY <1>1, <1>2, <1>3, <1>4, <1>5, <1>6, <1>7, <1>8, <1>9 DEF Next

THEOREM TypeCorrect == Spec => []TypeOK
BY InitType, StepType, PTL DEF Spec

----------------------------------------------------------------------------
(* Loops faster than the sweep                                             *)

\* A collector that is not slow has always been fast.
FastInv == \A c \in Collectors \ slow : Fast(interval[c])

\* How much longer the timers of a loop run until it touches its alert.
Left(c) == IF cycle[c] = Idle THEN timer[c] + CycleTime ELSE cycle[c]

\* Timers are set to intervals, and a cycle takes its time.
Short ==
  \A c \in Collectors \ slow : /\ timer[c] + CycleTime < Every
                               /\ cycle[c] # Idle => cycle[c] <= CycleTime

(***************************************************************************)
(* The alert of a source that fails has been touched since the last tick   *)
(* or will be before the next one, unless that tick notices a gap.  So it  *)
(* is younger than two periods at every tick that may sweep it.            *)
(***************************************************************************)
Touched ==
  ~Missed => \A c \in Collectors \ slow :
               failing[c] => age[c] <= sinceTick \/ Left(c) < sweepTimer

\* Once slow, always counted as slow.
LEMMA StepFast == TypeOK /\ FastInv /\ [Next]_vars => FastInv' /\ slow \subseteq slow'
<1> SUFFICES ASSUME TypeOK, FastInv, [Next]_vars PROVE FastInv' /\ slow \subseteq slow'
  OBVIOUS
<1> USE DEF collectorVars, sweepVars, history
<1>1. CASE UNCHANGED <<interval, slow>>
  BY <1>1 DEF FastInv
<1>2. ASSUME NEW e \in Collectors, Reconfigure(e) PROVE FastInv' /\ slow \subseteq slow'
  <2>1. PICK i \in Intervals : /\ interval' = [interval EXCEPT ![e] = i]
                               /\ slow' = IF Fast(i) THEN slow ELSE slow \cup {e}
    BY <1>2 DEF Reconfigure
  <2>2. interval \in [Collectors -> Intervals]
    BY DEF TypeOK
  <2>3. ASSUME NEW c \in Collectors, c \notin slow' PROVE Fast(interval'[c])
    <3>1. c \notin slow /\ (c = e => Fast(i))
      BY <2>1, <2>3
    <3>2. interval'[c] = IF c = e THEN i ELSE interval[c]
      BY <2>1, <2>2
    <3> QED
      BY <3>1, <3>2 DEF FastInv
  <2> QED
    BY <2>1, <2>3 DEF FastInv
<1> QED
  BY <1>1, <1>2 DEF Next, StartCycle, EndCycle, Vanish, Tick, Pass, Suspend, RestartDaemon, vars

LEMMA StepShort == TypeOK /\ FastInv /\ Short /\ [Next]_vars => Short'
<1> SUFFICES ASSUME TypeOK, FastInv, Short, [Next]_vars PROVE Short'
  OBVIOUS
<1>f. slow \subseteq slow' /\ \A c \in Collectors \ slow' : Fast(interval[c])
  BY StepFast DEF FastInv
<1> USE DEF TypeOK, collectorVars, sweepVars, history, Fast, Short
<1>0. CASE UNCHANGED <<timer, cycle>>
  BY <1>f, <1>0
<1>1. ASSUME NEW c \in Collectors, StartCycle(c) PROVE Short'
  BY <1>f, <1>1, Constants DEF StartCycle
<1>2. ASSUME NEW c \in Collectors, EndCycle(c) PROVE Short'
  BY <1>f, <1>2 DEF EndCycle
<1>5. CASE Pass
  <2> SUFFICES ASSUME NEW c \in Collectors \ slow'
               PROVE  /\ timer'[c] + CycleTime < Every
                      /\ cycle'[c] # Idle => cycle'[c] <= CycleTime
    OBVIOUS
  <2>1. timer'[c] \in Nat /\ timer'[c] <= timer[c]
    <3>1. timer'[c] = Elapse(timer[c], 1) /\ timer[c] \in Nat
      BY <1>5 DEF Pass
    <3>2. /\ Elapse(timer[c], 1) \in Nat
          /\ Elapse(timer[c], 1) = IF timer[c] >= 1 THEN timer[c] - 1 ELSE 0
      BY <3>1, MomentFacts
    <3> HIDE DEF TypeOK
    <3>3. \A t \in Nat : (IF t >= 1 THEN t - 1 ELSE 0) <= t
      OBVIOUS
    <3> QED
      BY <3>1, <3>2, <3>3
  <2>2. cycle'[c] = IF cycle[c] = Idle THEN Idle ELSE cycle[c] - 1
    BY <1>5 DEF Pass
  <2> QED
    BY <1>f, <2>1, <2>2, Constants
<1>7. CASE RestartDaemon
  <2>1. ASSUME NEW c \in Collectors \ slow' PROVE 0 + CycleTime < Every
    <3>1. interval[c] \in Nat /\ interval[c] + CycleTime < Every
      BY <1>f, Constants
    <3> QED
      BY <3>1, Constants
  <2> QED
    BY <1>7, <2>1 DEF RestartDaemon
<1> QED
  <2>1. ASSUME NEW c \in Collectors, Vanish(c) \/ Reconfigure(c) PROVE Short'
    BY <1>0, <2>1 DEF Vanish, Reconfigure
  <2>2. CASE Tick
    BY <1>0, <2>2 DEF Tick
  <2>3. CASE Suspend
    BY <1>0, <2>3 DEF Suspend
  <2>4. CASE UNCHANGED vars
    BY <1>0, <2>4 DEF vars
  <2> QED
    BY <1>1, <1>2, <1>5, <1>7, <2>1, <2>2, <2>3, <2>4 DEF Next

\* Neither time nor sleep makes the next tick overlook a gap.
LEMMA MissedStays ==
  /\ TypeOK /\ Pass /\ Missed => Missed'
  /\ TypeOK /\ Suspend /\ Missed => Missed'
<1>1. ASSUME TypeOK, Pass, Missed PROVE Missed'
  <2>1. sinceTick' = GapAfter(sinceTick, 1) /\ sweepTimer' = sweepTimer - 1 /\ sweepTimer > 0
    BY <1>1 DEF Pass
  <2> QED
    <3>1. CASE sinceTick = Never
      BY <2>1, <3>1, MomentFacts DEF Missed
    <3>2. CASE sinceTick # Never
      <4>1. sinceTick \in 0..GapCap /\ sinceTick + sweepTimer > 2 * Every /\ sweepTimer \in Nat
        BY <1>1, <3>2, Constants DEF Missed, TypeOK
      <4>2. sinceTick' = IF sinceTick + 1 <= GapCap THEN sinceTick + 1 ELSE GapCap
        BY <2>1, <4>1, MomentFacts
      <4>3. sinceTick' + sweepTimer' > 2 * Every
        BY <2>1, <4>1, <4>2, Constants
      <4> QED
        BY <4>3 DEF Missed
    <3> QED
      BY <3>1, <3>2
<1>2. ASSUME TypeOK, Suspend, Missed PROVE Missed'
  <2>1. PICK d \in Sleeps : sinceTick' = GapAfter(sinceTick, d)
    BY <1>2 DEF Suspend
  <2>2. d \in Nat /\ sweepTimer' = sweepTimer
    BY <1>2, Constants DEF Suspend
  <2> QED
    <3>1. CASE sinceTick = Never
      BY <2>1, <2>2, <3>1, ClockFacts DEF Missed
    <3>2. CASE sinceTick # Never
      <4>1. sinceTick \in 0..GapCap /\ sinceTick + sweepTimer > 2 * Every /\ sweepTimer \in Nat
        BY <1>2, <3>2, Constants DEF Missed, TypeOK
      <4>2. sinceTick' = IF sinceTick + d <= GapCap THEN sinceTick + d ELSE GapCap
        BY <2>1, <2>2, <4>1, ClockFacts
      <4>3. sinceTick' + sweepTimer' > 2 * Every
        BY <2>2, <4>1, <4>2, Constants
      <4> QED
        BY <4>3 DEF Missed
    <3> QED
      BY <3>1, <3>2
<1> QED
  BY <1>1, <1>2

LEMMA StepTouched == TypeOK /\ FastInv /\ Short /\ Touched /\ [Next]_vars => Touched'
<1> SUFFICES ASSUME TypeOK, FastInv, Short, Touched, [Next]_vars, ~Missed',
                    NEW c \in Collectors, c \notin slow', failing'[c]
             PROVE  age'[c] <= sinceTick' \/ Left(c)' < sweepTimer'
  BY DEF Touched
<1>f. c \notin slow
  BY StepFast
<1> USE DEF TypeOK, collectorVars, sweepVars, history
<1>0. CASE UNCHANGED <<failing, age, sinceTick, sweepTimer, timer, cycle>>
  BY <1>f, <1>0 DEF Touched, Missed, Left
<1>1. ASSUME NEW e \in Collectors, StartCycle(e) PROVE age'[c] <= sinceTick' \/ Left(c)' < sweepTimer'
  <2>1. /\ UNCHANGED <<failing, age, sinceTick, sweepTimer, timer>> /\ timer[e] = 0
        /\ cycle[e] = Idle
    BY <1>1 DEF StartCycle
  <2>2. age[c] <= sinceTick \/ Left(c) < sweepTimer
    BY <1>f, <2>1 DEF Touched, Missed
  <2>3. CASE c = e
    <3>1. cycle'[c] \in 0..CycleTime /\ cycle'[c] # Idle
      BY <1>1, <2>3, Constants DEF StartCycle
    <3>2. Left(c) = CycleTime /\ Left(c)' = cycle'[c]
      BY <2>1, <2>3, <3>1, Constants DEF Left
    <3> QED
      BY <2>1, <2>2, <3>1, <3>2, Constants
  <2>4. CASE c # e
    <3>1. cycle'[c] = cycle[c]
      BY <1>1, <2>4 DEF StartCycle
    <3> QED
      BY <2>1, <2>2, <3>1 DEF Left
  <2> QED
    BY <2>3, <2>4
<1>2. ASSUME NEW e \in Collectors, EndCycle(e) PROVE age'[c] <= sinceTick' \/ Left(c)' < sweepTimer'
  <2>1. UNCHANGED <<failing, sinceTick, sweepTimer>>
    BY <1>2 DEF EndCycle
  <2>2. CASE c = e
    <3>1. age'[c] = 0
      BY <1>2, <2>1, <2>2 DEF EndCycle
    <3>2. sinceTick \in Nat
      BY <2>1, Constants DEF Missed
    <3> QED
      BY <2>1, <3>1, <3>2
  <2>3. CASE c # e
    <3>1. cycle'[c] = cycle[c] /\ timer'[c] = timer[c] /\ age'[c] = age[c]
      BY <1>2, <2>3 DEF EndCycle
    <3> QED
      BY <1>f, <2>1, <3>1 DEF Touched, Missed, Left
  <2> QED
    BY <2>2, <2>3
<1>3. ASSUME NEW e \in Collectors, Vanish(e) PROVE age'[c] <= sinceTick' \/ Left(c)' < sweepTimer'
  BY <1>f, <1>3 DEF Vanish, Touched, Missed, Left
<1>4. CASE Tick
  <2>1. sweepTimer' = Every /\ UNCHANGED <<timer, cycle>>
    BY <1>4 DEF Tick
  <2>2. Left(c)' = Left(c) /\ Left(c) < Every
    BY <1>f, <2>1, Constants DEF Left, Short
  <2> QED
    BY <2>1, <2>2
<1>5. CASE Pass
  <2>1. ~Missed
    BY <1>5, MissedStays
  <2>2. /\ UNCHANGED failing /\ sinceTick' = GapAfter(sinceTick, 1)
        /\ sweepTimer' = sweepTimer - 1 /\ sweepTimer > 0
        /\ age'[c] = Older(age[c], 1) /\ timer'[c] = Elapse(timer[c], 1)
        /\ cycle'[c] = IF cycle[c] = Idle THEN Idle ELSE cycle[c] - 1
        /\ IF cycle[c] = Idle THEN timer[c] > 0 ELSE cycle[c] > 0
    BY <1>5 DEF Pass
  <2>3. age[c] <= sinceTick \/ Left(c) < sweepTimer
    BY <1>f, <2>1, <2>2 DEF Touched
  <2>4. sinceTick \in 0..GapCap /\ sinceTick' = sinceTick + 1
    <3>1. sinceTick \in 0..GapCap
      BY <2>1 DEF Missed
    <3>2. sinceTick' = IF sinceTick + 1 <= GapCap THEN sinceTick + 1 ELSE GapCap
      BY <2>2, <3>1, MomentFacts
    <3>3. sinceTick' + sweepTimer' <= 2 * Every /\ sweepTimer' \in Nat
      BY <2>2, <3>1, <3>2, Constants DEF Missed
    <3>4. GapCap \in Nat /\ GapCap = 2 * Every + 1 /\ Every \in Nat
      BY Constants
    <3>5. sinceTick' # GapCap
      BY <3>2, <3>3, <3>4
    <3> QED
      BY <3>1, <3>2, <3>5
  <2>5. age'[c] \in Nat /\ age'[c] <= age[c] + 1
    BY <2>2, MomentFacts
  <2>6. Left(c)' = Left(c) - 1 /\ Left(c) \in Nat
    <3>1. CASE cycle[c] = Idle
      BY <2>2, <3>1, MomentFacts, Constants DEF Left
    <3>2. CASE cycle[c] # Idle
      <4>1. cycle[c] \in Nat /\ cycle'[c] = cycle[c] - 1 /\ cycle'[c] # Idle
        BY <2>2, <3>2, Constants
      <4> QED
        BY <3>2, <4>1 DEF Left
    <3> QED
      BY <3>1, <3>2
  <2> QED
    BY <2>2, <2>3, <2>4, <2>5, <2>6
<1>6. CASE Suspend
  <2>1. PICK d \in Sleeps :
          /\ age' = [x \in Collectors |-> Older(age[x], d)]
          /\ sinceTick' = GapAfter(sinceTick, d)
    BY <1>6 DEF Suspend
  <2>2. ~Missed /\ UNCHANGED <<failing, timer, cycle, sweepTimer>> /\ d \in Nat
    BY <1>6, MissedStays, Constants DEF Suspend
  <2>3. age[c] <= sinceTick \/ Left(c) < sweepTimer
    BY <1>f, <2>2 DEF Touched
  <2>4. sinceTick \in 0..GapCap /\ sinceTick' = sinceTick + d
    <3>1. sinceTick \in 0..GapCap
      BY <2>2 DEF Missed
    <3>2. sinceTick' = IF sinceTick + d <= GapCap THEN sinceTick + d ELSE GapCap
      BY <2>1, <2>2, <3>1, ClockFacts
    <3>3. sinceTick' + sweepTimer <= 2 * Every /\ sweepTimer \in Nat
      BY <2>2, <3>1, <3>2, Constants DEF Missed
    <3>4. GapCap \in Nat /\ GapCap = 2 * Every + 1 /\ Every \in Nat
      BY Constants
    <3>5. sinceTick' # GapCap
      BY <3>2, <3>3, <3>4
    <3> QED
      BY <3>1, <3>2, <3>5
  <2>5. age'[c] \in Nat /\ age'[c] <= age[c] + d
    BY <2>1, <2>2, ClockFacts
  <2>6. Left(c)' = Left(c)
    BY <2>2 DEF Left
  <2> QED
    BY <2>2, <2>3, <2>4, <2>5, <2>6
<1>7. CASE RestartDaemon
  BY <1>7 DEF RestartDaemon, Missed
<1>8. ASSUME NEW e \in Collectors, Reconfigure(e) PROVE age'[c] <= sinceTick' \/ Left(c)' < sweepTimer'
  BY <1>0, <1>8 DEF Reconfigure
<1>9. CASE UNCHANGED vars
  BY <1>0, <1>9 DEF vars
<1> QED
  BY <1>1, <1>2, <1>3, <1>4, <1>5, <1>6, <1>7, <1>8, <1>9 DEF Next

\* Only a tick that notices no gap can resolve the alert of a source that fails.
LEMMA OnlyTickSweeps ==
  ASSUME TypeOK, Next, NEW c \in Collectors, failing[c], open[c],
         Tick /\ ~Missed /\ grace = 0 => ~Stale(c)
  PROVE  open'[c]
<1> USE DEF TypeOK, collectorVars, sweepVars, history
<1>1. CASE open' = open
  BY <1>1
<1>2. ASSUME NEW e \in Collectors, EndCycle(e) PROVE open'[c]
  BY <1>2 DEF EndCycle
<1>3. CASE Tick
  <2>1. CASE Missed
    <3>1. grace' > 0 /\ open' = open
      BY <1>3, <2>1, Floors, Constants DEF Tick, Missed
    <3> QED
      BY <1>1, <3>1
  <2>2. CASE ~Missed
    <3>1. CASE grace > 0
      <4>1. open' = open
        BY <1>3, <2>2, <3>1, Constants DEF Tick, Missed
      <4> QED
        BY <1>1, <4>1
    <3>2. CASE grace = 0
      <4>1. open' = open \/ open' = [x \in Collectors |-> open[x] /\ ~Stale(x)]
        BY <1>3 DEF Tick, Sweep
      <4> QED
        BY <1>3, <2>2, <3>2, <4>1
    <3> QED
      BY <3>1, <3>2
  <2> QED
    BY <2>1, <2>2
<1>4. CASE \E e \in Collectors : StartCycle(e) \/ Vanish(e) \/ Reconfigure(e)
  BY <1>1, <1>4 DEF StartCycle, Vanish, Reconfigure
<1>5. CASE Pass \/ Suspend \/ RestartDaemon
  BY <1>1, <1>5 DEF Pass, Suspend, RestartDaemon
<1> QED
  BY <1>2, <1>3, <1>4, <1>5 DEF Next

LEMMA InitFast == TypeOK /\ Init => FastInv /\ Short /\ Touched
<1> SUFFICES ASSUME TypeOK, Init PROVE FastInv /\ Short /\ Touched
  OBVIOUS
<1>1. FastInv
  BY DEF Init, FastInv
<1>2. ASSUME NEW c \in Collectors \ slow PROVE 0 + CycleTime < Every
  <2>1. interval[c] \in Nat /\ interval[c] + CycleTime < Every
    BY <1>1, Constants DEF TypeOK, FastInv, Fast
  <2> QED
    BY <2>1, Constants
<1> QED
  BY <1>1, <1>2 DEF Init, Short, Touched, Missed

\* No tick sweeps the alert of a source that fails and has always been fast.
LEMMA FastNotSwept ==
  ASSUME MinStale >= 2 * Every
  PROVE  TypeOK /\ Touched /\ [Next]_vars =>
           [\A c \in Collectors : failing[c] /\ open[c] /\ ~open'[c] => c \in slow]_vars
<1> SUFFICES ASSUME TypeOK, Touched, Next, NEW c \in Collectors, failing[c], open[c], c \notin slow
             PROVE  open'[c]
  OBVIOUS
<1>1. ASSUME Tick, ~Missed PROVE ~Stale(c)
  <2> USE DEF TypeOK
  <2>1. sweepTimer = 0 /\ Left(c) >= 0
    BY <1>1, Constants DEF Tick, Left
  <2>2. sinceTick \in Nat /\ sinceTick <= 2 * Every
    BY <1>1, <2>1, Constants DEF Missed
  <2>3. age[c] <= sinceTick
    BY <1>1, <2>1, Constants DEF Touched, Left
  <2>4. age[c] <= StaleAfter
    BY <2>2, <2>3, Floors, Constants
  <2> QED
    BY <2>4, Floors DEF Stale
<1> QED
  BY <1>1, OnlyTickSweeps

(***************************************************************************)
(* "A slowly-checked but still-failing source is never swept"              *)
(* (scheduler.go): where every interval and a cycle fit between two ticks  *)
(* of the sweep, as the default settings do, for any number of             *)
(* suspensions, restarts and settings changes in either direction.  The    *)
(* window must hold two periods of the sweep; minStaleAfter is fifteen.    *)
(***************************************************************************)
THEOREM StillFailingKept ==
  ASSUME \A i \in Intervals : i + CycleTime < Every, MinStale >= 2 * Every
  PROVE  Spec => StillFailingNeverSwept
<1> DEFINE NoneSlow == slow = {}
<1>1. TypeOK /\ Init => NoneSlow /\ FastInv /\ Short /\ Touched
  <2>1. TypeOK /\ Init => NoneSlow
    BY DEF Init, TypeOK, Fast
  <2> QED
    BY <2>1, InitFast
<1>2. TypeOK /\ NoneSlow /\ [Next]_vars => NoneSlow'
  <2> USE DEF collectorVars, sweepVars, history
  <2>1. ASSUME NoneSlow, NEW c \in Collectors, Reconfigure(c) PROVE NoneSlow'
    BY <2>1 DEF Reconfigure, Fast
  <2>2. UNCHANGED slow /\ NoneSlow => NoneSlow'
    OBVIOUS
  <2> QED
    BY <2>1, <2>2 DEF Next, StartCycle, EndCycle, Vanish, Tick, Pass, Suspend, RestartDaemon, vars
<1>3. TypeOK /\ FastInv /\ [Next]_vars => FastInv'
  BY StepFast
<1>4. TypeOK /\ FastInv /\ Short /\ [Next]_vars => Short'
  BY StepShort
<1>5. TypeOK /\ FastInv /\ Short /\ Touched /\ [Next]_vars => Touched'
  BY StepTouched
<1>6. TypeOK /\ NoneSlow /\ Touched /\ [Next]_vars =>
        [\A c \in Collectors : failing[c] /\ open[c] => open'[c]]_vars
  BY FastNotSwept
<1> QED
  BY <1>1, <1>2, <1>3, <1>4, <1>5, <1>6, TypeCorrect, PTL DEF Spec, StillFailingNeverSwept

----------------------------------------------------------------------------
(* Loops slower than the sweep                                             *)

\* No timer runs for longer than the interval configured now, but for doubt.
Bounded ==
  \A c \in Collectors : /\ c \notin doubt => timer[c] <= interval[c]
                        /\ cycle[c] # Idle => cycle[c] <= CycleTime

(***************************************************************************)
(* Unless the next tick notices a gap, the alert of a source that fails    *)
(* and is not in doubt will be touched before the grace period ends, or    *)
(* before it is older than an interval and a cycle.                        *)
(***************************************************************************)
Covered ==
  ~Missed => \A c \in Collectors \ doubt :
    failing[c] => Left(c) < grace \/ age[c] + Left(c) <= interval[c] + CycleTime

\* A cycle ends within the grace period that its own interval calls for.
InGrace == \A i \in Intervals : i + CycleTime < MinGrace \/ CycleTime < i

\* Who is out of doubt was so before and has no lower interval, unless its cycle
\* has just ended or the daemon has just started.
LEMMA OutOfDoubt ==
  ASSUME TypeOK, [Next]_vars, NEW c \in Collectors, c \notin doubt',
         ~EndCycle(c), ~RestartDaemon
  PROVE  /\ c \notin doubt
         /\ interval[c] \in Nat /\ interval'[c] \in Nat /\ interval'[c] >= interval[c]
<1> USE DEF collectorVars, sweepVars, history
<1>1. interval \in [Collectors -> Intervals] /\ Intervals \subseteq Nat /\ interval[c] \in Nat
  BY Constants DEF TypeOK
<1>2. CASE UNCHANGED <<interval, doubt>>
  BY <1>1, <1>2
<1>3. ASSUME NEW e \in Collectors, e # c, EndCycle(e) PROVE c \notin doubt /\ interval' = interval
  BY <1>3 DEF EndCycle
<1>4. ASSUME Suspend PROVE c \notin doubt /\ interval' = interval
  BY <1>4 DEF Suspend
<1>5. ASSUME NEW e \in Collectors, Reconfigure(e)
      PROVE  c \notin doubt /\ interval'[c] \in Nat /\ interval'[c] >= interval[c]
  <2>1. PICK i \in Intervals : /\ interval' = [interval EXCEPT ![e] = i]
                               /\ doubt' = IF i < interval[e] THEN doubt \cup {e} ELSE doubt
    BY <1>5 DEF Reconfigure
  <2>2. interval'[c] = IF c = e THEN i ELSE interval[c]
    BY <1>1, <2>1
  <2>3. c \notin doubt /\ (c = e => ~(i < interval[c]))
    BY <2>1
  <2>4. i \in Nat
    BY <1>1
  <2> QED
    BY <1>1, <2>2, <2>3, <2>4
<1> QED
  BY <1>1, <1>2, <1>3, <1>4, <1>5 DEF Next, StartCycle, Vanish, Tick, Pass, vars

LEMMA StepBounded == TypeOK /\ Bounded /\ [Next]_vars => Bounded'
<1> SUFFICES ASSUME TypeOK, Bounded, [Next]_vars, NEW c \in Collectors
             PROVE  /\ c \notin doubt' => timer'[c] <= interval'[c]
                    /\ cycle'[c] # Idle => cycle'[c] <= CycleTime
  BY DEF Bounded
<1> USE DEF TypeOK, collectorVars, sweepVars, history
<1> DEFINE Goal == /\ c \notin doubt' => timer'[c] <= interval'[c]
                   /\ cycle'[c] # Idle => cycle'[c] <= CycleTime
<1>0. /\ interval[c] \in Nat /\ timer[c] \in Nat
      /\ c \notin doubt => timer[c] <= interval[c]
      /\ cycle[c] # Idle => cycle[c] <= CycleTime
  BY Constants DEF Bounded
<1>1. ASSUME ~EndCycle(c), ~RestartDaemon, c \notin doubt'
      PROVE  /\ timer[c] <= interval[c]
             /\ interval'[c] \in Nat /\ interval'[c] >= interval[c]
  BY <1>0, <1>1, OutOfDoubt
<1>2. ASSUME UNCHANGED <<timer, cycle>>, ~EndCycle(c), ~RestartDaemon PROVE Goal
  BY <1>0, <1>1, <1>2
<1>3. ASSUME NEW e \in Collectors, StartCycle(e) PROVE Goal
  BY <1>0, <1>3, Constants DEF StartCycle
<1>4. ASSUME NEW e \in Collectors, EndCycle(e) PROVE Goal
  BY <1>0, <1>4 DEF EndCycle
<1>5. CASE Pass
  <2>1. timer'[c] = Elapse(timer[c], 1) /\ timer[c] \in Nat /\ UNCHANGED <<interval, doubt>>
    BY <1>5 DEF Pass
  <2>2. /\ Elapse(timer[c], 1) \in Nat
        /\ Elapse(timer[c], 1) = IF timer[c] >= 1 THEN timer[c] - 1 ELSE 0
    BY <2>1, MomentFacts
  <2>3. timer'[c] <= timer[c]
    BY <2>1, <2>2
  <2>4. c \notin doubt' => timer'[c] <= interval'[c]
    BY <1>0, <2>1, <2>2, <2>3
  <2>5. cycle'[c] = IF cycle[c] = Idle THEN Idle ELSE cycle[c] - 1
    BY <1>5 DEF Pass
  <2>6. cycle'[c] # Idle => cycle'[c] <= CycleTime
    BY <1>0, <2>5, Constants
  <2> QED
    BY <2>4, <2>6
<1>6. CASE RestartDaemon
  BY <1>0, <1>6 DEF RestartDaemon
<1>7. ASSUME ~EndCycle(c), ~RestartDaemon, NEW e \in Collectors, Vanish(e) \/ Reconfigure(e)
      PROVE  Goal
  BY <1>2, <1>7 DEF Vanish, Reconfigure
<1>8. ASSUME ~EndCycle(c), ~RestartDaemon, Tick \/ Suspend \/ UNCHANGED vars PROVE Goal
  BY <1>2, <1>8 DEF Tick, Suspend, vars
<1> QED
  BY <1>3, <1>4, <1>5, <1>6, <1>7, <1>8 DEF Next

\* The window and the grace period leave room for an interval and a cycle.
LEMMA RoomForCycle ==
  ASSUME TypeOK, InGrace, MinStale >= MinGrace, NEW c \in Collectors
  PROVE  interval[c] + CycleTime < Grace /\ interval[c] + CycleTime <= StaleAfter
<1> DEFINE S == {interval[d] : d \in Collectors}
<1>1. interval[c] \in Nat \ {0} /\ interval[c] \in Intervals /\ Longest \in Nat
  BY IntervalsAreNumbers DEF TypeOK
<1>2. Longest >= interval[c]
  <2>1. S \subseteq Intervals /\ interval[c] \in S /\ Intervals \subseteq Nat \ {0}
    BY TimingAssumption DEF TypeOK
  <2>2. IsFiniteSet(S)
    BY <2>1, FS_Subset, TimingAssumption
  <2> HIDE DEF S
  <2>3. S \in SUBSET Int /\ S # {}
    BY <2>1
  <2>4. Max(S) >= interval[c]
    BY <2>1, <2>2, <2>3, MaxFacts
  <2> QED
    BY <2>4 DEF Longest, S
<1>3. Grace >= MinGrace /\ Grace >= 2 * Longest
  <2>1. MinGrace \in Int /\ 2 * Longest \in Int
    BY <1>1, TimingAssumption
  <2> QED
    BY <2>1, OfTwo DEF Grace
<1>4. StaleAfter >= MinStale /\ StaleAfter >= 5 * Longest
  <2>1. MinStale \in Int /\ 5 * Longest \in Int
    BY <1>1, TimingAssumption
  <2> QED
    BY <2>1, OfTwo DEF StaleAfter
<1>5. interval[c] + CycleTime < MinGrace \/ CycleTime < interval[c]
  BY <1>1 DEF InGrace
<1>6. MinGrace \in Nat /\ MinStale \in Nat /\ CycleTime \in Nat /\ Grace \in Nat /\ StaleAfter \in Nat
  BY Floors, TimingAssumption
<1> HIDE DEF Grace, StaleAfter, Longest
<1> QED
  BY <1>1, <1>2, <1>3, <1>4, <1>5, <1>6

LEMMA StepCovered ==
  ASSUME InGrace, MinStale >= MinGrace
  PROVE  TypeOK /\ Bounded /\ Covered /\ [Next]_vars => Covered'
<1> SUFFICES ASSUME TypeOK, Bounded, Covered, [Next]_vars,
                    ~Missed', NEW c \in Collectors, c \notin doubt', failing'[c]
             PROVE  Left(c)' < grace' \/ age'[c] + Left(c)' <= interval'[c] + CycleTime
  BY DEF Covered
<1> USE DEF TypeOK, collectorVars, sweepVars, history
<1> DEFINE Goal == Left(c)' < grace' \/ age'[c] + Left(c)' <= interval'[c] + CycleTime
<1>5. ASSUME EndCycle(c) PROVE Goal
  <2>1. age'[c] = 0 /\ cycle'[c] = Idle /\ timer'[c] = interval[c] /\ interval' = interval
    BY <1>5 DEF EndCycle
  <2>2. Left(c)' = interval[c] + CycleTime /\ interval[c] \in Nat
    BY <2>1, Constants DEF Left
  <2> QED
    BY <2>1, <2>2, Constants
<1>9. ~RestartDaemon
  BY DEF RestartDaemon, Missed
<1> SUFFICES ASSUME ~EndCycle(c) PROVE Goal
  BY <1>5
<1>0. /\ interval[c] \in Nat /\ interval'[c] \in Nat /\ interval'[c] >= interval[c]
      /\ timer[c] <= interval[c] /\ (cycle[c] # Idle => cycle[c] <= CycleTime)
      /\ c \notin doubt
  <2>1. /\ interval[c] \in Nat /\ interval'[c] \in Nat /\ interval'[c] >= interval[c]
        /\ c \notin doubt
    BY <1>9, OutOfDoubt
  <2> QED
    BY <2>1 DEF Bounded
<1>1. Left(c) \in Nat /\ Left(c) <= interval[c] + CycleTime
  BY <1>0, Constants DEF Left
\* What it was before, when nothing but the interval has changed.
<1>2. ASSUME ~Missed, failing[c], Left(c)' = Left(c), UNCHANGED <<grace, age>> PROVE Goal
  BY <1>0, <1>1, <1>2, Constants DEF Covered
<1>3. CASE UNCHANGED <<failing, age, grace, sinceTick, sweepTimer, timer, cycle>>
  BY <1>2, <1>3 DEF Missed, Left
<1>4. ASSUME NEW e \in Collectors, StartCycle(e) PROVE Goal
  <2>1. /\ UNCHANGED <<failing, age, grace, sinceTick, sweepTimer, timer, interval>>
        /\ timer[e] = 0 /\ cycle[e] = Idle
    BY <1>4 DEF StartCycle
  <2>2. CASE c = e
    <3>1. cycle'[c] \in 0..CycleTime /\ cycle'[c] # Idle
      BY <1>4, <2>2, Constants DEF StartCycle
    <3>2. Left(c) = CycleTime /\ Left(c)' = cycle'[c]
      BY <2>1, <2>2, <3>1, Constants DEF Left
    <3>3. Left(c) < grace \/ age[c] + Left(c) <= interval[c] + CycleTime
      BY <1>0, <2>1 DEF Covered, Missed
    <3> QED
      BY <1>0, <2>1, <3>1, <3>2, <3>3, Constants
  <2>3. CASE c # e
    <3>1. cycle'[c] = cycle[c]
      BY <1>4, <2>3 DEF StartCycle
    <3> QED
      BY <1>2, <2>1, <3>1 DEF Left, Missed
  <2> QED
    BY <2>2, <2>3
<1>13. ASSUME NEW e \in Collectors, EndCycle(e) PROVE Goal
  <2>1. UNCHANGED <<failing, interval, grace, sinceTick, sweepTimer>> /\ c # e
    BY <1>13 DEF EndCycle
  <2>2. cycle'[c] = cycle[c] /\ timer'[c] = timer[c] /\ age'[c] = age[c]
    BY <1>13, <2>1 DEF EndCycle
  <2>3. Left(c)' = Left(c) /\ ~Missed /\ failing[c]
    BY <2>1, <2>2 DEF Left, Missed
  <2>4. Left(c) < grace \/ age[c] + Left(c) <= interval[c] + CycleTime
    BY <1>0, <2>3 DEF Covered
  <2> QED
    BY <2>1, <2>2, <2>3, <2>4
<1>6. CASE Tick
  <2>1. UNCHANGED <<failing, interval, age, timer, cycle>> /\ sweepTimer = 0
    BY <1>6 DEF Tick
  <2>2. Left(c)' = Left(c)
    BY <2>1 DEF Left
  <2>3. CASE Missed
    <3>1. grace' = Grace
      BY <1>6, <2>1, <2>3, Constants DEF Tick, Missed
    <3>2. interval[c] + CycleTime < Grace /\ Grace \in Nat
      BY RoomForCycle, Floors
    <3> HIDE DEF Grace
    <3> QED
      BY <1>0, <1>1, <2>2, <3>1, <3>2, Constants
  <2>4. CASE ~Missed
    <3>1. grace' = grace
      BY <1>6, <2>1, <2>4, Constants DEF Tick, Missed
    <3> QED
      BY <1>2, <2>1, <2>2, <2>4, <3>1
  <2> QED
    BY <2>3, <2>4
<1>7. CASE Pass
  <2>1. ~Missed
    BY <1>7, MissedStays
  <2>2. /\ UNCHANGED <<failing, interval>>
        /\ age'[c] = Older(age[c], 1) /\ grace' = Elapse(grace, 1)
        /\ timer'[c] = Elapse(timer[c], 1)
        /\ cycle'[c] = IF cycle[c] = Idle THEN Idle ELSE cycle[c] - 1
        /\ IF cycle[c] = Idle THEN timer[c] > 0 ELSE cycle[c] > 0
    BY <1>7 DEF Pass
  <2>3. Left(c) < grace \/ age[c] + Left(c) <= interval[c] + CycleTime
    BY <1>0, <2>1, <2>2 DEF Covered
  <2>4. age'[c] \in Nat /\ age'[c] <= age[c] + 1
    BY <2>2, MomentFacts
  <2>5. grace' \in Nat /\ grace' >= grace - 1
    BY <2>2, MomentFacts
  <2>6. Left(c)' = Left(c) - 1
    <3>1. CASE cycle[c] = Idle
      BY <2>2, <3>1, MomentFacts, Constants DEF Left
    <3>2. CASE cycle[c] # Idle
      <4>1. cycle[c] \in Nat /\ cycle'[c] = cycle[c] - 1 /\ cycle'[c] # Idle
        BY <2>2, <3>2, Constants
      <4> QED
        BY <3>2, <4>1 DEF Left
    <3> QED
      BY <3>1, <3>2
  <2> QED
    BY <1>0, <1>1, <2>2, <2>3, <2>4, <2>5, <2>6, Constants
<1>8. CASE Suspend
  BY <1>0, <1>8 DEF Suspend
<1>10. ASSUME NEW e \in Collectors, Vanish(e) PROVE Goal
  BY <1>2, <1>10 DEF Vanish, Missed, Left
<1>11. ASSUME NEW e \in Collectors, Reconfigure(e) PROVE Goal
  BY <1>3, <1>11 DEF Reconfigure
<1>12. CASE UNCHANGED vars
  BY <1>3, <1>12 DEF vars
<1> QED
  BY <1>4, <1>6, <1>7, <1>8, <1>9, <1>10, <1>11, <1>12, <1>13 DEF Next

\* No tick sweeps the alert of a source that fails and is not in doubt.
LEMMA SureNotSwept ==
  ASSUME InGrace, MinStale >= MinGrace
  PROVE  TypeOK /\ Bounded /\ Covered /\ [Next]_vars =>
           [\A c \in Collectors : failing[c] /\ open[c] /\ ~open'[c] => c \in doubt]_vars
<1> SUFFICES ASSUME TypeOK, Bounded, Covered, Next,
                    NEW c \in Collectors, failing[c], open[c], c \notin doubt
             PROVE  open'[c]
  OBVIOUS
<1>1. ASSUME Tick, ~Missed, grace = 0 PROVE ~Stale(c)
  <2> USE DEF TypeOK
  <2>1. Left(c) \in Nat
    BY Constants DEF Left
  <2>2. age[c] + Left(c) <= interval[c] + CycleTime
    BY <1>1, <2>1 DEF Covered
  <2>3. interval[c] + CycleTime <= StaleAfter /\ StaleAfter \in Nat
    BY RoomForCycle, Floors
  <2> HIDE DEF StaleAfter
  <2>4. age[c] \in Nat /\ interval[c] \in Nat /\ CycleTime \in Nat
    BY IntervalsAreNumbers, Constants
  <2> HIDE DEF TypeOK, Left
  <2>5. age[c] <= StaleAfter
    BY <2>1, <2>2, <2>3, <2>4
  <2> QED
    BY <2>3, <2>4, <2>5 DEF Stale
<1> QED
  BY <1>1, OnlyTickSweeps

(***************************************************************************)
(* Whatever the loops, their intervals and the window, and however many    *)
(* suspensions, restarts and settings changes there are, a source that     *)
(* still fails is swept only if it was ever slow and is in doubt, which    *)
(* StaleSweepNaps.cfg and StaleSweepReload.cfg show both to happen.  A     *)
(* cycle must fit in the grace period beside its interval (a cycle that    *)
(* outlasts it is swept after any restart), and minStaleAfter is no less   *)
(* than minSweepGrace and two periods.                                     *)
(***************************************************************************)
THEOREM SweptOnlyInDoubtHolds ==
  ASSUME InGrace, MinStale >= MinGrace, MinStale >= 2 * Every
  PROVE  Spec => SweptOnlyInDoubt
<1>1. TypeOK /\ Init => FastInv /\ Short /\ Touched /\ Bounded /\ Covered
  <2> SUFFICES ASSUME TypeOK, Init PROVE Bounded /\ Covered
    BY InitFast
  <2>1. \A c \in Collectors : interval[c] \in Nat
    BY Constants DEF TypeOK
  <2> QED
    BY <2>1 DEF Init, Bounded, Covered, Missed
<1>2. TypeOK /\ FastInv /\ [Next]_vars => FastInv'
  BY StepFast
<1>3. TypeOK /\ FastInv /\ Short /\ [Next]_vars => Short'
  BY StepShort
<1>4. TypeOK /\ FastInv /\ Short /\ Touched /\ [Next]_vars => Touched'
  BY StepTouched
<1>5. TypeOK /\ Bounded /\ [Next]_vars => Bounded'
  BY StepBounded
<1>6. TypeOK /\ Bounded /\ Covered /\ [Next]_vars => Covered'
  BY StepCovered
<1>7. TypeOK /\ Touched /\ Bounded /\ Covered /\ [Next]_vars =>
        [\A c \in Collectors : failing[c] /\ open[c] /\ ~open'[c] => c \in slow \cap doubt]_vars
  BY FastNotSwept, SureNotSwept
<1> QED
  BY <1>1, <1>2, <1>3, <1>4, <1>5, <1>6, <1>7, TypeCorrect, PTL DEF Spec, SweptOnlyInDoubt
=============================================================================
