----------------------------- MODULE StaleSweep -----------------------------
(***************************************************************************)
(* When the stale-alert sweep may run and how old an alert must be for it: *)
(* SweepTiming and StaleSweeper.Tick (internal/engine/stale.go), driven by *)
(* the scheduler's loops (internal/scheduler/scheduler.go), against        *)
(* collectors that re-observe their failing source once per cycle.         *)
(*                                                                         *)
(* Time is discrete.  Go timers are monotonic and stand still while the    *)
(* machine is suspended; ages, the gap between two ticks and the grace     *)
(* deadline are measured on the wall clock, which does not.  Every         *)
(* collector here raises one alert, open from the start: its age is the    *)
(* time since its updated_at.                                              *)
(***************************************************************************)
EXTENDS Integers, FiniteSets, FiniteSetsExt

CONSTANTS
  Collectors,    \* the loops of collectors that raise alerts
  Intervals,     \* intervals the configuration may give a collector
  Start,         \* the configured interval of each collector at first
  Reconfig,      \* the pairs <<old, new>> an interval may change by
  Every,         \* SweepEvery
  MinStale,      \* minStaleAfter
  MinGrace,      \* minSweepGrace
  CycleTime,     \* the longest a collection cycle runs
  Sleeps,        \* how long a suspension or downtime may last
  MaxEvents      \* bound on suspensions, restarts and settings changes

ASSUME TimingAssumption ==
  /\ Collectors # {} /\ IsFiniteSet(Collectors)
  /\ Intervals \subseteq Nat \ {0} /\ IsFiniteSet(Intervals)
  /\ Start \in [Collectors -> Intervals]
  /\ Reconfig \subseteq Intervals \X Intervals
  /\ {Every, MinStale, MinGrace} \subseteq Nat \ {0}
  /\ {CycleTime, MaxEvents} \subseteq Nat /\ Sleeps \subseteq Nat \ {0}

VARIABLES
  interval,   \* the configured interval of each collector (hot-reloaded)
  failing,    \* whether the collector's source still exists (and fails)
  open,       \* whether its alert is open
  age,        \* wall time since its alert was last touched
  timer,      \* monotonic time left on the loop's timer
  cycle,      \* time left of the cycle in progress, or Idle
  sweepTimer, \* monotonic time left on the alert_sweep loop's timer
  sinceTick,  \* wall time since lastTick, or Never
  grace,      \* wall time left until graceUntil
  extras,     \* suspensions, restarts and settings changes so far
  \* history
  slow,       \* collectors that were ever not Fast
  doubt       \* those not checked since a nap no tick notices or a lowered interval

collectorVars == <<interval, failing, open, age, timer, cycle>>
sweepVars     == <<sweepTimer, sinceTick, grace>>
history       == <<slow, doubt>>
vars          == <<collectorVars, sweepVars, extras, history>>

Idle  == -1
Never == -1

(***************************************************************************)
(* SweepTiming, from the longest interval of any alert-raising collector.  *)
(***************************************************************************)
Longest    == Max({interval[c] : c \in Collectors})
StaleAfter == Max({MinStale, 5 * Longest})
Grace      == Max({MinGrace, 2 * Longest})

\* Bounds: ages beyond every cutoff and gaps beyond two periods are all alike.
AgeCap == Max({MinStale} \cup {5 * i : i \in Intervals}) + 1
GapCap == 2 * Every + 1

Older(a, d)     == Min({a + d, AgeCap})
Elapse(t, d)    == Max({t - d, 0})
GapAfter(g, d)  == IF g = Never THEN Never ELSE Min({g + d, GapCap})

\* Every two ticks of the sweep have an observation of the source in between.
Fast(i) == i + CycleTime < Every

\* The next tick will notice a start, or more sleep than one of its periods.
Missed == sinceTick = Never \/ sinceTick + sweepTimer > 2 * Every

Init ==
  /\ interval = Start
  /\ failing = [c \in Collectors |-> TRUE]
  /\ open = [c \in Collectors |-> TRUE]
  /\ age \in [Collectors -> {0, AgeCap}]
  /\ timer = [c \in Collectors |-> 0]
  /\ cycle = [c \in Collectors |-> Idle]
  /\ sweepTimer = 0
  /\ sinceTick = Never
  /\ grace = 0
  /\ extras = 0
  /\ slow = {c \in Collectors : ~Fast(interval[c])} /\ doubt = {}

----------------------------------------------------------------------------
(* The collector loops                                                     *)

\* The loop's timer fires: fn(ctx) starts, and will take some time.
StartCycle(c) ==
  /\ timer[c] = 0
  /\ cycle[c] = Idle
  /\ \E d \in 0..CycleTime : cycle' = [cycle EXCEPT ![c] = d]
  /\ UNCHANGED <<interval, failing, open, age, timer, sweepVars, extras, history>>

(***************************************************************************)
(* The cycle ends: it has touched the alert of a failing source, and the   *)
(* timer is reset to the interval configured now.                          *)
(***************************************************************************)
EndCycle(c) ==
  /\ cycle[c] = 0
  /\ cycle' = [cycle EXCEPT ![c] = Idle]
  /\ timer' = [timer EXCEPT ![c] = interval[c]]
  /\ age' = [age EXCEPT ![c] = IF failing[c] THEN 0 ELSE @]
  /\ open' = [open EXCEPT ![c] = @ \/ failing[c]]
  /\ doubt' = doubt \ {c}
  /\ UNCHANGED <<interval, failing, sweepVars, extras, slow>>

\* The source disappears for good: nothing observes it any more.
Vanish(c) ==
  /\ failing[c]
  /\ failing' = [failing EXCEPT ![c] = FALSE]
  /\ UNCHANGED <<interval, open, age, timer, cycle, sweepVars, extras, history>>

----------------------------------------------------------------------------
(* The alert_sweep loop                                                    *)

Stale(c) == open[c] /\ age[c] > StaleAfter

\* SweepStale(now - staleAfter), which module AlertEngine breaks into steps.
Sweep == open' = [c \in Collectors |-> open[c] /\ ~Stale(c)]

\* Mutant: no grace period is taken after a gap.
TickGraceless ==
  /\ sweepTimer = 0
  /\ sinceTick' = 0
  /\ sweepTimer' = Every
  /\ Sweep
  /\ UNCHANGED <<interval, failing, age, timer, cycle, grace, extras, history>>

\* Mutant: the grace period is taken afresh at every tick.
TickAlwaysGrace ==
  /\ sweepTimer = 0
  /\ grace' = Grace
  /\ sinceTick' = 0
  /\ sweepTimer' = Every
  /\ UNCHANGED <<collectorVars, extras, history>>

(***************************************************************************)
(* Tick: a first tick or a wall-clock gap of more than two periods starts  *)
(* a grace period; outside one, the sweep runs.                            *)
(***************************************************************************)
Tick ==
  LET gap == sinceTick = Never \/ sinceTick > 2 * Every
      g   == IF gap THEN Grace ELSE grace IN
  /\ sweepTimer = 0
  /\ grace' = g
  /\ sinceTick' = 0
  /\ sweepTimer' = Every
  /\ IF g > 0 THEN UNCHANGED open ELSE Sweep
  /\ UNCHANGED <<interval, failing, age, timer, cycle, extras, history>>

----------------------------------------------------------------------------
(* Time, the machine and the operator                                      *)

\* Wall clock and timers advance together, up to the next timer.
Pass ==
  /\ sweepTimer > 0
  /\ \A c \in Collectors : IF cycle[c] = Idle THEN timer[c] > 0 ELSE cycle[c] > 0
  /\ age' = [c \in Collectors |-> Older(age[c], 1)]
  /\ timer' = [c \in Collectors |-> Elapse(timer[c], 1)]
  /\ cycle' = [c \in Collectors |-> IF cycle[c] = Idle THEN Idle ELSE cycle[c] - 1]
  /\ sweepTimer' = sweepTimer - 1
  /\ sinceTick' = GapAfter(sinceTick, 1)
  /\ grace' = Elapse(grace, 1)
  /\ UNCHANGED <<interval, failing, open, extras, history>>

Extra == extras < MaxEvents /\ extras' = extras + 1

\* The machine is suspended: only the wall clock advances.
Suspend ==
  /\ Extra
  /\ \E d \in Sleeps :
       /\ age' = [c \in Collectors |-> Older(age[c], d)]
       /\ sinceTick' = GapAfter(sinceTick, d)
       /\ grace' = Elapse(grace, d)
  /\ UNCHANGED <<interval, failing, open, timer, cycle, sweepTimer, slow>>
  /\ doubt' = IF Missed' THEN doubt ELSE Collectors

\* The daemon is stopped, or dies, and starts again.
RestartDaemon ==
  /\ Extra
  /\ \E d \in Sleeps \cup {0} : age' = [c \in Collectors |-> Older(age[c], d)]
  /\ timer' = [c \in Collectors |-> 0]
  /\ cycle' = [c \in Collectors |-> Idle]
  /\ sweepTimer' = 0
  /\ sinceTick' = Never
  /\ grace' = 0
  /\ doubt' = {}
  /\ UNCHANGED <<interval, failing, open, slow>>

\* POST /settings: timers that already run keep the interval they were set to.
Reconfigure(c) ==
  /\ Extra
  /\ \E i \in Intervals :
       /\ <<interval[c], i>> \in Reconfig
       /\ interval' = [interval EXCEPT ![c] = i]
       /\ slow' = IF Fast(i) THEN slow ELSE slow \cup {c}
       /\ doubt' = IF i < interval[c] THEN doubt \cup {c} ELSE doubt
  /\ UNCHANGED <<failing, open, age, timer, cycle, sweepVars>>

Next ==
  \/ \E c \in Collectors : StartCycle(c)
  \/ \E c \in Collectors : EndCycle(c)
  \/ \E c \in Collectors : Vanish(c)
  \/ Tick
  \/ Pass
  \/ Suspend
  \/ RestartDaemon
  \/ \E c \in Collectors : Reconfigure(c)

Spec == Init /\ [][Next]_vars

(***************************************************************************)
(* Time goes on and a timer that fires is served; nobody owes the system a *)
(* suspension, a restart or a settings change, and all three end.          *)
(***************************************************************************)
FairSpec ==
  /\ Spec
  /\ WF_vars(Pass) /\ WF_vars(Tick)
  /\ \A c \in Collectors : WF_vars(StartCycle(c)) /\ WF_vars(EndCycle(c))

----------------------------------------------------------------------------
(* Properties                                                              *)

(***************************************************************************)
(* What the sweep leaves of "a slowly-checked but still-failing source is  *)
(* never swept" (scheduler.go).  No tick resolves the alert of a source    *)
(* that still exists if its collector has always run faster than the       *)
(* sweep, however suspensions, restarts and settings changes fall; of any  *)
(* other, only if since its last check the machine slept too shortly for a *)
(* tick to notice, or its interval was lowered while the timer ran on.     *)
(***************************************************************************)
SweptOnlyInDoubt ==
  [][\A c \in Collectors : failing[c] /\ open[c] /\ ~open'[c] => c \in slow \cap doubt]_vars

(***************************************************************************)
(* What the comment says, without exception ("Timing scales with the       *)
(* slowest alert-raising collector so a slowly-checked but still-failing   *)
(* source is never swept", scheduler.go).  It holds where every loop runs  *)
(* faster than the sweep, as by default; naps and lowered intervals make   *)
(* the code break it elsewhere.                                            *)
(***************************************************************************)
StillFailingNeverSwept ==
  [][\A c \in Collectors : failing[c] /\ open[c] => open'[c]]_vars

(***************************************************************************)
(* An alert whose source has stopped being observed does not "stay open    *)
(* forever" (scheduler.go): it is resolved, whatever gaps and graces come  *)
(* first.                                                                  *)
(***************************************************************************)
VanishedIsResolved == \A c \in Collectors : ~failing[c] ~> ~open[c]
=============================================================================
