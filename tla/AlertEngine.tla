---------------------------- MODULE AlertEngine ----------------------------
(***************************************************************************)
(* The alert engine of internal/engine/alerts.go, the alerts table it      *)
(* reads and writes (internal/storage/alerts_repo.go) and the health       *)
(* score recomputation its OnChange callback runs                          *)
(* (internal/engine/health_score.go).                                      *)
(*                                                                         *)
(* Two kinds of goroutine run this code: the collector loops, each         *)
(* calling Observe for the rules of its own collectors, and the            *)
(* alert_sweep loop, calling SweepStale.  Every database call and every    *)
(* critical section of the engine's mutex is one step, so all their        *)
(* interleavings are explored.  A database call may fail, and the process  *)
(* may be killed between any two steps and started again.                  *)
(*                                                                         *)
(* A key is a rule together with a source.  The wall clock is abstracted:  *)
(* a row is marked stale when its updated_at has fallen behind the sweep's *)
(* cutoff, which the stale window allows only for a source nobody observes *)
(* any more (module StaleSweep is about that window).                      *)
(***************************************************************************)
EXTENDS Naturals, Sequences, FiniteSets

CONSTANTS
  Keys,         \* alert keys: rule|source
  Loops,        \* the collector loops of the scheduler
  Sweeper,      \* the alert_sweep loop
  Owner,        \* the one loop that observes a key
  Immediate,    \* keys whose rule skips the trigger debounce
  Vanishing,    \* keys whose source may stop being observed
  TriggerNs,    \* values TriggerN() may return (several: hot reload)
  ResolveMs,    \* values ResolveM() may return
  CountCap,     \* counters saturate here, above every threshold
  Faults,       \* database calls that may fail, and "crash"
  MaxChanges    \* bound on the changes of the observed world

ASSUME ProcAssumption ==
  /\ Keys # {}
  /\ Sweeper \notin Loops
  /\ Owner \in [Keys -> Loops]
  /\ Immediate \subseteq Keys
  /\ Vanishing \subseteq Keys

ASSUME DebounceAssumption ==
  /\ CountCap \in Nat \ {0}
  /\ TriggerNs \subseteq 1..CountCap /\ TriggerNs # {}
  /\ ResolveMs \subseteq 1..CountCap /\ ResolveMs # {}
  /\ MaxChanges \in Nat

VARIABLES
  alerts,     \* the alerts table; the row's position is its id
  events,     \* alert events published on the bus, oldest first
  score,      \* the alert set the newest health_scores row was computed from
  failures,   \* AlertEngine.failures
  healthy,    \* AlertEngine.healthy
  pc,         \* where each goroutine is
  cur,        \* each goroutine's current observation or row
  input,      \* the open alerts a Recompute in flight has read
  batch,      \* rows the sweep in progress has still to resolve
  swept,      \* whether the sweep in progress resolved a row
  up,         \* FALSE between a crash and the restart
  world,      \* what each key's source would report: "ok", "bad" or "gone"
  changes,    \* how often the world has changed
  streak      \* history: consecutive observations of each kind

engineVars == <<failures, healthy>>
dbVars     == <<alerts, score>>
worldVars  == <<world, changes>>
sweepVars  == <<batch, swept>>
vars == <<alerts, events, score, failures, healthy, pc, cur, input, batch,
          swept, up, world, changes, streak>>

Procs == Loops \cup {Sweeper}
Ids   == 1..Len(alerts)

Row    == [key : Keys, status : {"open", "resolved"}, stale : BOOLEAN]
Places == {"idle", "count", "touch", "create", "resolve", "announceCreated",
           "announceResolved", "clear", "read", "store"}

OpenRows    == {i \in Ids : alerts[i].status = "open"}
OpenOf(k)   == {i \in OpenRows : alerts[i].key = k}
OpenKeys    == {alerts[i].key : i \in OpenRows}
Latest(ids) == CHOOSE i \in ids : \A j \in ids : j <= i

Bump(n)     == IF n < CountCap THEN n + 1 ELSE n
MayFail(op) == op \in Faults

(***************************************************************************)
(* TriggerN() is read at each observation; an immediate rule overrides it. *)
(***************************************************************************)
Thresholds(k) == IF k \in Immediate THEN {1} ELSE TriggerNs

NoStreak == [bad |-> 0, sinceClosed |-> 0, good |-> 0]
NoRow(k) == [key |-> k, failing |-> FALSE, id |-> 0]
AnyKey   == CHOOSE k \in Keys : TRUE

Init ==
  /\ alerts = <<>>
  /\ events = <<>>
  /\ score = {}
  /\ failures = [k \in Keys |-> 0]
  /\ healthy = [k \in Keys |-> 0]
  /\ pc = [p \in Procs |-> "idle"]
  /\ cur = [p \in Procs |-> NoRow(AnyKey)]
  /\ input = [p \in Procs |-> {}]
  /\ batch = {}
  /\ swept = FALSE
  /\ up = TRUE
  /\ world \in [Keys -> {"ok", "bad"}]
  /\ changes = 0
  /\ streak = [k \in Keys |-> NoStreak]

Goto(p, place) == pc' = [pc EXCEPT ![p] = place]

----------------------------------------------------------------------------
(* The statements of the storage layer and the bus, each atomic.           *)

\* Mutant: the status is left out of the WHERE clause.
FindOpenAlertAnyStatus(k) ==
  LET rows == {i \in Ids : alerts[i].key = k} IN IF rows = {} THEN {0} ELSE rows

(***************************************************************************)
(* One open row of the key, 0 if it has none (SELECT without an order).    *)
(***************************************************************************)
FindOpenAlert(k) == IF OpenOf(k) = {} THEN {0} ELSE OpenOf(k)

\* An INSERT that takes the next id.
CreateAlert(k) ==
  alerts' = Append(alerts, [key |-> k, status |-> "open", stale |-> FALSE])

(***************************************************************************)
(* UPDATEs that name the id alone: TouchAlert refreshes updated_at of      *)
(* whatever row has it, open or not; ResolveAlert succeeds on a row that   *)
(* is already resolved.                                                    *)
(***************************************************************************)
TouchAlert(i) == alerts' = [alerts EXCEPT ![i].stale = FALSE]

ResolveAlert(i) ==
  alerts' = [alerts EXCEPT ![i] =
               [key |-> @.key, status |-> "resolved", stale |-> FALSE]]

(***************************************************************************)
(* Publish.  The InsertEvent before it fills a table nothing of the engine *)
(* reads, and its error is ignored.                                        *)
(***************************************************************************)
Publish(type, id) == events' = Append(events, [type |-> type, id |-> id])

InsertHealthScore(s) == score' = s \/ (MayFail("store") /\ UNCHANGED score)

----------------------------------------------------------------------------
(* The world the collectors look at.                                       *)

(***************************************************************************)
(* The source of key k starts failing, recovers, or disappears.            *)
(***************************************************************************)
Change(k) ==
  /\ changes < MaxChanges
  /\ \E w \in {"ok", "bad"} \cup (IF k \in Vanishing THEN {"gone"} ELSE {}) :
       /\ w # world[k]
       /\ world' = [world EXCEPT ![k] = w]
  /\ changes' = changes + 1
  /\ UNCHANGED <<alerts, events, score, failures, healthy, pc, cur, input,
                 batch, swept, up, streak>>

(***************************************************************************)
(* The stale window passes over an open row whose source is gone.  No      *)
(* observation of that key is in progress: the window is minutes long, an  *)
(* observation milliseconds, and a suspended machine is given a grace      *)
(* period by the sweeper.                                                  *)
(***************************************************************************)
GoStale(i) ==
  /\ i \in OpenRows
  /\ ~alerts[i].stale
  /\ world[alerts[i].key] = "gone"
  /\ ~ \E l \in Loops : pc[l] # "idle" /\ cur[l].key = alerts[i].key
  /\ alerts' = [alerts EXCEPT ![i].stale = TRUE]
  /\ UNCHANGED <<events, score, failures, healthy, pc, cur, input, batch,
                 swept, up, world, changes, streak>>

----------------------------------------------------------------------------
(* Observe                                                                 *)

(***************************************************************************)
(* The lookup.  An error abandons the observation before anything is       *)
(* counted: a stuttering step.                                             *)
(***************************************************************************)
Lookup(k) ==
  LET l == Owner[k] IN
  /\ up
  /\ pc[l] = "idle"
  /\ world[k] # "gone"
  /\ \E id \in FindOpenAlert(k) :
       cur' = [cur EXCEPT ![l] =
                 [key |-> k, failing |-> world[k] = "bad", id |-> id]]
  /\ Goto(l, "count")
  /\ UNCHANGED <<alerts, events, score, failures, healthy, input, batch,
                 swept, up, world, changes, streak>>

(***************************************************************************)
(* The section under e.mu, then the debounce decision.  The thresholds are *)
(* read after the counters are bumped.                                     *)
(***************************************************************************)
\* Mutant: the lookup's result is ignored, so an open alert gets a duplicate.
CountFailingNoDedup(l) ==
  LET k == cur[l].key  n == Bump(failures[k]) IN
  /\ cur[l].failing
  /\ healthy' = [healthy EXCEPT ![k] = 0]
  /\ failures' = [failures EXCEPT ![k] = n]
  /\ UNCHANGED streak
  /\ \E t \in Thresholds(k) : Goto(l, IF n < t THEN "idle" ELSE "create")

\* Mutant: the failure counter is set to one instead of incremented.
CountFailingStuck(l) ==
  LET k == cur[l].key IN
  /\ cur[l].failing
  /\ healthy' = [healthy EXCEPT ![k] = 0]
  /\ failures' = [failures EXCEPT ![k] = 1]
  /\ UNCHANGED streak
  /\ Goto(l, IF cur[l].id # 0 THEN "touch" ELSE "idle")

CountFailing(l) ==
  LET k == cur[l].key  n == Bump(failures[k]) IN
  /\ cur[l].failing
  /\ healthy' = [healthy EXCEPT ![k] = 0]
  /\ failures' = [failures EXCEPT ![k] = n]
  /\ streak' = [streak EXCEPT ![k] =
                  [bad |-> Bump(@.bad), sinceClosed |-> Bump(@.sinceClosed),
                   good |-> 0]]
  /\ \/ cur[l].id # 0 /\ Goto(l, "touch")
     \/ /\ cur[l].id = 0
        /\ \E t \in Thresholds(k) : Goto(l, IF n < t THEN "idle" ELSE "create")

\* Mutant: a healthy observation with nothing open keeps the failure counter.
CountHealthyKeepsFailures(l) ==
  LET k == cur[l].key IN
  /\ ~cur[l].failing
  /\ streak' = [streak EXCEPT ![k] =
                  [bad |-> 0, sinceClosed |-> 0, good |-> Bump(@.good)]]
  /\ healthy' = [healthy EXCEPT ![k] = IF cur[l].id = 0 THEN 0 ELSE Bump(@)]
  /\ Goto(l, IF cur[l].id # 0 /\ Bump(healthy[k]) >= 2 THEN "resolve" ELSE "idle")
  /\ UNCHANGED failures

\* Mutant: every healthy observation starts the resolve debounce afresh.
CountHealthyStuck(l) ==
  LET k == cur[l].key IN
  /\ ~cur[l].failing
  /\ failures' = [failures EXCEPT ![k] = 0]
  /\ healthy' = [healthy EXCEPT ![k] = IF cur[l].id = 0 THEN 0 ELSE 1]
  /\ UNCHANGED streak
  /\ Goto(l, "idle")

CountHealthy(l) ==
  LET k == cur[l].key  n == Bump(healthy[k]) IN
  /\ ~cur[l].failing
  /\ failures' = [failures EXCEPT ![k] = 0]
  /\ streak' = [streak EXCEPT ![k] =
                  [bad |-> 0, sinceClosed |-> 0, good |-> Bump(@.good)]]
  /\ \/ /\ cur[l].id # 0
        /\ healthy' = [healthy EXCEPT ![k] = n]
        /\ \E m \in ResolveMs : Goto(l, IF n < m THEN "idle" ELSE "resolve")
     \/ /\ cur[l].id = 0
        /\ healthy' = [healthy EXCEPT ![k] = 0]
        /\ Goto(l, "idle")

Count(l) ==
  /\ pc[l] = "count"
  /\ CountFailing(l) \/ CountHealthy(l)
  /\ UNCHANGED <<alerts, events, score, cur, input, batch, swept, up, world,
                 changes>>

\* Mutant: the UPDATE sets the status too, and so reopens a resolved row.
TouchReopens(l) ==
  /\ pc[l] = "touch"
  /\ alerts' = [alerts EXCEPT ![cur[l].id] =
                  [key |-> @.key, status |-> "open", stale |-> FALSE]]
  /\ Goto(l, "idle")
  /\ UNCHANGED <<events, score, failures, healthy, cur, input, batch, swept,
                 up, world, changes, streak>>

\* Already open: no duplicate row, just re-observe.
Touch(l) ==
  /\ pc[l] = "touch"
  /\ \/ TouchAlert(cur[l].id)
     \/ MayFail("touch") /\ UNCHANGED alerts
  /\ Goto(l, "idle")
  /\ UNCHANGED <<events, score, failures, healthy, cur, input, batch, swept,
                 up, world, changes, streak>>

\* Mutant: the error of a failed INSERT is not looked at.
CreateIgnoringError(l) ==
  /\ pc[l] = "create"
  /\ cur' = [cur EXCEPT ![l].id = Len(alerts) + 1]
  /\ Goto(l, "announceCreated")
  /\ CreateAlert(cur[l].key) \/ (MayFail("create") /\ UNCHANGED alerts)
  /\ UNCHANGED <<events, score, failures, healthy, input, batch, swept, up,
                 world, changes, streak>>

\* Mutant: an alert is created without being announced.
CreateSilently(l) ==
  /\ pc[l] = "create"
  /\ CreateAlert(cur[l].key)
  /\ Goto(l, "read")
  /\ UNCHANGED <<events, score, failures, healthy, cur, input, batch, swept,
                 up, world, changes, streak>>

\* Debounced: open the alert.
Create(l) ==
  /\ pc[l] = "create"
  /\ \/ /\ CreateAlert(cur[l].key)
        /\ cur' = [cur EXCEPT ![l].id = Len(alerts) + 1]
        /\ Goto(l, "announceCreated")
     \/ /\ MayFail("create")
        /\ Goto(l, "idle")
        /\ UNCHANGED <<alerts, cur>>
  /\ UNCHANGED <<events, score, failures, healthy, input, batch, swept, up,
                 world, changes, streak>>

\* Announce the new alert; OnChange is next.
AnnounceCreated(l) ==
  /\ pc[l] = "announceCreated"
  /\ Publish("created", cur[l].id)
  /\ Goto(l, "read")
  /\ UNCHANGED <<alerts, score, failures, healthy, cur, input, batch, swept,
                 up, world, changes, streak>>

----------------------------------------------------------------------------
(* SweepStale and resolve                                                  *)

(***************************************************************************)
(* OpenAlerts, and the rows of it that are older than the cutoff, newest   *)
(* first.  With none there is nothing to do: a stuttering step.            *)
(***************************************************************************)
StartSweep ==
  LET old == {i \in OpenRows : alerts[i].stale} IN
  /\ up
  /\ pc[Sweeper] = "idle"
  /\ old # {}
  /\ batch' = old
  /\ swept' = FALSE
  /\ cur' = [cur EXCEPT ![Sweeper] = [key |-> alerts[Latest(old)].key,
                                      failing |-> FALSE, id |-> Latest(old)]]
  /\ Goto(Sweeper, "resolve")
  /\ UNCHANGED <<alerts, events, score, failures, healthy, input, up, world,
                 changes, streak>>

(***************************************************************************)
(* The sweep's loop moves on: to the next row of its snapshot, or out of   *)
(* the loop, where OnChange runs if any row was swept.                     *)
(***************************************************************************)
NextRow(any) ==
  LET rest == batch \ {cur[Sweeper].id} IN
  /\ batch' = rest
  /\ swept' = any
  /\ IF rest = {}
       THEN Goto(Sweeper, IF any THEN "read" ELSE "idle") /\ UNCHANGED cur
       ELSE /\ cur' = [cur EXCEPT ![Sweeper] =
                         [key |-> alerts[Latest(rest)].key, failing |-> FALSE,
                          id |-> Latest(rest)]]
            /\ Goto(Sweeper, "resolve")

(***************************************************************************)
(* The engine's resolve: the UPDATE, and for the sweep the next row if it  *)
(* fails.                                                                  *)
(***************************************************************************)
Close(p) == /\ ResolveAlert(cur[p].id)
            /\ streak' = [streak EXCEPT ![cur[p].key].sinceClosed = 0]

\* Mutant: the sweep resolves without announcing.
ResolveSilently(p) ==
  /\ pc[p] = "resolve"
  /\ Close(p)
  /\ Goto(p, IF p = Sweeper THEN "clear" ELSE "announceResolved")
  /\ UNCHANGED <<events, score, failures, healthy, cur, input, batch, swept,
                 up, world, changes>>

Resolve(p) ==
  /\ pc[p] = "resolve"
  /\ \/ /\ Close(p)
        /\ Goto(p, "announceResolved")
        /\ UNCHANGED <<cur, batch, swept>>
     \/ /\ MayFail("resolve")
        /\ IF p = Sweeper THEN NextRow(swept)
                          ELSE Goto(p, "idle") /\ UNCHANGED <<cur, batch, swept>>
        /\ UNCHANGED <<alerts, streak>>
  /\ UNCHANGED <<events, score, failures, healthy, input, up, world, changes>>

AnnounceResolved(p) ==
  /\ pc[p] = "announceResolved"
  /\ Publish("resolved", cur[p].id)
  /\ Goto(p, IF p = Sweeper THEN "clear" ELSE "read")
  /\ UNCHANGED <<alerts, score, failures, healthy, cur, input, batch, swept,
                 up, world, changes, streak>>

\* Mutant: the counters stay.
ClearNothing ==
  /\ pc[Sweeper] = "clear"
  /\ NextRow(TRUE)
  /\ UNCHANGED <<alerts, events, score, failures, healthy, input, up, world,
                 changes, streak>>

(***************************************************************************)
(* After a swept row, its debounce counters go, in a critical section of   *)
(* their own.                                                              *)
(***************************************************************************)
ClearCounters ==
  /\ pc[Sweeper] = "clear"
  /\ failures' = [failures EXCEPT ![cur[Sweeper].key] = 0]
  /\ healthy' = [healthy EXCEPT ![cur[Sweeper].key] = 0]
  /\ NextRow(TRUE)
  /\ UNCHANGED <<alerts, events, score, input, up, world, changes, streak>>

----------------------------------------------------------------------------
(* OnChange: HealthEngine.Recompute.  No lock covers it, so two goroutines *)
(* may be inside it at once.  ComputeScore is a function of the open rules *)
(* (module HealthScore), so the score is represented by the set it was     *)
(* computed from.                                                          *)

ReadOpen(p) ==
  /\ pc[p] = "read"
  /\ \/ input' = [input EXCEPT ![p] = OpenKeys] /\ Goto(p, "store")
     \/ MayFail("read") /\ Goto(p, "idle") /\ UNCHANGED input
  /\ UNCHANGED <<alerts, events, score, failures, healthy, cur, batch, swept,
                 up, world, changes, streak>>

StoreScore(p) ==
  /\ pc[p] = "store"
  /\ InsertHealthScore(input[p])
  /\ Goto(p, "idle")
  /\ input' = [input EXCEPT ![p] = {}]
  /\ UNCHANGED <<alerts, events, failures, healthy, cur, batch, swept, up,
                 world, changes, streak>>

----------------------------------------------------------------------------
(* Crash and restart                                                       *)

(***************************************************************************)
(* The tables survive; the counters, the goroutines and the bus do not.    *)
(***************************************************************************)
Crash ==
  /\ up
  /\ MayFail("crash")
  /\ up' = FALSE
  /\ failures' = [k \in Keys |-> 0]
  /\ healthy' = [k \in Keys |-> 0]
  /\ streak' = [k \in Keys |-> NoStreak]
  /\ pc' = [p \in Procs |-> "idle"]
  /\ cur' = [p \in Procs |-> NoRow(AnyKey)]
  /\ input' = [p \in Procs |-> {}]
  /\ batch' = {}
  /\ swept' = FALSE
  /\ UNCHANGED <<alerts, events, score, world, changes>>

\* Mutant: nothing seeds the score at startup.
RestartUnseeded ==
  /\ ~up
  /\ up' = TRUE
  /\ UNCHANGED <<alerts, events, score, failures, healthy, pc, cur, input,
                 batch, swept, world, changes, streak>>

(***************************************************************************)
(* run() recomputes the score before it starts the loops.                  *)
(***************************************************************************)
Restart ==
  /\ ~up
  /\ up' = TRUE
  /\ InsertHealthScore(OpenKeys)
  /\ UNCHANGED <<alerts, events, failures, healthy, pc, cur, input, batch,
                 swept, world, changes, streak>>

Next ==
  \/ \E k \in Keys : Change(k)
  \/ \E i \in Ids : GoStale(i)
  \/ \E k \in Keys : Lookup(k)
  \/ \E l \in Loops : Count(l)
  \/ \E l \in Loops : Touch(l)
  \/ \E l \in Loops : Create(l)
  \/ \E l \in Loops : AnnounceCreated(l)
  \/ StartSweep
  \/ \E p \in Procs : Resolve(p)
  \/ \E p \in Procs : AnnounceResolved(p)
  \/ ClearCounters
  \/ \E p \in Procs : ReadOpen(p)
  \/ \E p \in Procs : StoreScore(p)
  \/ Crash
  \/ Restart

Spec == Init /\ [][Next]_vars

(***************************************************************************)
(* A goroutine inside Observe or SweepStale runs on; each loop's timer     *)
(* fires again and again and its cycle observes each of its keys, so each  *)
(* key is looked up again and again although its loop is often busy with   *)
(* another; the sweep runs every minute; time passes over a source that    *)
(* stays gone.                                                             *)
(***************************************************************************)
Run(p) ==
  \/ Count(p) \/ Touch(p) \/ Create(p) \/ AnnounceCreated(p)
  \/ Resolve(p) \/ AnnounceResolved(p) \/ ReadOpen(p) \/ StoreScore(p)
  \/ (p = Sweeper /\ ClearCounters)

Fairness ==
  /\ \A p \in Procs : WF_vars(Run(p))
  /\ \A k \in Keys : SF_vars(Lookup(k))
  /\ WF_vars(StartSweep)
  /\ \A k \in Vanishing : SF_vars(\E i \in OpenOf(k) : GoStale(i))
  /\ WF_vars(Restart)

FairSpec == Spec /\ Fairness

----------------------------------------------------------------------------
(* Properties                                                              *)

EventSet == [type : {"created", "resolved"}, id : Nat \ {0}]
Streak   == [bad : 0..CountCap, sinceClosed : 0..CountCap, good : 0..CountCap]

(***************************************************************************)
(* Every variable has its type: ids the goroutines carry name rows of the  *)
(* table wherever the code goes on to use them.                            *)
(***************************************************************************)
TypeOK ==
  /\ alerts \in Seq(Row)
  /\ events \in Seq(EventSet)
  /\ score \subseteq Keys
  /\ failures \in [Keys -> 0..CountCap]
  /\ healthy \in [Keys -> 0..CountCap]
  /\ pc \in [Procs -> Places]
  /\ cur \in [Procs -> [key : Keys, failing : BOOLEAN, id : Nat]]
  /\ input \in [Procs -> SUBSET Keys]
  /\ batch \subseteq Ids
  /\ swept \in BOOLEAN
  /\ up \in BOOLEAN
  /\ world \in [Keys -> {"ok", "bad", "gone"}]
  /\ changes \in 0..MaxChanges
  /\ streak \in [Keys -> Streak]
  /\ \A p \in Procs : cur[p].id \in 0..Len(alerts)

(***************************************************************************)
(* "Already open: no duplicate row" (alerts.go): whatever the loops, the   *)
(* sweeper, failing calls and crashes do between the lookup and the        *)
(* insert, a key has at most one open alert.  No index of the schema       *)
(* enforces it.                                                            *)
(***************************************************************************)
OneOpenPerKey ==
  \A i, j \in OpenRows : alerts[i].key = alerts[j].key => i = j

(***************************************************************************)
(* An alert opens only after enough failing observations in a row, none of *)
(* them healthy and none before a restart, and a collector resolves one    *)
(* only after enough healthy ones in a row.  It holds whatever the sweep,  *)
(* lookups that fail and settings that change do to the counters in        *)
(* between.                                                                *)
(***************************************************************************)
Hysteresis ==
  \A l \in Loops :
    /\ pc[l] = "create" =>
         \E t \in Thresholds(cur[l].key) : streak[cur[l].key].bad >= t
    /\ pc[l] = "resolve" =>
         \E m \in ResolveMs : streak[cur[l].key].good >= m

(***************************************************************************)
(* Of a swept alert alerts.go says: "If the source comes back and fails    *)
(* again, the normal debounce reopens it".  Read to the letter, only       *)
(* observations that follow the key's last resolution open an alert.  The  *)
(* code breaks it (AlertSweepRace.cfg): the sweep resolves the row first   *)
(* and clears the counters later.                                          *)
(***************************************************************************)
DebouncedSinceClosed ==
  \A l \in Loops : pc[l] = "create" =>
    \E t \in Thresholds(cur[l].key) : streak[cur[l].key].sinceClosed >= t

(***************************************************************************)
(* What the code does keep of it, beside the sweep, after a crash and      *)
(* whatever statements fail: an observation that goes on to open an alert  *)
(* is the last of enough failing ones since the key's last resolution,     *)
(* unless it is counted between the sweep's UPDATE of that key and the     *)
(* reset of its counters.                                                  *)
(***************************************************************************)
SweepUnfinished(k) ==
  pc[Sweeper] \in {"announceResolved", "clear"} /\ cur[Sweeper].key = k

DebouncedUnlessSwept ==
  [][\A l \in Loops : pc[l] = "count" /\ pc'[l] = "create" =>
       LET k == cur[l].key IN
       \/ \E t \in Thresholds(k) : streak'[k].sinceClosed >= t
       \/ SweepUnfinished(k)]_vars

(***************************************************************************)
(* The engine implements AlertLifecycle: read through OpenId, the table    *)
(* and the two kinds of goroutine are a sequence of numbered alerts per    *)
(* key that open on evidence, one at a time, and close for good, although  *)
(* the lookup, the insert and the updates are separate statements that     *)
(* name an id and check nothing.                                           *)
(***************************************************************************)
OpenId(k) == IF OpenOf(k) = {} THEN 0 ELSE CHOOSE i \in OpenOf(k) : TRUE

Lifecycle == INSTANCE AlertLifecycle WITH
  Enough   <- [k \in Keys |-> Thresholds(k)],
  open     <- [k \in Keys |-> OpenId(k)],
  last     <- Len(alerts),
  evidence <- [k \in Keys |-> streak[k].bad]

ImplementsLifecycle == Lifecycle!Spec

(***************************************************************************)
(* "resolve closes one open alert and announces it.  It reports whether    *)
(* the alert was actually resolved" (alerts.go): an alert is announced as  *)
(* resolved at most once.  Beside the sweep the code breaks it             *)
(* (AlertTwice.cfg): a collector and a sweep that both hold a row resolve  *)
(* it both, for ResolveAlert checks no status.                             *)
(***************************************************************************)
IsResolution(n) == events[n].type = "resolved"

ResolvedAnnouncedOnce ==
  \A m, n \in DOMAIN events : IsResolution(m) /\ events[m] = events[n] => m = n

(***************************************************************************)
(* What the code does keep of it, across crashes and failed UPDATEs: two   *)
(* announcements are the most, its collector's and one sweep's, and an     *)
(* alert whose source is always observed has one, although loops, sweeps   *)
(* and restarts may each have read the row while it was open.              *)
(***************************************************************************)
AnnouncedTwiceAtMost ==
  /\ \A l, m, n \in DOMAIN events :
       IsResolution(l) /\ events[l] = events[m] /\ events[m] = events[n]
       => l = m \/ l = n \/ m = n
  /\ \A m, n \in DOMAIN events :
       /\ IsResolution(m) /\ events[m] = events[n]
       /\ alerts[events[m].id].key \notin Vanishing
       => m = n

(***************************************************************************)
(* Subscribers hear of an alert's opening before its resolution, and never *)
(* of a resolution alone, though different goroutines publish the two.     *)
(***************************************************************************)
CreatedBeforeResolved ==
  \A n \in DOMAIN events : events[n].type = "resolved" =>
    \E m \in 1..(n - 1) : events[m] = [type |-> "created", id |-> events[n].id]

(***************************************************************************)
(* Once every goroutine is done, each row has been announced as created,   *)
(* and exactly the resolved ones as resolved: no transition is silent and  *)
(* none is announced that did not happen.                                  *)
(***************************************************************************)
Quiet == up /\ \A p \in Procs : pc[p] = "idle"
Announced(type) == {events[n].id : n \in {m \in DOMAIN events :
                                            events[m].type = type}}
EveryTransitionAnnounced ==
  Quiet => /\ Announced("created") = Ids
           /\ Announced("resolved") = Ids \ OpenRows

(***************************************************************************)
(* The score is "recomputed on every alert open/resolve"                   *)
(* (docs/architecture.md): with nothing in progress the newest score is    *)
(* the one the open alerts give, also after a crash between an alert's     *)
(* transition and its recomputation.                                       *)
(***************************************************************************)
ScoreMatchesAlerts == Quiet => score = OpenKeys

(***************************************************************************)
(* A source that fails from some point on ends up with an open alert that  *)
(* stays open: no sweep, failed write or lost debounce count keeps it shut *)
(* or keeps closing it.                                                    *)
(***************************************************************************)
FailureEndsOpen ==
  \A k \in Keys : <>[](world[k] = "bad") => <>[](OpenOf(k) # {})

(***************************************************************************)
(* A source that recovers, or is never seen again, ends with no open       *)
(* alert: nothing stays open forever without evidence.                     *)
(***************************************************************************)
EndOfFailureEndsClosed ==
  \A k \in Keys :
    /\ <>[](world[k] = "ok") => <>[](OpenOf(k) = {})
    /\ <>[](world[k] = "gone") => <>[](OpenOf(k) = {})
=============================================================================
