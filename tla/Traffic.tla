------------------------------ MODULE Traffic ------------------------------
(***************************************************************************)
(* What the daemon makes of the kernel's byte counters.  Two collectors    *)
(* watch the same wire and share nothing else: the network cycle turns the *)
(* counters of the interface into rates and spike alerts                   *)
(* (collector/interfaces.go, Manager.checkTrafficSpike), the app traffic   *)
(* cycle turns the counters of TCP connections into bytes per app          *)
(* (collector/app_traffic.go).  Counters start over under both: a driver   *)
(* reloads, an inode number names a new socket, the daemon restarts.  And  *)
(* the clock that dates a sample may be set: UTC() strips its monotonic    *)
(* part, so the time between two samples may be none, negative or wrong.   *)
(*                                                                         *)
(* There is one interface that is not excluded, and it is the primary one. *)
(* A connection's key (inode, local and peer address) is a slot: a slot    *)
(* that closes and opens again stands for a key used twice.  No key is     *)
(* reused between ss and the scan of /proc that follows it at once.        *)
(***************************************************************************)
EXTENDS Integers, Sequences, FiniteSets, Functions

CONSTANTS
  Keys,        \* keys of TCP connections
  Loopback,    \* those whose peer is a loopback address
  Apps,        \* process names
  Hidden,      \* apps whose /proc/[pid]/fd the daemon may not read
  Nobody,      \* "(unidentified)", and the absence of a connection
  Multiplier,  \* alerts.traffic_spike_multiplier
  MinAverage,  \* the average below which there is no baseline
  Window,      \* the ten minutes of the average, in ticks
  MaxGap,      \* the hour after which a sample is only a baseline, in ticks
  Delays,      \* ticks that may pass before a network cycle
  Jumps,       \* by how much the clock may be set, forwards or back, in ticks
  Scale,       \* rates are in bytes per Scale ticks, so that none is a fraction
  MaxCycles,   \* bound on cycles of the two collectors together
  MaxEvents    \* bound on transfers, connections that come or go, and faults

ASSUME TrafficAssumption ==
  /\ IsFiniteSet(Keys) /\ IsFiniteSet(Apps)
  /\ Loopback \subseteq Keys /\ Hidden \subseteq Apps /\ Nobody \notin Apps
  /\ Multiplier \in Nat \ {0} /\ MinAverage \in Nat \ {0}
  /\ {Window, MaxGap} \subseteq Nat /\ Delays \subseteq Nat \ {0} /\ Jumps \subseteq Int
  /\ Scale \in Nat \ {0} /\ \A dt \in 1..MaxGap : Scale % dt = 0
  /\ MaxCycles \in Nat /\ MaxEvents \in Nat

VARIABLES
  \* the kernel: connections and the counters of the interface
  owner,       \* the app of each open connection, Nobody for a closed one
  conn, iface, \* bytes received and sent
  clock,       \* the wall clock
  \* InterfaceCollector: the last counters, if there are any, and their time
  sampled, prevIface, prevAt,
  rows,        \* interface_metrics: the rates, their span and the time of each
  spike,       \* the traffic_spike alert is open
  \* AppTrafficCollector
  prevConn, first,
  appAt,       \* where RunAppTrafficCycle is
  snapshot,    \* the connections ss listed
  recorded,    \* per-app bytes in app_traffic_metrics
  \* history
  since,       \* what passed since the last sample: bytes, ticks, a reset, a jump
  moved,       \* bytes each app really moved over the network
  unseen,      \* bytes of each connection since ss last listed it
  inHand,      \* bytes ss listed that are not yet charged to apps
  lost,        \* bytes of baselines, closed connections and failed inserts
  reused,      \* a key was used again before ss ran without it
  cycles, events

kernel  == <<owner, conn, iface, clock>>
network == <<sampled, prevIface, prevAt, rows, spike>>
appSide == <<prevConn, first, appAt, snapshot, recorded>>
charged == <<moved, unseen, inHand, lost, reused>>
bounds  == <<cycles, events>>
trafficVars    == <<kernel, network, appSide, since, charged, bounds>>

----------------------------------------------------------------------------
(* Bytes in both directions                                                *)

Zero         == [rx |-> 0, tx |-> 0]
Plus(a, b)   == [rx |-> a.rx + b.rx, tx |-> a.tx + b.tx]
Minus(a, b)  == [rx |-> a.rx - b.rx, tx |-> a.tx - b.tx]
Covers(a, b) == a.rx >= b.rx /\ a.tx >= b.tx
Total(f, S)  == [rx |-> SumFunctionOnSet([k \in S |-> f[k].rx], S),
                 tx |-> SumFunctionOnSet([k \in S |-> f[k].tx], S)]
Direction    == {[rx |-> 1, tx |-> 0], [rx |-> 0, tx |-> 1]}

Labels   == Apps \cup {Nobody}
NoRate   == -1
NoConn   == [k \in {} |-> Zero]
Quiet    == [rx |-> 0, tx |-> 0, ticks |-> 0, reset |-> FALSE, jumped |-> FALSE]

\* Something happens outside the collectors, or fails under them.
Event == events < MaxEvents /\ events' = events + 1

----------------------------------------------------------------------------
(* InterfaceCollector.Collect and ComputeRates                             *)

Baseline == [rx |-> NoRate, tx |-> NoRate, over |-> 0]

\* Mutant: a clock that was set back is not looked for.
ComputeRatesBackwards(before, after, dt) ==
  IF dt > MaxGap \/ dt = 0 \/ ~Covers(after, before) THEN Baseline
  ELSE [rx |-> (after.rx - before.rx) * (Scale \div dt),
        tx |-> (after.tx - before.tx) * (Scale \div dt), over |-> dt]

\* Rates over the time since the last sample; none across a reset, a gap, or a
\* clock that was set back.
ComputeRates(before, after, dt) ==
  IF dt <= 0 \/ dt > MaxGap \/ ~Covers(after, before) THEN Baseline
  ELSE [rx |-> (after.rx - before.rx) * (Scale \div dt),
        tx |-> (after.tx - before.tx) * (Scale \div dt), over |-> dt]

\* AvgRxRate: rows of the window that have rates, also those dated later than
\* now, and the sum of the received ones.
Rated(rs, now)    == {n \in DOMAIN rs : rs[n].row.rx # NoRate /\ rs[n].at >= now - Window}
SumRates(rs, now) == SumFunctionOnSet([n \in DOMAIN rs |-> rs[n].row.rx], Rated(rs, now))

\* Without its division: is the average at least MinAverage, and is
\* the rate more than Multiplier times the average?
HasBaseline(rs, now) ==
  Rated(rs, now) # {} /\ SumRates(rs, now) >= MinAverage * Cardinality(Rated(rs, now))
Spiking(rate, rs, now) ==
  rate * Cardinality(Rated(rs, now)) > Multiplier * SumRates(rs, now)

\* The rule: without a rate or a baseline there is no observation.
CheckTrafficSpike(sample, rs, now) ==
  spike' = IF sample.rx # NoRate /\ HasBaseline(rs, now) THEN Spiking(sample.rx, rs, now)
           ELSE spike

\* Reading /proc/net/dev fails: the last counters stay the reference.
CollectFails(d) ==
  /\ Event
  /\ since' = [since EXCEPT !.ticks = @ + d]
  /\ UNCHANGED network

\* The counters become the reference for the next sample.
Advance == sampled' = TRUE /\ prevIface' = iface /\ prevAt' = clock' /\ since' = Quiet

Sample(now) == IF sampled THEN ComputeRates(prevIface, iface, now - prevAt) ELSE Baseline

Insert(now) == rows' = Append(rows, [row |-> Sample(now), at |-> now])

\* Mutant: the rate is compared with the rows before it.
CollectThenCompare ==
  /\ Advance
  /\ Insert(clock')
  /\ CheckTrafficSpike(Sample(clock'), rows, clock')
  /\ UNCHANGED events

\* The sample is stored, or its insert fails, and then the rule looks at the
\* table as it is now.
CollectAndCheck ==
  /\ Advance
  /\ \/ Insert(clock') /\ UNCHANGED events
     \/ UNCHANGED rows /\ Event
  /\ CheckTrafficSpike(Sample(clock'), rows', clock')

\* RunNetworkCycle, d ticks after the one before.
NetworkCycle(d) ==
  /\ cycles < MaxCycles /\ cycles' = cycles + 1
  /\ clock' = clock + d
  /\ CollectFails(d) \/ CollectAndCheck
  /\ UNCHANGED <<owner, conn, iface, appSide, charged>>

----------------------------------------------------------------------------
(* AppTrafficCollector.Collect and Accumulate                              *)

\* ParseSSConnections: the open connections that are not loopback.
Listed == {k \in Keys \ Loopback : owner[k] # Nobody}

\* ss answers, or fails.
ListConnections ==
  /\ appAt = "idle" /\ cycles < MaxCycles
  /\ cycles' = cycles + 1
  /\ \/ /\ snapshot' = [k \in Listed |-> conn[k]]
        /\ unseen' = [k \in Keys |-> IF k \in Listed THEN Zero ELSE unseen[k]]
        /\ inHand' = Total(unseen, Listed)
        /\ appAt' = "listed"
        /\ UNCHANGED events
     \/ Event /\ UNCHANGED <<snapshot, unseen, inHand, appAt>>
  /\ UNCHANGED <<kernel, network, prevConn, first, recorded, since, moved, lost, reused>>

\* Mutant: the first sample is no baseline.
DeltaNoBaseline(k) ==
  IF k \in DOMAIN prevConn /\ Covers(snapshot[k], prevConn[k])
  THEN Minus(snapshot[k], prevConn[k]) ELSE snapshot[k]

\* What a connection moved since the sample before: the difference, or all of
\* it if the key names a new connection.  The first sample is a baseline.
Delta(k) ==
  IF k \in DOMAIN prevConn
  THEN IF Covers(snapshot[k], prevConn[k]) THEN Minus(snapshot[k], prevConn[k]) ELSE snapshot[k]
  ELSE IF first THEN Zero ELSE snapshot[k]

\* appsForInodes: who holds the socket now, if that may be read.
AppOf(k) == IF owner[k] \in Hidden THEN Nobody ELSE owner[k]

Charges == [a \in Labels |->
  LET mine == {k \in DOMAIN snapshot : AppOf(k) = a}
  IN  Total([k \in mine |-> Delta(k)], mine)]

\* Mutant: the first sample stays the reference.
AccumulateSinceFirst ==
  /\ appAt = "listed"
  /\ prevConn' = (IF first THEN snapshot ELSE prevConn) /\ first' = FALSE
  /\ recorded' = [a \in Labels |-> Plus(recorded[a], Charges[a])]
  /\ lost' = IF first THEN Plus(lost, inHand) ELSE lost
  /\ snapshot' = NoConn /\ inHand' = Zero /\ appAt' = "idle"
  /\ UNCHANGED <<kernel, network, since, moved, unseen, reused, bounds>>

\* Accumulate, and InsertAppTraffic: one transaction for all apps.  A failed
\* insert is not tried again, and the counters are the reference all the same.
Accumulate ==
  /\ appAt = "listed"
  /\ prevConn' = snapshot /\ first' = FALSE
  /\ \/ /\ recorded' = [a \in Labels |-> Plus(recorded[a], Charges[a])]
        /\ lost' = IF first THEN Plus(lost, inHand) ELSE lost
        /\ UNCHANGED events
     \/ /\ Event /\ \E a \in Labels : Charges[a] # Zero
        /\ lost' = Plus(lost, Total(Charges, Labels))
        /\ UNCHANGED recorded
  /\ snapshot' = NoConn /\ inHand' = Zero /\ appAt' = "idle"
  /\ UNCHANGED <<kernel, network, since, moved, unseen, reused, cycles>>

\* RunAppTrafficCycle.
AppTrafficCycle == ListConnections \/ Accumulate

----------------------------------------------------------------------------
(* The wire, the driver and the daemon                                     *)

\* A connection moves bytes; only those of loopback do not pass the interface.
Transfer(k) ==
  /\ owner[k] # Nobody /\ Event
  /\ \E b \in Direction :
       /\ conn' = [conn EXCEPT ![k] = Plus(@, b)]
       /\ IF k \in Loopback THEN UNCHANGED <<iface, since, moved, unseen>>
          ELSE /\ iface' = Plus(iface, b)
               /\ since' = [since EXCEPT !.rx = @ + b.rx, !.tx = @ + b.tx]
               /\ moved' = [moved EXCEPT ![owner[k]] = Plus(@, b)]
               /\ unseen' = [unseen EXCEPT ![k] = Plus(@, b)]
  /\ UNCHANGED <<owner, clock, network, appSide, inHand, lost, reused, cycles>>

\* UDP passes the interface and is no connection.
TransferDatagram ==
  /\ Event
  /\ \E b \in Direction :
       /\ iface' = Plus(iface, b)
       /\ since' = [since EXCEPT !.rx = @ + b.rx, !.tx = @ + b.tx]
  /\ UNCHANGED <<owner, conn, clock, network, appSide, charged, cycles>>

Connect(k) ==
  /\ owner[k] = Nobody /\ k \notin DOMAIN snapshot /\ Event
  /\ \E a \in Apps : owner' = [owner EXCEPT ![k] = a]
  /\ conn' = [conn EXCEPT ![k] = Zero]
  /\ reused' = (reused \/ k \in DOMAIN prevConn)
  /\ UNCHANGED <<iface, clock, network, appSide, since, moved, unseen, inHand, lost, cycles>>

Disconnect(k) ==
  /\ owner[k] # Nobody /\ Event
  /\ owner' = [owner EXCEPT ![k] = Nobody]
  /\ conn' = [conn EXCEPT ![k] = Zero]
  /\ lost' = Plus(lost, unseen[k])
  /\ unseen' = [unseen EXCEPT ![k] = Zero]
  /\ UNCHANGED <<iface, clock, network, appSide, since, moved, inHand, reused, cycles>>

\* The driver is loaded again: the counters of the interface start over.
ResetCounters ==
  /\ Event
  /\ iface' = Zero
  /\ since' = [since EXCEPT !.reset = TRUE]
  /\ UNCHANGED <<owner, conn, clock, network, appSide, charged, cycles>>

\* The clock is set, by its operator or by the time service.
SetClock(j) ==
  /\ Event
  /\ clock' = clock + j
  /\ since' = [since EXCEPT !.jumped = TRUE]
  /\ UNCHANGED <<owner, conn, iface, network, appSide, charged, cycles>>

\* The daemon starts again: what the collectors remember is gone.
Restart ==
  /\ Event
  /\ sampled' = FALSE /\ prevIface' = Zero /\ prevAt' = 0
  /\ prevConn' = NoConn /\ first' = TRUE /\ appAt' = "idle" /\ snapshot' = NoConn
  /\ lost' = Plus(lost, inHand)
  /\ inHand' = Zero
  /\ since' = Quiet
  /\ UNCHANGED <<kernel, rows, spike, recorded, moved, unseen, reused, cycles>>

TrafficInit ==
  /\ owner = [k \in Keys |-> Nobody] /\ conn = [k \in Keys |-> Zero] /\ iface = Zero
  /\ clock = 0 /\ sampled = FALSE /\ prevIface = Zero /\ prevAt = 0 /\ rows = <<>> /\ spike = FALSE
  /\ prevConn = NoConn /\ first = TRUE /\ appAt = "idle" /\ snapshot = NoConn
  /\ recorded = [a \in Labels |-> Zero]
  /\ since = Quiet
  /\ moved = [a \in Labels |-> Zero] /\ unseen = [k \in Keys |-> Zero]
  /\ inHand = Zero /\ lost = Zero /\ reused = FALSE
  /\ cycles = 0 /\ events = 0

TrafficNext ==
  \/ \E d \in Delays : NetworkCycle(d)
  \/ AppTrafficCycle
  \/ \E k \in Keys : Transfer(k) \/ Connect(k) \/ Disconnect(k)
  \/ TransferDatagram \/ ResetCounters \/ (\E j \in Jumps : SetClock(j)) \/ Restart

TrafficSpec == TrafficInit /\ [][TrafficNext]_trafficVars

----------------------------------------------------------------------------
(* Properties                                                              *)

\* A rate is what really passed the interface since the sample before, in both
\* directions, over a time that is never none or negative, and, unless the
\* clock was set in between, is the time that really passed: whatever else was
\* reset, restarted, skipped or failed.  A reset that more traffic hides can
\* only lower a rate.
RatesAreReal ==
  [][Len(rows') > Len(rows) => LET row == rows'[Len(rows')].row
         bytes == [rx |-> (row.rx * row.over) \div Scale, tx |-> (row.tx * row.over) \div Scale]
     IN  row.rx # NoRate =>
           /\ row.over > 0
           /\ Covers(bytes, Zero) /\ Covers(since, bytes)
           /\ ~since.reset => Covers(bytes, since)
           /\ ~since.jumped => row.over = since.ticks + (clock' - clock)]_trafficVars

\* A spike is a rise over a history: the alert opens only with at least
\* Multiplier rates in the window besides the new one, or one if the new one
\* was not stored; rates that a clock set back leaves in the future count.
SpikeNeedsHistory ==
  [][~spike /\ spike' =>
       Cardinality(Rated(rows', clock')) > (IF rows' = rows THEN 0 ELSE Multiplier)]_trafficVars

\* No app is charged bytes it did not move: not those of the connection that
\* had the key before, not those from before the daemon started, none twice.
AppNeverOvercharged ==
  \A a \in Apps : Covers(moved[a], recorded[a])

\* Every byte over the network is stored, on its way, not yet listed, or lost
\* with a baseline, a closed connection or a failed insert; only a key used
\* again that keeps its counters rising hides more.
EveryByteAccounted ==
  LET accounted == Plus(Plus(Total(recorded, Labels), Total(unseen, Keys)), Plus(inHand, lost))
      all == Total(moved, Labels)
  IN  Covers(all, accounted) /\ (~reused => accounted = all)
=============================================================================
