-------------------------- MODULE CollectorProofs --------------------------
(***************************************************************************)
(* Proofs about what the collection manager runs (collector/manager.go).   *)
(*                                                                         *)
(* Connectivity: what ComputeScore and Diagnose promise for every set of   *)
(* open rules, and the loops for any interfaces, routers, targets and      *)
(* domains, and any changes of the network and the settings.               *)
(*                                                                         *)
(* Traffic: any connections, apps and bytes, any delays, window and        *)
(* multiplier, and any resets, restarts and failures.  Bytes are summed    *)
(* over connections and apps, whose number is not known: the facts about   *)
(* sums come first, by induction over finite sets.                         *)
(***************************************************************************)
EXTENDS Connectivity, Traffic, FiniteSetTheorems, WellFoundedInduction, TLAPS

(***************************************************************************)
(* Connectivity                                                            *)
(***************************************************************************)

\* A rule that costs points; "new_device" only informs.
Costly == Rules \ {"new_device"}

----------------------------------------------------------------------------
(* Lemmas about Diagnosis                                                  *)

\* A rule's points are all or nothing, and opening more rules takes none back.
LEMMA PointsFacts ==
  ASSUME NEW rules, NEW more, rules \subseteq more, NEW rule, NEW points \in Nat
  PROVE  /\ Points(rules, rule, points) \in {0, points}
         /\ rule \in rules => Points(rules, rule, points) = points
         /\ rule \notin rules => Points(rules, rule, points) = 0
         /\ Points(rules, rule, points) <= Points(more, rule, points)
BY DEF Points

\* Each category stays within its cap and only grows.
LEMMA CategoryFacts ==
  ASSUME NEW rules, NEW more, rules \subseteq more
  PROVE  /\ Connectivity(rules) \in 0..40 /\ Connectivity(rules) <= Connectivity(more)
         /\ DNS(rules) \in 0..25          /\ DNS(rules) <= DNS(more)
         /\ Interface(rules) \in 0..20    /\ Interface(rules) <= Interface(more)
         /\ Memory(rules) \in 0..20       /\ Memory(rules) <= Memory(more)
         /\ Traffic(rules) \in 0..5       /\ Traffic(rules) <= Traffic(more)
<1>1. Connectivity(rules) \in 0..40 /\ Connectivity(rules) <= Connectivity(more)
  BY DEF Connectivity, AtMost, Points
<1>2. DNS(rules) \in 0..25 /\ DNS(rules) <= DNS(more)
  BY DEF DNS, AtMost, Points
<1>3. Interface(rules) \in 0..20 /\ Interface(rules) <= Interface(more)
  BY DEF Interface, AtMost, Points
<1>4. Memory(rules) \in 0..20 /\ Memory(rules) <= Memory(more)
  BY DEF Memory, AtMost, Points
<1>5. Traffic(rules) \in 0..5 /\ Traffic(rules) <= Traffic(more)
  BY DEF Traffic, AtMost, Points
<1> QED
  BY <1>1, <1>2, <1>3, <1>4, <1>5

\* A category costs something exactly when one of its rules is open.
LEMMA CategoryZero ==
  ASSUME NEW rules
  PROVE  /\ Connectivity(rules) = 0 <=> rules \cap ConnectivityRules = {}
         /\ DNS(rules) = 0 <=> rules \cap DNSRules = {}
         /\ Interface(rules) = 0 <=> rules \cap InterfaceRules = {}
         /\ Memory(rules) = 0 <=> rules \cap MemoryRules = {}
         /\ Traffic(rules) = 0 <=> "traffic_spike" \notin rules
<1>1. Connectivity(rules) = 0 <=> rules \cap ConnectivityRules = {}
  BY DEF Connectivity, AtMost, Points, ConnectivityRules
<1>2. DNS(rules) = 0 <=> rules \cap DNSRules = {}
  BY DEF DNS, AtMost, Points, DNSRules
<1>3. Interface(rules) = 0 <=> rules \cap InterfaceRules = {}
  BY DEF Interface, AtMost, Points, InterfaceRules
<1>4. Memory(rules) = 0 <=> rules \cap MemoryRules = {}
  BY DEF Memory, AtMost, Points, MemoryRules
<1>5. Traffic(rules) = 0 <=> "traffic_spike" \notin rules
  BY DEF Traffic, AtMost, Points
<1> QED
  BY <1>1, <1>2, <1>3, <1>4, <1>5

\* The points of all categories.
Cost(rules) ==
  Connectivity(rules) + DNS(rules) + Interface(rules) + Memory(rules) + Traffic(rules)

\* A sum of bounded numbers grows with each of them.
LEMMA SumGrows ==
  ASSUME NEW a \in 0..40, NEW b \in 0..25, NEW c \in 0..20, NEW d \in 0..20, NEW e \in 0..5,
         NEW aa \in 0..40, NEW bb \in 0..25, NEW cc \in 0..20, NEW dd \in 0..20, NEW ee \in 0..5,
         a <= aa, b <= bb, c <= cc, d <= dd, e <= ee
  PROVE  a + b + c + d + e <= aa + bb + cc + dd + ee
OBVIOUS

\* The score is what the total leaves of a hundred.
LEMMA CostFacts ==
  ASSUME NEW rules
  PROVE  /\ Cost(rules) \in 0..110
         /\ Cost(rules) = 0 <=> /\ Connectivity(rules) = 0 /\ DNS(rules) = 0 /\ Interface(rules) = 0
                               /\ Memory(rules) = 0 /\ Traffic(rules) = 0
         /\ ComputeScore(rules) = IF Cost(rules) > 100 THEN 0 ELSE 100 - Cost(rules)
<1>1. /\ Connectivity(rules) \in 0..40 /\ DNS(rules) \in 0..25 /\ Interface(rules) \in 0..20
      /\ Memory(rules) \in 0..20 /\ Traffic(rules) \in 0..5
  BY CategoryFacts
<1>2. ComputeScore(rules) = IF Cost(rules) > 100 THEN 0 ELSE 100 - Cost(rules)
  BY Zenon DEF ComputeScore, Cost
<1>3. /\ Cost(rules) \in 0..110
      /\ Cost(rules) = 0 <=> /\ Connectivity(rules) = 0 /\ DNS(rules) = 0 /\ Interface(rules) = 0
                            /\ Memory(rules) = 0 /\ Traffic(rules) = 0
  <2> DEFINE a == Connectivity(rules) b == DNS(rules) c == Interface(rules) d == Memory(rules)
             e == Traffic(rules)
  <2>1. a \in 0..40 /\ b \in 0..25 /\ c \in 0..20 /\ d \in 0..20 /\ e \in 0..5
    BY <1>1
  <2>2. Cost(rules) = a + b + c + d + e
    BY Zenon DEF Cost
  <2> HIDE DEF a, b, c, d, e
  <2>3. /\ a + b + c + d + e \in 0..110
        /\ a + b + c + d + e = 0 <=> a = 0 /\ b = 0 /\ c = 0 /\ d = 0 /\ e = 0
    BY <2>1
  <2>4. Cost(rules) \in 0..110 /\ (Cost(rules) = 0 <=> a = 0 /\ b = 0 /\ c = 0 /\ d = 0 /\ e = 0)
    BY <2>2, <2>3
  <2> QED
    BY <2>4 DEF a, b, c, d, e
<1> QED
  BY <1>2, <1>3

\* The patterns, one by one.
LEMMA PatternFacts ==
  ASSUME NEW rules
  PROVE  /\ DOMAIN Patterns(rules) = 1..11
         /\ \A n \in 1..10 : Patterns(rules)[n].layer # "healthy"
         /\ \A n \in 1..11 :
              Patterns(rules)[n].layer \in {"local network", "internet"} => n \in {1, 2}
         /\ Patterns(rules)[11].layer = "healthy"
         /\ Patterns(rules)[1].matches => "gateway_unreachable" \in rules
         /\ Patterns(rules)[2].matches => "internet_unreachable" \in rules
         /\ rules = {} => \A n \in 1..10 : ~Patterns(rules)[n].matches
         /\ rules # {} => Patterns(rules)[10].matches
         /\ Patterns(rules)[11].matches
<1>1. DOMAIN Patterns(rules) = 1..11
  BY DEF Patterns
<1>2. \A n \in 1..11 : n = 1 \/ n = 2 \/ n = 3 \/ n = 4 \/ n = 5 \/ n = 6 \/ n = 7 \/ n = 8
                        \/ n = 9 \/ n = 10 \/ n = 11
  OBVIOUS
<1>l1. Patterns(rules)[1].layer = "local network"
  BY DEF Patterns
<1>l2. Patterns(rules)[2].layer = "internet"
  BY DEF Patterns
<1>l3. Patterns(rules)[3].layer = "dns"
  BY DEF Patterns
<1>l4. Patterns(rules)[4].layer = "congestion"
  BY DEF Patterns
<1>l5. Patterns(rules)[5].layer = "interface"
  BY DEF Patterns
<1>l6. Patterns(rules)[6].layer = "load"
  BY DEF Patterns
<1>l7. Patterns(rules)[7].layer = "memory"
  BY DEF Patterns
<1>l8. Patterns(rules)[8].layer = "load"
  BY DEF Patterns
<1>l9. Patterns(rules)[9].layer = "daemon"
  BY DEF Patterns
<1>l10. Patterns(rules)[10].layer = "no pattern"
  BY DEF Patterns
<1>l11. Patterns(rules)[11].layer = "healthy"
  BY DEF Patterns
<1>3. \A n \in 1..10 : Patterns(rules)[n].layer # "healthy"
  <2> DEFINE layer(n) == Patterns(rules)[n].layer
  <2>1. layer(1) # "healthy" /\ layer(2) # "healthy" /\ layer(3) # "healthy" /\ layer(4) # "healthy"
        /\ layer(5) # "healthy"
    BY <1>l1, <1>l2, <1>l3, <1>l4, <1>l5
  <2>2. layer(6) # "healthy" /\ layer(7) # "healthy" /\ layer(8) # "healthy" /\ layer(9) # "healthy"
        /\ layer(10) # "healthy"
    BY <1>l6, <1>l7, <1>l8, <1>l9, <1>l10
  <2> HIDE DEF layer
  <2>3. \A n \in 1..10 : layer(n) # "healthy"
    BY <1>2, <2>1, <2>2
  <2> QED
    BY <2>3 DEF layer
<1>4. \A n \in 1..11 : Patterns(rules)[n].layer \in {"local network", "internet"} => n \in {1, 2}
  BY <1>2, <1>l3, <1>l4, <1>l5, <1>l6, <1>l7, <1>l8, <1>l9, <1>l10, <1>l11
<1>5. Patterns(rules)[1].matches => "gateway_unreachable" \in rules
  BY DEF Patterns
<1>6. Patterns(rules)[2].matches => "internet_unreachable" \in rules
  BY DEF Patterns
<1>7. ASSUME rules = {}, NEW n \in 1..10 PROVE ~Patterns(rules)[n].matches
  <2>1. ~Patterns(rules)[1].matches
    BY <1>7 DEF Patterns, DNSRules, InterfaceRules
  <2>2. ~Patterns(rules)[2].matches
    BY <1>7 DEF Patterns, DNSRules, InterfaceRules
  <2>3. ~Patterns(rules)[3].matches
    BY <1>7 DEF Patterns, DNSRules, InterfaceRules
  <2>4. ~Patterns(rules)[4].matches
    BY <1>7 DEF Patterns, DNSRules, InterfaceRules
  <2>5. ~Patterns(rules)[5].matches
    BY <1>7 DEF Patterns, DNSRules, InterfaceRules
  <2>6. ~Patterns(rules)[6].matches
    BY <1>7 DEF Patterns, DNSRules, InterfaceRules
  <2>7. ~Patterns(rules)[7].matches
    BY <1>7 DEF Patterns, DNSRules, InterfaceRules
  <2>8. ~Patterns(rules)[8].matches
    BY <1>7 DEF Patterns, DNSRules, InterfaceRules
  <2>9. ~Patterns(rules)[9].matches
    BY <1>7 DEF Patterns, DNSRules, InterfaceRules
  <2>10. ~Patterns(rules)[10].matches
    BY <1>7 DEF Patterns, DNSRules, InterfaceRules
  <2> QED
    BY <1>2, <2>1, <2>2, <2>3, <2>4, <2>5, <2>6, <2>7, <2>8, <2>9, <2>10
<1>8. rules # {} => Patterns(rules)[10].matches
  BY DEF Patterns
<1>9. Patterns(rules)[11].matches
  BY DEF Patterns
<1> QED
  BY <1>1, <1>3, <1>4, <1>5, <1>6, <1>7, <1>8, <1>9, <1>l11

\* The search for a pattern ends at the first that matches.
LEMMA FirstFound ==
  ASSUME NEW rules, NEW n \in 1..11, Patterns(rules)[n].matches,
         \A j \in 1..(n - 1) : ~Patterns(rules)[j].matches
  PROVE  First(Patterns(rules)) = n
<1> DEFINE ps == Patterns(rules)
<1>1. DOMAIN ps = 1..11
  BY PatternFacts
<1>2. \A i \in DOMAIN ps : (ps[i].matches /\ \A j \in 1..(i - 1) : ~ps[j].matches) => i = n
  <2> HIDE DEF ps
  <2> SUFFICES ASSUME NEW i \in 1..11, ps[i].matches, \A j \in 1..(i - 1) : ~ps[j].matches
               PROVE  i = n
    BY <1>1
  <2>1. ~(n < i) /\ ~(i < n)
    BY DEF ps
  <2> QED
    BY <2>1
<1> QED
  BY <1>1, <1>2 DEF First

\* Some pattern is the first that matches: the last one always does.
LEMMA SomeFirst ==
  ASSUME NEW rules
  PROVE  \E n \in 1..11 : /\ Patterns(rules)[n].matches
                          /\ \A j \in 1..(n - 1) : ~Patterns(rules)[j].matches
<1> DEFINE m(i) == Patterns(rules)[i].matches
           none(k) == \A j \in 1..k : ~m(j)
<1>1. m(11)
  BY PatternFacts
<1> HIDE DEF m
<1>2. \/ \E n \in 1..5 : m(n) /\ none(n - 1)
      \/ none(5)
  <2>1. none(0) /\ \A k \in 1..5 : none(k - 1) /\ ~m(k) => none(k)
    OBVIOUS
  <2> QED
    BY <2>1
<1>3. \/ \E n \in 6..11 : m(n) /\ none(n - 1)
      \/ ~none(5) \/ none(11)
  <2>1. \A k \in 6..11 : none(k - 1) /\ ~m(k) => none(k)
    OBVIOUS
  <2> QED
    BY <2>1
<1>4. ~none(11)
  BY <1>1
<1> QED
  BY <1>2, <1>3, <1>4 DEF m

----------------------------------------------------------------------------
(* Theorems about Diagnosis                                                *)

\* The score is a percentage whatever is open.
THEOREM ScoreInRange == \A rules : ComputeScore(rules) \in 0..100
<1> SUFFICES ASSUME NEW rules PROVE ComputeScore(rules) \in 0..100
  OBVIOUS
<1> QED
  BY CostFacts

\* Another open alert never raises the score.
THEOREM ScoreMonotone ==
  \A rules, more : rules \subseteq more => ComputeScore(more) <= ComputeScore(rules)
<1> SUFFICES ASSUME NEW rules, NEW more, rules \subseteq more
             PROVE  ComputeScore(more) <= ComputeScore(rules)
  OBVIOUS
<1>1. Cost(rules) <= Cost(more)
  <2>1. more \subseteq more
    OBVIOUS
  <2>2. /\ Connectivity(more) \in 0..40 /\ DNS(more) \in 0..25 /\ Interface(more) \in 0..20
        /\ Memory(more) \in 0..20 /\ Traffic(more) \in 0..5
    BY <2>1, CategoryFacts
  <2>3. /\ Connectivity(rules) \in 0..40 /\ Connectivity(rules) <= Connectivity(more)
        /\ DNS(rules) \in 0..25 /\ DNS(rules) <= DNS(more)
        /\ Interface(rules) \in 0..20 /\ Interface(rules) <= Interface(more)
        /\ Memory(rules) \in 0..20 /\ Memory(rules) <= Memory(more)
        /\ Traffic(rules) \in 0..5 /\ Traffic(rules) <= Traffic(more)
    BY CategoryFacts
  <2> QED
    BY <2>2, <2>3, SumGrows, Zenon DEF Cost
<1> QED
  BY <1>1, CostFacts

\* The score is full exactly when nothing that costs points is open: no cap and
\* no sum hides an alert.
THEOREM FullScoreIffNothingCostly ==
  \A rules \in SUBSET Rules : ComputeScore(rules) = 100 <=> rules \cap Costly = {}
<1> SUFFICES ASSUME NEW rules \in SUBSET Rules
             PROVE  ComputeScore(rules) = 100 <=> rules \cap Costly = {}
  OBVIOUS
<1>1. ComputeScore(rules) = 100 <=> /\ Connectivity(rules) = 0 /\ DNS(rules) = 0
                                    /\ Interface(rules) = 0 /\ Memory(rules) = 0
                                    /\ Traffic(rules) = 0
  <2>1. ComputeScore(rules) = 100 <=> Cost(rules) = 0
    BY CostFacts
  <2> QED
    BY <2>1, CostFacts
<1>2. Costly = ConnectivityRules \cup DNSRules \cup InterfaceRules \cup MemoryRules
                 \cup {"traffic_spike"}
  BY DEF Costly, Rules, ConnectivityRules, DNSRules, InterfaceRules, MemoryRules
<1> QED
  BY <1>1, <1>2, CategoryZero

\* The diagnosis is "healthy" exactly when no alert is open: the patterns leave
\* no combination of rules without an answer of its own.
THEOREM HealthyIffNothingOpen ==
  \A rules \in SUBSET Rules : Diagnose(rules) = "healthy" <=> rules = {}
<1> SUFFICES ASSUME NEW rules \in SUBSET Rules
             PROVE  Diagnose(rules) = "healthy" <=> rules = {}
  OBVIOUS
<1>1. CASE rules = {}
  <2>1. First(Patterns(rules)) = 11
    <3>1. Patterns(rules)[11].matches
      BY PatternFacts
    <3>2. \A j \in 1..10 : ~Patterns(rules)[j].matches
      BY <1>1, PatternFacts
    <3> QED
      BY <3>1, <3>2, FirstFound
  <2> QED
    BY <1>1, <2>1, PatternFacts DEF Diagnose
<1>2. CASE rules # {}
  <2>1. PICK n \in 1..11 : /\ Patterns(rules)[n].matches
                           /\ \A j \in 1..(n - 1) : ~Patterns(rules)[j].matches
    BY SomeFirst
  <2>2. First(Patterns(rules)) = n
    BY <2>1, FirstFound
  <2>3. n # 11
    <3>1. Patterns(rules)[10].matches
      BY <1>2, PatternFacts
    <3> QED
      BY <2>1, <3>1
  <2>4. Patterns(rules)[n].layer # "healthy"
    <3>1. n \in 1..10
      BY <2>3
    <3> QED
      BY <3>1, PatternFacts
  <2> QED
    BY <1>2, <2>2, <2>4 DEF Diagnose
<1> QED
  BY <1>1, <1>2

\* A critical diagnosis and a healthy score never meet: with no way to the
\* router or the internet at least thirty points are gone.
THEOREM CriticalCosts ==
  \A rules : DiagnosisStatus(Diagnose(rules)) = "critical" =>
              HealthStatusFor(ComputeScore(rules)) # "healthy"
<1> SUFFICES ASSUME NEW rules, DiagnosisStatus(Diagnose(rules)) = "critical"
             PROVE  HealthStatusFor(ComputeScore(rules)) # "healthy"
  OBVIOUS
<1>1. {"gateway_unreachable", "internet_unreachable"} \cap rules # {}
  <2>1. PICK n \in 1..11 : /\ Patterns(rules)[n].matches
                           /\ \A j \in 1..(n - 1) : ~Patterns(rules)[j].matches
    BY SomeFirst
  <2>2. Diagnose(rules) = Patterns(rules)[n].layer
    BY <2>1, FirstFound DEF Diagnose
  <2>3. Patterns(rules)[n].layer \in {"local network", "internet"}
    BY <2>2 DEF DiagnosisStatus
  <2>4. n \in {1, 2}
    BY <2>3, PatternFacts
  <2> QED
    BY <2>1, <2>4, PatternFacts
<1>2. Connectivity(rules) >= 30
  BY <1>1 DEF Connectivity, AtMost, Points
<1>3. ComputeScore(rules) \in Int /\ ComputeScore(rules) <= 70
  <2>1. Cost(rules) \in 0..110 /\ Cost(rules) >= 30
    BY <1>2, CategoryFacts, CostFacts DEF Cost
  <2> QED
    BY <2>1, CostFacts
<1> QED
  BY <1>3 DEF HealthStatusFor

----------------------------------------------------------------------------
(* Lemmas about the loops                                                  *)

USE WorldAssumption

\* The interface that traffic goes by, what a cycle has sampled of it and what
\* the manager keeps of it, are interfaces the machine used.
UsedInv ==
  /\ Uplink(link, routes, override) \in used
  /\ {sample.primary, lastPrimary} \subseteq used \cup {None}
  /\ \A i \in Ifaces : <<"interface_down", i>> \in open => i \in used

Phases == {"idle", "gateway", "targets", "target", "domains", "domain"}
Probing == checksAt \in {"gateway", "target"}

\* Targets whose check in this cycle has been observed.
CheckedTargets == Targets \ (todo \cup (IF checksAt = "target" THEN {subject} ELSE {}))

\* The check in progress: as long as the daemon is not told to stop, without an
\* answer it has found no path that works, and what it has found is on record.
ProbeInv ==
  /\ checksAt \in Phases
  /\ sent \in 0..PingCount /\ got \in Nat /\ deaf \in BOOLEAN
  /\ ~Probing => sent = 0 /\ got = 0 /\ deaf
  /\ Probing /\ ~stopping /\ got = 0 => deaf
  /\ Probing /\ deaf /\ sent = PingCount => <<checksAt, subject>> \in silent

\* The cycle: what has been checked and never answered is on record too.
CycleInv ==
  /\ todo \subseteq Targets /\ (checksAt = "target" => subject \in Targets)
  /\ checksAt = "gateway" => todo = Targets
  /\ ~stopping /\ allFailed /\ checksAt \in {"gateway", "targets", "target"} =>
       {"target"} \X CheckedTargets \subseteq silent
  /\ ~stopping /\ checksAt = "domain" /\ answer = "failed" => <<"domain", subject>> \in silent

ChecksInv == ProbeInv /\ CycleInv

\* A check that is over and got no answer is on record.
LEMMA FailedCheck ==
  ASSUME ProbeInv, Probing, Checked, ~stopping, ~Success
  PROVE  <<checksAt, subject>> \in silent
BY DEF ProbeInv, Checked, Success

\* The rules of the other loops are not about links.
LEMMA OtherRules ==
  /\ "interface_down" \notin DNSRules
  /\ DNSRules \cap {"gateway_unreachable", "internet_unreachable"} = {}
BY DEF DNSRules

LEMMA UsedInit == Init => UsedInv
BY DEF Init, UsedInv, NoSample

\* A step that opens no link alert, and leaves the interfaces alone.
LEMMA UsedElsewhere ==
  ASSUME UsedInv, UNCHANGED <<link, routes, override, used, lastPrimary>>,
         sample' = sample \/ sample'.primary \in used \cup {None},
         \A i \in Ifaces : <<"interface_down", i>> \in open' => <<"interface_down", i>> \in open
  PROVE  UsedInv'
<1>1. Uplink(link, routes, override)' = Uplink(link, routes, override)
  BY DEF Uplink
<1> QED
  BY <1>1 DEF UsedInv

LEMMA UsedStep == UsedInv /\ [Next]_vars => UsedInv'
<1> SUFFICES ASSUME UsedInv, [Next]_vars PROVE UsedInv'
  OBVIOUS
\* One that changes the interfaces.
<1>0. ASSUME used \subseteq used', Uplink(link', routes', override') \in used',
             UNCHANGED <<sample, lastPrimary, open>>
      PROVE  UsedInv'
  <2>1. Uplink(link, routes, override)' = Uplink(link', routes', override')
    BY DEF Uplink
  <2> QED
    BY <1>0, <2>1 DEF UsedInv
<1>1. CASE Collect
  <2>1. SelectPrimaryInterface = Uplink(link, routes, override)
    BY DEF SelectPrimaryInterface, Uplink, Up
  <2>2. sample'.primary = SelectPrimaryInterface
    BY <1>1 DEF Collect
  <2> QED
    BY <1>1, <2>1, <2>2, UsedElsewhere DEF Collect, world, manager, UsedInv
<1>2. CASE StoreRoute
  BY <1>2, UsedElsewhere DEF StoreRoute, world, checks
<1>3. CASE ObserveLinks
  <2>1. WatchedInterface \in used \cup {None}
    BY DEF WatchedInterface, UsedInv
  <2>2. ASSUME NEW i \in Ifaces, <<"interface_down", i>> \in open',
               <<"interface_down", i>> \notin open
        PROVE  i = WatchedInterface
    BY <1>3, <2>2 DEF ObserveLinks, Observe
  <2>3. \A i \in Ifaces : <<"interface_down", i>> \in open' => i \in used
    BY <2>1, <2>2 DEF UsedInv
  <2>4. sample'.primary = None /\ lastPrimary' = WatchedInterface
    BY <1>3 DEF ObserveLinks, NoSample
  <2>5. UNCHANGED <<link, routes, override, used>>
    BY <1>3 DEF ObserveLinks, world
  <2>6. Uplink(link, routes, override)' = Uplink(link, routes, override)
    BY <2>5 DEF Uplink
  <2> QED
    BY <2>1, <2>3, <2>4, <2>5, <2>6 DEF UsedInv
<1>4. CASE ChecksLoop
  <2>1. UNCHANGED <<link, routes, override, used, lastPrimary, sample>>
    BY <1>4 DEF ChecksLoop, BeginChecks, Echo, ObserveGateway, CheckTarget, ObserveTarget,
                ObserveInternet, LookUp, ObserveDomain, EndChecks, world, manager, net
  <2>2. \A i \in Ifaces : <<"interface_down", i>> \in open' => <<"interface_down", i>> \in open
    <3>1. CASE ObserveGateway \/ ObserveTarget \/ ObserveInternet \/ ObserveDomain
      BY <3>1, OtherRules DEF ObserveGateway, ObserveTarget, ObserveInternet, ObserveDomain,
                              Observe, ObserveKey
    <3>2. CASE UNCHANGED open
      BY <3>2
    <3> QED
      BY <1>4, <3>1, <3>2 DEF ChecksLoop, BeginChecks, Echo, CheckTarget, LookUp, EndChecks
  <2> QED
    BY <2>1, <2>2, UsedElsewhere
<1>5. CASE RunMemoryCycle \/ RunLoadCycle \/ Sweep
  <2>1. UNCHANGED <<link, routes, override, used, lastPrimary, sample>>
    BY <1>5 DEF RunMemoryCycle, RunLoadCycle, Sweep, world, manager, net
  <2>2. \A i \in Ifaces : <<"interface_down", i>> \in open' => <<"interface_down", i>> \in open
    BY <1>5 DEF RunMemoryCycle, RunLoadCycle, Sweep, Observe, ObserveKey
  <2> QED
    BY <2>1, <2>2, UsedElsewhere
<1>6. ASSUME NEW i \in Ifaces, ChangeLink(i) \/ ChangeRoute(i) PROVE UsedInv'
  BY <1>0, <1>6 DEF ChangeLink, ChangeRoute, Change, manager, net
<1>7. CASE ChangeSettings
  BY <1>0, <1>7 DEF ChangeSettings, Change, manager, net
<1>8. CASE Stop \/ (\E f \in Faults : ChangeFault(f)) \/ UNCHANGED vars
  BY <1>8, UsedElsewhere DEF Stop, ChangeFault, Change, vars, world, manager, net
<1> QED
  BY <1>1, <1>2, <1>3, <1>4, <1>5, <1>6, <1>7, <1>8 DEF Next, NetworkLoop

LEMMA ChecksInit == Init => ChecksInv
BY DEF Init, ChecksInv, ProbeInv, CycleInv, Phases, Probing

LEMMA EchoStep == ChecksInv /\ Echo => ChecksInv'
<1> SUFFICES ASSUME ChecksInv, Echo PROVE ChecksInv'
  OBVIOUS
<1>1. PICK a :
        /\ a \in Answers
        /\ got' = got + a
        /\ deaf' = (deaf /\ a = 0 /\ NoAnswer)
  BY DEF Echo
<1>2. /\ sent' = sent + 1 /\ sent < PingCount /\ Probing
      /\ silent' = IF deaf' /\ sent' = PingCount THEN silent \cup {<<checksAt, subject>>}
                   ELSE silent
      /\ UNCHANGED <<checksAt, subject, stopping, answer, todo, allFailed>>
  BY DEF Echo, Probing, world
<1>3. a \in {0, 1} /\ got' = got + a
  BY <1>1 DEF Answers
<1>a. ASSUME ~stopping, a = 0 PROVE NoAnswer
  <2>1. CASE ~PathWorks \/ "heavy loss" \in faults \/ "loss" \in faults
    BY <2>1 DEF NoAnswer
  <2>2. CASE PathWorks /\ "heavy loss" \notin faults /\ "loss" \notin faults
    <3>1. Answers = {1}
      BY <1>a, <2>2 DEF Answers
    <3>2. a \in {1}
      BY <1>1, <3>1, Zenon
    <3> QED
      BY <1>a, <3>2
  <2> QED
    BY <2>1, <2>2
<1>4. ProbeInv'
  <2>0. /\ sent \in 0..PingCount /\ got \in Nat /\ PingCount \in Nat
        /\ ~stopping /\ got = 0 => deaf
    BY <1>2 DEF ChecksInv, ProbeInv
  <2>1. sent' \in 0..PingCount /\ got' \in Nat
    BY <1>2, <1>3, <2>0
  <2>2. ASSUME ~stopping, got' = 0 PROVE deaf'
    <3>1. got = 0 /\ a = 0
      BY <1>3, <2>0, <2>2
    <3>2. deaf
      BY <2>0, <2>2, <3>1
    <3> QED
      BY <1>1, <1>a, <2>2, <3>1, <3>2
  <2>3. deaf' /\ sent' = PingCount => <<checksAt, subject>> \in silent'
    BY <1>2
  <2>4. deaf' \in BOOLEAN
    BY <1>1, Zenon
  <2>5. checksAt' \in Phases /\ Probing'
    BY <1>2 DEF ChecksInv, ProbeInv, Probing
  <2> QED
    BY <1>2, <2>1, <2>2, <2>3, <2>4, <2>5 DEF ProbeInv
<1>5. CycleInv'
  BY <1>2 DEF ChecksInv, CycleInv, CheckedTargets, Probing
<1> QED
  BY <1>4, <1>5 DEF ChecksInv

LEMMA ChecksStep == ChecksInv /\ [Next]_vars => ChecksInv'
<1> SUFFICES ASSUME ChecksInv, [Next]_vars PROVE ChecksInv'
  OBVIOUS
<1> USE DEF probing, cycle
<1>0. ASSUME UNCHANGED checks, stopping => stopping' PROVE ChecksInv'
  BY <1>0 DEF ChecksInv, ProbeInv, CycleInv, Probing, CheckedTargets, checks
<1>1. CASE BeginChecks
  <2>1. ProbeInv'
    BY <1>1 DEF BeginChecks, ChecksInv, ProbeInv, Phases, Probing, world
  <2>2. CycleInv'
    BY <1>1 DEF BeginChecks, ChecksInv, CycleInv, CheckedTargets, world
  <2> QED
    BY <2>1, <2>2 DEF ChecksInv
<1>2. CASE ObserveGateway
  <2>1. ProbeInv'
    BY <1>2 DEF ObserveGateway, Probe, ProbeInv, Phases, Probing, world
  <2>2. CycleInv'
    BY <1>2 DEF ObserveGateway, Probe, ChecksInv, CycleInv, CheckedTargets, world
  <2> QED
    BY <2>1, <2>2 DEF ChecksInv
<1>3. ASSUME NEW t \in Targets, CheckTarget(t) PROVE ChecksInv'
  <2>1. ProbeInv'
    BY <1>3 DEF CheckTarget, Probe, ProbeInv, Phases, Probing, world
  <2>2. CycleInv'
    BY <1>3 DEF CheckTarget, Probe, ChecksInv, CycleInv, CheckedTargets, world
  <2> QED
    BY <2>1, <2>2 DEF ChecksInv
<1>4. CASE ObserveTarget
  <2>1. ProbeInv'
    BY <1>4 DEF ObserveTarget, Probe, ProbeInv, Phases, Probing, world
  <2>2. ASSUME ~stopping, ~Success PROVE <<"target", subject>> \in silent
    BY <1>4, <2>2, FailedCheck DEF ObserveTarget, ChecksInv, Probing
  <2>3. /\ checksAt = "target" /\ checksAt' = "targets" /\ allFailed' = (allFailed /\ ~Success)
        /\ UNCHANGED <<todo, silent, stopping>>
    BY <1>4 DEF ObserveTarget, Probe, world
  <2>4. CheckedTargets' \subseteq CheckedTargets \cup {subject}
    BY <2>3 DEF CheckedTargets
  <2>5. ~stopping /\ allFailed' => {"target"} \X CheckedTargets' \subseteq silent
    <3> SUFFICES ASSUME ~stopping, allFailed' PROVE {"target"} \X CheckedTargets' \subseteq silent
      OBVIOUS
    <3>1. allFailed /\ ~Success
      BY <2>3
    <3>2. {"target"} \X CheckedTargets \subseteq silent
      BY <2>3, <3>1 DEF ChecksInv, CycleInv
    <3> HIDE DEF CheckedTargets
    <3> QED
      BY <2>2, <2>4, <3>1, <3>2
  <2>6. CycleInv'
    BY <2>3, <2>5 DEF ChecksInv, CycleInv
  <2> QED
    BY <2>1, <2>6 DEF ChecksInv
<1>5. CASE ObserveInternet
  BY <1>5 DEF ObserveInternet, ChecksInv, ProbeInv, CycleInv, Phases, Probing, world
<1>6. ASSUME NEW d \in Domains, LookUp(d) PROVE ChecksInv'
  BY <1>6 DEF LookUp, ChecksInv, ProbeInv, CycleInv, Phases, Probing, world
<1>7. CASE ObserveDomain
  BY <1>7 DEF ObserveDomain, ChecksInv, ProbeInv, CycleInv, Phases, Probing, world
<1>8. CASE EndChecks
  BY <1>8 DEF EndChecks, Idle, ChecksInv, ProbeInv, CycleInv, Phases, Probing, world
<1>9. CASE NetworkLoop \/ RunMemoryCycle \/ RunLoadCycle \/ Sweep
  <2>1. UNCHANGED <<checks, stopping>>
    BY <1>9 DEF NetworkLoop, Collect, StoreRoute, ObserveLinks, RunMemoryCycle, RunLoadCycle,
                Sweep, world
  <2> QED
    BY <1>0, <2>1
<1>10. CASE \/ \E i \in Ifaces : ChangeLink(i) \/ ChangeRoute(i)
            \/ \E f \in Faults : ChangeFault(f)
            \/ ChangeSettings
  <2>1. UNCHANGED <<checks, stopping>>
    BY <1>10 DEF ChangeLink, ChangeRoute, ChangeFault, ChangeSettings, Change
  <2> QED
    BY <1>0, <2>1
<1>11. CASE Stop \/ UNCHANGED vars
  BY <1>0, <1>11 DEF Stop, vars, world
<1> QED
  BY <1>1, <1>2, <1>3, <1>4, <1>5, <1>6, <1>7, <1>8, <1>9, <1>10, <1>11, EchoStep
     DEF Next, ChecksLoop

----------------------------------------------------------------------------
(* Theorems about the loops                                                *)

\* A port the machine never used is never reported, with any number of ports,
\* routes and overrides that come and go while a cycle is under way.
THEOREM UnusedPortNeverReportedHolds == Spec => []UnusedPortNeverReported
<1>1. UsedInv => UnusedPortNeverReported
  BY DEF UsedInv, UnusedPortNeverReported
<1> QED
  BY <1>1, UsedInit, UsedStep, PTL DEF Spec

\* What a step says of the alerts it opens.
Justified ==
  \A k \in open' \ open :
    /\ k[1] = "gateway_unreachable" => <<"gateway", k[2]>> \in silent
    /\ k[1] = "internet_unreachable" => {"target"} \X Targets \subseteq silent
    /\ k[1] = "dns_failure" => <<"domain", k[2]>> \in silent

LEMMA JustifiedStep == ChecksInv /\ [Next]_vars => Justified
<1> SUFFICES ASSUME ChecksInv, [Next]_vars PROVE Justified
  OBVIOUS
<1>0. ASSUME open' \subseteq open PROVE Justified
  BY <1>0 DEF Justified
<1>1. ASSUME NEW rules,
             rules \cap {"gateway_unreachable", "internet_unreachable", "dns_failure"} = {},
             \A k \in open' \ open : k[1] \in rules
      PROVE  Justified
  BY <1>1 DEF Justified
<1>2. CASE ObserveGateway
  <2>1. \A k \in open' \ open :
          /\ ~stopping
          /\ k \in (IF Success THEN {} ELSE {<<"gateway_unreachable", subject>>})
                     \cup (IF Lossy THEN {<<"high_packet_loss", subject>>} ELSE {})
    BY <1>2 DEF ObserveGateway, Observe
  <2>2. ASSUME ~stopping, ~Success PROVE <<"gateway", subject>> \in silent
    BY <1>2, <2>2, FailedCheck DEF ObserveGateway, ChecksInv, Probing
  <2>3. ASSUME NEW k \in open' \ open
        PROVE  /\ k[1] \in {"gateway_unreachable", "high_packet_loss"}
               /\ k[1] = "gateway_unreachable" => ~stopping /\ ~Success /\ k[2] = subject
    BY <2>1
  <2> QED
    BY <2>2, <2>3 DEF Justified
<1>3. CASE ObserveTarget
  <2>1. \A k \in open' \ open : k[1] \in {"high_packet_loss"}
    BY <1>3 DEF ObserveTarget, ObserveKey, Observe
  <2> QED
    BY <1>1, <2>1
<1>4. CASE ObserveInternet
  <2>1. \A k \in open' \ open : k[1] = "internet_unreachable" /\ allFailed /\ ~stopping
    BY <1>4 DEF ObserveInternet, ObserveKey, Observe
  <2>2. allFailed /\ ~stopping => {"target"} \X Targets \subseteq silent
    BY <1>4 DEF ObserveInternet, ChecksInv, CycleInv, CheckedTargets
  <2> QED
    BY <2>1, <2>2 DEF Justified
<1>5. CASE ObserveDomain
  <2>1. ASSUME NEW k \in open' \ open
        PROVE  /\ k[1] \in {"dns_failure", "high_dns_latency"}
               /\ k[1] = "dns_failure" => ~stopping /\ answer = "failed" /\ k[2] = subject
    BY <1>5 DEF ObserveDomain, Observe
  <2> QED
    BY <1>5, <2>1 DEF Justified, ObserveDomain, ChecksInv, CycleInv
<1>6. CASE ObserveLinks
  <2>1. \A k \in open' \ open : k[1] \in {"interface_down", "dropped_packets_increasing"}
    BY <1>6 DEF ObserveLinks, Observe
  <2> QED
    BY <1>1, <2>1
<1>7. CASE RunMemoryCycle
  <2>1. \A k \in open' \ open :
          k[1] \in {"high_memory_usage", "high_swap_usage", "daemon_memory_high"}
    BY <1>7 DEF RunMemoryCycle, Observe
  <2> QED
    BY <1>1, <2>1
<1>8. CASE RunLoadCycle
  <2>1. \A k \in open' \ open : k[1] \in {"high_system_load"}
    BY <1>8 DEF RunLoadCycle, ObserveKey, Observe
  <2> QED
    BY <1>1, <2>1
<1>9. CASE \/ BeginChecks \/ Echo \/ EndChecks
           \/ \E t \in Targets : CheckTarget(t)
           \/ \E d \in Domains : LookUp(d)
  <2>1. open' \subseteq open
    BY <1>9 DEF BeginChecks, Echo, EndChecks, CheckTarget, LookUp
  <2> QED
    BY <1>0, <2>1
<1>10. CASE Collect \/ StoreRoute \/ Sweep \/ Stop \/ ChangeSettings \/ UNCHANGED vars
  <2>1. open' \subseteq open
    BY <1>10 DEF Collect, StoreRoute, Sweep, Stop, ChangeSettings, Change, vars
  <2> QED
    BY <1>0, <2>1
<1>11. CASE \/ \E i \in Ifaces : ChangeLink(i) \/ ChangeRoute(i)
            \/ \E f \in Faults : ChangeFault(f)
  <2>1. open' \subseteq open
    BY <1>11 DEF ChangeLink, ChangeRoute, ChangeFault, Change
  <2> QED
    BY <1>0, <2>1
<1> QED
  BY <1>2, <1>3, <1>4, <1>5, <1>6, <1>7, <1>8, <1>9, <1>10, <1>11
     DEF Next, NetworkLoop, ChecksLoop

\* No alert without a failure, for any targets, domains and number of echoes:
\* whatever answers in a check or a lookup is not reported by it, whenever the
\* network changes and also when the daemon stops in the middle of a cycle, and
\* the internet only if no target answered.
THEOREM NoFalseAlarmHolds == Spec => NoFalseAlarm
<1>1. ChecksInv /\ [Next]_vars =>
        [\A k \in open' \ open :
           /\ k[1] = "gateway_unreachable" => <<"gateway", k[2]>> \in silent
           /\ k[1] = "internet_unreachable" => {"target"} \X Targets \subseteq silent
           /\ k[1] = "dns_failure" => <<"domain", k[2]>> \in silent]_vars
  BY JustifiedStep DEF Justified
<1>2. Spec => []ChecksInv
  BY ChecksInit, ChecksStep, PTL DEF Spec
<1> QED
  BY <1>1, <1>2, PTL DEF Spec, NoFalseAlarm

----------------------------------------------------------------------------
(***************************************************************************)
(* Traffic                                                                 *)
(***************************************************************************)

HIDE WorldAssumption

Bytes   == [rx : Nat, tx : Nat]
Since   == [rx : Nat, tx : Nat, ticks : Nat, reset : BOOLEAN, jumped : BOOLEAN]
Rates   == [rx : Nat \cup {NoRate}, tx : Nat \cup {NoRate}, over : Nat]
Rows    == Seq([row : Rates, at : Int])
Remote  == Keys \ Loopback

\* Connections by key, of none that is loopback.
IsSample(listed) ==
  /\ DOMAIN listed \subseteq Remote
  /\ listed \in [DOMAIN listed -> Bytes]

TypeOK ==
  /\ owner \in [Keys -> Labels] /\ conn \in [Keys -> Bytes] /\ iface \in Bytes
  /\ clock \in Int /\ sampled \in BOOLEAN /\ prevIface \in Bytes /\ prevAt \in Int
  /\ rows \in Rows
  /\ spike \in BOOLEAN /\ first \in BOOLEAN /\ reused \in BOOLEAN
  /\ IsSample(prevConn) /\ IsSample(snapshot)
  /\ appAt \in {"idle", "listed"}
  /\ recorded \in [Labels -> Bytes] /\ moved \in [Labels -> Bytes]
  /\ since \in Since
  /\ unseen \in [Keys -> Bytes] /\ inHand \in Bytes /\ lost \in Bytes
  /\ cycles \in Nat /\ events \in Nat

----------------------------------------------------------------------------
(* The inductive invariant                                                 *)

\* What the collector makes of a connection whose counters are at c.
Moved(k, c) ==
  IF k \in DOMAIN prevConn
  THEN IF Covers(c, prevConn[k]) THEN Minus(c, prevConn[k]) ELSE c
  ELSE IF first THEN Zero ELSE c

Deltas == [k \in DOMAIN snapshot |-> Delta(k)]

(***************************************************************************)
(* Between two cycles the counters of a connection are ahead of the last   *)
(* sample by no more than what ss has not listed, and by just that if no   *)
(* key was used again.  While a sample is in hand they are ahead of that,  *)
(* and a connection it does not have is new.                               *)
(***************************************************************************)
Ahead(k) ==
  /\ Covers(unseen[k], Moved(k, conn[k]))
  /\ ~reused /\ k \in DOMAIN prevConn => conn[k] = Plus(prevConn[k], unseen[k])
  /\ ~reused /\ k \notin DOMAIN prevConn /\ ~first => conn[k] = unseen[k]

AheadOfSnapshot(k) ==
  conn[k] = IF k \in DOMAIN snapshot THEN Plus(snapshot[k], unseen[k]) ELSE unseen[k]

CountersInv ==
  /\ \A k \in Keys : owner[k] = Nobody \/ k \in Loopback => unseen[k] = Zero
  /\ first => DOMAIN prevConn = {}
  /\ appAt = "idle" => /\ DOMAIN snapshot = {} /\ inHand = Zero
                       /\ \A k \in Remote : owner[k] # Nobody => Ahead(k)
  /\ appAt = "listed" => \A k \in Remote : owner[k] # Nobody => AheadOfSnapshot(k)

\* What is about to be charged was listed, and is all of it unless there was
\* no sample before or a key was used again.
InHandInv ==
  /\ Covers(inHand, Total(Deltas, DOMAIN snapshot))
  /\ appAt = "listed" /\ ~reused /\ ~first => inHand = Total(Deltas, DOMAIN snapshot)

\* What a connection may still add to its app.
Due     == [k \in Keys |-> IF k \in DOMAIN snapshot THEN Plus(unseen[k], Delta(k)) ELSE unseen[k]]
Mine(a) == {k \in Keys : owner[k] = a}

\* An app has moved what it was charged and all that its connections may add.
ChargesInv == \A a \in Apps : Covers(moved[a], Plus(recorded[a], Total(Due, Mine(a))))

(***************************************************************************)
(* The interface's counters are ahead of the last sample by what has       *)
(* passed since, or have started over since and hold no more than that;    *)
(* and so is the clock, unless it was set.                                 *)
(***************************************************************************)
IfaceInv ==
  sampled => /\ ~since.reset => /\ iface.rx = prevIface.rx + since.rx
                                /\ iface.tx = prevIface.tx + since.tx
             /\ since.reset => Covers(since, iface)
             /\ ~since.jumped => clock = prevAt + since.ticks

----------------------------------------------------------------------------
(* Finite sets                                                             *)

(***************************************************************************)
(* Induction over the subsets of a finite set, smaller ones first, for a   *)
(* set P of them: a smallest one outside P would be in P.                  *)
(***************************************************************************)
LEMMA SubsetInduction ==
  ASSUME NEW S, IsFiniteSet(S), NEW P,
         \A T \in SUBSET S : (\A x \in T : T \ {x} \in P) => T \in P
  PROVE  \A T \in SUBSET S : T \in P
<1> DEFINE Out == (SUBSET S) \ P
           N   == {Cardinality(T) : T \in Out}
<1> SUFFICES ASSUME Out # {} PROVE FALSE
  OBVIOUS
<1>1. \A T \in SUBSET S : IsFiniteSet(T) /\ Cardinality(T) \in Nat
  BY FS_Subset, FS_CardinalityType
<1>2. N \subseteq Nat /\ N # {}
  BY <1>1
<1>3. PICK n \in N : \A m \in N : ~ (<<m, n>> \in OpToRel(<, Nat))
  BY <1>2, WFMin, NatLessThanWellFounded
<1>4. PICK T \in Out : Cardinality(T) = n
  BY <1>3
<1>5. PICK x \in T : T \ {x} \notin P
  BY <1>4
<1>6. Cardinality(T \ {x}) = n - 1 /\ Cardinality(T \ {x}) \in Nat /\ n \in Nat
  BY <1>1, <1>4, <1>5, FS_RemoveElement
<1>7. Cardinality(T \ {x}) \in N
  BY <1>4, <1>5
<1>8. <<Cardinality(T \ {x}), n>> \in OpToRel(<, Nat)
  BY <1>6 DEF OpToRel
<1> QED
  BY <1>3, <1>7, <1>8

----------------------------------------------------------------------------
(* Sums                                                                    *)

AnyOf(T) == CHOOSE x \in T : TRUE

\* What the recursive function of a sum over S is asked to be.
Summing(f, S, g) ==
  g = [T \in SUBSET S |-> IF T = {} THEN 0 ELSE f[AnyOf(T)] + g[T \ {AnyOf(T)}]]

\* The sum is the value of such a function.
LEMMA SumIsChosen ==
  ASSUME NEW f, NEW S
  PROVE  SumFunctionOnSet(f, S) = (CHOOSE g : Summing(f, S, g))[S]
BY DEF SumFunctionOnSet, FoldFunctionOnSet, MapThenFoldSet, Summing, AnyOf

\* Such a function takes one element out after the other.
LEMMA SummingAt ==
  ASSUME NEW f, NEW S, NEW g, Summing(f, S, g), NEW T \in SUBSET S
  PROVE  /\ T = {} => g[T] = 0
         /\ T # {} => AnyOf(T) \in T /\ g[T] = f[AnyOf(T)] + g[T \ {AnyOf(T)}]
<1>1. T # {} => AnyOf(T) \in T
  BY DEF AnyOf
<1> QED
  BY <1>1 DEF Summing

\* Two such functions, over different sets, agree where both are defined.
LEMMA SummingAgrees ==
  ASSUME NEW f, NEW S, NEW R, NEW g, NEW h, Summing(f, S, g), Summing(f, R, h),
         NEW T, T \subseteq S, T \subseteq R, IsFiniteSet(T)
  PROVE  g[T] = h[T]
<1> DEFINE P == {U \in SUBSET T : g[U] = h[U]}
<1>1. ASSUME NEW U \in SUBSET T, \A x \in U : U \ {x} \in P
      PROVE  U \in P
  <2>1. U \in SUBSET S /\ U \in SUBSET R
    OBVIOUS
  <2>2. CASE U = {}
    BY <2>1, <2>2, SummingAt
  <2>3. CASE U # {}
    <3>1. AnyOf(U) \in U /\ g[U] = f[AnyOf(U)] + g[U \ {AnyOf(U)}]
      BY <2>1, <2>3, SummingAt
    <3>2. h[U] = f[AnyOf(U)] + h[U \ {AnyOf(U)}]
      BY <2>1, <2>3, SummingAt
    <3> QED
      BY <1>1, <3>1, <3>2
  <2> QED
    BY <2>2, <2>3
<1>2. \A U \in SUBSET T : U \in P
  <2> HIDE DEF P
  <2> QED
    BY <1>1, SubsetInduction
<1> QED
  BY <1>2

\* There is such a function.
LEMMA SummingExists ==
  ASSUME NEW f, NEW S, IsFiniteSet(S)
  PROVE  \E g : Summing(f, S, g)
<1> DEFINE P == {T \in SUBSET S : \A U \in SUBSET T : \E g : Summing(f, U, g)}
<1>1. ASSUME NEW T \in SUBSET S, \A x \in T : T \ {x} \in P
      PROVE  T \in P
  <2> DEFINE s(U) == (CHOOSE g : Summing(f, U, g))[U]
             c == AnyOf(T)
             h == [U \in SUBSET T |-> IF U # T THEN s(U)
                                      ELSE IF T = {} THEN 0 ELSE f[c] + s(T \ {c})]
  <2>1. ASSUME NEW U \in SUBSET T, U # T PROVE \E g : Summing(f, U, g)
    <3>1. PICK x \in T : U \in SUBSET (T \ {x})
      BY <2>1
    <3> QED
      BY <1>1, <3>1
  <2>2. ASSUME NEW U \in SUBSET T, U # T PROVE Summing(f, U, CHOOSE p : Summing(f, U, p))
    BY <2>1, <2>2
  <2>3. ASSUME NEW U \in SUBSET T, U # T, U # {}
        PROVE  s(U) = f[AnyOf(U)] + s(U \ {AnyOf(U)})
    <3> DEFINE k == AnyOf(U)
               g == CHOOSE p : Summing(f, U, p)
               e == CHOOSE p : Summing(f, U \ {k}, p)
    <3>1. k \in U /\ U \ {k} \in SUBSET T /\ U \ {k} # T /\ IsFiniteSet(U \ {k})
      <4>1. k \in U
        BY <2>3 DEF AnyOf
      <4> HIDE DEF k
      <4> QED
        BY <4>1, FS_Subset
    <3>2. Summing(f, U, g) /\ Summing(f, U \ {k}, e)
      BY <2>2, <2>3, <3>1
    <3>3. g[U] = f[k] + g[U \ {k}]
      <4> HIDE DEF g
      <4> QED
        BY <2>3, <3>2, SummingAt
    <3>4. g[U \ {k}] = e[U \ {k}]
      <4> HIDE DEF g, e, k
      <4> QED
        BY <3>1, <3>2, SummingAgrees
    <3> QED
      BY <3>3, <3>4
  <2>4. ASSUME NEW U \in SUBSET T, U # T, U = {} PROVE s(U) = 0
    BY <2>2, <2>4, SummingAt
  <2>5. Summing(f, T, h)
    <3>1. ASSUME NEW U \in SUBSET T
          PROVE  h[U] = IF U = {} THEN 0
                        ELSE f[AnyOf(U)] + h[U \ {AnyOf(U)}]
      <4>1. U # {} => AnyOf(U) \in U
        BY DEF AnyOf
      <4>2. U # {} => U \ {AnyOf(U)} \in SUBSET T /\ U \ {AnyOf(U)} # T
        BY <4>1
      <4>3. U # {} => h[U \ {AnyOf(U)}] = s(U \ {AnyOf(U)})
        <5> HIDE DEF s
        <5> QED
          BY <4>2
      <4>4. CASE U # T
        <5>1. h[U] = s(U)
          BY <4>4
        <5> HIDE DEF h, s
        <5> QED
          BY <2>3, <2>4, <4>3, <4>4, <5>1
      <4>5. CASE U = T
        <5>1. h[U] = IF U = {} THEN 0 ELSE f[c] + s(T \ {c})
          BY <4>5
        <5> HIDE DEF h, s
        <5> QED
          BY <4>3, <4>5, <5>1
      <4> QED
        BY <4>4, <4>5
    <3> DEFINE body(U) == IF U = {} THEN 0 ELSE f[AnyOf(U)] + h[U \ {AnyOf(U)}]
    <3>2. h = [U \in SUBSET T |-> h[U]]
      OBVIOUS
    <3> HIDE DEF h
    <3>3. h = [U \in SUBSET T |-> body(U)]
      BY <3>1, <3>2
    <3> QED
      BY <3>3 DEF Summing
  <2> QED
    BY <2>1, <2>5
<1>2. \A T \in SUBSET S : T \in P
  <2> HIDE DEF P
  <2> QED
    BY <1>1, SubsetInduction
<1> QED
  BY <1>2

\* A sum of integers is one, and any element can be taken out of it.
LEMMA SumFacts ==
  ASSUME NEW f, NEW S, IsFiniteSet(S), \A x \in S : f[x] \in Int
  PROVE  /\ SumFunctionOnSet(f, {}) = 0
         /\ SumFunctionOnSet(f, S) \in Int
         /\ \A x \in S : SumFunctionOnSet(f, S) = f[x] + SumFunctionOnSet(f, S \ {x})
<1> DEFINE sum(T) == SumFunctionOnSet(f, T)
           P == {T \in SUBSET S : /\ sum(T) \in Int
                               /\ \A x \in T : /\ sum(T \ {x}) \in Int
                                              /\ sum(T) = f[x] + sum(T \ {x})}
<1>1. ASSUME NEW T \in SUBSET S
      PROVE  /\ T = {} => sum(T) = 0
             /\ T # {} => \E k \in T : sum(T) = f[k] + sum(T \ {k})
  <2>1. PICK g : Summing(f, T, g)
    BY SummingExists, FS_Subset
  <2>2. \A U \in SUBSET T : sum(U) = g[U]
    <3> TAKE U \in SUBSET T
    <3>1. IsFiniteSet(U)
      BY FS_Subset
    <3>2. Summing(f, U, CHOOSE h : Summing(f, U, h))
      BY <3>1, SummingExists
    <3> QED
      BY <2>1, <3>1, <3>2, SummingAgrees, SumIsChosen
  <2> HIDE DEF sum
  <2>3. T # {} => AnyOf(T) \in T /\ g[T] = f[AnyOf(T)] + g[T \ {AnyOf(T)}]
    BY <2>1, SummingAt
  <2>4. T = {} => g[T] = 0
    BY <2>1, SummingAt
  <2>5. sum(T) = g[T] /\ sum(T \ {AnyOf(T)}) = g[T \ {AnyOf(T)}]
    BY <2>2
  <2> QED
    BY <2>3, <2>4, <2>5
<1> HIDE DEF sum
<1>2. ASSUME NEW T \in SUBSET S, \A x \in T : T \ {x} \in P
      PROVE  T \in P
  <2>1. CASE T = {}
    BY <1>1, <2>1
  <2>2. CASE T # {}
    <3>1. PICK k \in T : sum(T) = f[k] + sum(T \ {k})
      BY <1>1, <2>2
    <3>2. sum(T) \in Int
      BY <1>2, <3>1
    <3>3. ASSUME NEW x \in T
          PROVE  sum(T \ {x}) \in Int /\ sum(T) = f[x] + sum(T \ {x})
      <4>1. CASE x = k
        BY <1>2, <3>1, <4>1
      <4>2. CASE x # k
        <5>1. (T \ {k}) \ {x} = (T \ {x}) \ {k}
          OBVIOUS
        <5>2. sum(T \ {k}) = f[x] + sum((T \ {k}) \ {x})
          BY <1>2, <4>2
        <5>3. sum(T \ {x}) = f[k] + sum((T \ {x}) \ {k}) /\ sum(T \ {x}) \in Int
          BY <1>2, <4>2
        <5>4. sum((T \ {k}) \ {x}) \in Int
          BY <1>2, <4>2
        <5>5. f[x] \in Int /\ f[k] \in Int
          OBVIOUS
        <5>6. sum(T) = f[k] + (f[x] + sum((T \ {k}) \ {x}))
          BY <3>1, <5>2
        <5> DEFINE m == sum((T \ {k}) \ {x})
        <5>7. f[k] + (f[x] + m) = f[x] + (f[k] + m)
          <6>1. m \in Int
            BY <5>4
          <6> HIDE DEF m
          <6> QED
            BY <5>5, <6>1
        <5> QED
          BY <5>1, <5>3, <5>6, <5>7
      <4> QED
        BY <4>1, <4>2
    <3> QED
      BY <3>2, <3>3
  <2> QED
    BY <2>1, <2>2
<1>3. \A T \in SUBSET S : T \in P
  <2> HIDE DEF P
  <2> QED
    BY <1>2, SubsetInduction
<1> QED
  BY <1>1, <1>3 DEF sum

Sum(f, S) == SumFunctionOnSet(f, S)

\* The same facts by name, and what follows from them by the same induction.
LEMMA SumEmpty ==
  ASSUME NEW f
  PROVE  Sum(f, {}) = 0
BY SumFacts, FS_EmptySet DEF Sum

LEMMA SumType ==
  ASSUME NEW f, NEW S, IsFiniteSet(S), \A x \in S : f[x] \in Int
  PROVE  Sum(f, S) \in Int
BY SumFacts DEF Sum

LEMMA SumTakeOut ==
  ASSUME NEW f, NEW S, IsFiniteSet(S), \A x \in S : f[x] \in Int, NEW x \in S
  PROVE  Sum(f, S) = f[x] + Sum(f, S \ {x})
BY SumFacts DEF Sum

\* Sums of sums, of smaller values, of equal ones and of nothing.
LEMMA SumPlus ==
  ASSUME NEW f, NEW g, NEW h, NEW S, IsFiniteSet(S),
         \A x \in S : f[x] \in Int /\ g[x] \in Int /\ h[x] = f[x] + g[x]
  PROVE  Sum(h, S) = Sum(f, S) + Sum(g, S)
<1> DEFINE P == {T \in SUBSET S : Sum(h, T) = Sum(f, T) + Sum(g, T)}
<1>1. ASSUME NEW T \in SUBSET S, \A x \in T : T \ {x} \in P
      PROVE  T \in P
  <2>1. CASE T = {}
    BY <2>1, SumEmpty
  <2>2. CASE T # {}
    <3>1. PICK x \in T : TRUE
      BY <2>2
    <3>2. IsFiniteSet(T) /\ IsFiniteSet(T \ {x})
      BY FS_Subset
    <3>3. \A y \in T : f[y] \in Int /\ g[y] \in Int /\ h[y] \in Int
      OBVIOUS
    <3>4. Sum(f, T \ {x}) \in Int /\ Sum(g, T \ {x}) \in Int
      BY <3>2, <3>3, SumType
    <3>5. Sum(f, T) = f[x] + Sum(f, T \ {x})
      BY <3>1, <3>2, <3>3, SumTakeOut
    <3>6. Sum(g, T) = g[x] + Sum(g, T \ {x})
      BY <3>1, <3>2, <3>3, SumTakeOut
    <3>7. Sum(h, T) = h[x] + Sum(h, T \ {x})
      BY <3>1, <3>2, <3>3, SumTakeOut
    <3>8. Sum(h, T \ {x}) = Sum(f, T \ {x}) + Sum(g, T \ {x})
      BY <1>1, <3>1
    <3>9. h[x] = f[x] + g[x]
      BY <3>1
    <3> QED
      BY <3>1, <3>3, <3>4, <3>5, <3>6, <3>7, <3>8, <3>9
  <2> QED
    BY <2>1, <2>2
<1> HIDE DEF P
<1>2. \A T \in SUBSET S : T \in P
  BY <1>1, SubsetInduction
<1> QED
  BY <1>2 DEF P

LEMMA SumLessEqual ==
  ASSUME NEW f, NEW g, NEW S, IsFiniteSet(S),
         \A x \in S : f[x] \in Int /\ g[x] \in Int /\ f[x] <= g[x]
  PROVE  Sum(f, S) <= Sum(g, S)
<1> DEFINE P == {T \in SUBSET S : Sum(f, T) <= Sum(g, T)}
<1>1. ASSUME NEW T \in SUBSET S, \A x \in T : T \ {x} \in P
      PROVE  T \in P
  <2>1. CASE T = {}
    BY <2>1, SumEmpty
  <2>2. CASE T # {}
    <3>1. PICK x \in T : TRUE
      BY <2>2
    <3>2. IsFiniteSet(T) /\ IsFiniteSet(T \ {x})
      BY FS_Subset
    <3>3. \A y \in T : f[y] \in Int /\ g[y] \in Int
      OBVIOUS
    <3>4. Sum(f, T \ {x}) \in Int /\ Sum(g, T \ {x}) \in Int
      BY <3>2, <3>3, SumType
    <3>5. Sum(f, T) = f[x] + Sum(f, T \ {x})
      BY <3>1, <3>2, <3>3, SumTakeOut
    <3>6. Sum(g, T) = g[x] + Sum(g, T \ {x})
      BY <3>1, <3>2, <3>3, SumTakeOut
    <3>7. Sum(f, T \ {x}) <= Sum(g, T \ {x}) /\ f[x] <= g[x]
      BY <1>1, <3>1
    <3> QED
      BY <3>1, <3>3, <3>4, <3>5, <3>6, <3>7
  <2> QED
    BY <2>1, <2>2
<1> HIDE DEF P
<1>2. \A T \in SUBSET S : T \in P
  BY <1>1, SubsetInduction
<1> QED
  BY <1>2 DEF P

\* Sums of the same are the same, and those of nothing are nothing.
LEMMA SumSame ==
  ASSUME NEW f, NEW g, NEW S, IsFiniteSet(S), \A x \in S : f[x] \in Int /\ f[x] = g[x]
  PROVE  Sum(f, S) = Sum(g, S)
<1>1. \A x \in S : f[x] \in Int /\ g[x] \in Int /\ f[x] <= g[x] /\ g[x] <= f[x]
  OBVIOUS
<1>2. Sum(f, S) <= Sum(g, S) /\ Sum(g, S) <= Sum(f, S)
  BY <1>1, SumLessEqual
<1>3. Sum(f, S) \in Int /\ Sum(g, S) \in Int
  BY <1>1, SumType
<1> QED
  BY <1>2, <1>3

LEMMA SumZero ==
  ASSUME NEW f, NEW S, IsFiniteSet(S), \A x \in S : f[x] = 0
  PROVE  Sum(f, S) = 0
<1>1. \A x \in S : f[x] \in Int /\ f[x] = f[x] + f[x]
  OBVIOUS
<1>2. Sum(f, S) = Sum(f, S) + Sum(f, S)
  BY <1>1, SumPlus
<1> DEFINE m == Sum(f, S)
<1>3. m \in Int /\ m = m + m
  BY <1>1, <1>2, SumType
<1> HIDE DEF m
<1>4. m = 0
  BY <1>3
<1> QED
  BY <1>4 DEF m

\* One summand changes.
LEMMA SumUpdate ==
  ASSUME NEW f, NEW g, NEW S, IsFiniteSet(S), NEW x \in S,
         \A y \in S : f[y] \in Int /\ g[y] \in Int /\ (y # x => g[y] = f[y])
  PROVE  Sum(g, S) + f[x] = Sum(f, S) + g[x]
<1>1. IsFiniteSet(S \ {x})
  BY FS_Subset
<1>2. Sum(f, S \ {x}) = Sum(g, S \ {x})
  BY <1>1, SumSame
<1>3. Sum(f, S \ {x}) \in Int
  BY <1>1, SumType
<1>4. Sum(f, S) = f[x] + Sum(f, S \ {x}) /\ Sum(g, S) = g[x] + Sum(g, S \ {x})
  BY SumTakeOut
<1>5. f[x] \in Int /\ g[x] \in Int
  OBVIOUS
<1> QED
  BY <1>2, <1>3, <1>4, <1>5

\* A sum over a set is one over a part of it and one over the rest.
LEMMA SumSplit ==
  ASSUME NEW f, NEW S, IsFiniteSet(S), \A x \in S : f[x] \in Int, NEW R \in SUBSET S
  PROVE  Sum(f, S) = Sum(f, R) + Sum(f, S \ R)
<1> DEFINE P == {T \in SUBSET R : Sum(f, (S \ R) \cup T) = Sum(f, T) + Sum(f, S \ R)}
<1>1. IsFiniteSet(R) /\ IsFiniteSet(S \ R)
  BY FS_Subset
<1>2. ASSUME NEW T \in SUBSET R, \A x \in T : T \ {x} \in P
      PROVE  T \in P
  <2>0. Sum(f, S \ R) \in Int
    BY <1>1, SumType
  <2>1. CASE T = {}
    BY <2>0, <2>1, SumEmpty, (S \ R) \cup {} = S \ R
  <2>2. CASE T # {}
    <3>1. PICK x \in T : TRUE
      BY <2>2
    <3> DEFINE U == (S \ R) \cup T
    <3>2. IsFiniteSet(T) /\ IsFiniteSet(T \ {x}) /\ IsFiniteSet(U)
      BY FS_Subset, U \subseteq S
    <3>3. x \in U /\ U \ {x} = (S \ R) \cup (T \ {x})
      BY <3>1
    <3>4. f[x] \in Int /\ Sum(f, T \ {x}) \in Int
      BY <3>1, <3>2, SumType
    <3>5. Sum(f, T) = f[x] + Sum(f, T \ {x})
      BY <3>1, <3>2, SumTakeOut
    <3>6. Sum(f, U) = f[x] + Sum(f, U \ {x})
      BY <3>2, <3>3, SumTakeOut
    <3>7. Sum(f, U \ {x}) = Sum(f, T \ {x}) + Sum(f, S \ R)
      BY <1>2, <3>1, <3>3
    <3> QED
      BY <2>0, <3>4, <3>5, <3>6, <3>7
  <2> QED
    BY <2>1, <2>2
<1> HIDE DEF P
<1>3. R \in P
  BY <1>1, <1>2, SubsetInduction
<1> QED
  BY <1>3, (S \ R) \cup R = S DEF P

\* Summing by label and summing the labels is summing.
LEMMA SumByLabel ==
  ASSUME NEW f, NEW D, IsFiniteSet(D), \A x \in D : f[x] \in Int,
         NEW L, IsFiniteSet(L), NEW c, \A x \in D : c[x] \in L
  PROVE  Sum([a \in L |-> Sum(f, {x \in D : c[x] = a})], L) = Sum(f, D)
<1> DEFINE Part(T, a) == {x \in T : c[x] = a}
           Parts(T) == [a \in L |-> Sum(f, Part(T, a))]
           P == {T \in SUBSET D : Sum(Parts(T), L) = Sum(f, T)}
<1>1. ASSUME NEW T \in SUBSET D PROVE \A a \in L : Parts(T)[a] \in Int
  <2> TAKE a \in L
  <2>1. IsFiniteSet(Part(T, a)) /\ Part(T, a) \subseteq D
    BY FS_Subset, Part(T, a) \subseteq D
  <2>2. Sum(f, Part(T, a)) \in Int
    <3> HIDE DEF Part
    <3> QED
      BY <2>1, SumType
  <2> QED
    BY <2>2
<1>2. ASSUME NEW T \in SUBSET D, \A x \in T : T \ {x} \in P
      PROVE  T \in P
  <2>1. CASE T = {}
    <3>1. \A a \in L : Part(T, a) = {}
      BY <2>1
    <3>2. \A a \in L : Parts(T)[a] = 0
      BY <3>1, SumEmpty
    <3> HIDE DEF Parts
    <3>3. Sum(Parts(T), L) = 0
      BY <3>2, SumZero
    <3> QED
      BY <2>1, <3>3, SumEmpty
  <2>2. CASE T # {}
    <3>1. PICK x \in T : TRUE
      BY <2>2
    <3> DEFINE U == T \ {x}
    <3>2. \A a \in L : a # c[x] => Part(U, a) = Part(T, a)
      OBVIOUS
    <3>3. x \in Part(T, c[x]) /\ Part(T, c[x]) \ {x} = Part(U, c[x]) /\ c[x] \in L
      BY <3>1
    <3>4. IsFiniteSet(Part(T, c[x])) /\ \A y \in Part(T, c[x]) : f[y] \in Int
      BY FS_Subset, Part(T, c[x]) \subseteq D
    <3>5. Sum(f, Part(T, c[x])) = f[x] + Sum(f, Part(U, c[x]))
      <4> DEFINE A == Part(T, c[x])
      <4>1. Sum(f, A) = f[x] + Sum(f, A \ {x})
        <5> HIDE DEF Part
        <5>1. IsFiniteSet(A) /\ x \in A /\ \A y \in A : f[y] \in Int
          BY <3>3, <3>4
        <5> HIDE DEF A
        <5> QED
          BY <5>1, SumTakeOut
      <4> QED
        BY <3>3, <4>1
    <3>6. Parts(T)[c[x]] = f[x] + Parts(U)[c[x]]
      BY <3>3, <3>5
    <3>7. \A a \in L : a # c[x] => Parts(T)[a] = Parts(U)[a]
      BY <3>2
    <3>8. \A a \in L : Parts(T)[a] \in Int /\ Parts(U)[a] \in Int
      BY <1>1
    <3>9. f[x] \in Int /\ IsFiniteSet(T) /\ IsFiniteSet(U)
      BY <3>1, FS_Subset
    <3>10. Sum(Parts(U), L) = Sum(f, U)
      BY <1>2, <3>1
    <3> HIDE DEF Parts
    <3>11. Sum(Parts(T), L) + Parts(U)[c[x]] = Sum(Parts(U), L) + Parts(T)[c[x]]
      <4> DEFINE p == Parts(U)
                 q == Parts(T)
                 l == c[x]
      <4>1. l \in L /\ \A a \in L : p[a] \in Int /\ q[a] \in Int /\ (a # l => q[a] = p[a])
        BY <3>3, <3>7, <3>8
      <4> HIDE DEF p, q, l
      <4>2. Sum(q, L) + p[l] = Sum(p, L) + q[l]
        BY <4>1, SumUpdate
      <4> QED
        BY <4>2 DEF p, q, l
    <3>12. Sum(f, T) = f[x] + Sum(f, U)
      BY <3>1, <3>9, SumTakeOut
    <3>13. Sum(Parts(T), L) \in Int /\ Sum(Parts(U), L) \in Int
      BY <3>8, SumType
    <3> HIDE DEF U
    <3>14. Parts(U)[c[x]] \in Int
      BY <3>3, <3>8
    <3>15. Sum(Parts(T), L) = Sum(f, T)
      BY <3>6, <3>9, <3>10, <3>11, <3>12, <3>13, <3>14
    <3> QED
      BY <3>15 DEF P
  <2> QED
    BY <2>1, <2>2
<1> HIDE DEF P
<1>3. \A T \in SUBSET D : T \in P
  BY <1>2, SubsetInduction
<1> QED
  BY <1>3 DEF P

----------------------------------------------------------------------------
(* Totals: sums of bytes in both directions                                *)

\* The sum in one direction.
Part(f, S, d) == Sum([k \in S |-> f[k][d]], S)

Directions == {"rx", "tx"}

\* Bytes by direction.
LEMMA BytesFacts ==
  ASSUME NEW a \in Bytes
  PROVE  /\ a["rx"] = a.rx /\ a["tx"] = a.tx /\ \A d \in Directions : a[d] \in Nat
         /\ \A b \in Bytes : (\A d \in Directions : a[d] = b[d]) => a = b
BY DEF Bytes, Directions

LEMMA PlusFacts ==
  ASSUME NEW a \in Bytes, NEW b \in Bytes
  PROVE  /\ Plus(a, b) \in Bytes
         /\ \A d \in Directions : Plus(a, b)[d] = a[d] + b[d]
BY DEF Bytes, Directions, Plus

LEMMA CoversFacts ==
  ASSUME NEW a \in Bytes, NEW b \in Bytes
  PROVE  Covers(a, b) <=> \A d \in Directions : a[d] >= b[d]
BY DEF Bytes, Directions, Covers

\* A total is, in each direction, the sum in it.
LEMMA TotalFacts ==
  ASSUME NEW f, NEW S, IsFiniteSet(S), \A k \in S : f[k] \in Bytes
  PROVE  /\ Total(f, S) \in Bytes
         /\ \A d \in Directions : Total(f, S)[d] = Part(f, S, d)
<1> DEFINE g(d) == [k \in S |-> f[k][d]]
<1>1. ASSUME NEW d \in Directions PROVE Sum(g(d), S) \in Nat
  <2>1. \A k \in S : g(d)[k] \in Int /\ 0 <= g(d)[k]
    BY <1>1, BytesFacts
  <2> DEFINE z == [k \in S |-> 0]
  <2>2. \A k \in S : z[k] \in Int /\ g(d)[k] \in Int /\ z[k] <= g(d)[k]
    BY <2>1
  <2>3. \A k \in S : z[k] = 0
    OBVIOUS
  <2> HIDE DEF g, z
  <2>4. Sum(z, S) <= Sum(g(d), S) /\ Sum(z, S) = 0 /\ Sum(g(d), S) \in Int
    BY <2>1, <2>2, <2>3, SumLessEqual, SumZero, SumType
  <2> QED
    BY <2>4
<1>2. Total(f, S) = [rx |-> Sum(g("rx"), S), tx |-> Sum(g("tx"), S)]
  BY DEF Total, Sum
<1> QED
  BY <1>1, <1>2 DEF Bytes, Directions, Part

LEMMA TotalEmpty ==
  ASSUME NEW f
  PROVE  Total(f, {}) = Zero
BY SumEmpty DEF Total, Sum, Zero

\* The facts about sums, for totals.
LEMMA TotalCovers ==
  ASSUME NEW f, NEW g, NEW S, IsFiniteSet(S),
         \A k \in S : f[k] \in Bytes /\ g[k] \in Bytes /\ Covers(f[k], g[k])
  PROVE  Covers(Total(f, S), Total(g, S))
<1>1. ASSUME NEW d \in Directions PROVE Part(f, S, d) >= Part(g, S, d)
  <2> DEFINE p == [k \in S |-> f[k][d]]
             q == [k \in S |-> g[k][d]]
  <2>1. \A k \in S : q[k] \in Int /\ p[k] \in Int /\ q[k] <= p[k]
    BY <1>1, BytesFacts, CoversFacts
  <2>2. Sum(q, S) <= Sum(p, S) /\ Sum(q, S) \in Int /\ Sum(p, S) \in Int
    <3> HIDE DEF p, q
    <3> QED
      BY <2>1, SumLessEqual, SumType
  <2> QED
    BY <2>2 DEF Part
<1>2. /\ Total(f, S) \in Bytes /\ Total(g, S) \in Bytes
      /\ \A d \in Directions : Total(f, S)[d] = Part(f, S, d) /\ Total(g, S)[d] = Part(g, S, d)
  BY TotalFacts
<1> QED
  BY <1>1, <1>2, CoversFacts

LEMMA TotalSame ==
  ASSUME NEW f, NEW g, NEW S, IsFiniteSet(S), \A k \in S : f[k] \in Bytes /\ f[k] = g[k]
  PROVE  Total(f, S) = Total(g, S)
<1>1. [k \in S |-> f[k].rx] = [k \in S |-> g[k].rx] /\ [k \in S |-> f[k].tx] = [k \in S |-> g[k].tx]
  OBVIOUS
<1> QED
  BY <1>1 DEF Total

LEMMA TotalPlus ==
  ASSUME NEW f, NEW g, NEW h, NEW S, IsFiniteSet(S),
         \A k \in S : f[k] \in Bytes /\ g[k] \in Bytes /\ h[k] = Plus(f[k], g[k])
  PROVE  Total(h, S) = Plus(Total(f, S), Total(g, S))
<1>0. \A k \in S : h[k] \in Bytes
  BY PlusFacts
<1>1. ASSUME NEW d \in Directions PROVE Part(h, S, d) = Part(f, S, d) + Part(g, S, d)
  <2> DEFINE p == [k \in S |-> f[k][d]]
             q == [k \in S |-> g[k][d]]
             r == [k \in S |-> h[k][d]]
  <2>1. \A k \in S : p[k] \in Int /\ q[k] \in Int /\ r[k] = p[k] + q[k]
    BY <1>1, BytesFacts, PlusFacts
  <2>2. Sum(r, S) = Sum(p, S) + Sum(q, S)
    <3> HIDE DEF p, q, r
    <3> QED
      BY <2>1, SumPlus
  <2> QED
    BY <2>2 DEF Part
<1>2. /\ Total(f, S) \in Bytes /\ Total(g, S) \in Bytes /\ Total(h, S) \in Bytes
      /\ \A d \in Directions : /\ Total(f, S)[d] = Part(f, S, d)
                               /\ Total(g, S)[d] = Part(g, S, d)
                               /\ Total(h, S)[d] = Part(h, S, d)
  BY <1>0, TotalFacts
<1>3. \A d \in Directions : Total(h, S)[d] = Plus(Total(f, S), Total(g, S))[d]
  BY <1>1, <1>2, PlusFacts
<1> QED
  BY <1>2, <1>3, BytesFacts, PlusFacts

LEMMA TotalZero ==
  ASSUME NEW f, NEW S, IsFiniteSet(S), \A k \in S : f[k] = Zero
  PROVE  Total(f, S) = Zero
<1> DEFINE p == [k \in S |-> f[k].rx]
           q == [k \in S |-> f[k].tx]
<1>1. \A k \in S : p[k] = 0 /\ q[k] = 0
  BY DEF Zero
<1>2. Sum(p, S) = 0 /\ Sum(q, S) = 0
  <2> HIDE DEF p, q
  <2> QED
    BY <1>1, SumZero
<1> QED
  BY <1>2 DEF Total, Sum, Zero

\* A total over a set is one over a part of it and one over the rest.
LEMMA TotalSplit ==
  ASSUME NEW f, NEW S, IsFiniteSet(S), \A k \in S : f[k] \in Bytes, NEW R \in SUBSET S
  PROVE  Total(f, S) = Plus(Total(f, R), Total(f, S \ R))
<1>0. IsFiniteSet(R) /\ IsFiniteSet(S \ R) /\ S \ R \subseteq S
  BY FS_Subset
<1>1. ASSUME NEW d \in Directions PROVE Part(f, S, d) = Part(f, R, d) + Part(f, S \ R, d)
  <2> DEFINE p(T) == [k \in T |-> f[k][d]]
  <2>1. \A k \in S : p(S)[k] \in Int
    BY <1>1, BytesFacts
  <2>2. ASSUME NEW T \in SUBSET S PROVE Sum(p(S), T) = Sum(p(T), T)
    <3>1. IsFiniteSet(T) /\ \A k \in T : p(S)[k] \in Int /\ p(S)[k] = p(T)[k]
      BY <2>1, FS_Subset
    <3> HIDE DEF p
    <3> QED
      BY <3>1, SumSame
  <2>3. Sum(p(S), S) = Sum(p(S), R) + Sum(p(S), S \ R)
    <3> HIDE DEF p
    <3> QED
      BY <2>1, SumSplit
  <2>4. Sum(p(S), S) = Sum(p(R), R) + Sum(p(S \ R), S \ R)
    <3> HIDE DEF p
    <3> QED
      BY <1>0, <2>2, <2>3
  <2> QED
    BY <2>4 DEF Part
<1>2. /\ Total(f, S) \in Bytes /\ Total(f, R) \in Bytes /\ Total(f, S \ R) \in Bytes
      /\ \A d \in Directions : /\ Total(f, S)[d] = Part(f, S, d)
                               /\ Total(f, R)[d] = Part(f, R, d)
                               /\ Total(f, S \ R)[d] = Part(f, S \ R, d)
  BY <1>0, TotalFacts
<1>3. ASSUME NEW d \in Directions
      PROVE  Total(f, S)[d] = Plus(Total(f, R), Total(f, S \ R))[d]
  <2>1. Plus(Total(f, R), Total(f, S \ R))[d] = Total(f, R)[d] + Total(f, S \ R)[d]
    BY <1>2, PlusFacts
  <2> QED
    BY <1>1, <1>2, <2>1
<1> QED
  BY <1>2, <1>3, BytesFacts, PlusFacts

\* One connection, or one app, has more.
LEMMA TotalRaised ==
  ASSUME NEW f, NEW g, NEW S, IsFiniteSet(S), NEW x \in S, NEW b \in Bytes,
         \A k \in S : f[k] \in Bytes /\ g[k] = IF k = x THEN Plus(f[k], b) ELSE f[k]
  PROVE  Total(g, S) = Plus(Total(f, S), b)
<1>0. \A k \in S : g[k] \in Bytes
  BY PlusFacts
<1>1. ASSUME NEW d \in Directions PROVE Part(g, S, d) = Part(f, S, d) + b[d]
  <2> DEFINE p == [k \in S |-> f[k][d]]
             q == [k \in S |-> g[k][d]]
  <2>1. \A k \in S : p[k] \in Int /\ q[k] \in Int /\ (k # x => q[k] = p[k])
    BY <1>0, <1>1, BytesFacts
  <2>2. q[x] = p[x] + b[d] /\ b[d] \in Int
    BY <1>1, PlusFacts, BytesFacts
  <2>3. p[x] \in Int
    BY <2>1
  <2> HIDE DEF p, q
  <2>4. Sum(q, S) + p[x] = Sum(p, S) + q[x] /\ Sum(q, S) \in Int /\ Sum(p, S) \in Int
    BY <2>1, SumUpdate, SumType
  <2>5. Sum(q, S) = Sum(p, S) + b[d]
    BY <2>2, <2>3, <2>4
  <2> QED
    BY <2>5 DEF Part, p, q
<1>2. /\ Total(f, S) \in Bytes /\ Total(g, S) \in Bytes
      /\ \A d \in Directions : Total(f, S)[d] = Part(f, S, d) /\ Total(g, S)[d] = Part(g, S, d)
  BY <1>0, TotalFacts
<1>3. \A d \in Directions : Total(g, S)[d] = Plus(Total(f, S), b)[d]
  BY <1>1, <1>2, PlusFacts
<1> QED
  BY <1>2, <1>3, BytesFacts, PlusFacts

\* Totals by label add up to the total.
LEMMA TotalByLabel ==
  ASSUME NEW f, NEW D, IsFiniteSet(D), \A k \in D : f[k] \in Bytes,
         NEW L, IsFiniteSet(L), NEW c, \A k \in D : c[k] \in L
  PROVE  Total([a \in L |-> Total(f, {k \in D : c[k] = a})], L) = Total(f, D)
<1> DEFINE M(a) == {k \in D : c[k] = a}
           t == [a \in L |-> Total(f, M(a))]
<1>0. \A a \in L : IsFiniteSet(M(a)) /\ M(a) \subseteq D
  BY FS_Subset, \A a \in L : M(a) \subseteq D
<1>1. ASSUME NEW a \in L
      PROVE  t[a] \in Bytes /\ \A d \in Directions : t[a][d] = Part(f, M(a), d)
  <2>1. t[a] = Total(f, M(a)) /\ \A k \in M(a) : f[k] \in Bytes
    OBVIOUS
  <2> HIDE DEF t, M
  <2> QED
    BY <1>0, <2>1, TotalFacts
<1>2. ASSUME NEW d \in Directions PROVE Part(t, L, d) = Part(f, D, d)
  <2> DEFINE p == [k \in D |-> f[k][d]]
             q == [a \in L |-> Sum(p, M(a))]
             r == [a \in L |-> t[a][d]]
  <2>1. \A k \in D : p[k] \in Int
    BY <1>2, BytesFacts
  <2>2. Sum(q, L) = Sum(p, D)
    <3> HIDE DEF p
    <3> QED
      BY <2>1, SumByLabel
  <2>3. ASSUME NEW a \in L PROVE q[a] \in Int /\ q[a] = r[a]
    <3> DEFINE s == [k \in M(a) |-> f[k][d]]
    <3>1. \A k \in M(a) : s[k] = p[k] /\ p[k] \in Int
      BY <2>1
    <3>2. Sum(s, M(a)) = Part(f, M(a), d)
      BY DEF Part
    <3>3. q[a] = Sum(p, M(a)) /\ r[a] = Part(f, M(a), d)
      BY <1>1, <1>2
    <3>4. IsFiniteSet(M(a))
      BY <1>0
    <3> HIDE DEF s, p, q, r, M
    <3>5. Sum(s, M(a)) = Sum(p, M(a)) /\ Sum(p, M(a)) \in Int
      BY <3>1, <3>4, SumSame, SumType
    <3> QED
      BY <3>2, <3>3, <3>5
  <2>4. Sum(q, L) = Sum(r, L)
    <3> HIDE DEF q, r
    <3> QED
      BY <2>3, SumSame
  <2>5. Sum(r, L) = Part(t, L, d) /\ Sum(p, D) = Part(f, D, d)
    <3> HIDE DEF t
    <3> QED
      BY DEF Part
  <2> QED
    BY <2>2, <2>4, <2>5
<1> HIDE DEF t
<1>3. /\ Total(t, L) \in Bytes /\ Total(f, D) \in Bytes
      /\ \A d \in Directions : Total(t, L)[d] = Part(t, L, d) /\ Total(f, D)[d] = Part(f, D, d)
  BY <1>1, TotalFacts
<1>4. Total(t, L) = Total(f, D)
  BY <1>2, <1>3, BytesFacts
<1> QED
  BY <1>4 DEF t

----------------------------------------------------------------------------
(* Types                                                                   *)

\* Sets of connections and of labels are finite.
LEMMA Constants ==
  /\ IsFiniteSet(Keys) /\ IsFiniteSet(Labels) /\ Nobody \in Labels /\ Apps \subseteq Labels
  /\ Nobody \notin Apps
  /\ \A S \in SUBSET Keys : IsFiniteSet(S)
<1>1. IsFiniteSet(Apps \cup {Nobody})
  BY TrafficAssumption, FS_AddElement
<1> QED
  BY <1>1, TrafficAssumption, FS_Subset DEF Labels

\* What the helpers return.
LEMMA ZeroType == Zero \in Bytes
BY DEF Zero, Bytes

LEMMA PlusType ==
  ASSUME NEW a \in Bytes, NEW b \in Bytes
  PROVE  Plus(a, b) \in Bytes
BY DEF Plus, Bytes

LEMMA MovedType ==
  ASSUME TypeOK, NEW k \in Keys, NEW c \in Bytes
  PROVE  Moved(k, c) \in Bytes
BY DEF TypeOK, Moved, IsSample, Covers, Minus, Zero, Bytes

LEMMA DeltaType ==
  ASSUME TypeOK, NEW k \in DOMAIN snapshot
  PROVE  /\ Delta(k) = Moved(k, snapshot[k]) /\ Delta(k) \in Bytes
         /\ k \in Keys /\ k \in Remote /\ snapshot[k] \in Bytes
<1>1. k \in Keys /\ k \in Remote /\ snapshot[k] \in Bytes
  BY DEF TypeOK, IsSample, Remote
<1> QED
  BY <1>1, MovedType DEF Delta, Moved

LEMMA AppOfType ==
  ASSUME TypeOK, NEW k \in Keys
  PROVE  AppOf(k) \in Labels
BY Constants DEF TypeOK, AppOf

\* The charges are totals of the differences of an app.
LEMMA ChargesType ==
  ASSUME TypeOK
  PROVE  /\ \A a \in Labels : Charges[a] \in Bytes
         /\ Charges = [a \in Labels |-> Total(Deltas, {k \in DOMAIN snapshot : AppOf(k) = a})]
<1>1. ASSUME NEW a \in Labels
      PROVE  LET mine == {k \in DOMAIN snapshot : AppOf(k) = a}
             IN  /\ Total([k \in mine |-> Delta(k)], mine) = Total(Deltas, mine)
                 /\ Total(Deltas, mine) \in Bytes
  <2> DEFINE mine == {k \in DOMAIN snapshot : AppOf(k) = a}
             f == [k \in mine |-> Delta(k)]
  <2>1. \A k \in mine : f[k] \in Bytes /\ f[k] = Deltas[k]
    BY DeltaType DEF Deltas
  <2>2. mine \in SUBSET Keys
    BY DeltaType
  <2>3. IsFiniteSet(mine)
    BY <2>2, Constants
  <2> HIDE DEF f, mine
  <2>4. Total(f, mine) = Total(Deltas, mine)
    BY <2>1, <2>3, TotalSame
  <2>5. Total(Deltas, mine) \in Bytes
    BY <2>1, <2>3, TotalFacts
  <2> QED
    BY <2>4, <2>5 DEF f, mine
<1> DEFINE C(a) == LET mine == {k \in DOMAIN snapshot : AppOf(k) = a}
                   IN  Total([k \in mine |-> Delta(k)], mine)
           D(a) == Total(Deltas, {k \in DOMAIN snapshot : AppOf(k) = a})
<1>2. \A a \in Labels : C(a) = D(a) /\ D(a) \in Bytes
  BY <1>1
<1>3. Charges = [a \in Labels |-> C(a)]
  BY DEF Charges
<1> HIDE DEF C, D
<1>4. Charges = [a \in Labels |-> D(a)] /\ \A a \in Labels : Charges[a] \in Bytes
  BY <1>2, <1>3
<1> QED
  BY <1>4 DEF D

\* What the collectors may do to the interface's rows.
LEMMA ComputeRatesType ==
  ASSUME NEW b \in Bytes, NEW c \in Bytes, NEW dt \in Int
  PROVE  ComputeRates(b, c, dt) \in Rates
<1> DEFINE s == Scale \div dt
           x == c.rx - b.rx
           y == c.tx - b.tx
           none == dt <= 0 \/ dt > MaxGap \/ ~Covers(c, b)
<1>1. ~none => s \in Nat /\ dt \in Nat
  BY TrafficAssumption
<1>2. x \in Int /\ y \in Int /\ (Covers(c, b) => x \in Nat /\ y \in Nat)
  BY DEF Bytes, Covers
<1>3. ComputeRates(b, c, dt) = IF none THEN Baseline
                               ELSE [rx |-> x * s, tx |-> y * s, over |-> dt]
  BY DEF ComputeRates
<1>4. ~none => Covers(c, b)
  OBVIOUS
<1> HIDE DEF s, x, y, none
<1>5. ~none => x * s \in Nat /\ y * s \in Nat
  BY <1>1, <1>2, <1>4
<1>6. Baseline \in Rates
  BY DEF Baseline, Rates
<1>7. ~none => [rx |-> x * s, tx |-> y * s, over |-> dt] \in Rates
  BY <1>1, <1>5 DEF Rates
<1> QED
  BY <1>3, <1>6, <1>7

LEMMA SampleType ==
  ASSUME TypeOK, NEW now \in Int
  PROVE  Sample(now) \in Rates /\ Append(rows, [row |-> Sample(now), at |-> now]) \in Rows
<1>1. Sample(now) \in Rates
  <2>1. Baseline \in Rates
    BY DEF Baseline, Rates
  <2>2. now - prevAt \in Int
    BY DEF TypeOK
  <2> DEFINE dt == now - prevAt
  <2>3. ComputeRates(prevIface, iface, dt) \in Rates
    <3> HIDE DEF dt
    <3> QED
      BY <2>2, ComputeRatesType DEF TypeOK, dt
  <2> QED
    BY <2>1, <2>3 DEF Sample
<1> DEFINE new == [row |-> Sample(now), at |-> now]
<1>2. new \in [row : Rates, at : Int]
  BY <1>1
<1> HIDE DEF new
<1>3. Append(rows, new) \in Rows
  BY <1>2 DEF TypeOK, Rows
<1> QED
  BY <1>1, <1>3 DEF new

\* Every action keeps the types.
LEMMA InitType == TrafficInit => TypeOK
<1> SUFFICES ASSUME TrafficInit PROVE TypeOK
  OBVIOUS
<1>1. Zero \in Bytes /\ Nobody \in Labels
  BY ZeroType, Constants
<1>2. IsSample(NoConn)
  BY DEF IsSample, NoConn
<1>3. rows \in Rows
  BY DEF TrafficInit, Rows
<1>4. since \in Since
  BY DEF TrafficInit, Quiet, Since
<1>5. clock = 0 /\ sampled = FALSE /\ prevIface = Zero /\ prevAt = 0
  BY DEF TrafficInit
<1>6. clock \in Int /\ prevIface \in Bytes /\ prevAt \in Int
  BY <1>1, <1>5
<1>7. sampled \in BOOLEAN
  BY <1>5
<1> QED
  BY <1>1, <1>2, <1>3, <1>4, <1>6, <1>7 DEF TrafficInit, TypeOK

LEMMA NetworkCycleType ==
  ASSUME TypeOK, NEW d \in Delays, NetworkCycle(d)
  PROVE  TypeOK'
<1>1. d \in Nat /\ clock' \in Int
  BY TrafficAssumption DEF NetworkCycle, TypeOK
<1>2. /\ rows' \in Rows /\ sampled' \in BOOLEAN /\ prevIface' \in Bytes /\ prevAt' \in Int
      /\ events' \in Nat /\ since' \in Since /\ spike' \in BOOLEAN
  <2>1. CASE CollectFails(d)
    <3>1. since' \in Since
      <4>1. since \in Since /\ since.ticks + d \in Nat
        BY <1>1 DEF TypeOK, Since
      <4> QED
        BY <2>1, <4>1 DEF CollectFails, Since
    <3> QED
      BY <2>1, <3>1 DEF CollectFails, Event, TypeOK, network
  <2>2. CASE CollectAndCheck
    <3>1. sampled' \in BOOLEAN /\ prevIface' \in Bytes /\ prevAt' \in Int /\ since' \in Since
      BY <1>1, <2>2 DEF CollectAndCheck, Advance, Quiet, TypeOK, Since
    <3>2. rows' \in Rows
      BY <1>1, <2>2, SampleType DEF CollectAndCheck, Insert, TypeOK
    <3>3. events' \in Nat
      BY <2>2 DEF CollectAndCheck, Event, TypeOK
    <3>4. spike' \in BOOLEAN
      <4>1. PICK r, rs, now : spike' = IF r # NoRate /\ HasBaseline(rs, now)
                                       THEN Spiking(r, rs, now) ELSE spike
        BY <2>2 DEF CollectAndCheck, CheckTrafficSpike
      <4>2. Spiking(r, rs, now) \in BOOLEAN
        BY DEF Spiking
      <4> QED
        BY <4>1, <4>2, ZenonT(30) DEF TypeOK
    <3> QED
      BY <3>1, <3>2, <3>3, <3>4
  <2> QED
    BY <2>1, <2>2 DEF NetworkCycle
<1>3. UNCHANGED <<owner, conn, iface, appSide, charged>> /\ cycles' \in Nat
  BY DEF NetworkCycle, TypeOK
<1> QED
  BY <1>1, <1>2, <1>3 DEF TypeOK, IsSample, appSide, charged

\* What passed the interface stays well formed.
LEMMA SinceType ==
  ASSUME NEW s \in Since, NEW b \in Bytes
  PROVE  /\ [s EXCEPT !.rx = @ + b.rx, !.tx = @ + b.tx] \in Since
         /\ [s EXCEPT !.reset = TRUE] \in Since /\ [s EXCEPT !.jumped = TRUE] \in Since
<1>1. s.rx + b.rx \in Nat /\ s.tx + b.tx \in Nat
  BY DEF Since, Bytes
<1> DEFINE x == s.rx + b.rx
           y == s.tx + b.tx
<1>2. [s EXCEPT !.rx = @ + b.rx, !.tx = @ + b.tx] = [s EXCEPT !.rx = x, !.tx = y]
  OBVIOUS
<1> HIDE DEF x, y
<1>3. [s EXCEPT !.rx = x, !.tx = y] \in Since
  BY <1>1 DEF Since, x, y
<1>4. [s EXCEPT !.reset = TRUE] \in Since /\ [s EXCEPT !.jumped = TRUE] \in Since
  BY DEF Since
<1> QED
  BY <1>2, <1>3, <1>4

LEMMA ListConnectionsType ==
  ASSUME TypeOK, ListConnections
  PROVE  TypeOK'
<1>1. cycles' \in Nat /\ events' \in Nat
  BY DEF ListConnections, Event, TypeOK
<1>2. /\ IsSample(snapshot') /\ unseen' \in [Keys -> Bytes] /\ inHand' \in Bytes
      /\ appAt' \in {"idle", "listed"}
  <2>1. CASE UNCHANGED <<snapshot, unseen, inHand, appAt>>
    BY <2>1 DEF TypeOK
  <2>2. CASE /\ snapshot' = [k \in Listed |-> conn[k]]
             /\ unseen' = [k \in Keys |-> IF k \in Listed THEN Zero ELSE unseen[k]]
             /\ inHand' = Total(unseen, Listed)
             /\ appAt' = "listed"
    <3>1. Listed \subseteq Keys /\ Listed \subseteq Remote
      BY DEF Listed, Remote
    <3>2. Total(unseen, Listed) \in Bytes
      BY <3>1, Constants, TotalFacts DEF TypeOK
    <3>3. IsSample(snapshot')
      BY <2>2, <3>1 DEF TypeOK, IsSample
    <3> QED
      BY <2>2, <3>2, <3>3, ZeroType DEF TypeOK
  <2> QED
    BY <2>1, <2>2 DEF ListConnections
<1> QED
  BY <1>1, <1>2 DEF ListConnections, TypeOK, kernel, network, IsSample

LEMMA AccumulateType ==
  ASSUME TypeOK, Accumulate
  PROVE  TypeOK'
<1>1. IsSample(NoConn)
  BY DEF IsSample, NoConn
<1>2. Total(Charges, Labels) \in Bytes
  BY ChargesType, Constants, TotalFacts
<1>3. lost' \in Bytes /\ events' \in Nat
  BY <1>2, PlusType DEF Accumulate, Event, TypeOK
<1>4. recorded' \in [Labels -> Bytes]
  <2>1. \A a \in Labels : Plus(recorded[a], Charges[a]) \in Bytes
    BY ChargesType, PlusType DEF TypeOK
  <2> QED
    BY <2>1 DEF Accumulate, TypeOK
<1>5. first' \in BOOLEAN /\ appAt' \in {"idle", "listed"} /\ snapshot' = NoConn
      /\ prevConn' = snapshot /\ inHand' \in Bytes
  BY ZeroType DEF Accumulate
<1>6. UNCHANGED <<kernel, network, since, moved, unseen, reused, cycles>>
  BY DEF Accumulate
<1> QED
  BY <1>1, <1>3, <1>4, <1>5, <1>6 DEF TypeOK, kernel, network, IsSample

LEMMA TransferType ==
  ASSUME TypeOK, NEW k \in Keys, Transfer(k)
  PROVE  TypeOK'
<1>1. PICK b \in Direction :
       /\ conn' = [conn EXCEPT ![k] = Plus(@, b)]
       /\ IF k \in Loopback THEN UNCHANGED <<iface, since, moved, unseen>>
          ELSE /\ iface' = Plus(iface, b)
               /\ since' = [since EXCEPT !.rx = @ + b.rx, !.tx = @ + b.tx]
               /\ moved' = [moved EXCEPT ![owner[k]] = Plus(@, b)]
               /\ unseen' = [unseen EXCEPT ![k] = Plus(@, b)]
  BY DEF Transfer
<1>2. b \in Bytes
  BY DEF Direction, Bytes
<1>3. conn' \in [Keys -> Bytes]
  BY <1>1, <1>2, PlusType DEF TypeOK
<1>4. since' \in Since
  <2>1. since \in Since
    BY DEF TypeOK
  <2>2. since' = since \/ since' = [since EXCEPT !.rx = @ + b.rx, !.tx = @ + b.tx]
    BY <1>1
  <2> QED
    BY <1>2, <2>1, <2>2, SinceType
<1>5. iface' \in Bytes /\ moved' \in [Labels -> Bytes] /\ unseen' \in [Keys -> Bytes]
  BY <1>1, <1>2, PlusType DEF TypeOK
<1> QED
  BY <1>3, <1>4, <1>5 DEF Since, Transfer, Event, TypeOK, network, appSide, IsSample

LEMMA StepType == TypeOK /\ [TrafficNext]_trafficVars => TypeOK'
<1> SUFFICES ASSUME TypeOK, [TrafficNext]_trafficVars PROVE TypeOK'
  OBVIOUS
<1>1. CASE AppTrafficCycle
  BY <1>1, ListConnectionsType, AccumulateType DEF AppTrafficCycle
<1>2. ASSUME NEW k \in Keys, Connect(k) PROVE TypeOK'
  <2>1. owner' \in [Keys -> Labels] /\ conn' \in [Keys -> Bytes] /\ reused' \in BOOLEAN
    BY <1>2, Constants, ZeroType DEF Connect, TypeOK
  <2> QED
    BY <1>2, <2>1 DEF Connect, Event, TypeOK, network, appSide, IsSample
<1>3. ASSUME NEW k \in Keys, Disconnect(k) PROVE TypeOK'
  <2>1. owner' \in [Keys -> Labels] /\ conn' \in [Keys -> Bytes] /\ unseen' \in [Keys -> Bytes]
    BY <1>3, Constants, ZeroType DEF Disconnect, TypeOK
  <2>2. lost' \in Bytes
    BY <1>3, PlusType DEF Disconnect, TypeOK
  <2> QED
    BY <1>3, <2>1, <2>2 DEF Disconnect, Event, TypeOK, network, appSide, IsSample
<1>4. CASE TransferDatagram
  <2>1. PICK b \in Direction :
          /\ iface' = Plus(iface, b)
          /\ since' = [since EXCEPT !.rx = @ + b.rx, !.tx = @ + b.tx]
    BY <1>4 DEF TransferDatagram
  <2>2. b \in Bytes
    BY DEF Direction, Bytes
  <2>3. iface' \in Bytes /\ since' \in Since
    BY <2>1, <2>2, PlusType, SinceType DEF TypeOK, Since
  <2> QED
    BY <1>4, <2>3 DEF Since, TransferDatagram, Event, TypeOK, network, appSide, charged, IsSample
<1>5. CASE ResetCounters
  <2>1. since' \in Since
    BY <1>5, SinceType, ZeroType DEF ResetCounters, TypeOK, Since
  <2> QED
    BY <1>5, <2>1, ZeroType
    DEF Since, ResetCounters, Event, TypeOK, network, appSide, charged, IsSample
<1>6. CASE Restart
  <2>1. IsSample(NoConn)
    BY DEF IsSample, NoConn
  <2>2. lost' \in Bytes
    BY <1>6, PlusType DEF Restart, TypeOK
  <2>3. since' \in Since
    BY <1>6 DEF Restart, Quiet, Since
  <2>4. clock' \in Int /\ sampled' \in BOOLEAN /\ prevIface' \in Bytes /\ prevAt' \in Int
    <3>1. clock' = clock /\ sampled' = FALSE /\ prevIface' = Zero /\ prevAt' = 0
      BY <1>6 DEF Restart, kernel
    <3>2. clock \in Int
      BY DEF TypeOK
    <3>3. clock' \in Int /\ prevIface' \in Bytes /\ prevAt' \in Int
      BY <3>1, <3>2, ZeroType
    <3>4. sampled' \in BOOLEAN
      BY <3>1
    <3> QED
      BY <3>3, <3>4
  <2> QED
    BY <1>6, <2>1, <2>2, <2>3, <2>4, ZeroType DEF Restart, Event, TypeOK, kernel, IsSample
<1>7. ASSUME NEW j \in Jumps, SetClock(j) PROVE TypeOK'
  <2>1. since' \in Since
    BY <1>7, SinceType, ZeroType DEF SetClock, TypeOK
  <2>2. clock' \in Int
    BY <1>7, TrafficAssumption DEF SetClock, TypeOK
  <2> QED
    BY <1>7, <2>1, <2>2 DEF SetClock, Event, TypeOK, network, appSide, charged, IsSample
<1>8. CASE UNCHANGED trafficVars
  BY <1>8 DEF TypeOK, trafficVars, kernel, network, appSide, charged, bounds, IsSample
<1> QED
  BY <1>1, <1>2, <1>3, <1>4, <1>5, <1>6, <1>7, <1>8, NetworkCycleType, TransferType
  DEF TrafficNext

----------------------------------------------------------------------------
(* The counters of the connections                                         *)

\* What the invariants of the app traffic are about.
appView == <<owner, conn, appSide, charged>>

\* The network cycle, datagrams, resets of the interface and a clock that is set
\* leave them alone.
LEMMA OthersLeaveApps ==
  ASSUME NEW d, \/ NetworkCycle(d) \/ TransferDatagram \/ ResetCounters \/ SetClock(d)
                \/ UNCHANGED trafficVars
  PROVE  UNCHANGED appView
BY DEF NetworkCycle, TransferDatagram, ResetCounters, SetClock, trafficVars, kernel, appView

\* ss fails, or lists what is open.
LEMMA Listing ==
  ASSUME TypeOK, ListConnections
  PROVE  /\ appAt = "idle"
         /\ UNCHANGED <<owner, conn, prevConn, first, recorded, moved, lost, reused>>
         /\ \/ UNCHANGED appView
            \/ /\ snapshot' = [k \in Listed |-> conn[k]]
               /\ unseen' = [k \in Keys |-> IF k \in Listed THEN Zero ELSE unseen[k]]
               /\ inHand' = Total(unseen, Listed)
               /\ appAt' = "listed"
BY DEF ListConnections, appView, kernel, appSide, charged

\* Arithmetic of the difference.
LEMMA AheadArithmetic ==
  ASSUME NEW c \in Bytes, NEW p \in Bytes, NEW u \in Bytes, NEW b \in Bytes
  PROVE  /\ Covers(Plus(p, u), p) /\ Minus(Plus(p, u), p) = u
         /\ Covers(u, IF Covers(c, p) THEN Minus(c, p) ELSE c)
              => Covers(Plus(u, b),
                        IF Covers(Plus(c, b), p) THEN Minus(Plus(c, b), p) ELSE Plus(c, b))
         /\ c = Plus(p, u) => Plus(c, b) = Plus(p, Plus(u, b))
         /\ Covers(u, u) /\ Covers(u, Zero) /\ Plus(u, Zero) = u /\ Plus(Zero, u) = u
         /\ Covers(u, c) => Covers(Plus(u, b), Plus(c, b))
         /\ (IF Covers(Zero, p) THEN Minus(Zero, p) ELSE Zero) = Zero
<1>1. Covers(Plus(p, u), p) /\ Minus(Plus(p, u), p) = u
  BY DEF Covers, Plus, Minus, Bytes
<1>2. Covers(u, IF Covers(c, p) THEN Minus(c, p) ELSE c)
        => Covers(Plus(u, b),
                  IF Covers(Plus(c, b), p) THEN Minus(Plus(c, b), p) ELSE Plus(c, b))
  BY DEF Covers, Plus, Minus, Bytes
<1>3. c = Plus(p, u) => Plus(c, b) = Plus(p, Plus(u, b))
  BY DEF Plus, Bytes
<1>4. Covers(u, u) /\ Covers(u, Zero) /\ Plus(u, Zero) = u /\ Plus(Zero, u) = u
  BY DEF Covers, Plus, Zero, Bytes
<1>5. Covers(u, c) => Covers(Plus(u, b), Plus(c, b))
  BY DEF Covers, Plus, Bytes
<1>6. (IF Covers(Zero, p) THEN Minus(Zero, p) ELSE Zero) = Zero
  BY DEF Covers, Minus, Zero, Bytes
<1> QED
  BY <1>1, <1>2, <1>3, <1>4, <1>5, <1>6

\* What is ahead while ss has not been asked.
LEMMA AheadTransfers ==
  ASSUME TypeOK, NEW k \in Keys, Ahead(k), NEW b \in Bytes,
         UNCHANGED <<prevConn, first, reused>>,
         conn'[k] = Plus(conn[k], b), unseen'[k] = Plus(unseen[k], b)
  PROVE  Ahead(k)'
<1>1. conn[k] \in Bytes /\ unseen[k] \in Bytes
  BY DEF TypeOK
<1>2. CASE k \in DOMAIN prevConn
  <2>1. prevConn[k] \in Bytes
    BY <1>2 DEF TypeOK, IsSample
  <2>2. /\ Covers(Plus(unseen[k], b), Moved(k, Plus(conn[k], b)))
        /\ ~reused => Plus(conn[k], b) = Plus(prevConn[k], Plus(unseen[k], b))
    BY <1>1, <1>2, <2>1, AheadArithmetic DEF Ahead, Moved
  <2> QED
    BY <1>2, <2>2 DEF Ahead, Moved
<1>3. CASE k \notin DOMAIN prevConn
  <2>1. /\ Covers(Plus(unseen[k], b), Moved(k, Plus(conn[k], b)))
        /\ ~reused /\ ~first => Plus(conn[k], b) = Plus(unseen[k], b)
    <3>1. Plus(unseen[k], b) \in Bytes
      BY <1>1, PlusType
    <3> QED
      BY <1>1, <1>3, <3>1, AheadArithmetic DEF Ahead, Moved
  <2> QED
    BY <1>3, <2>1 DEF Ahead, Moved
<1> QED
  BY <1>2, <1>3

\* CountersInv holds at first, and every action keeps it.
LEMMA CountersInit == TrafficInit => CountersInv
BY DEF TrafficInit, CountersInv, NoConn, Remote

LEMMA CountersList ==
  ASSUME TypeOK, CountersInv, ListConnections
  PROVE  CountersInv'
<1>1. CASE UNCHANGED appView
  BY <1>1 DEF CountersInv, Ahead, AheadOfSnapshot, Moved, appView, appSide, charged
<1>2. CASE ~ UNCHANGED appView
  <2>1. /\ snapshot' = [k \in Listed |-> conn[k]] /\ appAt' = "listed"
        /\ unseen' = [k \in Keys |-> IF k \in Listed THEN Zero ELSE unseen[k]]
        /\ UNCHANGED <<owner, conn, prevConn, first>>
    BY <1>2, Listing
  <2>2. \A k \in Remote : owner'[k] # Nobody => AheadOfSnapshot(k)'
    <3> SUFFICES ASSUME NEW k \in Remote, owner'[k] # Nobody PROVE AheadOfSnapshot(k)'
      OBVIOUS
    <3>1. k \in Listed /\ k \in Keys
      BY <2>1 DEF Listed, Remote
    <3>2. conn[k] = Plus(conn[k], Zero)
      BY <3>1, AheadArithmetic DEF TypeOK
    <3> QED
      BY <2>1, <3>1, <3>2 DEF AheadOfSnapshot
  <2>3. \A k \in Keys : owner'[k] = Nobody \/ k \in Loopback => unseen'[k] = Zero
    BY <2>1 DEF CountersInv
  <2> QED
    BY <2>1, <2>2, <2>3 DEF CountersInv
<1> QED
  BY <1>1, <1>2

LEMMA CountersAccumulate ==
  ASSUME TypeOK, CountersInv, Accumulate
  PROVE  CountersInv'
<1>1. /\ appAt = "listed" /\ prevConn' = snapshot /\ first' = FALSE
      /\ snapshot' = NoConn /\ inHand' = Zero /\ appAt' = "idle"
      /\ UNCHANGED <<owner, conn, unseen, reused>>
  BY DEF Accumulate, kernel
<1>2. ASSUME NEW k \in Remote, owner[k] # Nobody PROVE Ahead(k)'
  <2>1. k \in Keys /\ AheadOfSnapshot(k) /\ unseen[k] \in Bytes
    BY <1>1, <1>2 DEF CountersInv, Remote, TypeOK
  <2>2. CASE k \in DOMAIN snapshot
    <3>1. snapshot[k] \in Bytes /\ conn[k] = Plus(snapshot[k], unseen[k])
      BY <2>1, <2>2 DEF TypeOK, IsSample, AheadOfSnapshot
    <3>2. Covers(conn[k], snapshot[k]) /\ Minus(conn[k], snapshot[k]) = unseen[k]
          /\ Covers(unseen[k], unseen[k])
      BY <2>1, <3>1, AheadArithmetic
    <3> QED
      BY <1>1, <2>2, <3>1, <3>2 DEF Ahead, Moved
  <2>3. CASE k \notin DOMAIN snapshot
    <3>1. conn[k] = unseen[k] /\ Covers(unseen[k], unseen[k])
      BY <2>1, <2>3, AheadArithmetic DEF AheadOfSnapshot
    <3> QED
      BY <1>1, <2>3, <3>1 DEF Ahead, Moved
  <2> QED
    BY <2>2, <2>3
<1> QED
  BY <1>1, <1>2 DEF CountersInv, NoConn

LEMMA CountersTransfer ==
  ASSUME TypeOK, CountersInv, NEW k \in Keys, Transfer(k)
  PROVE  CountersInv'
<1>1. PICK b \in Direction :
       /\ conn' = [conn EXCEPT ![k] = Plus(@, b)]
       /\ k \in Loopback => unseen' = unseen
       /\ k \notin Loopback => unseen' = [unseen EXCEPT ![k] = Plus(@, b)]
  BY DEF Transfer
<1>2. UNCHANGED <<owner, prevConn, first, appAt, snapshot, inHand, reused>> /\ owner[k] # Nobody
  BY DEF Transfer, appSide
<1>3. b \in Bytes
  BY DEF Direction, Bytes
<1>4. ASSUME NEW j \in Remote, j # k
      PROVE  /\ conn'[j] = conn[j] /\ unseen'[j] = unseen[j]
             /\ (Ahead(j) => Ahead(j)') /\ (AheadOfSnapshot(j) => AheadOfSnapshot(j)')
  <2>1. conn'[j] = conn[j] /\ unseen'[j] = unseen[j]
    BY <1>1, <1>4 DEF TypeOK, Remote
  <2> QED
    BY <1>2, <2>1 DEF Ahead, AheadOfSnapshot, Moved
<1>5. ASSUME k \in Remote
      PROVE  (Ahead(k) => Ahead(k)') /\ (AheadOfSnapshot(k) => AheadOfSnapshot(k)')
  <2>1. conn'[k] = Plus(conn[k], b) /\ unseen'[k] = Plus(unseen[k], b)
    BY <1>1, <1>5 DEF TypeOK, Remote
  <2>2. Ahead(k) => Ahead(k)'
    BY <1>2, <1>3, <2>1, AheadTransfers
  <2>3. ASSUME AheadOfSnapshot(k) PROVE AheadOfSnapshot(k)'
    <3>1. CASE k \in DOMAIN snapshot
      <4>1. snapshot[k] \in Bytes /\ conn[k] \in Bytes /\ unseen[k] \in Bytes
            /\ conn[k] = Plus(snapshot[k], unseen[k])
        BY <2>3, <3>1 DEF AheadOfSnapshot, TypeOK, IsSample
      <4>2. Plus(conn[k], b) = Plus(snapshot[k], Plus(unseen[k], b))
        BY <1>3, <4>1, AheadArithmetic
      <4> QED
        BY <1>2, <2>1, <3>1, <4>2 DEF AheadOfSnapshot
    <3>2. CASE k \notin DOMAIN snapshot
      BY <1>2, <2>1, <2>3, <3>2 DEF AheadOfSnapshot
    <3> QED
      BY <3>1, <3>2
  <2> QED
    BY <2>2, <2>3
<1>6. \A j \in Keys : owner'[j] = Nobody \/ j \in Loopback => unseen'[j] = Zero
  BY <1>1, <1>2 DEF CountersInv, TypeOK
<1> QED
  BY <1>2, <1>4, <1>5, <1>6 DEF CountersInv

LEMMA CountersConnect ==
  ASSUME TypeOK, CountersInv, NEW k \in Keys, Connect(k)
  PROVE  CountersInv'
<1>1. /\ owner[k] = Nobody /\ k \notin DOMAIN snapshot
      /\ conn' = [conn EXCEPT ![k] = Zero] /\ reused' = (reused \/ k \in DOMAIN prevConn)
      /\ \A j \in Keys : j # k => owner'[j] = owner[j]
      /\ UNCHANGED <<prevConn, first, appAt, snapshot, unseen, inHand>>
  BY DEF Connect, appSide, TypeOK
<1>2. conn'[k] = Zero /\ unseen[k] = Zero /\ \A j \in Keys : j # k => conn'[j] = conn[j]
  BY <1>1 DEF TypeOK, CountersInv
<1>3. ASSUME NEW j \in Remote, j # k, owner'[j] # Nobody
      PROVE  /\ (appAt = "idle" => Ahead(j)')
             /\ (appAt = "listed" => AheadOfSnapshot(j)')
  BY <1>1, <1>2, <1>3 DEF CountersInv, Remote, Ahead, AheadOfSnapshot, Moved
<1>4. Ahead(k)' /\ AheadOfSnapshot(k)'
  <2>1. AheadOfSnapshot(k)'
    BY <1>1, <1>2 DEF AheadOfSnapshot
  <2>2. CASE k \in DOMAIN prevConn
    <3>1. Covers(Zero, Zero) /\ Moved(k, Zero) = Zero
      BY <2>2, ZeroType, AheadArithmetic DEF TypeOK, IsSample, Moved
    <3> QED
      BY <1>1, <1>2, <2>1, <2>2, <3>1 DEF Ahead, Moved
  <2>3. CASE k \notin DOMAIN prevConn
    <3>1. Covers(Zero, Zero) /\ Moved(k, Zero) = Zero
      BY <2>3, ZeroType, AheadArithmetic DEF Moved
    <3> QED
      BY <1>1, <1>2, <2>1, <2>3, <3>1 DEF Ahead, Moved
  <2> QED
    BY <2>2, <2>3
<1>5. \A j \in Keys : owner'[j] = Nobody \/ j \in Loopback => unseen'[j] = Zero
  BY <1>1, <1>2 DEF CountersInv
<1> QED
  BY <1>1, <1>3, <1>4, <1>5 DEF CountersInv

LEMMA CountersDisconnect ==
  ASSUME TypeOK, CountersInv, NEW k \in Keys, Disconnect(k)
  PROVE  CountersInv'
<1>1. /\ owner'[k] = Nobody /\ unseen'[k] = Zero
      /\ \A j \in Keys : j # k =>
           owner'[j] = owner[j] /\ conn'[j] = conn[j] /\ unseen'[j] = unseen[j]
      /\ UNCHANGED <<prevConn, first, appAt, snapshot, inHand, reused>>
  BY DEF Disconnect, appSide, TypeOK
<1>2. ASSUME NEW j \in Remote, owner'[j] # Nobody
      PROVE  /\ (appAt = "idle" => Ahead(j)')
             /\ (appAt = "listed" => AheadOfSnapshot(j)')
  BY <1>1, <1>2 DEF CountersInv, Remote, Ahead, AheadOfSnapshot, Moved
<1>3. \A j \in Keys : owner'[j] = Nobody \/ j \in Loopback => unseen'[j] = Zero
  BY <1>1 DEF CountersInv
<1> QED
  BY <1>1, <1>2, <1>3 DEF CountersInv

LEMMA CountersRestart ==
  ASSUME TypeOK, CountersInv, Restart
  PROVE  CountersInv'
<1>1. /\ prevConn' = NoConn /\ first' = TRUE /\ appAt' = "idle" /\ snapshot' = NoConn
      /\ inHand' = Zero /\ UNCHANGED <<owner, conn, unseen, reused>>
  BY DEF Restart, kernel
<1>2. DOMAIN NoConn = {}
  BY DEF NoConn
<1>3. ASSUME NEW k \in Remote PROVE Ahead(k)'
  <2>1. Covers(unseen[k], Zero)
    BY ZeroType, AheadArithmetic DEF TypeOK, Remote
  <2> QED
    BY <1>1, <1>2, <2>1 DEF Ahead, Moved
<1> QED
  BY <1>1, <1>2, <1>3 DEF CountersInv

----------------------------------------------------------------------------
(* What is in hand                                                         *)

\* What ss is about to list is what it has not listed, or is charged less.
LEMMA ListedFacts ==
  ASSUME TypeOK, CountersInv, appAt = "idle"
  PROVE  /\ Listed \subseteq Remote /\ Listed \subseteq Keys /\ IsFiniteSet(Listed)
         /\ \A k \in Listed : /\ conn[k] \in Bytes /\ unseen[k] \in Bytes
                              /\ Moved(k, conn[k]) \in Bytes
                              /\ Covers(unseen[k], Moved(k, conn[k]))
                              /\ ~reused /\ ~first => unseen[k] = Moved(k, conn[k])
<1>1. Listed \subseteq Remote /\ Listed \subseteq Keys
  BY DEF Listed, Remote
<1>2. ASSUME NEW k \in Listed
      PROVE  /\ conn[k] \in Bytes /\ unseen[k] \in Bytes
             /\ Moved(k, conn[k]) \in Bytes
             /\ Covers(unseen[k], Moved(k, conn[k]))
             /\ ~reused /\ ~first => unseen[k] = Moved(k, conn[k])
  <2>1. conn[k] \in Bytes /\ unseen[k] \in Bytes /\ k \in Remote /\ k \in Keys
    BY <1>1 DEF TypeOK
  <2>2. Moved(k, conn[k]) \in Bytes
    BY <2>1, MovedType
  <2>3. Ahead(k)
    BY <2>1 DEF CountersInv, Listed
  <2>4. ASSUME ~reused, ~first PROVE unseen[k] = Moved(k, conn[k])
    <3>1. CASE k \in DOMAIN prevConn
      <4>1. prevConn[k] \in Bytes /\ conn[k] = Plus(prevConn[k], unseen[k])
        BY <2>3, <2>4, <3>1 DEF TypeOK, IsSample, Ahead
      <4>2. Covers(conn[k], prevConn[k]) /\ Minus(conn[k], prevConn[k]) = unseen[k]
        BY <2>1, <4>1, AheadArithmetic
      <4> QED
        BY <3>1, <4>2 DEF Moved
    <3>2. CASE k \notin DOMAIN prevConn
      BY <2>3, <2>4, <3>2 DEF Ahead, Moved
    <3> QED
      BY <3>1, <3>2
  <2> QED
    BY <2>1, <2>2, <2>3, <2>4 DEF Ahead
<1> QED
  BY <1>1, <1>2, Constants

\* A sample and what it is charged.
LEMMA SampleFacts ==
  ASSUME TypeOK
  PROVE  /\ DOMAIN snapshot \subseteq Keys /\ IsFiniteSet(DOMAIN snapshot)
         /\ \A k \in DOMAIN snapshot : Deltas[k] = Delta(k) /\ Deltas[k] \in Bytes
         /\ Total(Deltas, DOMAIN snapshot) \in Bytes
<1>1. DOMAIN snapshot \subseteq Keys
  BY DeltaType
<1>2. IsFiniteSet(DOMAIN snapshot)
  BY <1>1, Constants
<1>3. \A k \in DOMAIN snapshot : Deltas[k] = Delta(k) /\ Deltas[k] \in Bytes
  BY DeltaType DEF Deltas
<1> QED
  BY <1>1, <1>2, <1>3, TotalFacts

\* After ss has listed, the difference is the one to what was remembered.
LEMMA ListedDeltas ==
  ASSUME TypeOK, CountersInv, ListConnections, ~ UNCHANGED appView
  PROVE  /\ appAt = "idle" /\ DOMAIN snapshot' = Listed
         /\ Deltas' = [k \in Listed |-> Moved(k, conn[k])]
         /\ \A k \in Listed : Delta(k)' = Moved(k, conn[k])
<1>1. /\ snapshot' = [k \in Listed |-> conn[k]] /\ appAt = "idle"
      /\ UNCHANGED <<prevConn, first>>
  BY Listing
<1>2. ASSUME NEW k \in Listed PROVE Delta(k)' = Moved(k, conn[k])
  BY <1>1, <1>2 DEF Delta, Moved
<1> QED
  BY <1>1, <1>2 DEF Deltas

\* An empty sample charges nothing.
LEMMA EmptySample ==
  ASSUME snapshot = NoConn
  PROVE  DOMAIN snapshot = {} /\ Total(Deltas, DOMAIN snapshot) = Zero
<1>1. DOMAIN snapshot = {}
  BY DEF NoConn
<1> QED
  BY <1>1, TotalEmpty

\* InHandInv holds at first, and every action keeps it.
LEMMA InHandInit == TrafficInit => InHandInv
<1> SUFFICES ASSUME TrafficInit PROVE InHandInv
  OBVIOUS
<1>1. snapshot = NoConn /\ inHand = Zero /\ appAt = "idle"
  BY DEF TrafficInit
<1>2. Covers(Zero, Zero)
  BY ZeroType, AheadArithmetic
<1> QED
  BY <1>1, <1>2, EmptySample DEF InHandInv

LEMMA InHandList ==
  ASSUME TypeOK, CountersInv, InHandInv, ListConnections
  PROVE  InHandInv'
<1>1. CASE UNCHANGED appView
  BY <1>1 DEF InHandInv, Deltas, Delta, appView, appSide, charged
<1>2. CASE ~ UNCHANGED appView
  <2> DEFINE f == [k \in Listed |-> Moved(k, conn[k])]
  <2>1. inHand' = Total(unseen, Listed) /\ UNCHANGED <<first, reused>>
    BY <1>2, Listing
  <2>2. Deltas' = f /\ DOMAIN snapshot' = Listed /\ appAt = "idle"
    BY <1>2, ListedDeltas
  <2>3. IsFiniteSet(Listed)
        /\ \A k \in Listed : /\ unseen[k] \in Bytes /\ f[k] \in Bytes /\ Covers(unseen[k], f[k])
                             /\ ~reused /\ ~first => unseen[k] = f[k]
    BY <2>2, ListedFacts
  <2> HIDE DEF f
  <2>4. Covers(Total(unseen, Listed), Total(f, Listed))
    BY <2>3, TotalCovers
  <2>5. ~reused /\ ~first => Total(unseen, Listed) = Total(f, Listed)
    BY <2>3, TotalSame
  <2> QED
    BY <2>1, <2>2, <2>4, <2>5 DEF InHandInv
<1> QED
  BY <1>1, <1>2

\* Nothing is in hand after a sample is accumulated, or forgotten.
LEMMA InHandEmptied ==
  ASSUME snapshot' = NoConn, inHand' = Zero, appAt' = "idle"
  PROVE  InHandInv'
<1>1. DOMAIN snapshot' = {}
  BY DEF NoConn
<1>2. Total(Deltas, DOMAIN snapshot)' = Zero
  BY <1>1, TotalEmpty
<1>3. Covers(Zero, Zero)
  BY ZeroType, AheadArithmetic
<1> QED
  BY <1>2, <1>3 DEF InHandInv

LEMMA InHandKept ==
  ASSUME InHandInv, UNCHANGED <<snapshot, prevConn, first, appAt, inHand>>, reused => reused'
  PROVE  InHandInv'
<1>1. Deltas' = Deltas
  BY DEF Deltas, Delta
<1> QED
  BY <1>1 DEF InHandInv

----------------------------------------------------------------------------
(* What the apps are charged                                               *)

\* Connections that do not count add nothing, and the others no more than all.
LEMMA TotalOfPart ==
  ASSUME NEW f, NEW S, IsFiniteSet(S), \A k \in S : f[k] \in Bytes, NEW R \in SUBSET S
  PROVE  /\ Total(f, S) \in Bytes /\ Total(f, R) \in Bytes
         /\ Covers(Total(f, S), Total(f, R))
         /\ (\A k \in S \ R : f[k] = Zero) => Total(f, S) = Total(f, R)
<1>1. IsFiniteSet(R) /\ IsFiniteSet(S \ R)
  BY FS_Subset
<1>2. Total(f, S) \in Bytes /\ Total(f, R) \in Bytes /\ Total(f, S \ R) \in Bytes
  BY <1>1, TotalFacts
<1>3. Total(f, S) = Plus(Total(f, R), Total(f, S \ R))
  BY TotalSplit
<1>4. (\A k \in S \ R : f[k] = Zero) => Total(f, S \ R) = Zero
  BY <1>1, TotalZero
<1> DEFINE t == Total(f, S)
           r == Total(f, R)
           o == Total(f, S \ R)
<1>5. t \in Bytes /\ r \in Bytes /\ o \in Bytes /\ t = Plus(r, o)
      /\ ((\A k \in S \ R : f[k] = Zero) => o = Zero)
  BY <1>2, <1>3, <1>4
<1> HIDE DEF t, r, o
<1>6. Covers(t, r) /\ (o = Zero => t = r)
  BY <1>5 DEF Covers, Plus, Zero, Bytes
<1> QED
  BY <1>5, <1>6 DEF t, r, o

\* Arithmetic of covering.
LEMMA CoversArithmetic ==
  ASSUME NEW a \in Bytes, NEW b \in Bytes, NEW c \in Bytes, NEW e \in Bytes
  PROVE  /\ Covers(a, b) /\ Covers(b, c) => Covers(a, c)
         /\ Covers(a, Plus(b, c)) /\ Covers(c, e) => Covers(a, Plus(b, e))
         /\ Covers(a, Plus(b, c)) => Covers(Plus(a, e), Plus(b, Plus(c, e)))
         /\ Covers(a, Plus(b, c)) => Covers(a, b)
         /\ Plus(Plus(a, b), c) = Plus(a, Plus(b, c)) /\ Plus(a, b) = Plus(b, a)
<1>1. /\ Covers(a, b) /\ Covers(b, c) => Covers(a, c)
      /\ Covers(a, Plus(b, c)) /\ Covers(c, e) => Covers(a, Plus(b, e))
      /\ Covers(a, Plus(b, c)) => Covers(a, b)
  BY DEF Covers, Plus, Bytes
<1>2. Covers(a, Plus(b, c)) => Covers(Plus(a, e), Plus(b, Plus(c, e)))
  BY DEF Covers, Plus, Bytes
<1>3. Plus(Plus(a, b), c) = Plus(a, Plus(b, c)) /\ Plus(a, b) = Plus(b, a)
  BY DEF Plus, Bytes
<1> QED
  BY <1>1, <1>2, <1>3

\* Due and the connections of an app are well formed.
DueOK ==
  /\ \A k \in Keys : Due[k] \in Bytes /\ Covers(Due[k], unseen[k])
  /\ \A a : Mine(a) \subseteq Keys /\ IsFiniteSet(Mine(a)) /\ Total(Due, Mine(a)) \in Bytes

\* What is due is bytes, for a connection and for an app.
LEMMA DueType == TypeOK => DueOK
<1> SUFFICES ASSUME TypeOK PROVE DueOK
  OBVIOUS
<1>1. ASSUME NEW k \in Keys PROVE Due[k] \in Bytes /\ Covers(Due[k], unseen[k])
  <2>1. unseen[k] \in Bytes
    BY DEF TypeOK
  <2>2. CASE k \in DOMAIN snapshot
    <3>1. Delta(k) \in Bytes /\ Due[k] = Plus(unseen[k], Delta(k))
      BY <2>2, DeltaType DEF Due
    <3>2. Covers(Plus(unseen[k], Delta(k)), unseen[k])
      BY <2>1, <3>1, AheadArithmetic
    <3> QED
      BY <2>1, <3>1, <3>2, PlusType
  <2>3. CASE k \notin DOMAIN snapshot
    BY <2>1, <2>3, AheadArithmetic DEF Due
  <2> QED
    BY <2>2, <2>3
<1>2. ASSUME NEW a
      PROVE  Mine(a) \subseteq Keys /\ IsFiniteSet(Mine(a)) /\ Total(Due, Mine(a)) \in Bytes
  <2>1. Mine(a) \subseteq Keys
    BY DEF Mine
  <2>2. IsFiniteSet(Mine(a))
    BY <2>1, Constants
  <2> QED
    BY <1>1, <2>1, <2>2, TotalFacts
<1> QED
  BY <1>1, <1>2 DEF DueOK

LEMMA DueFacts ==
  ASSUME TypeOK
  PROVE  /\ \A k \in Keys : Due[k] \in Bytes /\ Covers(Due[k], unseen[k])
         /\ \A a : Mine(a) \subseteq Keys /\ IsFiniteSet(Mine(a)) /\ Total(Due, Mine(a)) \in Bytes
BY DueType DEF DueOK

\* One app's part, after a step that took from what is due.
LEMMA ChargesLess ==
  ASSUME TypeOK, TypeOK', ChargesInv, NEW a \in Apps,
         moved'[a] = moved[a], recorded'[a] = recorded[a], Mine(a)' \subseteq Mine(a),
         \A k \in Mine(a)' : Covers(Due[k], Due'[k])
  PROVE  Covers(moved[a], Plus(recorded[a], Total(Due, Mine(a))'))
<1>1. /\ \A k \in Mine(a) : Due[k] \in Bytes
      /\ IsFiniteSet(Mine(a)) /\ Total(Due, Mine(a)) \in Bytes
  BY DueFacts
<1>2. /\ \A k \in Mine(a)' : Due'[k] \in Bytes
      /\ IsFiniteSet(Mine(a)') /\ Total(Due', Mine(a)') \in Bytes
  <2>1. DueOK'
    BY DueType, PTL
  <2>2. Mine(a)' \subseteq Keys /\ IsFiniteSet(Mine(a)') /\ Total(Due, Mine(a))' \in Bytes
    BY <2>1 DEF DueOK
  <2> QED
    BY <2>1, <2>2 DEF DueOK
<1>3. Total(Due, Mine(a)') \in Bytes /\ Covers(Total(Due, Mine(a)), Total(Due, Mine(a)'))
  BY <1>1, TotalOfPart
<1>4. Covers(Total(Due, Mine(a)'), Total(Due', Mine(a)'))
  BY <1>1, <1>2, TotalCovers
<1>5. Covers(Total(Due, Mine(a)), Total(Due', Mine(a)'))
  BY <1>1, <1>2, <1>3, <1>4, CoversArithmetic
<1>6. a \in Labels /\ moved[a] \in Bytes /\ recorded[a] \in Bytes
  BY Constants DEF TypeOK
<1> QED
  BY <1>1, <1>2, <1>5, <1>6, CoversArithmetic DEF ChargesInv

\* ChargesInv holds at first, and every action keeps it.
LEMMA ChargesInit == TrafficInit => ChargesInv
<1> SUFFICES ASSUME TrafficInit, NEW a \in Apps
             PROVE  Covers(moved[a], Plus(recorded[a], Total(Due, Mine(a))))
  BY DEF ChargesInv
<1>1. Mine(a) = {}
  BY Constants DEF TrafficInit, Mine
<1>2. a \in Labels /\ moved[a] = Zero /\ recorded[a] = Zero
  BY Constants DEF TrafficInit
<1>3. Plus(Zero, Zero) = Zero /\ Covers(Zero, Zero)
  BY ZeroType, AheadArithmetic
<1> QED
  BY <1>1, <1>2, <1>3, TotalEmpty

LEMMA ChargesKept ==
  ASSUME ChargesInv, UNCHANGED appView
  PROVE  ChargesInv'
<1>1. Due' = Due /\ \A a : Mine(a)' = Mine(a)
  BY DEF Due, Delta, Mine, appView, appSide, charged
<1> QED
  BY <1>1 DEF ChargesInv, appView, appSide, charged

LEMMA ChargesList ==
  ASSUME TypeOK, TypeOK', CountersInv, ChargesInv, ListConnections, ~ UNCHANGED appView
  PROVE  ChargesInv'
<1>1. /\ UNCHANGED <<owner, moved, recorded>> /\ appAt = "idle"
      /\ unseen' = [k \in Keys |-> IF k \in Listed THEN Zero ELSE unseen[k]]
  BY Listing
<1>2. DOMAIN snapshot' = Listed /\ \A k \in Listed : Delta(k)' = Moved(k, conn[k])
  BY ListedDeltas
<1>3. ASSUME NEW k \in Keys PROVE Covers(Due[k], Due'[k])
  <2>1. Due[k] = unseen[k] /\ unseen[k] \in Bytes
    BY <1>1 DEF Due, CountersInv, TypeOK
  <2>2. CASE k \in Listed
    <3>1. Due'[k] = Plus(Zero, Moved(k, conn[k]))
      BY <1>1, <1>2, <2>2 DEF Due
    <3>2. Moved(k, conn[k]) \in Bytes /\ Covers(unseen[k], Moved(k, conn[k]))
      BY <1>1, <2>2, ListedFacts
    <3> QED
      BY <2>1, <3>1, <3>2, AheadArithmetic
  <2>3. CASE k \notin Listed
    <3>1. Due'[k] = unseen[k]
      BY <1>1, <1>2, <2>3 DEF Due
    <3> QED
      BY <2>1, <3>1, AheadArithmetic
  <2> QED
    BY <2>2, <2>3
<1>4. ASSUME NEW a \in Apps
      PROVE  Covers(moved[a], Plus(recorded[a], Total(Due, Mine(a))'))
  <2>1. Mine(a)' = Mine(a) /\ Mine(a) \subseteq Keys
    BY <1>1 DEF Mine
  <2> QED
    BY <1>1, <1>3, <2>1, ChargesLess
<1> QED
  BY <1>1, <1>4 DEF ChargesInv

\* A step that keeps the charges and drops the sample.
LEMMA ChargesDropped ==
  ASSUME TypeOK, TypeOK', ChargesInv, snapshot' = NoConn,
         UNCHANGED <<owner, moved, recorded, unseen>>
  PROVE  ChargesInv'
<1>1. ASSUME NEW k \in Keys PROVE Covers(Due[k], Due'[k])
  <2>1. Due'[k] = unseen[k]
    BY DEF Due, NoConn
  <2> QED
    BY <2>1, DueFacts
<1>2. ASSUME NEW a \in Apps
      PROVE  Covers(moved[a], Plus(recorded[a], Total(Due, Mine(a))'))
  <2>1. Mine(a)' = Mine(a) /\ Mine(a) \subseteq Keys
    BY DEF Mine
  <2> QED
    BY <1>1, <2>1, ChargesLess
<1> QED
  BY <1>2 DEF ChargesInv

\* What an app is charged was due from its connections.
LEMMA ChargeWasDue ==
  ASSUME TypeOK, NEW a \in Apps
  PROVE  /\ Total(unseen, Mine(a)) \in Bytes /\ Charges[a] \in Bytes
         /\ Covers(Total(Due, Mine(a)), Plus(Total(unseen, Mine(a)), Charges[a]))
<1> DEFINE D == [k \in Keys |-> IF k \in DOMAIN snapshot THEN Delta(k) ELSE Zero]
           mine == {k \in DOMAIN snapshot : AppOf(k) = a}
<1>1. \A k \in Mine(a) : /\ unseen[k] \in Bytes /\ D[k] \in Bytes
                         /\ Due[k] = Plus(unseen[k], D[k])
  <2> SUFFICES ASSUME NEW k \in Mine(a)
               PROVE  unseen[k] \in Bytes /\ D[k] \in Bytes /\ Due[k] = Plus(unseen[k], D[k])
    OBVIOUS
  <2>1. k \in Keys /\ unseen[k] \in Bytes
    BY DEF Mine, TypeOK
  <2>2. CASE k \in DOMAIN snapshot
    BY <2>1, <2>2, DeltaType DEF Due
  <2>3. CASE k \notin DOMAIN snapshot
    BY <2>1, <2>3, ZeroType, AheadArithmetic DEF Due
  <2> QED
    BY <2>2, <2>3
<1>2. mine \subseteq Mine(a) /\ \A k \in mine : D[k] = Deltas[k]
  <2>1. \A k \in DOMAIN snapshot : k \in Keys /\ D[k] = Deltas[k]
    BY SampleFacts
  <2>2. \A k \in Keys : AppOf(k) = a => owner[k] = a
    BY Constants DEF AppOf
  <2> QED
    BY <2>1, <2>2 DEF Mine
<1>3. Charges[a] \in Bytes /\ Charges[a] = Total(Deltas, mine)
  BY ChargesType, Constants
<1>4. IsFiniteSet(Mine(a)) /\ Total(Due, Mine(a)) \in Bytes
  BY DueFacts
<1> HIDE DEF D, mine
<1>5. Total(Due, Mine(a)) = Plus(Total(unseen, Mine(a)), Total(D, Mine(a)))
  BY <1>1, <1>4, TotalPlus
<1>6. Total(unseen, Mine(a)) \in Bytes /\ Total(D, Mine(a)) \in Bytes
  BY <1>1, <1>4, TotalFacts
<1>7. Total(D, mine) = Total(Deltas, mine)
  <2>1. IsFiniteSet(mine) /\ \A k \in mine : D[k] \in Bytes
    BY <1>1, <1>2, <1>4, FS_Subset
  <2> QED
    BY <1>2, <2>1, TotalSame
<1>8. Covers(Total(D, Mine(a)), Charges[a])
  BY <1>1, <1>2, <1>3, <1>4, <1>7, TotalOfPart
<1>9. Covers(Plus(Total(unseen, Mine(a)), Total(D, Mine(a))),
             Plus(Total(unseen, Mine(a)), Charges[a]))
  <2> DEFINE u == Total(unseen, Mine(a))
             t == Total(D, Mine(a))
             c == Charges[a]
  <2>1. u \in Bytes /\ t \in Bytes /\ c \in Bytes /\ Covers(t, c)
    BY <1>3, <1>6, <1>8
  <2> HIDE DEF u, t, c
  <2>2. Covers(Plus(u, t), Plus(u, c))
    BY <2>1 DEF Covers, Plus, Bytes
  <2> QED
    BY <2>2 DEF u, t, c
<1> QED
  BY <1>3, <1>5, <1>6, <1>9

\* The other actions.
LEMMA ChargesAccumulate ==
  ASSUME TypeOK, TypeOK', ChargesInv, Accumulate
  PROVE  ChargesInv'
<1>1. snapshot' = NoConn /\ UNCHANGED <<owner, moved, unseen>>
  BY DEF Accumulate, kernel
<1>2. CASE recorded' = recorded
  BY <1>1, <1>2, ChargesDropped
<1>3. CASE recorded' = [a \in Labels |-> Plus(recorded[a], Charges[a])]
  <2>1. ASSUME NEW a \in Apps
        PROVE  Covers(moved[a], Plus(recorded'[a], Total(Due, Mine(a))'))
    <3>1. a \in Labels /\ moved[a] \in Bytes /\ recorded[a] \in Bytes
      BY Constants DEF TypeOK
    <3>2. Mine(a)' = Mine(a) /\ \A k \in Mine(a) : Due'[k] = unseen[k] /\ unseen[k] \in Bytes
      BY <1>1 DEF Mine, Due, NoConn, TypeOK
    <3>3. IsFiniteSet(Mine(a)) /\ Total(Due, Mine(a)) \in Bytes
      BY DueFacts
    <3>4. Total(Due', Mine(a)') = Total(unseen, Mine(a))
      BY <3>2, <3>3, TotalSame
    <3> DEFINE m == moved[a]
               r == recorded[a]
               c == Charges[a]
               u == Total(unseen, Mine(a))
               t == Total(Due, Mine(a))
    <3>5. m \in Bytes /\ r \in Bytes /\ c \in Bytes /\ u \in Bytes /\ t \in Bytes
          /\ Covers(m, Plus(r, t)) /\ Covers(t, Plus(u, c))
      BY <3>1, <3>3, ChargeWasDue DEF ChargesInv
    <3>6. recorded'[a] = Plus(r, c) /\ Total(Due', Mine(a)') = u
      BY <1>3, <3>1, <3>4
    <3> HIDE DEF m, r, c, u, t
    <3>7. Covers(m, Plus(Plus(r, c), u))
      BY <3>5 DEF Covers, Plus, Bytes
    <3> QED
      BY <3>6, <3>7 DEF m
  <2> QED
    BY <1>1, <2>1 DEF ChargesInv
<1> QED
  BY <1>2, <1>3 DEF Accumulate

LEMMA ChargesTransfer ==
  ASSUME TypeOK, TypeOK', ChargesInv, NEW k \in Keys, Transfer(k)
  PROVE  ChargesInv'
<1>1. UNCHANGED <<owner, appSide>>
  BY DEF Transfer
<1>2. CASE UNCHANGED <<moved, unseen>>
  <2>1. Due' = Due /\ \A a : Mine(a)' = Mine(a)
    BY <1>1, <1>2 DEF Due, Delta, Mine, appSide
  <2> QED
    BY <1>1, <1>2, <2>1 DEF ChargesInv, appSide
<1>3. ASSUME NEW b \in Direction,
             moved' = [moved EXCEPT ![owner[k]] = Plus(@, b)],
             unseen' = [unseen EXCEPT ![k] = Plus(@, b)]
      PROVE  ChargesInv'
  <2>1. b \in Bytes
    BY DEF Direction, Bytes
  <2>2. \A j \in Keys : Delta(j)' = Delta(j)
    BY <1>1 DEF Delta, appSide
  <2>3. \A j \in Keys : Due'[j] = IF j = k THEN Plus(Due[j], b) ELSE Due[j]
    <3> SUFFICES ASSUME NEW j \in Keys
                 PROVE  Due'[j] = IF j = k THEN Plus(Due[j], b) ELSE Due[j]
      OBVIOUS
    <3>1. unseen[j] \in Bytes /\ unseen'[j] = IF j = k THEN Plus(unseen[j], b) ELSE unseen[j]
      BY <1>3 DEF TypeOK
    <3>2. CASE j \in DOMAIN snapshot
      <4>1. Delta(j) \in Bytes
        BY <3>2, DeltaType
      <4>2. Plus(Plus(unseen[j], b), Delta(j)) = Plus(Plus(unseen[j], Delta(j)), b)
        BY <2>1, <3>1, <4>1 DEF Plus, Bytes
      <4>3. Due[j] = Plus(unseen[j], Delta(j)) /\ Due'[j] = Plus(unseen'[j], Delta(j))
        BY <1>1, <2>2, <3>2 DEF Due, appSide
      <4> QED
        BY <3>1, <4>2, <4>3
    <3>3. CASE j \notin DOMAIN snapshot
      BY <1>1, <3>1, <3>3 DEF Due, appSide
    <3> QED
      BY <3>2, <3>3
  <2>4. ASSUME NEW a \in Apps
        PROVE  Covers(moved'[a], Plus(recorded[a], Total(Due, Mine(a))'))
    <3>1. a \in Labels /\ moved[a] \in Bytes /\ recorded[a] \in Bytes
          /\ moved'[a] = IF a = owner[k] THEN Plus(moved[a], b) ELSE moved[a]
      BY <1>3, Constants DEF TypeOK
    <3>2. Mine(a)' = Mine(a) /\ IsFiniteSet(Mine(a)) /\ Mine(a) \subseteq Keys
          /\ Total(Due, Mine(a)) \in Bytes /\ \A j \in Keys : Due[j] \in Bytes
      BY <1>1, DueFacts DEF Mine
    <3>3. Covers(moved[a], Plus(recorded[a], Total(Due, Mine(a))))
      BY DEF ChargesInv
    <3>4. CASE a = owner[k]
      <4>1. k \in Mine(a)
        BY <3>4 DEF Mine
      <4>2. Total(Due', Mine(a)) = Plus(Total(Due, Mine(a)), b)
        BY <2>1, <2>3, <3>2, <4>1, TotalRaised
      <4>3. Covers(Plus(moved[a], b), Plus(recorded[a], Plus(Total(Due, Mine(a)), b)))
        BY <2>1, <3>1, <3>2, <3>3, CoversArithmetic
      <4> QED
        BY <3>1, <3>2, <3>4, <4>2, <4>3
    <3>5. CASE a # owner[k]
      <4>1. \A j \in Mine(a) : Due[j] \in Bytes /\ Due[j] = Due'[j]
        BY <2>3, <3>2, <3>5 DEF Mine
      <4>2. Total(Due, Mine(a)) = Total(Due', Mine(a))
        BY <3>2, <4>1, TotalSame
      <4> QED
        BY <3>1, <3>2, <3>3, <3>5, <4>2
    <3> QED
      BY <3>4, <3>5
  <2> QED
    BY <1>1, <2>4 DEF ChargesInv, appSide
<1> QED
  BY <1>2, <1>3 DEF Transfer

LEMMA ChargesConnect ==
  ASSUME TypeOK, TypeOK', CountersInv, ChargesInv, NEW k \in Keys, Connect(k)
  PROVE  ChargesInv'
<1>1. /\ UNCHANGED <<appSide, moved, unseen>> /\ owner[k] = Nobody /\ k \notin DOMAIN snapshot
      /\ \A j \in Keys : j # k => owner'[j] = owner[j]
  BY DEF Connect, TypeOK
<1>2. Due' = Due /\ Due[k] = Zero
  BY <1>1 DEF Due, Delta, CountersInv, appSide
<1>3. ASSUME NEW a \in Apps
      PROVE  Covers(moved[a], Plus(recorded[a], Total(Due, Mine(a))'))
  <2>1. Mine(a) \subseteq Mine(a)' /\ Mine(a)' \subseteq Mine(a) \cup {k} /\ Mine(a)' \subseteq Keys
    BY <1>1, Constants DEF Mine
  <2>2. IsFiniteSet(Mine(a)') /\ \A j \in Mine(a)' : Due[j] \in Bytes
    BY <2>1, DueFacts, Constants
  <2>3. \A j \in Mine(a)' \ Mine(a) : Due[j] = Zero
    BY <1>2, <2>1
  <2>4. Total(Due, Mine(a)') = Total(Due, Mine(a))
    BY <2>1, <2>2, <2>3, TotalOfPart
  <2> QED
    BY <1>2, <2>4 DEF ChargesInv
<1> QED
  BY <1>1, <1>3 DEF ChargesInv, appSide

LEMMA ChargesDisconnect ==
  ASSUME TypeOK, TypeOK', ChargesInv, NEW k \in Keys, Disconnect(k)
  PROVE  ChargesInv'
<1>1. /\ UNCHANGED <<appSide, moved>> /\ owner'[k] = Nobody
      /\ \A j \in Keys : j # k => owner'[j] = owner[j] /\ unseen'[j] = unseen[j]
  BY DEF Disconnect, TypeOK
<1>2. ASSUME NEW a \in Apps
      PROVE  Covers(moved[a], Plus(recorded[a], Total(Due, Mine(a))'))
  <2>1. Mine(a)' \subseteq Mine(a) /\ k \notin Mine(a)' /\ Mine(a) \subseteq Keys
    BY <1>1, Constants DEF Mine
  <2>2. \A j \in Mine(a)' : Covers(Due[j], Due'[j])
    <3> SUFFICES ASSUME NEW j \in Mine(a)' PROVE Covers(Due[j], Due'[j])
      OBVIOUS
    <3>1. j \in Keys /\ Due'[j] = Due[j]
      BY <1>1, <2>1 DEF Due, Delta, appSide
    <3> QED
      BY <3>1, DueFacts, AheadArithmetic
  <2> QED
    BY <1>1, <2>1, <2>2, ChargesLess DEF appSide
<1> QED
  BY <1>1, <1>2 DEF ChargesInv, appSide

LEMMA ChargesRestart ==
  ASSUME TypeOK, TypeOK', ChargesInv, Restart
  PROVE  ChargesInv'
BY ChargesDropped DEF Restart, kernel

\* What is due is not negative: an app has moved what it was charged.
LEMMA ChargesCover ==
  ASSUME TypeOK, ChargesInv
  PROVE  AppNeverOvercharged
<1> SUFFICES ASSUME NEW a \in Apps PROVE Covers(moved[a], recorded[a])
  BY DEF AppNeverOvercharged
<1>1. a \in Labels /\ moved[a] \in Bytes /\ recorded[a] \in Bytes /\ Total(Due, Mine(a)) \in Bytes
  BY Constants, DueFacts DEF TypeOK
<1> QED
  BY <1>1, CoversArithmetic DEF ChargesInv

----------------------------------------------------------------------------
(* Every byte is accounted for                                             *)

Accounted == Plus(Plus(Total(recorded, Labels), Total(unseen, Keys)), Plus(inHand, lost))
AllMoved  == Total(moved, Labels)

\* The places a byte can be in.
LEMMA AccountedFacts ==
  ASSUME TypeOK
  PROVE  /\ Total(recorded, Labels) \in Bytes /\ Total(unseen, Keys) \in Bytes
         /\ inHand \in Bytes /\ lost \in Bytes /\ AllMoved \in Bytes
         /\ EveryByteAccounted <=> Covers(AllMoved, Accounted) /\ (~reused => Accounted = AllMoved)
<1>1. Total(recorded, Labels) \in Bytes /\ Total(unseen, Keys) \in Bytes /\ AllMoved \in Bytes
  BY Constants, TotalFacts DEF TypeOK, AllMoved
<1>2. EveryByteAccounted <=> Covers(AllMoved, Accounted) /\ (~reused => Accounted = AllMoved)
  BY DEF EveryByteAccounted, Accounted, AllMoved
<1> QED
  BY <1>1, <1>2 DEF TypeOK

\* EveryByteAccounted holds at first, and every action keeps it.
LEMMA AccountInit == TrafficInit => EveryByteAccounted
<1> SUFFICES ASSUME TrafficInit PROVE EveryByteAccounted
  OBVIOUS
<1>1. \A a \in Labels : recorded[a] = Zero /\ moved[a] = Zero
  BY DEF TrafficInit
<1>2. \A k \in Keys : unseen[k] = Zero
  BY DEF TrafficInit
<1>3. Total(recorded, Labels) = Zero /\ Total(moved, Labels) = Zero /\ Total(unseen, Keys) = Zero
  BY <1>1, <1>2, Constants, TotalZero, TrafficAssumption
<1>4. inHand = Zero /\ lost = Zero
  BY DEF TrafficInit
<1>5. Plus(Plus(Zero, Zero), Plus(Zero, Zero)) = Zero /\ Covers(Zero, Zero)
  BY ZeroType, AheadArithmetic
<1> QED
  BY <1>3, <1>4, <1>5 DEF EveryByteAccounted

\* A step that only moves bytes from one place to another.
LEMMA AccountKept ==
  ASSUME EveryByteAccounted, AllMoved' = AllMoved, Accounted' = Accounted, reused => reused'
  PROVE  EveryByteAccounted'
BY DEF EveryByteAccounted, Accounted, AllMoved

\* What ss lists goes from unseen into the hand.
LEMMA AccountList ==
  ASSUME TypeOK, CountersInv, EveryByteAccounted, ListConnections, ~ UNCHANGED appView
  PROVE  EveryByteAccounted'
<1>1. /\ UNCHANGED <<recorded, moved, lost, reused>> /\ appAt = "idle"
      /\ unseen' = [k \in Keys |-> IF k \in Listed THEN Zero ELSE unseen[k]]
      /\ inHand' = Total(unseen, Listed)
  BY Listing
<1>2. inHand = Zero /\ IsFiniteSet(Keys) /\ Listed \in SUBSET Keys
  BY <1>1, ListedFacts, Constants DEF CountersInv
<1>3. \A k \in Keys : unseen[k] \in Bytes /\ unseen'[k] \in Bytes
  BY <1>1, ZeroType DEF TypeOK
<1> DEFINE rest == Keys \ Listed
<1>4. Total(unseen, Keys) = Plus(Total(unseen, Listed), Total(unseen, rest))
  BY <1>2, <1>3, TotalSplit
<1>5. Total(unseen', Keys) = Total(unseen', rest)
  <2>1. rest \in SUBSET Keys /\ \A k \in Keys \ rest : unseen'[k] = Zero
    BY <1>1
  <2> HIDE DEF rest
  <2> QED
    BY <1>2, <1>3, <2>1, TotalOfPart
<1>6. Total(unseen', rest) = Total(unseen, rest)
  <2>1. IsFiniteSet(rest) /\ \A k \in rest : unseen'[k] \in Bytes /\ unseen'[k] = unseen[k]
    BY <1>1, <1>2, <1>3, FS_Subset
  <2> HIDE DEF rest
  <2> QED
    BY <2>1, TotalSame
<1> DEFINE r == Total(recorded, Labels)
           s == Total(unseen, Listed)
           t == Total(unseen, rest)
<1>7. r \in Bytes /\ s \in Bytes /\ t \in Bytes /\ lost \in Bytes
  <2>1. s \in Bytes /\ t \in Bytes
    <3>1. rest \in SUBSET Keys
      OBVIOUS
    <3> QED
      BY <1>2, <1>3, <3>1, TotalOfPart
  <2> QED
    BY <2>1, AccountedFacts
<1>8. Accounted = Plus(Plus(r, Plus(s, t)), Plus(Zero, lost))
      /\ Accounted' = Plus(Plus(r, t), Plus(s, lost))
  BY <1>1, <1>2, <1>4, <1>5, <1>6 DEF Accounted
<1> HIDE DEF r, s, t
<1>9. Accounted' = Accounted
  BY <1>7, <1>8 DEF Plus, Zero, Bytes
<1> QED
  BY <1>1, <1>9, AccountKept DEF AllMoved

\* The apps are charged what the sample holds, which is nothing the first time.
LEMMA ChargedTotal ==
  ASSUME TypeOK, CountersInv
  PROVE  /\ Total(Charges, Labels) = Total(Deltas, DOMAIN snapshot)
         /\ first => \A a \in Labels : Charges[a] = Zero
<1> DEFINE D == DOMAIN snapshot
           c == [k \in D |-> AppOf(k)]
<1>1. IsFiniteSet(D) /\ \A k \in D : Deltas[k] \in Bytes /\ c[k] \in Labels
  BY SampleFacts, DeltaType, AppOfType
<1>2. Charges = [a \in Labels |-> Total(Deltas, {k \in D : c[k] = a})]
  <2>1. \A a : {k \in D : c[k] = a} = {k \in D : AppOf(k) = a}
    OBVIOUS
  <2> QED
    BY <2>1, ChargesType
<1>3. Total(Charges, Labels) = Total(Deltas, D)
  <2> HIDE DEF D, c
  <2> QED
    BY <1>1, <1>2, Constants, TotalByLabel
<1>4. ASSUME first, NEW a \in Labels PROVE Charges[a] = Zero
  <2> DEFINE mine == {k \in D : c[k] = a}
  <2>1. \A k \in mine : Deltas[k] = Zero
    BY <1>4, SampleFacts DEF CountersInv, Delta
  <2>2. IsFiniteSet(mine)
    BY <1>1, FS_Subset, mine \subseteq D
  <2>3. Charges[a] = Total(Deltas, mine)
    BY <1>2
  <2> HIDE DEF mine
  <2> QED
    BY <2>1, <2>2, <2>3, TotalZero
<1> QED
  BY <1>3, <1>4

\* What is in hand goes to the apps, or is lost with a baseline or an insert.
LEMMA AccountAccumulate ==
  ASSUME TypeOK, CountersInv, InHandInv, EveryByteAccounted, Accumulate
  PROVE  EveryByteAccounted'
<1> DEFINE r == Total(recorded, Labels)
           u == Total(unseen, Keys)
           t == Total(Deltas, DOMAIN snapshot)
<1>1. appAt = "listed" /\ inHand' = Zero /\ UNCHANGED <<moved, unseen, reused>>
  BY DEF Accumulate
<1>2. /\ r \in Bytes /\ u \in Bytes /\ t \in Bytes /\ inHand \in Bytes /\ lost \in Bytes
      /\ AllMoved \in Bytes
  BY AccountedFacts, SampleFacts
<1>3. Accounted = Plus(Plus(r, u), Plus(inHand, lost))
  BY DEF Accounted
<1>4. Covers(inHand, t) /\ (~reused /\ ~first => inHand = t)
  BY <1>1 DEF InHandInv
<1>5. first => t = Zero
  <2> SUFFICES ASSUME first PROVE t = Zero
    OBVIOUS
  <2>1. \A a \in Labels : Charges[a] = Zero
    BY ChargedTotal
  <2>2. Total(Charges, Labels) = Zero
    BY <2>1, Constants, TotalZero
  <2> QED
    BY <2>2, ChargedTotal
<1>6. \/ Accounted' = Plus(Plus(Plus(r, t), u),
                           Plus(Zero, IF first THEN Plus(lost, inHand) ELSE lost))
      \/ Accounted' = Plus(Plus(r, u), Plus(Zero, Plus(lost, t))) /\ ~first
  <2>1. CASE recorded' = [a \in Labels |-> Plus(recorded[a], Charges[a])]
             /\ lost' = IF first THEN Plus(lost, inHand) ELSE lost
    <3>1. \A a \in Labels : recorded[a] \in Bytes /\ Charges[a] \in Bytes
                            /\ recorded'[a] = Plus(recorded[a], Charges[a])
      BY <2>1, ChargesType DEF TypeOK
    <3>2. Total(recorded', Labels) = Plus(r, Total(Charges, Labels))
      BY <3>1, Constants, TotalPlus
    <3> QED
      BY <1>1, <2>1, <3>2, ChargedTotal DEF Accounted
  <2>2. CASE recorded' = recorded /\ lost' = Plus(lost, Total(Charges, Labels))
             /\ \E a \in Labels : Charges[a] # Zero
    <3>1. ~first
      BY <2>2, ChargedTotal
    <3> QED
      BY <1>1, <2>2, <3>1, ChargedTotal DEF Accounted
  <2> QED
    BY <2>1, <2>2 DEF Accumulate
<1>7. AllMoved' = AllMoved
  BY <1>1 DEF AllMoved
<1>8. Covers(AllMoved, Accounted) /\ (~reused => Accounted = AllMoved)
  BY AccountedFacts
<1>9. Covers(AllMoved, Accounted') /\ (~reused => Accounted' = AllMoved)
  <2> DEFINE m == AllMoved
             x == Accounted'
             h == inHand
             l == lost
  <2>1. m \in Bytes /\ h \in Bytes /\ l \in Bytes
        /\ Covers(m, Plus(Plus(r, u), Plus(h, l))) /\ (~reused => Plus(Plus(r, u), Plus(h, l)) = m)
    BY <1>2, <1>3, <1>8
  <2>2. CASE first
    <3>1. x = Plus(Plus(Plus(r, Zero), u), Plus(Zero, Plus(l, h)))
      BY <1>5, <1>6, <2>2
    <3> HIDE DEF m, x, h, l, r, u, t
    <3>2. x = Plus(Plus(r, u), Plus(h, l))
      BY <1>2, <2>1, <3>1 DEF Plus, Zero, Bytes
    <3> QED
      BY <2>1, <3>2 DEF m, x
  <2>3. CASE ~first
    <3>1. \/ x = Plus(Plus(Plus(r, t), u), Plus(Zero, l))
          \/ x = Plus(Plus(r, u), Plus(Zero, Plus(l, t)))
      BY <1>6, <2>3
    <3>2. Covers(h, t) /\ (~reused => h = t)
      BY <1>4, <2>3
    <3> HIDE DEF m, x, h, l, r, u, t
    <3>3. x = Plus(Plus(r, u), Plus(t, l))
      BY <1>2, <2>1, <3>1 DEF Plus, Zero, Bytes
    <3>4. Covers(m, x)
      BY <1>2, <2>1, <3>2, <3>3 DEF Plus, Covers, Bytes
    <3> QED
      BY <2>1, <3>2, <3>3, <3>4 DEF m, x
  <2> QED
    BY <2>2, <2>3
<1> QED
  BY <1>1, <1>7, <1>9 DEF EveryByteAccounted, Accounted, AllMoved

\* What moves is not yet listed.
LEMMA AccountTransfer ==
  ASSUME TypeOK, EveryByteAccounted, NEW k \in Keys, Transfer(k)
  PROVE  EveryByteAccounted'
<1>1. UNCHANGED <<recorded, inHand, lost, reused>> /\ owner[k] \in Labels
  BY DEF Transfer, appSide, TypeOK
<1>2. CASE UNCHANGED <<moved, unseen>>
  BY <1>1, <1>2, AccountKept DEF Accounted, AllMoved
<1>3. ASSUME NEW b \in Direction,
             moved' = [moved EXCEPT ![owner[k]] = Plus(@, b)],
             unseen' = [unseen EXCEPT ![k] = Plus(@, b)]
      PROVE  EveryByteAccounted'
  <2>1. b \in Bytes
    BY DEF Direction, Bytes
  <2> DEFINE o == owner[k]
  <2>2. \A a \in Labels : /\ moved[a] \in Bytes
                          /\ moved'[a] = IF a = o THEN Plus(moved[a], b) ELSE moved[a]
    BY <1>3 DEF TypeOK
  <2>3. \A j \in Keys : /\ unseen[j] \in Bytes
                        /\ unseen'[j] = IF j = k THEN Plus(unseen[j], b) ELSE unseen[j]
    BY <1>3 DEF TypeOK
  <2>4. o \in Labels
    BY <1>1
  <2> HIDE DEF o
  <2>5. AllMoved' = Plus(AllMoved, b)
    BY <2>1, <2>2, <2>4, Constants, TotalRaised DEF AllMoved
  <2>6. Total(unseen', Keys) = Plus(Total(unseen, Keys), b)
    BY <2>1, <2>3, Constants, TotalRaised
  <2> DEFINE r == Total(recorded, Labels)
             u == Total(unseen, Keys)
             m == AllMoved
             h == inHand
             l == lost
  <2>7. /\ r \in Bytes /\ u \in Bytes /\ m \in Bytes /\ h \in Bytes /\ l \in Bytes
        /\ Covers(m, Plus(Plus(r, u), Plus(h, l)))
        /\ ~reused => Plus(Plus(r, u), Plus(h, l)) = m
    BY AccountedFacts DEF Accounted
  <2>8. AllMoved' = Plus(m, b) /\ Accounted' = Plus(Plus(r, Plus(u, b)), Plus(h, l))
    BY <1>1, <2>5, <2>6 DEF Accounted
  <2> HIDE DEF r, u, m, h, l
  <2>9. Covers(Plus(m, b), Plus(Plus(r, Plus(u, b)), Plus(h, l)))
    BY <2>1, <2>7 DEF Covers, Plus, Bytes
  <2>10. ~reused => Plus(Plus(r, Plus(u, b)), Plus(h, l)) = Plus(m, b)
    BY <2>1, <2>7 DEF Plus, Bytes
  <2> QED
    BY <1>1, <2>8, <2>9, <2>10 DEF EveryByteAccounted, Accounted, AllMoved
<1> QED
  BY <1>2, <1>3 DEF Transfer

\* What a closed connection had not shown is lost.
LEMMA AccountDisconnect ==
  ASSUME TypeOK, EveryByteAccounted, NEW k \in Keys, Disconnect(k)
  PROVE  EveryByteAccounted'
<1>1. /\ UNCHANGED <<recorded, moved, inHand, reused>> /\ lost' = Plus(lost, unseen[k])
      /\ unseen' = [unseen EXCEPT ![k] = Zero]
  BY DEF Disconnect, appSide
<1> DEFINE b == unseen[k]
<1>2. /\ b \in Bytes
      /\ \A j \in Keys : /\ unseen'[j] \in Bytes
                         /\ unseen[j] = IF j = k THEN Plus(unseen'[j], b) ELSE unseen'[j]
  <2>1. b \in Bytes /\ b = Plus(Zero, b)
    BY AheadArithmetic DEF TypeOK
  <2> QED
    BY <1>1, <2>1, ZeroType DEF TypeOK
<1> HIDE DEF b
<1>3. Total(unseen, Keys) = Plus(Total(unseen', Keys), b) /\ Total(unseen', Keys) \in Bytes
  BY <1>2, Constants, TotalRaised, TotalFacts
<1> DEFINE r == Total(recorded, Labels)
           v == Total(unseen', Keys)
           h == inHand
           l == lost
<1>4. r \in Bytes /\ v \in Bytes /\ h \in Bytes /\ l \in Bytes
  BY <1>3, AccountedFacts
<1>5. /\ Accounted = Plus(Plus(r, Plus(v, b)), Plus(h, l))
      /\ Accounted' = Plus(Plus(r, v), Plus(h, Plus(l, b)))
  BY <1>1, <1>3 DEF Accounted, b
<1> HIDE DEF r, v, h, l
<1>6. Accounted' = Accounted
  BY <1>2, <1>4, <1>5 DEF Plus, Bytes
<1> QED
  BY <1>1, <1>6, AccountKept DEF AllMoved

\* What was in hand is lost.
LEMMA AccountRestart ==
  ASSUME TypeOK, EveryByteAccounted, Restart
  PROVE  EveryByteAccounted'
<1>1. UNCHANGED <<recorded, moved, unseen, reused>> /\ lost' = Plus(lost, inHand) /\ inHand' = Zero
  BY DEF Restart
<1> DEFINE r == Plus(Total(recorded, Labels), Total(unseen, Keys))
<1>2. /\ Accounted = Plus(r, Plus(inHand, lost))
      /\ Accounted' = Plus(r, Plus(Zero, Plus(lost, inHand)))
  BY <1>1 DEF Accounted
<1> HIDE DEF r
<1>3. Plus(Zero, Plus(lost, inHand)) = Plus(inHand, lost)
  BY AccountedFacts DEF Plus, Zero, Bytes
<1>4. Accounted' = Accounted
  BY <1>2, <1>3
<1> QED
  BY <1>1, <1>4, AccountKept DEF AllMoved

----------------------------------------------------------------------------
(* The app traffic                                                         *)

AppInv == TypeOK /\ CountersInv /\ InHandInv /\ ChargesInv /\ EveryByteAccounted

\* The four together are inductive.
LEMMA AppInit == TrafficInit => AppInv
BY InitType, CountersInit, InHandInit, ChargesInit, AccountInit DEF AppInv

LEMMA AppStep == AppInv /\ [TrafficNext]_trafficVars => AppInv'
<1> SUFFICES ASSUME TypeOK, CountersInv, InHandInv, ChargesInv, EveryByteAccounted,
                    [TrafficNext]_trafficVars
             PROVE  CountersInv' /\ InHandInv' /\ ChargesInv' /\ EveryByteAccounted'
  BY StepType DEF AppInv
<1>0. TypeOK'
  BY StepType
<1>1. CASE UNCHANGED appView
  <2>1. CountersInv'
    BY <1>1 DEF CountersInv, Ahead, AheadOfSnapshot, Moved, appView, appSide, charged
  <2>2. InHandInv'
    BY <1>1, InHandKept DEF appView, appSide, charged
  <2>3. EveryByteAccounted'
    BY <1>1 DEF EveryByteAccounted, appView, appSide, charged
  <2> QED
    BY <1>1, <2>1, <2>2, <2>3, ChargesKept
<1>2. CASE ListConnections /\ ~ UNCHANGED appView
  BY <1>0, <1>2, CountersList, InHandList, ChargesList, AccountList
<1>3. CASE Accumulate
  <2>1. InHandInv'
    BY <1>3, InHandEmptied DEF Accumulate
  <2> QED
    BY <1>0, <1>3, <2>1, CountersAccumulate, ChargesAccumulate, AccountAccumulate
<1>4. ASSUME NEW k \in Keys, Transfer(k)
      PROVE  CountersInv' /\ InHandInv' /\ ChargesInv' /\ EveryByteAccounted'
  <2>1. InHandInv'
    BY <1>4, InHandKept DEF Transfer, appSide
  <2> QED
    BY <1>0, <1>4, <2>1, CountersTransfer, ChargesTransfer, AccountTransfer
<1>5. ASSUME NEW k \in Keys, Connect(k)
      PROVE  CountersInv' /\ InHandInv' /\ ChargesInv' /\ EveryByteAccounted'
  <2>1. InHandInv'
    BY <1>5, InHandKept DEF Connect, appSide
  <2>2. EveryByteAccounted'
    BY <1>5, AccountKept DEF Connect, appSide, Accounted, AllMoved
  <2> QED
    BY <1>0, <1>5, <2>1, <2>2, CountersConnect, ChargesConnect
<1>6. ASSUME NEW k \in Keys, Disconnect(k)
      PROVE  CountersInv' /\ InHandInv' /\ ChargesInv' /\ EveryByteAccounted'
  <2>1. InHandInv'
    BY <1>6, InHandKept DEF Disconnect, appSide
  <2> QED
    BY <1>0, <1>6, <2>1, CountersDisconnect, ChargesDisconnect, AccountDisconnect
<1>7. CASE Restart
  <2>1. InHandInv'
    BY <1>7, InHandEmptied DEF Restart
  <2> QED
    BY <1>0, <1>7, <2>1, CountersRestart, ChargesRestart, AccountRestart
<1> QED
  BY <1>1, <1>2, <1>3, <1>4, <1>5, <1>6, <1>7, OthersLeaveApps DEF TrafficNext, AppTrafficCycle

----------------------------------------------------------------------------
(* The rates of the interface                                              *)

\* A span that divides Scale gives back the bytes a rate was made of.
LEMMA RateOverSpan ==
  ASSUME NEW x \in Nat, NEW dt \in 1..MaxGap
  PROVE  (x * (Scale \div dt) * dt) \div Scale = x
<1> DEFINE q == Scale \div dt
<1>1. Scale \in Nat \ {0} /\ Scale % dt = 0 /\ dt \in Nat \ {0}
  BY TrafficAssumption
<1>2. q \in Nat /\ Scale = q * dt
  <2> DEFINE s == Scale
  <2>1. s \in Nat /\ s % dt = 0
    BY <1>1
  <2> HIDE DEF s
  <2>2. s \div dt \in Nat /\ s = (s \div dt) * dt
    BY <1>1, <2>1, SMTT(30)
  <2> QED
    BY <2>2 DEF s
<1> HIDE DEF q
<1>3. Scale = q * dt
  BY <1>2
<1>4. (x * q) * dt = x * (q * dt)
  BY <1>1, <1>2
<1>5. (x * Scale) \div Scale = x
  <2> DEFINE s == Scale
  <2>1. s \in Nat \ {0}
    BY <1>1
  <2> HIDE DEF s
  <2>2. (x * s) \div s = x
    BY <2>1
  <2> QED
    BY <2>2 DEF s
<1>6. (x * q * dt) \div Scale = x
  BY <1>3, <1>4, <1>5
<1> QED
  BY <1>6 DEF q

\* IfaceInv holds at first, and every action keeps it.
LEMMA IfaceInit == TrafficInit => IfaceInv
BY DEF TrafficInit, IfaceInv

\* The interface carries bytes, of a connection or not.
LEMMA IfaceCarries ==
  ASSUME TypeOK, IfaceInv, NEW b \in Direction, UNCHANGED <<clock, sampled, prevIface, prevAt>>,
         iface' = Plus(iface, b),
         since' = [since EXCEPT !.rx = @ + b.rx, !.tx = @ + b.tx]
  PROVE  IfaceInv'
<1>1. b \in Bytes /\ iface \in Bytes /\ prevIface \in Bytes /\ since \in Since
  BY DEF Direction, Bytes, TypeOK
<1>2. /\ since'.rx = since.rx + b.rx /\ since'.tx = since.tx + b.tx
      /\ since'.reset = since.reset /\ since'.jumped = since.jumped
      /\ since'.ticks = since.ticks
  BY <1>1 DEF Since
<1>3. iface'.rx = iface.rx + b.rx /\ iface'.tx = iface.tx + b.tx
  BY DEF Plus
<1>4. /\ b.rx \in Nat /\ b.tx \in Nat /\ since.rx \in Nat /\ since.tx \in Nat
      /\ iface.rx \in Nat /\ iface.tx \in Nat /\ prevIface.rx \in Nat /\ prevIface.tx \in Nat
  BY <1>1 DEF Bytes, Since
<1> QED
  BY <1>2, <1>3, <1>4 DEF IfaceInv, Covers

LEMMA IfaceStep == TypeOK /\ IfaceInv /\ [TrafficNext]_trafficVars => IfaceInv'
<1> SUFFICES ASSUME TypeOK, IfaceInv, [TrafficNext]_trafficVars PROVE IfaceInv'
  OBVIOUS
<1>1. ASSUME NEW d \in Delays, NetworkCycle(d) PROVE IfaceInv'
  <2>1. iface' = iface /\ clock' = clock + d /\ d \in Nat
    BY <1>1, TrafficAssumption DEF NetworkCycle
  <2>2. CASE CollectFails(d)
    <3>1. UNCHANGED <<sampled, prevIface, prevAt>>
      BY <2>2 DEF CollectFails, network
    <3>2. /\ since'.ticks = since.ticks + d /\ since'.rx = since.rx /\ since'.tx = since.tx
          /\ since'.reset = since.reset /\ since'.jumped = since.jumped
      BY <2>2 DEF CollectFails, TypeOK, Since
    <3>3. clock \in Int /\ prevAt \in Int /\ since.ticks \in Nat
      BY DEF TypeOK, Since
    <3> QED
      BY <2>1, <3>1, <3>2, <3>3 DEF IfaceInv, Covers
  <2>3. CASE CollectAndCheck
    <3>1. /\ prevIface' = iface /\ prevAt' = clock' /\ since' = Quiet
          /\ iface.rx \in Nat /\ iface.tx \in Nat /\ clock' \in Int
      BY <2>1, <2>3 DEF CollectAndCheck, Advance, TypeOK, Bytes
    <3> QED
      BY <2>1, <3>1 DEF IfaceInv, Quiet
  <2> QED
    BY <1>1, <2>2, <2>3 DEF NetworkCycle
<1>2. ASSUME NEW k \in Keys, Transfer(k) PROVE IfaceInv'
  <2>1. UNCHANGED <<clock, sampled, prevIface, prevAt>>
    BY <1>2 DEF Transfer, network
  <2>2. CASE UNCHANGED <<iface, since>>
    BY <2>1, <2>2 DEF IfaceInv
  <2>3. CASE ~ UNCHANGED <<iface, since>>
    BY <1>2, <2>1, <2>3, IfaceCarries DEF Transfer
  <2> QED
    BY <2>2, <2>3
<1>3. CASE TransferDatagram
  BY <1>3, IfaceCarries DEF TransferDatagram, network
<1>4. CASE ResetCounters
  <2>1. /\ since'.reset = TRUE /\ since'.rx \in Nat /\ since'.tx \in Nat
        /\ since'.jumped = since.jumped /\ since'.ticks = since.ticks
        /\ iface' = Zero
    BY <1>4 DEF ResetCounters, TypeOK, Since
  <2>2. UNCHANGED <<clock, sampled, prevAt>>
    BY <1>4 DEF ResetCounters, network
  <2> QED
    BY <2>1, <2>2 DEF IfaceInv, Covers, Zero
<1>5. CASE Restart
  BY <1>5 DEF Restart, IfaceInv
<1>6. CASE UNCHANGED <<iface, clock, sampled, prevIface, prevAt, since>>
  BY <1>6 DEF IfaceInv
<1>7. ASSUME NEW j \in Jumps, SetClock(j) PROVE IfaceInv'
  <2>1. /\ since'.jumped = TRUE /\ since'.reset = since.reset
        /\ since'.rx = since.rx /\ since'.tx = since.tx
    BY <1>7 DEF SetClock, TypeOK, Since
  <2>2. UNCHANGED <<iface, sampled, prevIface>>
    BY <1>7 DEF SetClock, network
  <2> QED
    BY <2>1, <2>2 DEF IfaceInv, Covers
<1> QED
  BY <1>1, <1>2, <1>3, <1>4, <1>5, <1>6, <1>7
  DEF TrafficNext, AppTrafficCycle, ListConnections, Accumulate, Connect, Disconnect, trafficVars,
      kernel, network

\* Only the network cycle adds a row, and it is a sample.
LEMMA FreshRow ==
  ASSUME TypeOK, NEW d \in Delays, NetworkCycle(d), rows' # rows
  PROVE  /\ CollectAndCheck /\ clock' = clock + d /\ clock' \in Int
         /\ rows' = Append(rows, [row |-> Sample(clock'), at |-> clock'])
         /\ Len(rows') \in DOMAIN rows'
         /\ rows'[Len(rows')] = [row |-> Sample(clock'), at |-> clock']
<1>1. CollectAndCheck /\ clock' = clock + d /\ d \in Nat
  BY TrafficAssumption DEF NetworkCycle, CollectFails, network
<1>2. rows' = Append(rows, [row |-> Sample(clock'), at |-> clock'])
  BY <1>1 DEF CollectAndCheck, Insert
<1>3. clock' \in Int /\ rows \in Rows
  BY <1>1 DEF TypeOK
<1> DEFINE new == [row |-> Sample(clock'), at |-> clock']
<1>4. new \in [row : Rates, at : Int]
  BY <1>3, SampleType
<1> HIDE DEF new
<1>5. rows' = Append(rows, new)
  BY <1>2 DEF new
<1>6. Len(rows') \in DOMAIN rows' /\ rows'[Len(rows')] = new
  BY <1>3, <1>4, <1>5 DEF Rows
<1> QED
  BY <1>1, <1>2, <1>3, <1>6 DEF new

\* What a row says of the interface is what passed it.
LEMMA RowIsReal ==
  ASSUME TypeOK, IfaceInv, NEW d \in Nat, Sample(clock + d).rx # NoRate
  PROVE  LET row == Sample(clock + d)
             bytes == [rx |-> (row.rx * row.over) \div Scale, tx |-> (row.tx * row.over) \div Scale]
         IN  /\ row.over > 0
             /\ Covers(bytes, Zero) /\ Covers(since, bytes)
             /\ ~since.reset => Covers(bytes, since)
             /\ ~since.jumped => row.over = since.ticks + d
<1> DEFINE now == clock + d
           dt == now - prevAt
           x == iface.rx - prevIface.rx
           y == iface.tx - prevIface.tx
           q == Scale \div dt
<1>1. now \in Int /\ dt \in Int /\ MaxGap \in Nat
  BY TrafficAssumption DEF TypeOK
<1>2. sampled /\ Sample(now) = ComputeRates(prevIface, iface, dt)
  BY DEF Sample, Baseline
<1>3. dt \in 1..MaxGap /\ Covers(iface, prevIface)
  BY <1>1, <1>2 DEF ComputeRates, Baseline
<1>4. Sample(now) = [rx |-> x * q, tx |-> y * q, over |-> dt]
  <2>1. ~(dt > MaxGap) /\ ~(dt <= 0)
    BY <1>1, <1>3
  <2> QED
    BY <1>2, <1>3, <2>1 DEF ComputeRates
<1>5. /\ iface.rx \in Nat /\ iface.tx \in Nat /\ prevIface.rx \in Nat /\ prevIface.tx \in Nat
      /\ since.rx \in Nat /\ since.tx \in Nat /\ since.ticks \in Nat
      /\ clock \in Int /\ prevAt \in Int
  BY DEF TypeOK, Bytes, Since
<1>6. x \in Nat /\ y \in Nat
  BY <1>3, <1>5 DEF Covers
<1>7. /\ x <= since.rx /\ y <= since.tx
      /\ ~since.reset => x = since.rx /\ y = since.tx
  BY <1>2, <1>5 DEF IfaceInv, Covers
<1>8. ~since.jumped => dt = since.ticks + d
  BY <1>2, <1>5 DEF IfaceInv
<1> HIDE DEF dt, x, y
<1>9. (x * q * dt) \div Scale = x /\ (y * q * dt) \div Scale = y
  BY <1>3, <1>6, RateOverSpan
<1> HIDE DEF q
<1>10. /\ (Sample(now).rx * Sample(now).over) \div Scale = x
      /\ (Sample(now).tx * Sample(now).over) \div Scale = y
      /\ Sample(now).over = dt
  BY <1>4, <1>9
<1> HIDE DEF now
<1> DEFINE bytes == [rx |-> (Sample(now).rx * Sample(now).over) \div Scale,
                     tx |-> (Sample(now).tx * Sample(now).over) \div Scale]
<1>11. bytes = [rx |-> x, tx |-> y]
  BY <1>10
<1> HIDE DEF bytes
<1>12. /\ Covers(bytes, Zero) /\ Covers(since, bytes)
       /\ ~since.reset => Covers(bytes, since)
  BY <1>5, <1>6, <1>7, <1>11 DEF Covers, Zero
<1>13. dt > 0
  BY <1>3
<1> QED
  BY <1>8, <1>10, <1>12, <1>13 DEF bytes, now

\* No other action touches the rows or the alert.
LEMMA OthersLeaveRows ==
  ASSUME [TrafficNext]_trafficVars, \A d \in Delays : ~ NetworkCycle(d)
  PROVE  UNCHANGED <<rows, spike>>
BY DEF TrafficNext, AppTrafficCycle, ListConnections, Accumulate, Transfer, Connect, Disconnect,
       TransferDatagram, ResetCounters, SetClock, Restart, trafficVars, network

----------------------------------------------------------------------------
(* The spike                                                               *)

\* A rate that is Multiplier times the average it is part of needs the others.
LEMMA SpikeArithmetic ==
  ASSUME NEW m \in Nat, NEW r \in Nat, NEW n \in Nat, NEW s \in Nat, s >= r, r * n > m * s
  PROVE  n > m
<1>1. m * s >= m * r
  <2>1. m * (s - r) >= 0
    OBVIOUS
  <2>2. m * (s - r) = m * s - m * r
    OBVIOUS
  <2> QED
    BY <2>1, <2>2
<1>2. r * n > r * m
  BY <1>1
<1>3. ASSUME n <= m PROVE FALSE
  <2>1. r * (m - n) >= 0
    BY <1>3
  <2>2. r * (m - n) = r * m - r * n
    OBVIOUS
  <2> QED
    BY <1>2, <2>1, <2>2
<1> QED
  BY <1>3

\* The rows that have rates: a sum of at least any of them.
LEMMA RatedFacts ==
  ASSUME NEW rs \in Rows, NEW now \in Int
  PROVE  /\ IsFiniteSet(Rated(rs, now)) /\ Cardinality(Rated(rs, now)) \in Nat
         /\ Rated(rs, now) # {} => Cardinality(Rated(rs, now)) > 0
         /\ SumRates(rs, now) \in Nat
         /\ \A a \in Rated(rs, now) : rs[a].row.rx \in Nat /\ SumRates(rs, now) >= rs[a].row.rx
<1> DEFINE f == [a \in DOMAIN rs |-> rs[a].row.rx]
           z == [a \in DOMAIN rs |-> 0]
           R == Rated(rs, now)
<1>1. IsFiniteSet(R)
  <2>1. R \subseteq 1..Len(rs) /\ Len(rs) \in Nat
    BY DEF Rows, Rated
  <2>2. IsFiniteSet(1..Len(rs))
    BY <2>1, FS_Interval
  <2> QED
    BY <2>1, <2>2, FS_Subset
<1>2. ASSUME NEW a \in R PROVE f[a] \in Nat /\ f[a] = rs[a].row.rx /\ z[a] = 0
  <2>1. a \in DOMAIN rs /\ rs[a].row.rx # NoRate
    BY DEF Rated
  <2>2. rs[a] \in [row : Rates, at : Int]
    <3> DEFINE All == [row : Rates, at : Int]
    <3>1. rs \in Seq(All)
      BY DEF Rows
    <3> HIDE DEF All
    <3>2. rs[a] \in All
      BY <2>1, <3>1
    <3> QED
      BY <3>2 DEF All
  <2>3. rs[a].row.rx \in Nat
    BY <2>1, <2>2 DEF Rates
  <2> QED
    BY <2>1, <2>3
<1>3. SumRates(rs, now) = Sum(f, R)
  BY DEF SumRates, Sum
<1> HIDE DEF f, z, R
<1>4. ASSUME NEW T \in SUBSET R PROVE Sum(f, T) \in Nat
  <2>1. IsFiniteSet(T) /\ \A a \in T : f[a] \in Int /\ z[a] \in Int /\ z[a] <= f[a] /\ z[a] = 0
    BY <1>1, <1>2, FS_Subset
  <2>2. Sum(z, T) <= Sum(f, T) /\ Sum(z, T) = 0 /\ Sum(f, T) \in Int
    BY <2>1, SumLessEqual, SumZero, SumType
  <2> QED
    BY <2>2
<1>5. ASSUME NEW a \in R PROVE Sum(f, R) >= f[a]
  <2>1. Sum(f, R) = f[a] + Sum(f, R \ {a})
    BY <1>1, <1>2, SumTakeOut
  <2>2. Sum(f, R \ {a}) \in Nat /\ f[a] \in Nat
    BY <1>2, <1>4
  <2> QED
    BY <2>1, <2>2
<1>6. Cardinality(R) \in Nat /\ (R # {} => Cardinality(R) > 0)
  BY <1>1, FS_CardinalityType, FS_EmptySet
<1> QED
  BY <1>1, <1>2, <1>3, <1>4, <1>5, <1>6 DEF R

\* An alert opens over a history.
LEMMA SpikeStep ==
  ASSUME TypeOK, TypeOK', [TrafficNext]_trafficVars, ~spike, spike'
  PROVE  Cardinality(Rated(rows', clock')) > (IF rows' = rows THEN 0 ELSE Multiplier)
<1>1. PICK d \in Delays : NetworkCycle(d)
  BY OthersLeaveRows
<1>2. CollectAndCheck
  BY <1>1 DEF NetworkCycle, CollectFails, network
<1> DEFINE now == clock'
           rs == rows'
           n == Cardinality(Rated(rs, now))
           s == SumRates(rs, now)
           r == Sample(now).rx
<1>3. r # NoRate /\ HasBaseline(rs, now) /\ Spiking(r, rs, now)
  BY <1>2 DEF CollectAndCheck, CheckTrafficSpike
<1>4. rs \in Rows /\ now \in Int
  BY DEF TypeOK
<1>5. n \in Nat /\ n > 0 /\ s \in Nat
  <2> HIDE DEF rs, now
  <2> QED
    BY <1>3, <1>4, RatedFacts DEF HasBaseline
<1>6. ASSUME rows' # rows PROVE n > Multiplier
  <2>1. Len(rs) \in DOMAIN rs /\ rs[Len(rs)] = [row |-> Sample(now), at |-> now]
    BY <1>1, <1>6, FreshRow
  <2> HIDE DEF rs, now
  <2>2. Len(rs) \in Rated(rs, now)
    BY <1>3, <1>4, <2>1, TrafficAssumption DEF Rated
  <2>3. r \in Nat /\ s >= r
    <3>1. rs[Len(rs)].row.rx = r
      BY <2>1
    <3> HIDE DEF r
    <3> QED
      BY <1>4, <2>2, <3>1, RatedFacts
  <2>4. r * n > Multiplier * s
    BY <1>3 DEF Spiking
  <2> HIDE DEF n, s, r
  <2> QED
    BY <1>5, <2>3, <2>4, SpikeArithmetic, TrafficAssumption
<1> QED
  BY <1>5, <1>6

----------------------------------------------------------------------------
(* Theorems                                                                *)

\* Types, the counters of the connections, what is in hand and what is due,
\* and the counters of the interface: the inductive invariant.
THEOREM TrafficInvariant == TrafficSpec => [](AppInv /\ IfaceInv)
<1>1. TrafficInit => AppInv /\ IfaceInv
  BY AppInit, IfaceInit
<1>2. AppInv /\ IfaceInv /\ [TrafficNext]_trafficVars => (AppInv /\ IfaceInv)'
  BY AppStep, IfaceStep DEF AppInv
<1> QED
  BY <1>1, <1>2, PTL DEF TrafficSpec

\* No app is charged more than it moved: not the bytes of the connection that
\* had its key before, not those from before a restart, none twice.
THEOREM NeverOvercharged == TrafficSpec => []AppNeverOvercharged
<1>1. AppInv => AppNeverOvercharged
  BY ChargesCover DEF AppInv
<1> QED
  BY <1>1, TrafficInvariant, PTL

\* Every byte over the network is stored, on its way, not yet listed, or lost
\* in one of the three known ways; only a key used again hides more.
THEOREM Accounts == TrafficSpec => []EveryByteAccounted
<1>1. AppInv => EveryByteAccounted
  BY DEF AppInv
<1> QED
  BY <1>1, TrafficInvariant, PTL

\* A stored rate is what passed the interface since the last sample over a time
\* that is never none, and the time that passed if the clock was not set in
\* between, whatever was reset, restarted, skipped or failed.
THEOREM RealRates == TrafficSpec => RatesAreReal
<1> DEFINE Real ==
      Len(rows') > Len(rows) =>
        LET row == rows'[Len(rows')].row
            bytes == [rx |-> (row.rx * row.over) \div Scale, tx |-> (row.tx * row.over) \div Scale]
        IN  row.rx # NoRate =>
              /\ row.over > 0
              /\ Covers(bytes, Zero) /\ Covers(since, bytes)
              /\ ~since.reset => Covers(bytes, since)
              /\ ~since.jumped => row.over = since.ticks + (clock' - clock)
<1>1. TypeOK /\ IfaceInv /\ [TrafficNext]_trafficVars => [Real]_trafficVars
  <2> SUFFICES ASSUME TypeOK, IfaceInv, [TrafficNext]_trafficVars, Len(rows') > Len(rows),
                      rows'[Len(rows')].row.rx # NoRate
               PROVE  Real
    OBVIOUS
  <2>1. rows \in Rows /\ rows' # rows
    BY DEF TypeOK, Rows
  <2>2. PICK d \in Delays : NetworkCycle(d)
    BY <2>1, OthersLeaveRows
  <2>3. rows'[Len(rows')].row = Sample(clock + d) /\ clock' - clock = d /\ d \in Nat
    BY <2>1, <2>2, FreshRow, TrafficAssumption DEF TypeOK
  <2> QED
    BY <2>3, RowIsReal
<1>2. AppInv => TypeOK
  BY DEF AppInv
<1>3. TrafficSpec => [][Real]_trafficVars
  BY <1>1, <1>2, TrafficInvariant, PTL DEF TrafficSpec
<1> QED
  BY <1>3 DEF RatesAreReal

\* A spike alert opens only over at least Multiplier rates before the new one,
\* wherever the clock was set.
THEOREM SpikeIsARise == TrafficSpec => SpikeNeedsHistory
<1>1. TypeOK /\ TypeOK' /\ [TrafficNext]_trafficVars =>
        [~spike /\ spike' =>
           Cardinality(Rated(rows', clock'))
             > (IF rows' = rows THEN 0 ELSE Multiplier)]_trafficVars
  BY SpikeStep
<1>2. AppInv => TypeOK
  BY DEF AppInv
<1> QED
  BY <1>1, <1>2, TrafficInvariant, PTL DEF TrafficSpec, SpikeNeedsHistory
=============================================================================
