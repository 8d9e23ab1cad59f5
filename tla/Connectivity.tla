---------------------------- MODULE Connectivity ----------------------------
(***************************************************************************)
(* From the state of the network to a diagnosis: the loops of the          *)
(* collection manager (collector/manager.go) that watch links, gateway,    *)
(* internet, DNS, memory and load, the interface collector's choice of the *)
(* primary interface and its gateway (collector/interfaces.go), the checks *)
(* (collector/latency.go, collector/dns.go), and Diagnose over the alerts  *)
(* they leave open (module Diagnosis).                                     *)
(*                                                                         *)
(* The network and the interface loop share the primary interface and the  *)
(* gateway.  Alerts are the set of open rule and source pairs: both        *)
(* debounce thresholds are 1, the least the configuration allows, so one   *)
(* observation opens or resolves; module AlertEngine is about larger ones  *)
(* and about how an observation is carried out.  Interfaces that           *)
(* DefaultExcluded names (loopback, bridges, tunnels) are never observed   *)
(* and are left out.                                                       *)
(***************************************************************************)
EXTENDS Diagnosis, Sequences, FiniteSets, SequencesExt

CONSTANTS
  Order,       \* the interfaces, as /proc/net/dev lists them, best metric first
  Router,      \* the address of the router behind each interface
  Targets,     \* checks.internet_targets
  Domains,     \* checks.dns_domains
  PingCount,   \* echoes per check
  LossWarning, \* alerts.packet_loss_warning, in percent
  Faults,      \* what may go wrong beyond links and routes
  Overrides,   \* values of checks.primary_interface_override, None for unset
  Pins,        \* values of checks.gateway, None for "auto"
  None,
  Shutdown,    \* whether the daemon may be told to stop
  MaxChanges   \* bound on changes of the world and the settings after the start

Ifaces  == ToSet(Order)
Gateways == {Router[i] : i \in Ifaces}

ASSUME WorldAssumption ==
  /\ Order # <<>> /\ IsInjective(Order)
  /\ DOMAIN Router = Ifaces
  /\ Targets # {} /\ IsFiniteSet(Targets)
  /\ None \notin Ifaces \cup Gateways
  /\ Overrides \subseteq Ifaces \cup {None} /\ None \in Overrides
  /\ Pins \subseteq Gateways \cup {None} /\ None \in Pins
  /\ PingCount \in Nat \ {0} /\ LossWarning \in 0..99
  /\ "loss" \in Faults => PingCount > 1
  /\ Shutdown \in BOOLEAN /\ MaxChanges \in Nat

VARIABLES
  \* the world
  link,        \* operstate of each interface, or "gone"
  routes,      \* the interfaces that have a default route
  faults,      \* what is wrong at present
  stopping,    \* the daemon's context is cancelled
  \* the settings
  latencyOn,   \* collection.enable_latency_checks
  dnsOn,       \* collection.enable_dns_checks
  override,    \* checks.primary_interface_override
  pin,         \* checks.gateway
  changes,
  \* the manager and the two loops
  primary, gateway, lastPrimary,
  counted,     \* the interfaces in prevDrops
  sample,      \* the sample of the network cycle in progress
  netAt,       \* where RunNetworkCycle is
  checksAt,    \* where RunChecksCycle is
  subject,     \* what is being probed or looked up
  sent, got,   \* echoes of its check so far
  answer,      \* what came of the A lookup
  todo,        \* targets the cycle has yet to check
  lookups,     \* domains it has yet to look up
  allFailed,
  open,        \* open alerts: pairs of a rule and a source
  \* history
  used,        \* interfaces that were the machine's uplink at some time
  deaf,        \* no echo of the check in progress found a path that works
  silent       \* what gave no answer to a whole check not yet decided on

\* Between two network cycles there is no sample.
NoSample == [primary |-> None, gateway |-> None, link |-> [i \in Ifaces |-> "gone"], dropping |-> FALSE]

world    == <<link, routes, faults, stopping, latencyOn, dnsOn, override, pin, changes, used>>
manager  == <<primary, gateway, lastPrimary, counted>>
net      == <<sample, netAt>>
probing  == <<subject, sent, got, deaf>>
cycle    == <<todo, lookups, allFailed, silent>>
checks   == <<checksAt, probing, answer, cycle>>
vars     == <<world, manager, net, checks, open>>

----------------------------------------------------------------------------
(* The network as it is                                                    *)

FirstOf(S) == IF S = {} THEN None ELSE Order[CHOOSE n \in DOMAIN Order :
                Order[n] \in S /\ \A m \in 1..(n - 1) : Order[m] \notin S]

Up == {i \in Ifaces : link[i] = "up"}

\* A router answers over its link; everything else goes by the best route.
Reaches(g) == "router" \notin faults /\ \E i \in Up : Router[i] = g
Online     == FirstOf(routes) \in Up /\ faults \cap {"router", "isp"} = {}
TargetUp(t) == Online /\ t \notin faults
DomainUp   == Online /\ "dns" \notin faults

----------------------------------------------------------------------------
(* The collectors                                                          *)

\* Owner of the best default route, else the first interface that is up.
SelectPrimaryInterface ==
  IF override # None THEN override
  ELSE IF routes # {} THEN FirstOf(routes) ELSE FirstOf(Up)

\* The gateway of that interface's default route; of any, without a primary.
ParseGateway(iface) ==
  IF iface \in routes THEN Router[iface]
  ELSE IF iface = None /\ routes # {} THEN Router[FirstOf(routes)] ELSE None

----------------------------------------------------------------------------
(* AlertEngine.Observe                                                     *)

\* Mutant: the observation is carried out with a context of its own.
ObserveDetached(failing, healthy) == open' = (open \ healthy) \cup failing

\* A cancelled context fails the lookup, and the observation with it.
Observe(failing, healthy) ==
  open' = IF stopping THEN open ELSE (open \ healthy) \cup failing

\* The observation of one key.
ObserveKey(rule, source, failing) ==
  Observe(IF failing THEN {<<rule, source>>} ELSE {}, IF failing THEN {} ELSE {<<rule, source>>})

----------------------------------------------------------------------------
(* RunNetworkCycle                                                         *)

Collect ==
  /\ netAt = "idle" /\ ~stopping
  /\ sample' = [primary |-> SelectPrimaryInterface,
                gateway |-> ParseGateway(SelectPrimaryInterface),
                link |-> link, dropping |-> "drops" \in faults]
  /\ netAt' = "collected"
  /\ UNCHANGED <<world, manager, checks, open>>

\* The section under Manager.mu: the last known gateway is kept.
StoreRoute ==
  /\ netAt = "collected"
  /\ primary' = sample.primary
  /\ gateway' = IF sample.gateway # None THEN sample.gateway ELSE gateway
  /\ netAt' = "stored"
  /\ UNCHANGED <<world, lastPrimary, counted, sample, checks, open>>

\* The primary interface, or the last one there was.
WatchedInterface == IF sample.primary # None THEN sample.primary ELSE lastPrimary

Present == {i \in Ifaces : sample.link[i] # "gone"}

\* Mutant: every interface that is down is reported.
ObserveAllLinks ==
  LET down == {i \in Present : sample.link[i] = "down"}
      failing == {<<"interface_down", i>> : i \in down}
  IN  /\ netAt = "stored"
      /\ lastPrimary' = WatchedInterface
      /\ Observe(failing, {<<"interface_down", i>> : i \in Present} \ failing)
      /\ counted' = Present
      /\ sample' = NoSample /\ netAt' = "idle"
      /\ UNCHANGED <<world, primary, gateway, checks>>

\* observeLinks: only the watched interface can fail; all others are healthy.
ObserveLinks ==
  LET watched == WatchedInterface
      seen    == Present \cap counted
      keys    == ({"interface_down"} \X Present)
                   \cup ({"dropped_packets_increasing"} \X seen)
      failing == {<<"interface_down", i>> : i \in {j \in Present :
                       j = watched /\ sample.link[j] = "down"}}
                 \cup {<<"dropped_packets_increasing", i>> : i \in {j \in seen :
                       j = watched /\ sample.dropping}}
  IN  /\ netAt = "stored"
      /\ lastPrimary' = watched
      /\ Observe(failing, keys \ failing)
      /\ counted' = Present
      /\ sample' = NoSample /\ netAt' = "idle"
      /\ UNCHANGED <<world, primary, gateway, checks>>

----------------------------------------------------------------------------
(* RunChecksCycle                                                          *)

\* The gateway of the settings, or the manager's.
CheckedGateway == IF pin # None THEN pin ELSE gateway

Idle ==
  /\ checksAt' = "idle" /\ subject' = None /\ sent' = 0 /\ got' = 0 /\ deaf' = TRUE
  /\ answer' = "none" /\ todo' = {} /\ lookups' = {} /\ allFailed' = TRUE /\ silent' = {}

\* Mutant: without a gateway the cycle is over before it has begun.
BeginChecksBehindGateway ==
  /\ checksAt = "idle" /\ ~stopping /\ (latencyOn \/ dnsOn)
  /\ latencyOn => CheckedGateway # None
  /\ todo' = IF latencyOn THEN Targets ELSE {}
  /\ lookups' = IF dnsOn THEN Domains ELSE {}
  /\ IF latencyOn
       THEN checksAt' = "gateway" /\ subject' = CheckedGateway
       ELSE checksAt' = "domains" /\ UNCHANGED subject
  /\ UNCHANGED <<world, manager, net, sent, got, deaf, answer, allFailed, silent, open>>

\* The settings and the gateway are read when the cycle starts.
BeginChecks ==
  /\ checksAt = "idle" /\ ~stopping /\ (latencyOn \/ dnsOn)
  /\ todo' = IF latencyOn THEN Targets ELSE {}
  /\ lookups' = IF dnsOn THEN Domains ELSE {}
  /\ IF latencyOn /\ CheckedGateway # None
       THEN checksAt' = "gateway" /\ subject' = CheckedGateway
       ELSE checksAt' = (IF latencyOn THEN "targets" ELSE "domains") /\ UNCHANGED subject
  /\ UNCHANGED <<world, manager, net, sent, got, deaf, answer, allFailed, silent, open>>

(***************************************************************************)
(* LatencyCollector.Check, echo by echo: the world may change before, at   *)
(* and after each.  "loss" takes some echoes of every check, "heavy loss"  *)
(* any of them, also all.  A cancelled context starts no further echo, and *)
(* may fail the one under way.                                             *)
(***************************************************************************)
PathWorks == IF checksAt = "gateway" THEN Reaches(subject) ELSE TargetUp(subject)

Answers ==
  IF ~PathWorks THEN {0}
  ELSE IF "heavy loss" \in faults \/ stopping THEN {0, 1}
  ELSE IF "loss" \in faults
    THEN {a \in {0, 1} : sent + 1 = PingCount => got + a \in 1..(PingCount - 1)}
  ELSE {1}

\* The network's own reasons for an echo without an answer.
NoAnswer == ~PathWorks \/ faults \cap {"loss", "heavy loss"} # {}

Echo ==
  /\ checksAt \in {"gateway", "target"} /\ sent < PingCount
  /\ sent' = sent + 1
  /\ \E a \in Answers :
       /\ got' = got + a
       /\ deaf' = (deaf /\ a = 0 /\ NoAnswer)
  /\ silent' = IF deaf' /\ sent' = PingCount THEN silent \cup {<<checksAt, subject>>}
               ELSE silent
  /\ UNCHANGED <<world, manager, net, checksAt, subject, answer, todo, lookups, allFailed,
                 open>>

Checked == sent = PingCount \/ stopping
Success == got > 0
Lossy   == Success /\ (sent - got) * 100 > LossWarning * sent

Probe(at, s) == checksAt' = at /\ subject' = s /\ sent' = 0 /\ got' = 0 /\ deaf' = TRUE

\* Both rules about the gateway, from one check that is over.
ObserveGateway ==
  /\ checksAt = "gateway" /\ Checked
  /\ LET failing == (IF Success THEN {} ELSE {<<"gateway_unreachable", subject>>})
                      \cup (IF Lossy THEN {<<"high_packet_loss", subject>>} ELSE {})
     IN  Observe(failing, ({"gateway_unreachable", "high_packet_loss"} \X {subject}) \ failing)
  /\ Probe("targets", None) /\ silent' = {}
  /\ UNCHANGED <<world, manager, net, answer, todo, lookups, allFailed>>

CheckTarget(t) ==
  /\ checksAt = "targets" /\ t \in todo
  /\ todo' = todo \ {t}
  /\ Probe("target", t)
  /\ UNCHANGED <<world, manager, net, answer, lookups, allFailed, silent, open>>

ObserveTarget ==
  /\ checksAt = "target" /\ Checked
  /\ allFailed' = (allFailed /\ ~Success)
  /\ ObserveKey("high_packet_loss", subject, Lossy)
  /\ Probe("targets", None)
  /\ UNCHANGED <<world, manager, net, answer, todo, lookups, silent>>

ObserveInternet ==
  /\ checksAt = "targets" /\ todo = {}
  /\ ObserveKey("internet_unreachable", "internet", allFailed)
  /\ checksAt' = "domains" /\ silent' = {}
  /\ UNCHANGED <<world, manager, net, probing, answer, todo, lookups, allFailed>>

\* The A lookup of a domain; a cancelled one fails.
LookUp(d) ==
  /\ checksAt = "domains" /\ d \in lookups
  /\ lookups' = lookups \ {d}
  /\ answer' = IF ~DomainUp \/ stopping THEN "failed"
               ELSE IF "slow dns" \in faults THEN "slow" ELSE "quick"
  /\ silent' = IF DomainUp THEN silent ELSE silent \cup {<<"domain", d>>}
  /\ checksAt' = "domain" /\ subject' = d
  /\ UNCHANGED <<world, manager, net, sent, got, deaf, todo, allFailed, open>>

\* It decides, when the AAAA lookup is over too; a failed one is never slow.
ObserveDomain ==
  /\ checksAt = "domain"
  /\ LET failing == (IF answer = "failed" THEN {<<"dns_failure", subject>>} ELSE {})
                      \cup (IF answer = "slow" THEN {<<"high_dns_latency", subject>>} ELSE {})
     IN  Observe(failing, (DNSRules \X {subject}) \ failing)
  /\ checksAt' = "domains" /\ subject' = None /\ answer' = "none" /\ silent' = {}
  /\ UNCHANGED <<world, manager, net, sent, got, deaf, todo, lookups, allFailed>>

EndChecks ==
  /\ checksAt = "domains" /\ lookups = {}
  /\ Idle
  /\ UNCHANGED <<world, manager, net, open>>

----------------------------------------------------------------------------
(* RunMemoryCycle and RunLoadCycle                                         *)

RunMemoryCycle ==
  /\ ~stopping
  /\ LET failing == (IF "memory" \in faults THEN {<<"high_memory_usage", "system">>} ELSE {})
               \cup (IF "swap" \in faults THEN {<<"high_swap_usage", "system">>} ELSE {})
               \cup (IF "daemon" \in faults THEN {<<"daemon_memory_high", "daemon">>} ELSE {})
     IN  Observe(failing, {<<"high_memory_usage", "system">>, <<"high_swap_usage", "system">>,
                           <<"daemon_memory_high", "daemon">>} \ failing)
  /\ UNCHANGED <<world, manager, net, checks>>

RunLoadCycle ==
  /\ ~stopping
  /\ ObserveKey("high_system_load", "system", "load" \in faults)
  /\ UNCHANGED <<world, manager, net, checks>>

----------------------------------------------------------------------------
(* The sweep: an alert whose source is no longer observed is resolved.     *)

Observed ==
  ({"interface_down"} \X {i \in Ifaces : link[i] # "gone"})
  \cup ({"dropped_packets_increasing"} \X {i \in Ifaces : link[i] # "gone"})
  \cup (IF latencyOn
        THEN ({"gateway_unreachable", "high_packet_loss"} \X {CheckedGateway})
             \cup ({"high_packet_loss"} \X Targets) \cup {<<"internet_unreachable", "internet">>}
        ELSE {})
  \cup (IF dnsOn THEN DNSRules \X Domains ELSE {})
  \cup ({"high_memory_usage", "high_swap_usage", "high_system_load"} \X {"system"})
  \cup {<<"daemon_memory_high", "daemon">>}

Sweep ==
  /\ ~stopping
  /\ \E k \in open \ Observed : open' = open \ {k}
  /\ UNCHANGED <<world, manager, net, checks>>

----------------------------------------------------------------------------
(* The world and the operator                                              *)

Change ==
  /\ changes < MaxChanges
  /\ changes' = changes + 1
  /\ UNCHANGED <<stopping, manager, net, checks, open>>

\* The uplink of the machine, by the same preference as the kernel's.
Uplink(l, r, o) ==
  IF o # None THEN o
  ELSE IF r # {} THEN FirstOf(r) ELSE FirstOf({i \in Ifaces : l[i] = "up"})

\* A link goes up or down, or its interface away; a route needs the interface.
ChangeLink(i) ==
  /\ Change
  /\ \E state \in {"up", "down", "gone"} \ {link[i]} :
       /\ link' = [link EXCEPT ![i] = state]
       /\ \/ routes' = routes \ {i}
          \/ state # "gone" /\ routes' = routes
  /\ used' = used \cup {Uplink(link', routes', override)}
  /\ UNCHANGED <<faults, latencyOn, dnsOn, override, pin>>

ChangeRoute(i) ==
  /\ Change
  /\ \/ i \in routes /\ routes' = routes \ {i}
     \/ i \in Up \ routes /\ routes' = routes \cup {i}
  /\ used' = used \cup {Uplink(link, routes', override)}
  /\ UNCHANGED <<link, faults, latencyOn, dnsOn, override, pin>>

ChangeFault(f) ==
  /\ Change
  /\ faults' = IF f \in faults THEN faults \ {f} ELSE faults \cup {f}
  /\ UNCHANGED <<link, routes, latencyOn, dnsOn, override, pin, used>>

ChangeSettings ==
  /\ Change
  /\ \/ latencyOn' = ~latencyOn /\ UNCHANGED <<dnsOn, override, pin>>
     \/ dnsOn' = ~dnsOn /\ UNCHANGED <<latencyOn, override, pin>>
     \/ UNCHANGED <<latencyOn, dnsOn, pin>> /\ \E o \in Overrides \ {override} : override' = o
     \/ UNCHANGED <<latencyOn, dnsOn, override>> /\ \E g \in Pins \ {pin} : pin' = g
  /\ used' = used \cup {Uplink(link, routes, override')}
  /\ UNCHANGED <<link, routes, faults>>

Stop ==
  /\ Shutdown /\ ~stopping
  /\ changes < MaxChanges /\ changes' = changes + 1
  /\ stopping' = TRUE
  /\ UNCHANGED <<link, routes, faults, latencyOn, dnsOn, override, pin, used, manager, net, checks,
                 open>>

Init ==
  /\ link \in [Ifaces -> {"up", "down"}]
  /\ routes = Up
  /\ faults \in {{}} \cup {{f} : f \in Faults} /\ stopping = FALSE
  /\ latencyOn = TRUE /\ dnsOn = TRUE /\ override = None /\ pin = None /\ changes = 0
  /\ used = {Uplink(link, routes, None)}
  /\ primary = None /\ gateway = None /\ lastPrimary = None /\ counted = {}
  /\ sample = NoSample /\ netAt = "idle"
  /\ checksAt = "idle" /\ subject = None /\ sent = 0 /\ got = 0 /\ deaf = TRUE
  /\ answer = "none" /\ todo = {} /\ lookups = {} /\ allFailed = TRUE /\ silent = {}
  /\ open = {}

NetworkLoop == Collect \/ StoreRoute \/ ObserveLinks
ChecksLoop  == BeginChecks \/ Echo \/ ObserveGateway \/ (\E t \in Targets : CheckTarget(t))
               \/ ObserveTarget \/ ObserveInternet \/ (\E d \in Domains : LookUp(d))
               \/ ObserveDomain \/ EndChecks

Next ==
  \/ NetworkLoop \/ ChecksLoop \/ RunMemoryCycle \/ RunLoadCycle \/ Sweep
  \/ \E i \in Ifaces : ChangeLink(i) \/ ChangeRoute(i)
  \/ \E f \in Faults : ChangeFault(f)
  \/ ChangeSettings \/ Stop

Spec == Init /\ [][Next]_vars

\* The timers of the loops fire again and again, and so does the sweep's.
FairSpec ==
  /\ Spec
  /\ WF_vars(NetworkLoop) /\ WF_vars(ChecksLoop)
  /\ WF_vars(RunMemoryCycle) /\ WF_vars(RunLoadCycle) /\ WF_vars(Sweep)

----------------------------------------------------------------------------
(* Properties                                                              *)

\* A port the machine never used is never reported, however often it goes up
\* and down: link alerts name only interfaces that carried its traffic.
UnusedPortNeverReported ==
  \A i \in Ifaces : <<"interface_down", i>> \in open => i \in used

\* No alert without a failure: whatever the world does between the echoes of a
\* check and before it is observed, an alert opens only if what it names really
\* gave no answer to the whole of a check of this cycle, being out of reach or
\* losing every echo, and the internet alert only if that holds of every target;
\* also when the daemon stops in the middle of a cycle.
NoFalseAlarm ==
  [][\A k \in open' \ open :
       /\ k[1] = "gateway_unreachable" => <<"gateway", k[2]>> \in silent
       /\ k[1] = "internet_unreachable" => {"target"} \X Targets \subseteq silent
       /\ k[1] = "dns_failure" => <<"domain", k[2]>> \in silent]_vars

\* The gateway to check: the pinned one, that of the uplink, or the last known.
Depended ==
  LET i == Uplink(link, routes, override)
  IN  IF pin # None THEN pin
      ELSE IF ParseGateway(i) # None THEN ParseGateway(i) ELSE gateway

Watched == LET i == Uplink(link, routes, override) IN IF i # None THEN i ELSE lastPrimary

\* What is really wrong, layer by layer.
TrueLayer ==
  LET cut      == latencyOn /\ Depended # None /\ ~Reaches(Depended)
      offline  == latencyOn /\ \A t \in Targets : ~TargetUp(t)
      nameless == dnsOn /\ (~DomainUp \/ "slow dns" \in faults)
      linkBad  == /\ Watched # None /\ link[Watched] # "gone"
                  /\ link[Watched] = "down" \/ "drops" \in faults
      lossy    == /\ latencyOn /\ "loss" \in faults
                  /\ Reaches(Depended) \/ \E t \in Targets : TargetUp(t)
  IN  CASE cut -> "local network"
        [] ~cut /\ offline -> "internet"
        [] ~cut /\ ~offline /\ nameless -> "dns"
        [] OTHER -> IF linkBad THEN "interface"
                    ELSE IF lossy /\ "load" \in faults THEN "load"
                    ELSE IF faults \cap {"memory", "swap"} # {} THEN "memory"
                    ELSE IF "load" \in faults THEN "load"
                    ELSE IF "daemon" \in faults THEN "daemon"
                    ELSE IF lossy THEN "no pattern" ELSE "healthy"

\* Once the network stops changing, the diagnosis settles on the layer that is
\* really at fault, and on "healthy" if none is: alerts of interfaces, gateways
\* and checks that are no longer in use do not linger, and the loops agree.
\* While any number of echoes may be lost the checks themselves are a matter of
\* luck, and nothing is claimed.
DiagnosisSettles ==
  <>[](stopping \/ "heavy loss" \in faults \/ Diagnose({k[1] : k \in open}) = TrueLayer)
=============================================================================
