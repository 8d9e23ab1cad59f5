----------------------------- MODULE Diagnosis ------------------------------
(***************************************************************************)
(* What the open alerts mean: ComputeScore (engine/health_score.go) and    *)
(* Diagnose (engine/explanations.go) as functions of the rules that have   *)
(* an open alert.  Neither looks at sources, so neither does this module.  *)
(***************************************************************************)
EXTENDS Integers

(***************************************************************************)
(* The rules of engine/alerts.go, by the category whose cap limits them.   *)
(***************************************************************************)
ConnectivityRules == {"gateway_unreachable", "internet_unreachable", "high_packet_loss"}
DNSRules          == {"dns_failure", "high_dns_latency"}
InterfaceRules    == {"interface_down", "dropped_packets_increasing"}
MemoryRules       == {"high_memory_usage", "high_swap_usage", "daemon_memory_high",
                      "high_system_load"}
Rules == ConnectivityRules \cup DNSRules \cup InterfaceRules \cup MemoryRules
           \cup {"traffic_spike", "new_device"}

\* A rule contributes its points once, however many sources it is open for.
Points(open, rule, points) == IF rule \in open THEN points ELSE 0

AtMost(cap, points) == IF points > cap THEN cap ELSE points

Connectivity(open) ==
  AtMost(40, Points(open, "gateway_unreachable", 40)
             + Points(open, "internet_unreachable", 30)
             + Points(open, "high_packet_loss", 15))

DNS(open) ==
  AtMost(25, Points(open, "dns_failure", 20) + Points(open, "high_dns_latency", 10))

Interface(open) ==
  AtMost(20, Points(open, "interface_down", 15)
             + Points(open, "dropped_packets_increasing", 10))

Memory(open) ==
  AtMost(20, Points(open, "high_memory_usage", 15) + Points(open, "high_swap_usage", 10)
             + Points(open, "daemon_memory_high", 5) + Points(open, "high_system_load", 10))

Traffic(open) == AtMost(5, Points(open, "traffic_spike", 5))

\* A new device costs nothing; the caps add up to more than a hundred.
ComputeScore(open) ==
  LET total == Connectivity(open) + DNS(open) + Interface(open) + Memory(open) + Traffic(open)
  IN  IF total > 100 THEN 0 ELSE 100 - total

HealthStatusFor(score) ==
  IF score >= 90 THEN "healthy" ELSE IF score >= 60 THEN "degraded" ELSE "critical"

(***************************************************************************)
(* Diagnose: patterns in order of priority, each named for the layer it    *)
(* blames.  The first that matches is the answer; the last always does.    *)
(***************************************************************************)
Patterns(open) ==
  << [layer |-> "local network", matches |-> "gateway_unreachable" \in open],
     [layer |-> "internet",      matches |-> "internet_unreachable" \in open],
     [layer |-> "dns",           matches |-> open \cap DNSRules # {}],
     [layer |-> "congestion",    matches |-> {"traffic_spike", "high_packet_loss"} \subseteq open],
     [layer |-> "interface",     matches |-> open \cap InterfaceRules # {}],
     [layer |-> "load",          matches |-> {"high_system_load", "high_packet_loss"} \subseteq open],
     [layer |-> "memory",        matches |-> open \cap {"high_memory_usage", "high_swap_usage"} # {}],
     [layer |-> "load",          matches |-> "high_system_load" \in open],
     [layer |-> "daemon",        matches |-> "daemon_memory_high" \in open],
     [layer |-> "no pattern",    matches |-> open # {}],
     [layer |-> "healthy",       matches |-> TRUE] >>

First(patterns) ==
  CHOOSE i \in DOMAIN patterns :
    patterns[i].matches /\ \A j \in 1..(i - 1) : ~patterns[j].matches

Diagnose(open) == Patterns(open)[First(Patterns(open))].layer

DiagnosisStatus(layer) ==
  CASE layer \in {"local network", "internet"} -> "critical"
    [] layer = "healthy" -> "healthy"
    [] OTHER -> "warning"
=============================================================================
