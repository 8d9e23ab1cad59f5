-------------------------- MODULE AlertLifecycle ---------------------------
(***************************************************************************)
(* What the alert engine promises about the alerts of one key, without     *)
(* goroutines, counters or tables.  A key's alert opens only on enough     *)
(* failing observations in a row and only while the key has none open;     *)
(* every opening is a new alert, numbered in order; an alert that closed   *)
(* never opens again.  A restart forgets observations, never alerts.       *)
(***************************************************************************)
EXTENDS Naturals

CONSTANTS
  Keys,       \* rule|source
  Enough      \* numbers of failing observations that may suffice, by key

VARIABLES
  open,       \* the number of the key's open alert, 0 if it has none
  last,       \* the number of the newest alert
  evidence    \* failing observations of the key in a row

vars == <<open, last, evidence>>

Init ==
  /\ open = [k \in Keys |-> 0]
  /\ last = 0
  /\ evidence = [k \in Keys |-> 0]

Observe(k) ==
  /\ \E n \in {0, evidence[k] + 1} : evidence' = [evidence EXCEPT ![k] = n]
  /\ UNCHANGED <<open, last>>

Open(k) ==
  /\ open[k] = 0
  /\ \E n \in Enough[k] : evidence[k] >= n
  /\ last' = last + 1
  /\ open' = [open EXCEPT ![k] = last + 1]
  /\ UNCHANGED evidence

Close(k) ==
  /\ open[k] # 0
  /\ open' = [open EXCEPT ![k] = 0]
  /\ UNCHANGED <<last, evidence>>

Restart ==
  /\ evidence' = [k \in Keys |-> 0]
  /\ UNCHANGED <<open, last>>

Next == \/ \E k \in Keys : Observe(k) \/ Open(k) \/ Close(k)
        \/ Restart

Spec == Init /\ [][Next]_vars
=============================================================================
