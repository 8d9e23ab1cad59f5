--------------------------- MODULE DevicesProofs ---------------------------
(***************************************************************************)
(* What the devices table and its alerts promise, for any addresses,       *)
(* devices and ages, and any number of cycles, changes of the network,     *)
(* failing statements and restarts.                                        *)
(***************************************************************************)
EXTENDS Devices, TLAPS

Keys  == IPs \X Devs
Names == {NoName} \cup {NameOf[d] : d \in Devs}
Row   == [name : Names, label : BOOLEAN, age : Nat]

NetworkOK ==
  /\ holder \in [IPs -> Devs \cup {NoDev}] /\ talking \subseteq Devs
  /\ resolve \in BOOLEAN /\ changes \in Nat

CacheOK ==
  /\ DOMAIN cache \subseteq IPs
  /\ cache \in [DOMAIN cache -> [name : Names, age : Nat]]

CycleOK ==
  /\ at \in {"idle", "resolving", "storing"} /\ age \in Nat
  /\ DOMAIN seen \subseteq IPs /\ seen \in [DOMAIN seen -> Devs]
  /\ names \in [DOMAIN seen -> Names]
  /\ todo \subseteq DOMAIN seen /\ stored \subseteq Keys /\ fresh \subseteq Keys

TablesOK ==
  /\ DOMAIN rows \subseteq Keys /\ rows \in [DOMAIN rows -> Row]
  /\ DOMAIN open \subseteq Keys /\ open \in [DOMAIN open -> Nat]
  /\ alerted \subseteq Keys

TypeOK == NetworkOK /\ CacheOK /\ CycleOK /\ TablesOK

\* An alert is of a row, and at most as old as its row; a row that waits for
\* its announcement has had none.
AlertsOfRows ==
  /\ stored \subseteq DOMAIN rows /\ fresh \subseteq DOMAIN rows
  /\ fresh \cap alerted = {}
  /\ DOMAIN open \subseteq alerted /\ alerted \subseteq DOMAIN rows
  /\ \A key \in DOMAIN open : rows[key].age >= open[key] \/ rows[key].age >= Fresh

IInv == TypeOK /\ AlertsOfRows

USE DevicesAssumption

----------------------------------------------------------------------------
(* Lemmas                                                                  *)

LEMMA InitInv == Init => IInv
BY DEF Init, IInv, TypeOK, NetworkOK, CacheOK, CycleOK, TablesOK, AlertsOfRows, Empty

LEMMA PutFacts ==
  ASSUME NEW f, NEW x, NEW v
  PROVE  /\ DOMAIN Put(f, x, v) = DOMAIN f \cup {x}
         /\ Put(f, x, v)[x] = v
         /\ \A y \in DOMAIN f : y # x => Put(f, x, v)[y] = f[y]
         /\ \A T : v \in T /\ f \in [DOMAIN f -> T] => Put(f, x, v) \in [DOMAIN f \cup {x} -> T]
BY DEF Put

LEMMA RemoveFacts ==
  ASSUME NEW f, NEW S
  PROVE  /\ DOMAIN Remove(f, S) = DOMAIN f \ S
         /\ \A y \in DOMAIN f \ S : Remove(f, S)[y] = f[y]
         /\ \A T : f \in [DOMAIN f -> T] => Remove(f, S) \in [DOMAIN f \ S -> T]
BY DEF Remove

LEMMA OlderFacts ==
  ASSUME NEW n \in Nat, NEW limit \in Nat
  PROVE  /\ Older(n, limit) \in Nat
         /\ Older(n, limit) >= n /\ Older(n, limit) <= n + 1
         /\ n < limit => Older(n, limit) = n + 1
BY DEF Older

\* The row a device has after UpsertDevice: what it had, or a new one.
LEMMA UpsertedFacts ==
  ASSUME TablesOK, NEW key \in Keys, NEW name \in Names
  PROVE  /\ Upserted(key, name) \in Row
         /\ key \in DOMAIN rows =>
              /\ Upserted(key, name).label = rows[key].label
              /\ Upserted(key, name).age = rows[key].age
              /\ rows[key].name # NoName => Upserted(key, name).name # NoName
<1>1. CASE key \notin DOMAIN rows
  BY <1>1 DEF Upserted, Row
<1>2. CASE key \in DOMAIN rows
  <2>1. rows[key] \in Row
    BY <1>2 DEF TablesOK
  <2> QED
    BY <1>2, <2>1 DEF Upserted, Row
<1> QED
  BY <1>1, <1>2

\* Rows that stay, with their ages, and alerts that stay.
LEMMA SameTables ==
  ASSUME IInv, UNCHANGED <<rows, open, alerted>>, stored' \subseteq stored, fresh' \subseteq fresh
  PROVE  TablesOK' /\ AlertsOfRows'
BY DEF IInv, TypeOK, TablesOK, AlertsOfRows

----------------------------------------------------------------------------
(* The invariant                                                           *)

\* What UpsertDevice does to the table, announced or not.
LEMMA UpsertTables ==
  ASSUME IInv, NEW key \in Keys, NEW name \in Names,
         rows' = Put(rows, key, Upserted(key, name)),
         stored' \subseteq stored \cup {key}, fresh' \subseteq {key} \ DOMAIN rows,
         UNCHANGED <<open, alerted>>
  PROVE  TablesOK' /\ AlertsOfRows'
<1>0. TablesOK /\ AlertsOfRows
  BY DEF IInv, TypeOK
<1>1. /\ Upserted(key, name) \in Row
      /\ key \in DOMAIN rows => Upserted(key, name).age = rows[key].age
  BY <1>0, UpsertedFacts
<1> DEFINE row == Upserted(key, name)
<1> HIDE DEF row
<1>2. /\ DOMAIN rows' = DOMAIN rows \cup {key} /\ rows'[key] = row
      /\ \A y \in DOMAIN rows : y # key => rows'[y] = rows[y]
  <2>1. rows' = Put(rows, key, row)
    BY DEF row
  <2> QED
    BY <2>1 DEF Put
<1>3. rows' \in [DOMAIN rows' -> Row]
  <2>1. rows \in [DOMAIN rows -> Row] /\ row \in Row
    BY <1>0, <1>1 DEF TablesOK, row
  <2>2. rows' \in [DOMAIN rows \cup {key} -> Row]
    BY <2>1, PutFacts DEF row
  <2> QED
    BY <1>2, <2>2
<1>4. TablesOK'
  BY <1>0, <1>2, <1>3 DEF TablesOK
<1>5. \A k \in DOMAIN rows : rows'[k].age = rows[k].age
  BY <1>1, <1>2 DEF row
<1>6. AlertsOfRows'
  BY <1>0, <1>2, <1>5 DEF AlertsOfRows
<1> QED
  BY <1>4, <1>6

LEMMA InvStep == IInv /\ [Next]_vars => IInv'
<1> SUFFICES ASSUME IInv, [Next]_vars PROVE IInv'
  OBVIOUS
<1>0. NetworkOK /\ CacheOK /\ CycleOK /\ TablesOK /\ AlertsOfRows
  BY DEF IInv, TypeOK
<1>q. ASSUME NetworkOK', CacheOK', CycleOK', TablesOK' /\ AlertsOfRows' PROVE IInv'
  BY <1>q DEF IInv, TypeOK
<1>1. CASE Collect
  <2> DEFINE listed == {ip \in IPs : holder[ip] # NoDev}
  <2>1. TablesOK' /\ AlertsOfRows' /\ NetworkOK'
    BY <1>0, <1>1, SameTables DEF Collect, network, NetworkOK
  <2>2. CacheOK'
    <3>1. CASE cache' = Remove(cache, Stale)
      <4>1. /\ DOMAIN cache' = DOMAIN cache \ Stale
            /\ cache' \in [DOMAIN cache \ Stale -> [name : Names, age : Nat]]
        BY <1>0, <3>1, RemoveFacts DEF CacheOK
      <4> QED
        BY <1>0, <4>1 DEF CacheOK
    <3>2. CASE cache' = cache
      BY <1>0, <3>2 DEF CacheOK
    <3> QED
      BY <1>1, <3>1, <3>2 DEF Collect
  <2>3. CycleOK'
    <3>1. seen' \in [listed -> Devs] /\ DOMAIN seen' = listed
      BY <1>0, <1>1 DEF Collect, NetworkOK
    <3>2. \A ip \in DOMAIN cache : cache[ip].name \in Names
      BY <1>0 DEF CacheOK
    <3>3. names' \in [listed -> Names]
      BY <1>1, <3>2 DEF Collect, Cached, Names
    <3>4. todo' \subseteq listed
      BY <1>1 DEF Collect
    <3> QED
      BY <1>0, <1>1, <3>1, <3>3, <3>4 DEF Collect, CycleOK
  <2> QED
    BY <1>q, <2>1, <2>2, <2>3
<1>2. ASSUME NEW ip \in IPs, Resolve(ip) PROVE IInv'
  <2>1. TablesOK' /\ AlertsOfRows' /\ NetworkOK'
    BY <1>0, <1>2, SameTables DEF Resolve, network, NetworkOK
  <2>2. ResolveOne(ip) \in Names
    BY <1>0 DEF ResolveOne, Names, NetworkOK
  <2>3. CacheOK'
    <3> DEFINE entry == [name |-> ResolveOne(ip), age |-> age]
    <3>1. entry \in [name : Names, age : Nat]
      BY <1>0, <2>2 DEF CycleOK
    <3> HIDE DEF entry
    <3>2. cache' = Put(cache, ip, entry)
      BY <1>2 DEF Resolve, entry
    <3>3. /\ DOMAIN cache' = DOMAIN cache \cup {ip}
          /\ cache' \in [DOMAIN cache \cup {ip} -> [name : Names, age : Nat]]
      BY <1>0, <3>1, <3>2, PutFacts DEF CacheOK
    <3> QED
      BY <1>0, <3>3 DEF CacheOK
  <2>4. CycleOK'
    BY <1>0, <1>2, <2>2 DEF Resolve, CycleOK
  <2> QED
    BY <1>q, <2>1, <2>3, <2>4
<1>3. CASE Collected
  <2>1. TablesOK' /\ AlertsOfRows' /\ NetworkOK'
    BY <1>0, <1>3, SameTables DEF Collected, network, NetworkOK
  <2>2. CacheOK' /\ CycleOK'
    BY <1>0, <1>3 DEF Collected, CacheOK, CycleOK
  <2> QED
    BY <1>q, <2>1, <2>2
<1>4. ASSUME NEW ip \in IPs, Upsert(ip) PROVE IInv'
  <2> DEFINE key == <<ip, seen[ip]>>
  <2>1. key \in Keys /\ names[ip] \in Names /\ fresh = {}
    BY <1>0, <1>4 DEF Upsert, CycleOK, Keys
  <2>2. NetworkOK' /\ CacheOK'
    BY <1>0, <1>4 DEF Upsert, Change, NetworkOK, CacheOK
  <2>3. CycleOK'
    BY <1>0, <1>4, <2>1 DEF Upsert, CycleOK
  <2>4. \/ /\ rows' = Put(rows, key, Upserted(key, names[ip]))
           /\ stored' \subseteq stored \cup {key} /\ fresh' \subseteq {key} \ DOMAIN rows
        \/ UNCHANGED <<rows, stored, fresh>>
    BY <1>4, <2>1 DEF Upsert
  <2>5. UNCHANGED <<open, alerted>>
    BY <1>4 DEF Upsert
  <2> HIDE DEF key
  <2>6. TablesOK' /\ AlertsOfRows'
    BY <2>1, <2>4, <2>5, UpsertTables, SameTables
  <2> QED
    BY <1>q, <2>2, <2>3, <2>6
<1>5. CASE Announce
  <2>1. NetworkOK' /\ CacheOK' /\ CycleOK'
    BY <1>0, <1>5 DEF Announce, Change, NetworkOK, CacheOK, CycleOK
  <2>2. CASE /\ open' = [k \in DOMAIN open \cup fresh |-> IF k \in fresh THEN 0 ELSE open[k]]
             /\ alerted' = alerted \cup fresh
    <3>1. TablesOK'
      BY <1>0, <1>5, <2>2 DEF Announce, TablesOK, CycleOK
    <3>2. \A k \in DOMAIN open' : rows[k].age >= open'[k] \/ rows[k].age >= Fresh
      <4>1. \A k \in fresh : rows[k].age \in Nat
        BY <1>0 DEF AlertsOfRows, TablesOK, Row
      <4> QED
        BY <1>0, <2>2, <4>1 DEF AlertsOfRows
    <3> QED
      BY <1>q, <1>0, <1>5, <2>1, <2>2, <3>1, <3>2 DEF Announce, AlertsOfRows
  <2>3. CASE UNCHANGED <<open, alerted>>
    <3>1. UNCHANGED <<rows, stored>> /\ fresh' = {}
      BY <1>5 DEF Announce
    <3> QED
      BY <1>q, <2>1, <2>3, <3>1, SameTables
  <2> QED
    BY <1>5, <2>2, <2>3 DEF Announce
<1>6. ASSUME NEW S, open' = Remove(open, S), UNCHANGED <<rows, alerted>>,
             stored' \subseteq stored, fresh' \subseteq fresh
      PROVE  TablesOK' /\ AlertsOfRows'
  <2>1. /\ DOMAIN open' = DOMAIN open \ S
        /\ \A y \in DOMAIN open' : open'[y] = open[y]
        /\ open' \in [DOMAIN open \ S -> Nat]
    BY <1>0, <1>6 DEF Remove, TablesOK
  <2> QED
    BY <1>0, <1>6, <2>1 DEF TablesOK, AlertsOfRows
<1>7. CASE ResolveNewDeviceAlerts
  <2>1. TablesOK' /\ AlertsOfRows'
    BY <1>6, <1>7 DEF ResolveNewDeviceAlerts
  <2>2. NetworkOK' /\ CacheOK'
    BY <1>0, <1>7 DEF ResolveNewDeviceAlerts, network, NetworkOK, CacheOK
  <2>3. CycleOK'
    BY <1>0, <1>7 DEF ResolveNewDeviceAlerts, CycleOK, Empty
  <2> QED
    BY <1>q, <2>1, <2>2, <2>3
<1>8. CASE Sweep
  <2>1. TablesOK' /\ AlertsOfRows'
    BY <1>6, <1>8 DEF Sweep, cycle
  <2>2. NetworkOK' /\ CacheOK' /\ CycleOK'
    BY <1>0, <1>8 DEF Sweep, network, cycle, NetworkOK, CacheOK, CycleOK
  <2> QED
    BY <1>q, <2>1, <2>2
<1>9. CASE Tick
  <2>1. NetworkOK'
    BY <1>0, <1>9 DEF Tick, network, NetworkOK
  <2>2. CacheOK'
    <3>1. Oldest \in Nat
      BY DEF Oldest
    <3>2. DOMAIN cache' = DOMAIN cache
      BY <1>9 DEF Tick
    <3>3. \A ip \in DOMAIN cache :
            /\ cache[ip] \in [name : Names, age : Nat] /\ Older(cache[ip].age, Oldest) \in Nat
      BY <1>0, <3>1, OlderFacts DEF CacheOK
    <3>4. \A ip \in DOMAIN cache : cache'[ip] = [cache[ip] EXCEPT !.age = Older(@, Oldest)]
      BY <1>9 DEF Tick
    <3>5. \A ip \in DOMAIN cache : cache'[ip] \in [name : Names, age : Nat]
      BY <3>3, <3>4
    <3>6. cache' = [ip \in DOMAIN cache |-> cache'[ip]]
      BY <1>9 DEF Tick
    <3> QED
      BY <1>0, <3>2, <3>5, <3>6 DEF CacheOK
  <2>3. CycleOK'
    BY <1>0, <1>9 DEF Tick, CycleOK
  <2>4. /\ DOMAIN rows' = DOMAIN rows /\ rows' \in [DOMAIN rows -> Row]
        /\ \A key \in DOMAIN rows : rows'[key].age = Older(rows[key].age, Fresh)
    <3>1. \A key \in DOMAIN rows : rows[key] \in Row /\ Older(rows[key].age, Fresh) \in Nat
      BY <1>0, OlderFacts DEF TablesOK, Row
    <3>2. \A key \in DOMAIN rows : rows'[key] = [rows[key] EXCEPT !.age = Older(@, Fresh)]
      BY <1>9 DEF Tick
    <3>3. \A key \in DOMAIN rows :
            rows'[key] \in Row /\ rows'[key].age = Older(rows[key].age, Fresh)
      BY <3>1, <3>2 DEF Row
    <3>4. DOMAIN rows' = DOMAIN rows /\ rows' = [key \in DOMAIN rows |-> rows'[key]]
      BY <1>9 DEF Tick
    <3> QED
      BY <3>3, <3>4
  <2>5. /\ DOMAIN open' = DOMAIN open /\ open' \in [DOMAIN open -> Nat]
        /\ \A key \in DOMAIN open : open'[key] \in Nat /\ open'[key] <= open[key] + 1
    <3>1. \A key \in DOMAIN open : /\ Older(open[key], StaleAfter + 1) \in Nat
                                   /\ Older(open[key], StaleAfter + 1) <= open[key] + 1
      BY <1>0, OlderFacts DEF TablesOK
    <3>2. open' = [key \in DOMAIN open |-> Older(open[key], StaleAfter + 1)]
      BY <1>9 DEF Tick
    <3> QED
      BY <3>1, <3>2
  <2>6. TablesOK'
    BY <1>0, <1>9, <2>4, <2>5 DEF Tick, TablesOK
  <2>7. ASSUME NEW key \in DOMAIN open
        PROVE  rows'[key].age >= open'[key] \/ rows'[key].age >= Fresh
    <3>1. rows[key].age \in Nat /\ open[key] \in Nat /\ key \in DOMAIN rows
      BY <1>0 DEF AlertsOfRows, TablesOK, Row
    <3>2. rows[key].age >= open[key] \/ rows[key].age >= Fresh
      BY <1>0 DEF AlertsOfRows
    <3>3. /\ rows'[key].age \in Nat /\ rows'[key].age >= rows[key].age
          /\ rows[key].age < Fresh => rows'[key].age = rows[key].age + 1
      BY <2>4, <3>1, OlderFacts
    <3> QED
      BY <2>5, <3>1, <3>2, <3>3
  <2>8. AlertsOfRows'
    BY <1>0, <1>9, <2>4, <2>5, <2>7 DEF Tick, AlertsOfRows
  <2> QED
    BY <1>q, <2>1, <2>2, <2>3, <2>6, <2>8
<1>10. ASSUME NEW key \in IPs \X Devs, Patch(key) PROVE IInv'
  <2>1. NetworkOK' /\ CacheOK' /\ CycleOK'
    BY <1>0, <1>10 DEF Patch, Change, cycle, NetworkOK, CacheOK, CycleOK
  <2>2. /\ rows[key] \in Row /\ rows' = [rows EXCEPT ![key].label = TRUE]
        /\ key \in DOMAIN rows
    BY <1>0, <1>10 DEF Patch, TablesOK
  <2>3. DOMAIN rows' = DOMAIN rows /\ rows' \in [DOMAIN rows -> Row]
    BY <1>0, <2>2 DEF TablesOK, Row
  <2>4. \A k \in DOMAIN rows : rows'[k].age = rows[k].age
    BY <2>2 DEF Row
  <2> QED
    BY <1>q, <1>0, <1>10, <2>1, <2>3, <2>4 DEF Patch, cycle, TablesOK, AlertsOfRows
<1>11. CASE \/ \E ip \in IPs : ChangeHolder(ip)
            \/ \E d \in Devs : ChangeTalking(d)
            \/ ChangeResolve
  <2>1. NetworkOK'
    <3>1. ASSUME NEW ip \in IPs, ChangeHolder(ip) PROVE NetworkOK'
      BY <1>0, <3>1 DEF ChangeHolder, Change, NetworkOK
    <3>2. ASSUME NEW d \in Devs, ChangeTalking(d) PROVE NetworkOK'
      <4>1. talking' \subseteq Devs
        BY <1>0, <3>2 DEF ChangeTalking, NetworkOK
      <4> QED
        BY <1>0, <3>2, <4>1 DEF ChangeTalking, Change, NetworkOK
    <3>3. CASE ChangeResolve
      <4>1. resolve' \in BOOLEAN
        BY <1>0, <3>3 DEF ChangeResolve, NetworkOK
      <4> QED
        BY <1>0, <3>3, <4>1 DEF ChangeResolve, Change, NetworkOK
    <3> QED
      BY <1>11, <3>1, <3>2, <3>3
  <2>2. UNCHANGED <<cache, cycle, rows, open, alerted>>
    BY <1>11 DEF ChangeHolder, ChangeTalking, ChangeResolve
  <2>3. CacheOK' /\ CycleOK'
    BY <1>0, <2>2 DEF cycle, CacheOK, CycleOK
  <2>4. TablesOK' /\ AlertsOfRows'
    BY <2>2, SameTables DEF cycle
  <2> QED
    BY <1>q, <2>1, <2>3, <2>4
<1>12. CASE Restart
  <2>1. NetworkOK' /\ CacheOK' /\ CycleOK'
    BY <1>0, <1>12 DEF Restart, Change, NetworkOK, CacheOK, CycleOK, Empty
  <2>2. TablesOK' /\ AlertsOfRows'
    BY <1>12, SameTables DEF Restart
  <2> QED
    BY <1>q, <2>1, <2>2
<1>13. CASE UNCHANGED vars
  <2>1. NetworkOK' /\ CacheOK' /\ CycleOK'
    BY <1>0, <1>13 DEF vars, network, cycle, NetworkOK, CacheOK, CycleOK
  <2>2. TablesOK' /\ AlertsOfRows'
    BY <1>13, SameTables DEF vars, cycle
  <2> QED
    BY <1>q, <2>1, <2>2
<1> QED
  BY <1>1, <1>2, <1>3, <1>4, <1>5, <1>7, <1>8, <1>9, <1>10, <1>11, <1>12, <1>13
     DEF Next, DiscoveryCycle

----------------------------------------------------------------------------
(* Theorems                                                                *)

\* The rows, the cache and a cycle have the shapes the code gives them.
THEOREM TypeCorrect == Spec => []TypeOK
<1>1. IInv => TypeOK
  BY DEF IInv
<1> QED
  BY <1>1, InitInv, InvStep, PTL DEF Spec

\* The alerts a step opens, and the alerts it ends.
AlertOnce == /\ (DOMAIN open' \ DOMAIN open) \cap alerted = {}
             /\ \A key \in DOMAIN open \ DOMAIN open' : rows[key].age >= Fresh

LEMMA AlertOnceStep == IInv /\ [Next]_vars => AlertOnce
<1> SUFFICES ASSUME IInv, [Next]_vars PROVE AlertOnce
  OBVIOUS
<1>0. AlertsOfRows /\ TablesOK
  BY DEF IInv, TypeOK
<1>1. ASSUME DOMAIN open' = DOMAIN open PROVE AlertOnce
  BY <1>1 DEF AlertOnce
<1>2. CASE Announce
  BY <1>0, <1>2 DEF Announce, AlertsOfRows, AlertOnce
<1>3. CASE ResolveNewDeviceAlerts
  <2>1. DOMAIN open' = DOMAIN open \ NoLongerNew
    BY <1>3, RemoveFacts DEF ResolveNewDeviceAlerts
  <2> QED
    BY <2>1 DEF NoLongerNew, AlertOnce
<1>4. CASE Sweep
  <2>1. PICK key \in DOMAIN open : open[key] > StaleAfter /\ open' = Remove(open, {key})
    BY <1>4 DEF Sweep
  <2>2. DOMAIN open' = DOMAIN open \ {key}
    BY <2>1, RemoveFacts
  <2>3. open[key] \in Nat /\ rows[key].age \in Nat
    BY <1>0, <2>1 DEF AlertsOfRows, TablesOK, Row
  <2>4. rows[key].age >= Fresh
    BY <1>0, <2>1, <2>3 DEF AlertsOfRows
  <2> QED
    BY <2>2, <2>4 DEF AlertOnce
<1>5. CASE Tick
  BY <1>1, <1>5 DEF Tick
<1>6. CASE Collect \/ Collected \/ \E ip \in IPs : Resolve(ip) \/ Upsert(ip)
  <2>1. open' = open
    BY <1>6 DEF Collect, Collected, Resolve, Upsert
  <2> QED
    BY <1>1, <2>1
<1>7. CASE \/ \E key \in IPs \X Devs : Patch(key)
           \/ \E ip \in IPs : ChangeHolder(ip)
           \/ \E d \in Devs : ChangeTalking(d)
           \/ ChangeResolve \/ Restart \/ UNCHANGED vars
  <2>1. open' = open
    BY <1>7 DEF Patch, ChangeHolder, ChangeTalking, ChangeResolve, Restart, vars
  <2> QED
    BY <1>1, <2>1
<1> QED
  BY <1>2, <1>3, <1>4, <1>5, <1>6, <1>7 DEF Next, DiscoveryCycle

\* A device is announced once, whatever restarts and failed writes there are,
\* and neither the cycle nor the sweep ends the alert while the row is fresh:
\* the sweep because an alert is never older than its row.
THEOREM NewDeviceAlertOnceHolds == Spec => NewDeviceAlertOnce
<1>1. IInv /\ [Next]_vars =>
        [/\ (DOMAIN open' \ DOMAIN open) \cap alerted = {}
         /\ \A key \in DOMAIN open \ DOMAIN open' : rows[key].age >= Fresh]_vars
  BY AlertOnceStep DEF AlertOnce
<1>2. Spec => []IInv
  BY InitInv, InvStep, PTL DEF Spec
<1> QED
  BY <1>1, <1>2, PTL DEF Spec, NewDeviceAlertOnce

\* What a step leaves of the rows.
KnowledgeKept ==
  \A key \in DOMAIN rows :
    /\ key \in DOMAIN rows'
    /\ rows[key].label => rows'[key].label
    /\ rows[key].name # NoName => rows'[key].name # NoName

LEMMA KnowledgeStep == IInv /\ [Next]_vars => KnowledgeKept
<1> SUFFICES ASSUME IInv, [Next]_vars PROVE KnowledgeKept
  OBVIOUS
<1>0. TablesOK /\ CycleOK
  BY DEF IInv, TypeOK
<1>1. ASSUME rows' = rows PROVE KnowledgeKept
  BY <1>1 DEF KnowledgeKept
<1>2. ASSUME NEW ip \in IPs, Upsert(ip) PROVE KnowledgeKept
  <2> DEFINE key == <<ip, seen[ip]>>
  <2>1. key \in Keys /\ names[ip] \in Names
    BY <1>0, <1>2 DEF Upsert, CycleOK, Keys
  <2>2. CASE rows' = Put(rows, key, Upserted(key, names[ip]))
    <3> DEFINE row == Upserted(key, names[ip])
    <3>1. key \in DOMAIN rows => /\ row.label = rows[key].label
                                 /\ rows[key].name # NoName => row.name # NoName
      BY <1>0, <2>1, UpsertedFacts
    <3> HIDE DEF row
    <3>2. rows' = Put(rows, key, row)
      BY <2>2 DEF row
    <3>3. /\ DOMAIN rows' = DOMAIN rows \cup {key} /\ rows'[key] = row
          /\ \A y \in DOMAIN rows : y # key => rows'[y] = rows[y]
      BY <3>2 DEF Put
    <3> QED
      BY <3>1, <3>3 DEF KnowledgeKept
  <2>3. CASE rows' = rows
    BY <1>1, <2>3
  <2> QED
    BY <1>2, <2>2, <2>3 DEF Upsert
<1>3. CASE Tick
  <2>1. \A key \in DOMAIN rows : /\ key \in DOMAIN rows' /\ rows[key] \in Row
                                 /\ rows'[key] = [rows[key] EXCEPT !.age = Older(@, Fresh)]
    BY <1>0, <1>3 DEF Tick, TablesOK
  <2>2. \A key \in DOMAIN rows :
          rows'[key].label = rows[key].label /\ rows'[key].name = rows[key].name
    BY <2>1 DEF Row
  <2> QED
    BY <2>1, <2>2 DEF KnowledgeKept
<1>4. ASSUME NEW key \in IPs \X Devs, Patch(key) PROVE KnowledgeKept
  <2>1. \A k \in DOMAIN rows : rows[k] \in Row
    BY <1>0 DEF TablesOK
  <2> QED
    BY <1>4, <2>1 DEF Patch, KnowledgeKept, Row
<1>5. CASE Collect \/ Collected \/ Announce \/ ResolveNewDeviceAlerts \/ Sweep
           \/ \E ip \in IPs : Resolve(ip)
  BY <1>1, <1>5 DEF Collect, Collected, Announce, ResolveNewDeviceAlerts, Sweep, Resolve
<1>6. CASE \/ \E ip \in IPs : ChangeHolder(ip)
           \/ \E d \in Devs : ChangeTalking(d)
           \/ ChangeResolve \/ Restart \/ UNCHANGED vars
  BY <1>1, <1>6 DEF ChangeHolder, ChangeTalking, ChangeResolve, Restart, vars
<1> QED
  BY <1>2, <1>3, <1>4, <1>5, <1>6 DEF Next, DiscoveryCycle

\* Discovery, restarts and the passing of time take no row, no label and no
\* name away, whatever the cache holds and however lookups fail.
THEOREM RowsKeepKnowledgeHolds == Spec => RowsKeepKnowledge
<1>1. IInv /\ [Next]_vars =>
        [\A key \in DOMAIN rows :
           /\ key \in DOMAIN rows'
           /\ rows[key].label => rows'[key].label
           /\ rows[key].name # NoName => rows'[key].name # NoName]_vars
  BY KnowledgeStep DEF KnowledgeKept
<1>2. Spec => []IInv
  BY InitInv, InvStep, PTL DEF Spec
<1> QED
  BY <1>1, <1>2, PTL DEF Spec, RowsKeepKnowledge
=============================================================================
