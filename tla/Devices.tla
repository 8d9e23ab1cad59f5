------------------------------ MODULE Devices ------------------------------
(***************************************************************************)
(* Device discovery: the neighbour table becomes rows of the devices table *)
(* (collector/discovery.go, Manager.RunDiscoveryCycle, UpsertDevice), with *)
(* host names from a cache in front of slow lookups (resolveHostnames,     *)
(* mdns.go), a "new device" alert that opens once and ends by itself, and  *)
(* labels the user sets meanwhile (PATCH /devices).                        *)
(*                                                                         *)
(* Time is kept as ages that stop counting once nothing depends on them.   *)
(* The resolve threshold of alerts is 1, the least there is; "new device"  *)
(* opens at the first observation whatever the threshold.  Lookups of one  *)
(* cycle finish in any order, which is all the pool of workers adds.       *)
(***************************************************************************)
EXTENDS Integers, FiniteSets

CONSTANTS
  IPs, Devs,   \* addresses, and devices by their MAC
  NameOf,      \* the host name of each device
  NoName,      \* the empty host name
  NoDev,       \* nobody has the address
  HostnameTTL, MissTTL, \* how long answers and misses are cached
  Fresh,       \* the ten minutes in which a device is new
  StaleAfter,  \* the age from which the sweep takes unobserved alerts
  MaxCycle,    \* bound on the ticks a discovery cycle takes
  MaxChanges   \* bound on changes of the network, settings, labels and on faults

ASSUME DevicesAssumption ==
  /\ NoName \notin {NameOf[d] : d \in Devs} /\ NoDev \notin Devs
  /\ {HostnameTTL, MissTTL, Fresh, StaleAfter, MaxCycle, MaxChanges} \subseteq Nat
  /\ MissTTL <= HostnameTTL /\ Fresh < StaleAfter

VARIABLES
  \* the network and the settings
  holder,      \* the device behind each address, or NoDev
  talking,     \* devices whose name DNS or mDNS answers at present
  resolve,     \* devices.resolve_hostnames
  changes,
  \* DeviceCollector and the discovery loop
  cache,       \* address -> name and age, for cached addresses
  at,          \* where RunDiscoveryCycle is
  age,         \* ticks since it started
  seen,        \* address -> device, as ip neigh listed them
  names,       \* address -> host name
  todo,        \* addresses yet to be resolved, then to be stored
  stored,      \* rows stored in this cycle
  fresh,       \* a row just inserted and not yet announced
  \* the database
  rows,        \* <<address, device>> -> name, label, age
  open,        \* open new_device alerts -> age
  \* history
  alerted      \* rows that had their alert

network == <<holder, talking, resolve, changes>>
cycle   == <<at, age, seen, names, todo, stored, fresh>>
vars    == <<network, cache, cycle, rows, open, alerted>>

Empty   == [x \in {} |-> NoName]
Remove(f, S) == [x \in DOMAIN f \ S |-> f[x]]
Put(f, x, v) == [y \in DOMAIN f \cup {x} |-> IF y = x THEN v ELSE f[y]]
Oldest  == 2 * HostnameTTL + 1
Older(n, limit) == IF n < limit THEN n + 1 ELSE n

Change == changes < MaxChanges /\ changes' = changes + 1

----------------------------------------------------------------------------
(* DeviceCollector                                                         *)

\* resolveOne: what DNS, or else the device itself by mDNS, answers in time.
ResolveOne(ip) == IF holder[ip] \in talking THEN NameOf[holder[ip]] ELSE NoName

\* cached: misses expire sooner than names.
Cached(ip) ==
  /\ ip \in DOMAIN cache
  /\ cache[ip].age <= (IF cache[ip].name = NoName THEN MissTTL ELSE HostnameTTL)

\* pruneCache.
Stale == {ip \in DOMAIN cache : cache[ip].age > 2 * HostnameTTL}

\* Mutant: an entry that is used stays good for another while.
CollectRenewing ==
  /\ at = "idle"
  /\ LET listed == {ip \in IPs : holder[ip] # NoDev}
         known  == {ip \in listed : resolve /\ Cached(ip)}
     IN  /\ seen' = [ip \in listed |-> holder[ip]]
         /\ names' = [ip \in listed |-> IF ip \in known THEN cache[ip].name ELSE NoName]
         /\ todo' = IF resolve THEN listed \ known ELSE {}
  /\ cache' = IF ~resolve THEN cache
              ELSE [ip \in DOMAIN cache \ Stale |->
                      IF ip \in DOMAIN seen' /\ Cached(ip) THEN [cache[ip] EXCEPT !.age = 0] ELSE cache[ip]]
  /\ at' = "resolving" /\ age' = 0
  /\ UNCHANGED <<network, stored, fresh, rows, open, alerted>>

\* ip neigh, and the names the cache has; the other addresses are looked up.
Collect ==
  /\ at = "idle"
  /\ LET listed == {ip \in IPs : holder[ip] # NoDev}
         known  == {ip \in listed : resolve /\ Cached(ip)}
     IN  /\ seen' = [ip \in listed |-> holder[ip]]
         /\ names' = [ip \in listed |-> IF ip \in known THEN cache[ip].name ELSE NoName]
         /\ todo' = IF resolve THEN listed \ known ELSE {}
  /\ cache' = IF resolve THEN Remove(cache, Stale) ELSE cache
  /\ at' = "resolving" /\ age' = 0
  /\ UNCHANGED <<network, stored, fresh, rows, open, alerted>>

\* A worker has its answer; its age counts from the start of the cycle.
Resolve(ip) ==
  /\ at = "resolving" /\ ip \in todo
  /\ todo' = todo \ {ip}
  /\ names' = [names EXCEPT ![ip] = ResolveOne(ip)]
  /\ cache' = Put(cache, ip, [name |-> ResolveOne(ip), age |-> age])
  /\ UNCHANGED <<network, at, age, seen, stored, fresh, rows, open, alerted>>

\* All workers are done: the devices are stored one by one.
Collected ==
  /\ at = "resolving" /\ todo = {}
  /\ todo' = DOMAIN seen /\ at' = "storing"
  /\ UNCHANGED <<network, cache, age, seen, names, stored, fresh, rows, open, alerted>>

----------------------------------------------------------------------------
(* RunDiscoveryCycle                                                       *)

\* Mutant: the row is replaced.
UpsertedReplacing(key, name) == [name |-> name, label |-> FALSE, age |-> 0]

\* The row UpsertDevice leaves: an empty name never overwrites one.
Upserted(key, name) ==
  IF key \notin DOMAIN rows THEN [name |-> name, label |-> FALSE, age |-> 0]
  ELSE [rows[key] EXCEPT !.name = IF name # NoName THEN name ELSE @]

\* UpsertDevice writes the row and reads it back.  If the write fails nothing
\* happens; if the read fails the row is there and the device forgotten.
Upsert(ip) ==
  /\ at = "storing" /\ ip \in todo /\ fresh = {}
  /\ todo' = todo \ {ip}
  /\ LET key == <<ip, seen[ip]>>
     IN  \/ /\ rows' = Put(rows, key, Upserted(key, names[ip]))
            /\ stored' = stored \cup {key}
            /\ fresh' = {key} \ DOMAIN rows
            /\ UNCHANGED changes
         \/ /\ Change
            /\ \/ rows' = Put(rows, key, Upserted(key, names[ip]))
               \/ UNCHANGED rows
            /\ UNCHANGED <<stored, fresh>>
  /\ UNCHANGED <<holder, talking, resolve, cache, at, age, seen, names, open, alerted>>

\* The event, and the one failing observation, which may fail to reach the
\* database: no other will follow.
Announce ==
  /\ fresh # {}
  /\ \/ /\ open' = [k \in DOMAIN open \cup fresh |-> IF k \in fresh THEN 0 ELSE open[k]]
        /\ alerted' = alerted \cup fresh
        /\ UNCHANGED changes
     \/ Change /\ UNCHANGED <<open, alerted>>
  /\ fresh' = {}
  /\ UNCHANGED <<holder, talking, resolve, cache, at, age, seen, names, todo, stored, rows>>

\* Mutant: known devices are healthy, new or not.
NoLongerNewAtOnce == stored

\* Rows of this cycle that are no longer new.
NoLongerNew == {key \in stored : rows[key].age >= Fresh}

\* resolveNewDeviceAlerts, and the end of the cycle.
ResolveNewDeviceAlerts ==
  /\ at = "storing" /\ todo = {} /\ fresh = {}
  /\ open' = Remove(open, NoLongerNew)
  /\ at' = "idle" /\ age' = 0
  /\ seen' = Empty /\ names' = Empty /\ stored' = {}
  /\ UNCHANGED <<network, cache, todo, fresh, rows, alerted>>

----------------------------------------------------------------------------
(* The rest of the system                                                  *)

\* Mutant: the sweep spares alerts of devices still in the table.
SweepAbsent ==
  /\ \E key \in DOMAIN open : open[key] > StaleAfter /\ key \notin DOMAIN rows
       /\ open' = Remove(open, {key})
  /\ UNCHANGED <<network, cache, cycle, rows, alerted>>

\* The stale-alert sweep.
Sweep ==
  /\ \E key \in DOMAIN open : open[key] > StaleAfter /\ open' = Remove(open, {key})
  /\ UNCHANGED <<network, cache, cycle, rows, alerted>>

\* Time passes; a cycle in progress is over within MaxCycle.
Tick ==
  /\ at # "idle" => age < MaxCycle
  /\ age' = IF at = "idle" THEN 0 ELSE age + 1
  /\ cache' = [ip \in DOMAIN cache |-> [cache[ip] EXCEPT !.age = Older(@, Oldest)]]
  /\ rows' = [key \in DOMAIN rows |-> [rows[key] EXCEPT !.age = Older(@, Fresh)]]
  /\ open' = [key \in DOMAIN open |-> Older(open[key], StaleAfter + 1)]
  /\ UNCHANGED <<network, at, seen, names, todo, stored, fresh, alerted>>

\* PATCH /devices sets a label, one column at a time.
Patch(key) ==
  /\ Change
  /\ key \in DOMAIN rows
  /\ rows' = [rows EXCEPT ![key].label = TRUE]
  /\ UNCHANGED <<holder, talking, resolve, cache, cycle, open, alerted>>

\* A lease goes to another device, or a device comes or goes.
ChangeHolder(ip) ==
  /\ Change
  /\ \E d \in (Devs \cup {NoDev}) \ {holder[ip]} : holder' = [holder EXCEPT ![ip] = d]
  /\ UNCHANGED <<talking, resolve, cache, cycle, rows, open, alerted>>

\* A device starts or stops to answer.
ChangeTalking(d) ==
  /\ Change
  /\ talking' = IF d \in talking THEN talking \ {d} ELSE talking \cup {d}
  /\ UNCHANGED <<holder, resolve, cache, cycle, rows, open, alerted>>

ChangeResolve ==
  /\ Change
  /\ resolve' = ~resolve
  /\ UNCHANGED <<holder, talking, cache, cycle, rows, open, alerted>>

\* The daemon is killed and starts again: cache and cycle are gone.
Restart ==
  /\ Change
  /\ cache' = Empty /\ at' = "idle" /\ age' = 0 /\ seen' = Empty /\ names' = Empty
  /\ todo' = {} /\ stored' = {} /\ fresh' = {}
  /\ UNCHANGED <<holder, talking, resolve, rows, open, alerted>>

Init ==
  /\ holder \in [IPs -> Devs \cup {NoDev}]
  /\ talking \in SUBSET Devs /\ resolve \in BOOLEAN /\ changes = 0
  /\ cache = Empty /\ at = "idle" /\ age = 0 /\ seen = Empty /\ names = Empty
  /\ todo = {} /\ stored = {} /\ fresh = {}
  /\ rows = Empty /\ open = Empty /\ alerted = {}

DiscoveryCycle ==
  \/ Collect \/ Collected \/ Announce \/ ResolveNewDeviceAlerts
  \/ \E ip \in IPs : Resolve(ip) \/ Upsert(ip)

Next ==
  \/ DiscoveryCycle \/ Sweep \/ Tick
  \/ \E key \in IPs \X Devs : Patch(key)
  \/ \E ip \in IPs : ChangeHolder(ip)
  \/ \E d \in Devs : ChangeTalking(d)
  \/ ChangeResolve \/ Restart

Spec == Init /\ [][Next]_vars

\* The loop runs again and again, time passes, the sweep's timer fires.
FairSpec == Spec /\ WF_vars(DiscoveryCycle) /\ WF_vars(Tick) /\ WF_vars(Sweep)

----------------------------------------------------------------------------
(* Properties                                                              *)

\* Names follow the network: once changes stop, every device that is present
\* and answers is listed under its own name, whatever the cache held for its
\* address, a former holder's name or a miss.
NameSettles ==
  \A ip \in IPs, d \in Devs :
    <>[](resolve /\ holder[ip] = d /\ d \in talking =>
           <<ip, d>> \in DOMAIN rows /\ rows[<<ip, d>>].name = NameOf[d])

\* A device is new once: no row has a second alert, after restarts and failed
\* writes neither, and the alert stays while the row is fresh.
NewDeviceAlertOnce ==
  [][/\ (DOMAIN open' \ DOMAIN open) \cap alerted = {}
     /\ \A key \in DOMAIN open \ DOMAIN open' : rows[key].age >= Fresh]_vars

\* Every new-device alert ends, of devices that stay and of those that leave.
NewDeviceAlertEnds ==
  \A key \in IPs \X Devs : key \in DOMAIN open ~> key \notin DOMAIN open

\* Discovery never loses what it does not know: labels set while a cycle is
\* under way stay, and a device that falls silent keeps its name.
RowsKeepKnowledge ==
  [][\A key \in DOMAIN rows :
       /\ key \in DOMAIN rows'
       /\ rows[key].label => rows'[key].label
       /\ rows[key].name # NoName => rows'[key].name # NoName]_vars
=============================================================================
