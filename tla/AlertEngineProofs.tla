------------------------- MODULE AlertEngineProofs -------------------------
(***************************************************************************)
(* Proofs about AlertEngine for any keys, loops, thresholds and faults,    *)
(* and an unbounded table.                                                 *)
(***************************************************************************)
EXTENDS AlertEngine, SequenceTheorems, WellFoundedInduction, TLAPS

(***************************************************************************)
(* What the program counters say about the values the goroutines carry.    *)
(* A collector only ever works on a key it owns, and a row a goroutine     *)
(* carries is a row of the key it carries.                                 *)
(***************************************************************************)
Placed ==
  /\ pc[Sweeper] \in {"idle", "resolve", "announceResolved", "clear", "read",
                      "store"}
  /\ pc[Sweeper] \in {"resolve", "announceResolved", "clear"} =>
       cur[Sweeper].id \in batch
  /\ \A l \in Loops :
       /\ pc[l] # "clear"
       /\ pc[l] # "idle" => Owner[cur[l].key] = l
       /\ pc[l] \in {"touch", "resolve", "announceCreated", "announceResolved"}
            => cur[l].id # 0
       /\ pc[l] = "create" => cur[l].id = 0
  /\ \A p \in Procs :
       pc[p] # "idle" /\ cur[p].id # 0 => alerts[cur[p].id].key = cur[p].key

Base == TypeOK /\ Placed

(***************************************************************************)
(* The lookup's answer stays right until the insert: while a collector     *)
(* holds "none open" for its key, none is.                                 *)
(***************************************************************************)
NoneOpen ==
  \A l \in Loops : pc[l] \in {"count", "create"} /\ cur[l].id = 0
                     => OpenOf(cur[l].key) = {}

DedupInv == NoneOpen /\ OneOpenPerKey

(***************************************************************************)
(* The engine's counters never run ahead of what was really observed.      *)
(***************************************************************************)
CountersBounded ==
  \A k \in Keys : failures[k] <= streak[k].bad /\ healthy[k] <= streak[k].good

HysteresisInv == CountersBounded /\ Hysteresis

----------------------------------------------------------------------------
(* Lemmas                                                                  *)

(***************************************************************************)
(* The newest of a nonempty set of rows exists, so Latest picks a member.  *)
(***************************************************************************)
LEMMA LatestIsMember ==
  ASSUME NEW n \in Nat, NEW S, S \subseteq 1..n, S # {}
  PROVE  Latest(S) \in S
<1> DEFINE T == {n - i : i \in S}
<1>0. \A i \in S : i \in Nat /\ 1 <= i /\ i <= n
  OBVIOUS
<1>1. T \subseteq Nat
  <2> SUFFICES ASSUME NEW d \in T PROVE d \in Nat
    OBVIOUS
  <2>1. PICK i \in S : d = n - i
    OBVIOUS
  <2> QED
    BY <2>1, <1>0
<1>2. T # {}
  <2>1. PICK i \in S : TRUE
    OBVIOUS
  <2>2. n - i \in T
    OBVIOUS
  <2> QED
    BY <2>2
<1> HIDE DEF T
<1>3. PICK m \in T : \A d \in T : ~ (<<d, m>> \in OpToRel(<, Nat))
  BY <1>1, <1>2, WFMin, NatLessThanWellFounded
<1>4. \A d \in T : m <= d
  <2> TAKE d \in T
  <2>1. m \in Nat /\ d \in Nat
    BY <1>1
  <2>2. ~ (d < m)
    <3>1. <<d, m>> \notin OpToRel(<, Nat)
      BY <1>3
    <3>2. <<d, m>> \in Nat \X Nat
      BY <2>1
    <3> QED
      BY <3>1, <3>2 DEF OpToRel
  <2> QED
    BY <2>1, <2>2
<1>5. PICK i \in S : m = n - i
  BY DEF T
<1>6. \A j \in S : j <= i
  <2> TAKE j \in S
  <2>1. n - j \in T
    BY DEF T
  <2>2. n - i <= n - j
    BY <2>1, <1>4, <1>5
  <2> QED
    BY <2>2, <1>0
<1> QED
  BY <1>6 DEF Latest

(***************************************************************************)
(* A row the table holds can be rewritten in place.                        *)
(***************************************************************************)
LEMMA RowUpdate ==
  ASSUME NEW s \in Seq(Row), NEW i \in 1..Len(s), NEW r \in Row
  PROVE  /\ [s EXCEPT ![i] = r] \in Seq(Row)
         /\ Len([s EXCEPT ![i] = r]) = Len(s)
         /\ \A j \in 1..Len(s) : [s EXCEPT ![i] = r][j] = IF j = i THEN r ELSE s[j]
BY ExceptSeq

LEMMA BumpInRange ==
  ASSUME NEW n \in 0..CountCap
  PROVE  Bump(n) \in 0..CountCap /\ n <= Bump(n)
BY DebounceAssumption DEF Bump

LEMMA SetCount ==
  ASSUME NEW S, NEW f \in [Keys -> S], NEW k \in Keys, NEW v \in S
  PROVE  [f EXCEPT ![k] = v] \in [Keys -> S]
OBVIOUS

----------------------------------------------------------------------------
(* The types and the places of the goroutines                              *)

LEMMA InitBase == Init => Base
<1> SUFFICES ASSUME Init PROVE Base
  OBVIOUS
<1>1. AnyKey \in Keys
  BY ProcAssumption DEF AnyKey
<1>2. <<>> \in Seq(Row) /\ <<>> \in Seq(EventSet) /\ Len(<<>>) = 0
  BY EmptySeq
<1>3. TypeOK
  <2> USE <1>1 DEF Init
  <2>1. alerts \in Seq(Row) /\ events \in Seq(EventSet) /\ batch \subseteq Ids
    BY <1>2 DEF Ids
  <2>2. failures \in [Keys -> 0..CountCap] /\ healthy \in [Keys -> 0..CountCap]
    BY DebounceAssumption
  <2>3. pc \in [Procs -> Places]
    BY DEF Places
  <2>4. /\ cur \in [Procs -> [key : Keys, failing : BOOLEAN, id : Nat]]
        /\ \A p \in Procs : cur[p].id \in 0..Len(alerts)
    BY <1>2 DEF NoRow
  <2>5. streak \in [Keys -> Streak]
    BY DebounceAssumption DEF NoStreak, Streak
  <2>6. world \in [Keys -> {"ok", "bad", "gone"}]
    OBVIOUS
  <2>7. changes \in 0..MaxChanges
    BY DebounceAssumption
  <2> QED
    BY <2>1, <2>2, <2>3, <2>4, <2>5, <2>6, <2>7 DEF TypeOK
<1>4. Placed
  BY <1>3, ProcAssumption DEF Init, Placed, NoRow, Procs, TypeOK
<1> QED
  BY <1>3, <1>4 DEF Base

(***************************************************************************)
(* However the table changes, rows keep their ids and their keys.          *)
(***************************************************************************)
KeysKept ==
  /\ alerts' \in Seq(Row)
  /\ Len(alerts) <= Len(alerts')
  /\ \A i \in Ids : alerts'[i].key = alerts[i].key

LEMMA SetRow ==
  ASSUME alerts \in Seq(Row), NEW i \in Ids, NEW st \in {"open", "resolved"},
         NEW b \in BOOLEAN,
         alerts' = [alerts EXCEPT ![i] = [key |-> @.key, status |-> st, stale |-> b]]
  PROVE  /\ KeysKept
         /\ Len(alerts') = Len(alerts)
         /\ \A j \in Ids : alerts'[j] =
              IF j = i THEN [key |-> alerts[i].key, status |-> st, stale |-> b]
                       ELSE alerts[j]
<1> DEFINE r == [key |-> alerts[i].key, status |-> st, stale |-> b]
<1>1. alerts[i] \in Row
  BY ElementOfSeq DEF Ids
<1>2. r \in Row /\ r.key = alerts[i].key
  BY <1>1 DEF Row
<1>3. alerts' = [alerts EXCEPT ![i] = r]
  OBVIOUS
<1> HIDE DEF r
<1>4. /\ alerts' \in Seq(Row) /\ Len(alerts') = Len(alerts)
      /\ \A j \in Ids : alerts'[j] = IF j = i THEN r ELSE alerts[j]
  BY <1>2, <1>3, RowUpdate DEF Ids
<1>5. Len(alerts) \in Nat
  BY LenProperties
<1> QED
  BY <1>2, <1>4, <1>5 DEF KeysKept, r

LEMMA SetStale ==
  ASSUME alerts \in Seq(Row), NEW i \in Ids, NEW b \in BOOLEAN,
         alerts' = [alerts EXCEPT ![i].stale = b]
  PROVE  /\ KeysKept
         /\ Len(alerts') = Len(alerts)
         /\ \A j \in Ids : alerts'[j] =
              IF j = i THEN [key |-> alerts[i].key, status |-> alerts[i].status,
                             stale |-> b]
                       ELSE alerts[j]
<1> DEFINE r == [alerts[i] EXCEPT !.stale = b]
<1>1. alerts[i] \in Row
  BY ElementOfSeq DEF Ids
<1>2. r \in Row /\ r.key = alerts[i].key
      /\ r = [key |-> alerts[i].key, status |-> alerts[i].status, stale |-> b]
  BY <1>1 DEF Row
<1>3. alerts' = [alerts EXCEPT ![i] = r]
  OBVIOUS
<1> HIDE DEF r
<1>4. /\ alerts' \in Seq(Row) /\ Len(alerts') = Len(alerts)
      /\ \A j \in Ids : alerts'[j] = IF j = i THEN r ELSE alerts[j]
  BY <1>2, <1>3, RowUpdate DEF Ids
<1>5. Len(alerts) \in Nat
  BY LenProperties
<1> QED
  BY <1>2, <1>4, <1>5 DEF KeysKept

LEMMA AddRow ==
  ASSUME alerts \in Seq(Row), NEW r \in Row, alerts' = Append(alerts, r)
  PROVE  /\ KeysKept
         /\ Len(alerts') = Len(alerts) + 1
         /\ \A j \in Ids : alerts'[j] = alerts[j]
         /\ alerts'[Len(alerts) + 1] = r
BY AppendProperties, LenProperties DEF KeysKept, Ids

LEMMA AppendEvent ==
  ASSUME events \in Seq(EventSet), NEW e \in EventSet, events' = Append(events, e)
  PROVE  events' \in Seq(EventSet)
BY AppendProperties

LEMMA SameTable ==
  ASSUME alerts \in Seq(Row), UNCHANGED alerts
  PROVE  KeysKept /\ Ids' = Ids
BY LenProperties DEF KeysKept, Ids

LEMMA RowsOfTable ==
  ASSUME alerts \in Seq(Row)
  PROVE  /\ Len(alerts) \in Nat
         /\ OpenRows \subseteq Ids
         /\ \A i \in Ids : alerts[i] \in Row
BY LenProperties, ElementOfSeq DEF OpenRows, Ids

(***************************************************************************)
(* Leaving the sweep's current row: the next one is a row of the batch.    *)
(***************************************************************************)
LEMMA NextRowFacts ==
  ASSUME Base, NEW any \in BOOLEAN, NextRow(any)
  PROVE  /\ batch' \subseteq Ids
         /\ cur' \in [Procs -> [key : Keys, failing : BOOLEAN, id : Nat]]
         /\ \A p \in Procs : cur'[p].id \in 0..Len(alerts)
         /\ \A p \in Loops : cur'[p] = cur[p] /\ pc'[p] = pc[p]
         /\ pc' \in [Procs -> Places]
         /\ pc'[Sweeper] \in {"idle", "read", "resolve"}
         /\ pc'[Sweeper] = "resolve" =>
              /\ cur'[Sweeper].id \in batch'
              /\ alerts[cur'[Sweeper].id].key = cur'[Sweeper].key
         /\ pc'[Sweeper] # "resolve" => cur' = cur
<1> DEFINE rest == batch \ {cur[Sweeper].id}
<1>0. /\ TypeOK /\ Placed /\ Len(alerts) \in Nat
      /\ \A i \in Ids : alerts[i] \in Row
  BY RowsOfTable DEF TypeOK, Base
<1>1. Sweeper \in Procs /\ \A l \in Loops : l \in Procs /\ l # Sweeper
  BY ProcAssumption DEF Procs
<1>2. rest \subseteq Ids /\ batch' = rest
  BY <1>0 DEF NextRow, TypeOK
<1>3. CASE rest = {}
  <2>1. cur' = cur /\ pc' = [pc EXCEPT ![Sweeper] = IF any THEN "read" ELSE "idle"]
    BY <1>3 DEF NextRow, Goto
  <2> QED
    BY <1>0, <1>1, <1>2, <2>1 DEF TypeOK, Places
<1>4. CASE rest # {}
  <2> DEFINE i == Latest(rest)
             c == [key |-> alerts[i].key, failing |-> FALSE, id |-> i]
  <2>1. i \in rest
    BY <1>0, <1>2, <1>4, LatestIsMember DEF Ids
  <2>2. cur' = [cur EXCEPT ![Sweeper] = c] /\ pc' = [pc EXCEPT ![Sweeper] = "resolve"]
    BY <1>4 DEF NextRow, Goto
  <2> HIDE DEF i
  <2>3. i \in Ids /\ i \in Nat /\ i \in 0..Len(alerts) /\ alerts[i].key \in Keys
    BY <1>0, <1>2, <2>1 DEF Ids, Row
  <2>4. c \in [key : Keys, failing : BOOLEAN, id : Nat]
        /\ c.id = i /\ c.key = alerts[i].key
    BY <2>3
  <2> HIDE DEF c, rest
  <2>5. cur'[Sweeper] = c /\ pc'[Sweeper] = "resolve"
    BY <1>0, <1>1, <2>2 DEF TypeOK
  <2>6. \A l \in Loops : cur'[l] = cur[l] /\ pc'[l] = pc[l]
    BY <1>0, <1>1, <2>2 DEF TypeOK
  <2>7. cur' \in [Procs -> [key : Keys, failing : BOOLEAN, id : Nat]]
    BY <1>0, <2>2, <2>4 DEF TypeOK
  <2>8. pc' \in [Procs -> Places]
    BY <1>0, <2>2 DEF TypeOK, Places
  <2>9. \A p \in Procs : cur'[p].id \in 0..Len(alerts)
    BY <1>0, <2>3, <2>4, <2>5, <2>6 DEF TypeOK, Procs
  <2> QED
    BY <1>2, <2>1, <2>4, <2>5, <2>6, <2>7, <2>8, <2>9
<1> QED
  BY <1>3, <1>4

----------------------------------------------------------------------------

LEMMA StepBase == Base /\ [Next]_vars => Base'
<1> SUFFICES ASSUME Base, [Next]_vars PROVE Base'
  OBVIOUS
<1> USE DEF Base, Goto, Publish, CreateAlert, TouchAlert
<1>0. /\ TypeOK /\ Placed
      /\ Len(alerts) \in Nat /\ OpenRows \subseteq Ids
      /\ \A i \in Ids : alerts[i] \in Row
  BY RowsOfTable DEF TypeOK
<1>1. ASSUME NEW k \in Keys, Change(k) PROVE Base'
  <2>1. changes' \in 0..MaxChanges
    BY <1>0, <1>1, DebounceAssumption DEF Change, TypeOK
  <2>2. world' \in [Keys -> {"ok", "bad", "gone"}]
    BY <1>0, <1>1 DEF Change, TypeOK
  <2>3. TypeOK'
    BY <1>0, <1>1, <2>1, <2>2, SameTable DEF Change, TypeOK
  <2> QED
    BY <1>0, <1>1, <2>3 DEF Change, Placed
<1>2. ASSUME NEW i \in Ids, GoStale(i) PROVE Base'
  <2>1. KeysKept /\ Len(alerts') = Len(alerts) /\ Ids' = Ids
    BY <1>0, <1>2, SetStale DEF GoStale, TypeOK, Ids
  <2>2. TypeOK'
    BY <1>0, <1>2, <2>1 DEF GoStale, TypeOK, KeysKept
  <2>3. Placed'
    <3>1. \A p \in Procs : cur[p].id # 0 => cur[p].id \in Ids
      BY <1>0 DEF TypeOK, Ids
    <3> QED
      BY <1>0, <1>2, <2>1, <3>1 DEF GoStale, Placed, KeysKept
  <2> QED
    BY <2>2, <2>3
<1>3. ASSUME NEW k \in Keys, Lookup(k) PROVE Base'
  <2> DEFINE l == Owner[k]
  <2>1. l \in Loops /\ l \in Procs /\ l # Sweeper
    BY ProcAssumption DEF Procs
  <2>2. PICK id \in FindOpenAlert(k) :
          cur' = [cur EXCEPT ![l] = [key |-> k, failing |-> world[k] = "bad", id |-> id]]
    BY <1>3 DEF Lookup
  <2>3. /\ id \in 0..Len(alerts)
        /\ id # 0 => id \in Ids /\ alerts[id].key = k
    BY <1>0 DEF FindOpenAlert, OpenOf, OpenRows, Ids
  <2>4. pc' = [pc EXCEPT ![l] = "count"]
    BY <1>3 DEF Lookup
  <2>5. /\ UNCHANGED <<alerts, events, score, failures, healthy, input, batch>>
        /\ UNCHANGED <<swept, up, world, changes, streak>>
    BY <1>3 DEF Lookup
  <2>6. cur' \in [Procs -> [key : Keys, failing : BOOLEAN, id : Nat]]
    BY <1>0, <2>1, <2>2, <2>3 DEF TypeOK
  <2>7. \A p \in Procs : /\ cur'[p].key = IF p = l THEN k ELSE cur[p].key
                         /\ cur'[p].id = IF p = l THEN id ELSE cur[p].id
    BY <1>0, <2>2 DEF TypeOK
  <2>8. \A p \in Procs : pc'[p] = IF p = l THEN "count" ELSE pc[p]
    BY <1>0, <2>4 DEF TypeOK
  <2> HIDE DEF l
  <2>9. TypeOK'
    <3>1. pc' \in [Procs -> Places]
      BY <1>0, <2>1, <2>4 DEF TypeOK, Places
    <3>2. \A p \in Procs : cur'[p].id \in 0..Len(alerts)
      BY <1>0, <2>3, <2>7 DEF TypeOK
    <3> QED
      BY <1>0, <2>5, <2>6, <3>1, <3>2, SameTable DEF TypeOK
  <2>10. Placed'
    <3>1. Sweeper \in Procs
      BY DEF Procs
    <3>2. \A p \in Procs : pc'[p] # "idle" /\ cur'[p].id # 0
                             => alerts'[cur'[p].id].key = cur'[p].key
      BY <1>0, <2>3, <2>5, <2>7, <2>8 DEF Placed
    <3>3. \A m \in Loops : m \in Procs
      BY DEF Procs
    <3> QED
      BY <1>0, <2>1, <2>5, <2>7, <2>8, <3>1, <3>2, <3>3 DEF Placed, l
  <2> QED
    BY <2>9, <2>10
<1>4. ASSUME NEW l \in Loops, Count(l) PROVE Base'
  <2> DEFINE k == cur[l].key
  <2>1. l \in Procs /\ Sweeper \in Procs /\ l # Sweeper /\ Loops \subseteq Procs
    BY ProcAssumption DEF Procs
  <2>2. k \in Keys /\ failures[k] \in 0..CountCap /\ healthy[k] \in 0..CountCap
    BY <1>0, <2>1 DEF TypeOK
  <2>3. /\ UNCHANGED <<alerts, events, score, cur, input, batch>>
        /\ UNCHANGED <<swept, up, world, changes>>
    BY <1>4 DEF Count
  <2>4. PICK place \in {"idle", "touch", "create", "resolve"} :
          /\ pc' = [pc EXCEPT ![l] = place]
          /\ place \in {"touch", "resolve"} => cur[l].id # 0
          /\ place = "create" => cur[l].id = 0
    <3>1. CASE CountFailing(l)
      BY <3>1 DEF CountFailing
    <3>2. CASE CountHealthy(l)
      BY <3>2 DEF CountHealthy
    <3> QED
      BY <1>4, <3>1, <3>2 DEF Count
  <2>5. failures' \in [Keys -> 0..CountCap] /\ healthy' \in [Keys -> 0..CountCap]
    <3>1. Bump(failures[k]) \in 0..CountCap /\ Bump(healthy[k]) \in 0..CountCap
          /\ 0 \in 0..CountCap
      BY <2>2, BumpInRange, DebounceAssumption
    <3>2. CASE CountFailing(l)
      BY <1>0, <3>1, <3>2 DEF CountFailing, TypeOK
    <3>3. CASE CountHealthy(l)
      <4>1. failures' = [failures EXCEPT ![k] = 0]
        BY <3>3 DEF CountHealthy
      <4>2. \/ healthy' = [healthy EXCEPT ![k] = Bump(healthy[k])]
            \/ healthy' = [healthy EXCEPT ![k] = 0]
        BY <3>3 DEF CountHealthy
      <4> HIDE DEF k
      <4>3. /\ failures \in [Keys -> 0..CountCap]
            /\ healthy \in [Keys -> 0..CountCap]
        BY <1>0 DEF TypeOK
      <4>4. failures' \in [Keys -> 0..CountCap]
        BY <2>2, <3>1, <4>1, <4>3, SetCount
      <4>5. healthy' \in [Keys -> 0..CountCap]
        BY <2>2, <3>1, <4>2, <4>3, SetCount
      <4> QED
        BY <4>4, <4>5
    <3> QED
      BY <1>4, <3>2, <3>3 DEF Count
  <2>6. streak' \in [Keys -> Streak]
    <3>1. streak[k] \in Streak
      BY <1>0, <2>2 DEF TypeOK
    <3>2. /\ Bump(streak[k].bad) \in 0..CountCap
          /\ Bump(streak[k].sinceClosed) \in 0..CountCap
          /\ Bump(streak[k].good) \in 0..CountCap
          /\ 0 \in 0..CountCap
      BY <3>1, BumpInRange, DebounceAssumption DEF Streak
    <3>3. CASE CountFailing(l)
      BY <1>0, <3>2, <3>3 DEF CountFailing, TypeOK, Streak
    <3>4. CASE CountHealthy(l)
      BY <1>0, <3>2, <3>4 DEF CountHealthy, TypeOK, Streak
    <3> QED
      BY <1>4, <3>3, <3>4 DEF Count
  <2>7. TypeOK'
    <3>1. pc' \in [Procs -> Places]
      BY <1>0, <2>1, <2>4 DEF TypeOK, Places
    <3> QED
      BY <1>0, <2>3, <2>5, <2>6, <3>1, SameTable DEF TypeOK
  <2>8. Placed'
    <3>1. \A p \in Procs : pc'[p] = IF p = l THEN place ELSE pc[p]
      BY <1>0, <2>4 DEF TypeOK
    <3>2. pc[l] = "count"
      BY <1>4 DEF Count
    <3> QED
      BY <1>0, <2>1, <2>3, <2>4, <3>1, <3>2 DEF Placed
  <2> QED
    BY <2>7, <2>8
<1>5. ASSUME NEW l \in Loops, Touch(l) PROVE Base'
  <2>1. l \in Procs /\ Sweeper \in Procs /\ l # Sweeper /\ Loops \subseteq Procs
    BY ProcAssumption DEF Procs
  <2>2. KeysKept /\ Len(alerts') = Len(alerts) /\ Ids' = Ids
    <3>1. cur[l].id \in Ids
      BY <1>0, <1>5, <2>1 DEF Touch, TypeOK, Placed, Ids
    <3>2. CASE UNCHANGED alerts
      BY <1>0, <3>2, SameTable DEF TypeOK
    <3>3. CASE alerts' = [alerts EXCEPT ![cur[l].id].stale = FALSE]
      BY <1>0, <3>1, <3>3, SetStale DEF TypeOK, Ids
    <3> QED
      BY <1>5, <3>2, <3>3 DEF Touch
  <2>3. /\ pc' = [pc EXCEPT ![l] = "idle"]
        /\ UNCHANGED <<events, score, failures, healthy, cur, input, batch>>
        /\ UNCHANGED <<swept, up, world, changes, streak>>
    BY <1>5 DEF Touch
  <2>4. TypeOK'
    <3>1. pc' \in [Procs -> Places]
      BY <1>0, <2>3 DEF TypeOK, Places
    <3> QED
      BY <1>0, <2>2, <2>3, <3>1 DEF TypeOK, KeysKept
  <2>5. Placed'
    <3>1. \A p \in Procs : cur[p].id # 0 => cur[p].id \in Ids
      BY <1>0 DEF TypeOK, Ids
    <3>2. \A p \in Procs : pc'[p] = IF p = l THEN "idle" ELSE pc[p]
      BY <1>0, <2>3 DEF TypeOK
    <3> QED
      BY <1>0, <2>1, <2>2, <2>3, <3>1, <3>2 DEF Placed, KeysKept
  <2> QED
    BY <2>4, <2>5
<1>6. ASSUME NEW l \in Loops, Create(l) PROVE Base'
  <2>1. l \in Procs /\ Sweeper \in Procs /\ l # Sweeper /\ Loops \subseteq Procs
    BY ProcAssumption DEF Procs
  <2>2. /\ pc[l] = "create"
        /\ UNCHANGED <<events, score, failures, healthy, input, batch>>
        /\ UNCHANGED <<swept, up, world, changes, streak>>
    BY <1>6 DEF Create
  <2>3. cur[l].key \in Keys
    BY <1>0, <2>1 DEF TypeOK
  <2>4. CASE UNCHANGED alerts /\ UNCHANGED cur /\ pc' = [pc EXCEPT ![l] = "idle"]
    <3>1. KeysKept /\ Ids' = Ids
      BY <1>0, <2>4, SameTable DEF TypeOK
    <3>2. TypeOK'
      BY <1>0, <2>2, <2>4, <3>1 DEF TypeOK, Places
    <3>3. \A p \in Procs : pc'[p] = IF p = l THEN "idle" ELSE pc[p]
      BY <1>0, <2>4 DEF TypeOK
    <3>4. Placed'
      BY <1>0, <2>1, <2>2, <2>4, <3>3 DEF Placed
    <3> QED
      BY <3>2, <3>4
  <2>5. CASE /\ alerts' = Append(alerts, [key |-> cur[l].key, status |-> "open",
                                          stale |-> FALSE])
             /\ cur' = [cur EXCEPT ![l].id = Len(alerts) + 1]
             /\ pc' = [pc EXCEPT ![l] = "announceCreated"]
    <3> DEFINE r == [key |-> cur[l].key, status |-> "open", stale |-> FALSE]
    <3>1. r \in Row /\ r.key = cur[l].key
      BY <2>3 DEF Row
    <3>2. alerts' = Append(alerts, r)
      BY <2>5
    <3> HIDE DEF r
    <3>3. /\ KeysKept /\ Len(alerts') = Len(alerts) + 1
          /\ alerts'[Len(alerts) + 1] = r
      BY <1>0, <3>1, <3>2, AddRow DEF TypeOK
    <3>4. \A p \in Procs :
            /\ pc'[p] = IF p = l THEN "announceCreated" ELSE pc[p]
            /\ cur'[p].id = IF p = l THEN Len(alerts) + 1 ELSE cur[p].id
            /\ cur'[p].key = cur[p].key
      BY <1>0, <2>5 DEF TypeOK
    <3>5. TypeOK'
      <4>1. cur' \in [Procs -> [key : Keys, failing : BOOLEAN, id : Nat]]
        <5>1. cur[l] \in [key : Keys, failing : BOOLEAN, id : Nat]
          BY <1>0, <2>1 DEF TypeOK
        <5>2. [cur[l] EXCEPT !.id = Len(alerts) + 1]
                \in [key : Keys, failing : BOOLEAN, id : Nat]
          BY <1>0, <5>1
        <5> QED
          BY <1>0, <2>5, <5>2 DEF TypeOK
      <4>2. pc' \in [Procs -> Places]
        BY <1>0, <2>5 DEF TypeOK, Places
      <4>3. Ids \subseteq Ids'
        BY <1>0, <3>3 DEF Ids
      <4>4. \A p \in Procs : cur'[p].id \in 0..Len(alerts')
        BY <1>0, <3>3, <3>4 DEF TypeOK
      <4> QED
        BY <1>0, <2>2, <3>3, <4>1, <4>2, <4>3, <4>4 DEF TypeOK, KeysKept
    <3>6. Placed'
      <4>1. \A p \in Procs : cur[p].id # 0 => cur[p].id \in Ids
        BY <1>0 DEF TypeOK, Ids
      <4>2. \A p \in Procs : pc'[p] # "idle" /\ cur'[p].id # 0
                               => alerts'[cur'[p].id].key = cur'[p].key
        BY <1>0, <3>1, <3>3, <3>4, <4>1 DEF Placed, KeysKept
      <4> QED
        BY <1>0, <2>1, <2>2, <3>4, <4>2 DEF Placed
    <3> QED
      BY <3>5, <3>6
  <2> QED
    BY <1>6, <2>4, <2>5 DEF Create
<1>7. ASSUME NEW l \in Loops, AnnounceCreated(l) PROVE Base'
  <2>1. l \in Procs /\ Sweeper \in Procs /\ l # Sweeper /\ Loops \subseteq Procs
    BY ProcAssumption DEF Procs
  <2>2. [type |-> "created", id |-> cur[l].id] \in EventSet
    BY <1>0, <1>7, <2>1 DEF AnnounceCreated, Placed, TypeOK, EventSet
  <2>3. events' \in Seq(EventSet)
    BY <1>0, <1>7, <2>2, AppendEvent DEF AnnounceCreated, TypeOK
  <2>4. TypeOK'
    BY <1>0, <1>7, <2>3, SameTable DEF AnnounceCreated, TypeOK, Places
  <2>5. \A p \in Procs : pc'[p] = IF p = l THEN "read" ELSE pc[p]
    BY <1>0, <1>7 DEF AnnounceCreated, TypeOK
  <2>6. Placed'
    BY <1>0, <1>7, <2>1, <2>5 DEF AnnounceCreated, Placed
  <2> QED
    BY <2>4, <2>6
<1>8. ASSUME StartSweep PROVE Base'
  <2> DEFINE old == {i \in OpenRows : alerts[i].stale}
             i == Latest(old)
             c == [key |-> alerts[i].key, failing |-> FALSE, id |-> i]
  <2>1. Sweeper \in Procs /\ \A l \in Loops : l \in Procs /\ l # Sweeper
    BY ProcAssumption DEF Procs
  <2>2. old \subseteq Ids /\ old # {}
    BY <1>0, <1>8 DEF StartSweep
  <2>3. i \in old
    BY <1>0, <2>2, LatestIsMember DEF Ids
  <2>4. /\ cur' = [cur EXCEPT ![Sweeper] = c]
        /\ pc' = [pc EXCEPT ![Sweeper] = "resolve"]
        /\ batch' = old /\ swept' = FALSE
        /\ UNCHANGED <<alerts, events, score, failures, healthy, input>>
        /\ UNCHANGED <<up, world, changes, streak>>
    BY <1>8 DEF StartSweep
  <2> HIDE DEF i, old
  <2>5. i \in Ids /\ i \in Nat /\ i \in 0..Len(alerts) /\ alerts[i].key \in Keys
    BY <1>0, <2>2, <2>3 DEF Ids, Row
  <2>6. c \in [key : Keys, failing : BOOLEAN, id : Nat]
        /\ c.id = i /\ c.key = alerts[i].key
    BY <2>5
  <2> HIDE DEF c
  <2>7. cur'[Sweeper] = c /\ pc'[Sweeper] = "resolve"
    BY <1>0, <2>1, <2>4 DEF TypeOK
  <2>8. \A l \in Loops : cur'[l] = cur[l] /\ pc'[l] = pc[l]
    BY <1>0, <2>1, <2>4 DEF TypeOK
  <2>9. TypeOK'
    <3>1. cur' \in [Procs -> [key : Keys, failing : BOOLEAN, id : Nat]]
      BY <1>0, <2>4, <2>6 DEF TypeOK
    <3>2. pc' \in [Procs -> Places]
      BY <1>0, <2>4 DEF TypeOK, Places
    <3>3. \A p \in Procs : cur'[p].id \in 0..Len(alerts)
      BY <1>0, <2>5, <2>6, <2>7, <2>8 DEF TypeOK, Procs
    <3> QED
      BY <1>0, <2>2, <2>4, <3>1, <3>2, <3>3, SameTable DEF TypeOK
  <2>10. Placed'
    <3>1. alerts' = alerts /\ batch' = old
      BY <2>4
    <3>2. \A p \in Procs : p = Sweeper \/ p \in Loops
      BY DEF Procs
    <3> QED
      BY <1>0, <2>1, <2>3, <2>6, <2>7, <2>8, <3>1, <3>2 DEF Placed
  <2> QED
    BY <2>9, <2>10
<1>9. ASSUME NEW p \in Procs, Resolve(p) PROVE Base'
  <2>1. Sweeper \in Procs /\ \A l \in Loops : l \in Procs /\ l # Sweeper
    BY ProcAssumption DEF Procs
  <2>2. /\ pc[p] = "resolve"
        /\ UNCHANGED <<events, score, failures, healthy, input>>
        /\ UNCHANGED <<up, world, changes>>
    BY <1>9 DEF Resolve
  <2>3. cur[p].id \in Ids /\ cur[p].key \in Keys /\ cur[p].id # 0
    BY <1>0, <2>2 DEF TypeOK, Placed, Ids, Procs
  <2>4. CASE /\ Close(p)
             /\ pc' = [pc EXCEPT ![p] = "announceResolved"]
             /\ UNCHANGED <<cur, batch, swept>>
    <3>1. KeysKept /\ Len(alerts') = Len(alerts) /\ Ids' = Ids
      BY <1>0, <2>3, <2>4, SetRow DEF Close, ResolveAlert, TypeOK, Ids
    <3>2. streak' \in [Keys -> Streak]
      <4>1. streak[cur[p].key] \in Streak
        BY <1>0, <2>3 DEF TypeOK
      <4>2. [streak[cur[p].key] EXCEPT !.sinceClosed = 0] \in Streak
        BY <4>1, DebounceAssumption DEF Streak
      <4> QED
        BY <1>0, <2>4, <4>2 DEF Close, ResolveAlert, TypeOK
    <3>3. TypeOK'
      <4>1. pc' \in [Procs -> Places]
        BY <1>0, <2>4 DEF TypeOK, Places
      <4> QED
        BY <1>0, <2>2, <2>4, <3>1, <3>2, <4>1 DEF TypeOK, KeysKept
    <3>4. Placed'
      <4>1. \A q \in Procs : cur[q].id # 0 => cur[q].id \in Ids
        BY <1>0 DEF TypeOK, Ids
      <4>2. \A q \in Procs : pc'[q] = IF q = p THEN "announceResolved" ELSE pc[q]
        BY <1>0, <2>4 DEF TypeOK
      <4> QED
        BY <1>0, <2>1, <2>2, <2>3, <2>4, <3>1, <4>1, <4>2 DEF Placed, KeysKept
    <3> QED
      BY <3>3, <3>4
  <2>5. CASE p = Sweeper /\ NextRow(swept) /\ UNCHANGED <<alerts, streak>>
    <3>1. swept \in BOOLEAN
      BY <1>0 DEF TypeOK
    <3>2. TypeOK'
      <4>1. swept' \in BOOLEAN
        BY <2>5, <3>1 DEF NextRow
      <4> QED
        BY <1>0, <2>2, <2>5, <3>1, <4>1, NextRowFacts, SameTable DEF TypeOK
    <3>3. Placed'
      <4>1. \A q \in Procs : q = Sweeper \/ q \in Loops
        BY DEF Procs
      <4>2. alerts' = alerts /\ pc[Sweeper] = "resolve"
        BY <2>2, <2>5
      <4> QED
        BY <1>0, <2>1, <2>5, <3>1, <4>1, <4>2, NextRowFacts DEF Placed
    <3> QED
      BY <3>2, <3>3
  <2>6. CASE p # Sweeper /\ pc' = [pc EXCEPT ![p] = "idle"]
             /\ UNCHANGED <<alerts, streak, cur, batch, swept>>
    <3>1. TypeOK'
      BY <1>0, <2>2, <2>6, SameTable DEF TypeOK, Places
    <3>2. \A q \in Procs : pc'[q] = IF q = p THEN "idle" ELSE pc[q]
      BY <1>0, <2>6 DEF TypeOK
    <3>3. Placed'
      BY <1>0, <2>1, <2>6, <3>2 DEF Placed
    <3> QED
      BY <3>1, <3>3
  <2> QED
    BY <1>9, <2>4, <2>5, <2>6 DEF Resolve
<1>10. ASSUME NEW p \in Procs, AnnounceResolved(p) PROVE Base'
  <2>1. Sweeper \in Procs /\ \A l \in Loops : l \in Procs /\ l # Sweeper
    BY ProcAssumption DEF Procs
  <2>2. cur[p].id \in Nat \ {0}
    BY <1>0, <1>10 DEF AnnounceResolved, Placed, TypeOK, Procs, Ids
  <2>3. [type |-> "resolved", id |-> cur[p].id] \in EventSet
    BY <2>2 DEF EventSet
  <2>4. events' \in Seq(EventSet)
    BY <1>0, <1>10, <2>3, AppendEvent DEF AnnounceResolved, TypeOK
  <2>5. TypeOK'
    BY <1>0, <1>10, <2>4, SameTable DEF AnnounceResolved, TypeOK, Places
  <2>6. \A q \in Procs : pc'[q] = IF q # p THEN pc[q]
                                  ELSE IF p = Sweeper THEN "clear" ELSE "read"
    BY <1>0, <1>10 DEF AnnounceResolved, TypeOK
  <2>7. Placed'
    BY <1>0, <1>10, <2>1, <2>6 DEF AnnounceResolved, Placed
  <2> QED
    BY <2>5, <2>7
<1>11. ASSUME ClearCounters PROVE Base'
  <2>1. Sweeper \in Procs /\ \A l \in Loops : l \in Procs /\ l # Sweeper
    BY ProcAssumption DEF Procs
  <2>2. cur[Sweeper].key \in Keys
    BY <1>0, <2>1 DEF TypeOK
  <2>3. failures' \in [Keys -> 0..CountCap] /\ healthy' \in [Keys -> 0..CountCap]
    BY <1>0, <1>11, <2>2, DebounceAssumption DEF ClearCounters, TypeOK
  <2>4. NextRow(TRUE) /\ swept' = TRUE
    BY <1>11 DEF ClearCounters, NextRow
  <2>5. /\ pc[Sweeper] = "clear"
        /\ UNCHANGED <<alerts, events, score, input, up, world, changes, streak>>
    BY <1>11 DEF ClearCounters
  <2>6. TypeOK'
    BY <1>0, <2>3, <2>4, <2>5, NextRowFacts, SameTable DEF TypeOK
  <2>7. Placed'
    <3>1. \A q \in Procs : q = Sweeper \/ q \in Loops
      BY DEF Procs
    <3>2. alerts' = alerts
      BY <2>5
    <3> QED
      BY <1>0, <2>1, <2>4, <2>5, <3>1, <3>2, NextRowFacts DEF Placed
  <2> QED
    BY <2>6, <2>7
<1>12. ASSUME NEW p \in Procs, ReadOpen(p) PROVE Base'
  <2>1. Sweeper \in Procs /\ \A l \in Loops : l \in Procs /\ l # Sweeper
    BY ProcAssumption DEF Procs
  <2>2. OpenKeys \subseteq Keys
    BY <1>0 DEF OpenKeys, Row
  <2>3. PICK place \in {"store", "idle"} : pc' = [pc EXCEPT ![p] = place]
    BY <1>12 DEF ReadOpen
  <2>4. input' \in [Procs -> SUBSET Keys]
    BY <1>0, <1>12, <2>2 DEF ReadOpen, TypeOK
  <2>5. /\ pc[p] = "read"
        /\ UNCHANGED <<alerts, events, score, failures, healthy, cur, batch>>
        /\ UNCHANGED <<swept, up, world, changes, streak>>
    BY <1>12 DEF ReadOpen
  <2>6. TypeOK'
    BY <1>0, <2>3, <2>4, <2>5, SameTable DEF TypeOK, Places
  <2>7. \A q \in Procs : pc'[q] = IF q = p THEN place ELSE pc[q]
    BY <1>0, <2>3 DEF TypeOK
  <2>8. Placed'
    BY <1>0, <2>1, <2>3, <2>5, <2>7 DEF Placed
  <2> QED
    BY <2>6, <2>8
<1>13. ASSUME NEW p \in Procs, StoreScore(p) PROVE Base'
  <2>1. Sweeper \in Procs /\ \A l \in Loops : l \in Procs /\ l # Sweeper
    BY ProcAssumption DEF Procs
  <2>2. score' \subseteq Keys /\ input' \in [Procs -> SUBSET Keys]
    BY <1>0, <1>13 DEF StoreScore, InsertHealthScore, TypeOK
  <2>3. /\ pc[p] = "store" /\ pc' = [pc EXCEPT ![p] = "idle"]
        /\ UNCHANGED <<alerts, events, failures, healthy, cur, batch>>
        /\ UNCHANGED <<swept, up, world, changes, streak>>
    BY <1>13 DEF StoreScore
  <2>4. TypeOK'
    BY <1>0, <2>2, <2>3, SameTable DEF TypeOK, Places
  <2>5. \A q \in Procs : pc'[q] = IF q = p THEN "idle" ELSE pc[q]
    BY <1>0, <2>3 DEF TypeOK
  <2>6. Placed'
    BY <1>0, <2>1, <2>3, <2>5 DEF Placed
  <2> QED
    BY <2>4, <2>6
<1>14. ASSUME Crash PROVE Base'
  <2>1. AnyKey \in Keys
    BY ProcAssumption DEF AnyKey
  <2>2. /\ \A p \in Procs : pc'[p] = "idle" /\ cur'[p].id = 0
        /\ pc' \in [Procs -> Places]
        /\ cur' \in [Procs -> [key : Keys, failing : BOOLEAN, id : Nat]]
    BY <1>14, <2>1 DEF Crash, NoRow, Places
  <2>3. /\ failures' \in [Keys -> 0..CountCap] /\ healthy' \in [Keys -> 0..CountCap]
        /\ streak' \in [Keys -> Streak]
    BY <1>14, DebounceAssumption DEF Crash, NoStreak, Streak
  <2>4. /\ input' \in [Procs -> SUBSET Keys] /\ batch' = {} /\ swept' = FALSE
        /\ up' = FALSE
        /\ UNCHANGED <<alerts, events, score, world, changes>>
    BY <1>14 DEF Crash
  <2>5. TypeOK'
    <3>1. alerts' \in Seq(Row) /\ events' \in Seq(EventSet) /\ score' \subseteq Keys
      BY <1>0, <2>4 DEF TypeOK
    <3>2. \A p \in Procs : cur'[p].id \in 0..Len(alerts')
      BY <1>0, <2>2, <2>4
    <3>3. world' \in [Keys -> {"ok", "bad", "gone"}] /\ changes' \in 0..MaxChanges
      BY <1>0, <2>4 DEF TypeOK
    <3>4. up' \in BOOLEAN /\ swept' \in BOOLEAN /\ batch' \subseteq Ids'
      BY <2>4
    <3> QED
      BY <2>2, <2>3, <2>4, <3>1, <3>2, <3>3, <3>4 DEF TypeOK
  <2>6. Placed'
    BY <2>2 DEF Placed, Procs
  <2> QED
    BY <2>5, <2>6
<1>15. ASSUME Restart PROVE Base'
  <2>1. OpenKeys \subseteq Keys
    BY <1>0 DEF OpenKeys, Row
  <2>2. score' \subseteq Keys /\ up' = TRUE
    BY <1>0, <1>15, <2>1 DEF Restart, InsertHealthScore, TypeOK
  <2>3. /\ UNCHANGED <<alerts, events, failures, healthy, pc, cur, input>>
        /\ UNCHANGED <<batch, swept, world, changes, streak>>
    BY <1>15 DEF Restart
  <2>4. TypeOK'
    BY <1>0, <2>2, <2>3, SameTable DEF TypeOK
  <2>5. Placed'
    BY <1>0, <2>3 DEF Placed
  <2> QED
    BY <2>4, <2>5
<1>16. CASE UNCHANGED vars
  <2>1. TypeOK'
    BY <1>0, <1>16, SameTable DEF vars, TypeOK
  <2>2. Placed'
    BY <1>0, <1>16 DEF vars, Placed
  <2> QED
    BY <2>1, <2>2
<1> QED
  BY <1>1, <1>2, <1>3, <1>4, <1>5, <1>6, <1>7, <1>8, <1>9, <1>10, <1>11, <1>12,
     <1>13, <1>14, <1>15, <1>16 DEF Next

(***************************************************************************)
(* The types, and the places of the goroutines, hold in every state: in    *)
(* particular no id a goroutine writes through ever misses the table.      *)
(***************************************************************************)
THEOREM BaseHolds == Spec => []Base
<1>1. Init => Base
  BY InitBase
<1>2. Base /\ [Next]_vars => Base'
  BY StepBase
<1> QED
  BY <1>1, <1>2, PTL DEF Spec

(***************************************************************************)
(* Type correctness for any keys, loops and thresholds.                    *)
(***************************************************************************)
THEOREM TypeCorrect == Spec => []TypeOK
<1>1. Base => TypeOK
  BY DEF Base
<1> QED
  BY <1>1, BaseHolds, PTL

----------------------------------------------------------------------------
(* At most one open alert per key                                          *)

(***************************************************************************)
(* Only an insert opens a row; every other step leaves at most the rows    *)
(* open that were.                                                         *)
(***************************************************************************)
OpenShrinks ==
  /\ Len(alerts') = Len(alerts)
  /\ \A i \in Ids : /\ alerts'[i].key = alerts[i].key
                    /\ alerts'[i].status = "open" => alerts[i].status = "open"

(***************************************************************************)
(* No collector newly holds the answer "none open".                        *)
(***************************************************************************)
NoNewAnswer ==
  \A l \in Loops : pc'[l] \in {"count", "create"} /\ cur'[l].id = 0 =>
    /\ pc[l] \in {"count", "create"}
    /\ cur'[l].id = cur[l].id /\ cur'[l].key = cur[l].key

LEMMA ShrinkKeepsDedup ==
  ASSUME DedupInv, OpenShrinks, NoNewAnswer
  PROVE  DedupInv'
<1>1. Ids' = Ids
  BY DEF OpenShrinks, Ids
<1>2. \A k : OpenOf(k)' \subseteq OpenOf(k)
  BY <1>1 DEF OpenShrinks, OpenOf, OpenRows
<1>3. NoneOpen'
  BY <1>2 DEF NoNewAnswer, DedupInv, NoneOpen
<1>4. OneOpenPerKey'
  BY <1>1 DEF OpenShrinks, DedupInv, OneOpenPerKey, OpenRows
<1> QED
  BY <1>3, <1>4 DEF DedupInv

LEMMA SameTableShrinks == UNCHANGED alerts => OpenShrinks
BY DEF OpenShrinks

LEMMA StepDedup == Base /\ DedupInv /\ [Next]_vars => DedupInv'
<1> SUFFICES ASSUME Base, DedupInv, [Next]_vars PROVE DedupInv'
  OBVIOUS
<1> USE DEF Goto, CreateAlert, TouchAlert
<1>0. /\ TypeOK /\ Placed
      /\ Len(alerts) \in Nat /\ OpenRows \subseteq Ids
      /\ \A i \in Ids : alerts[i] \in Row
      /\ Sweeper \in Procs /\ \A l \in Loops : l \in Procs /\ l # Sweeper
      /\ pc \in [Procs -> Places]
      /\ cur \in [Procs -> [key : Keys, failing : BOOLEAN, id : Nat]]
  BY RowsOfTable, ProcAssumption DEF Base, TypeOK, Procs
<1>1. ASSUME NEW k \in Keys, Change(k) PROVE DedupInv'
  BY <1>1, SameTableShrinks, ShrinkKeepsDedup DEF Change, NoNewAnswer
<1>2. ASSUME NEW i \in Ids, GoStale(i) PROVE DedupInv'
  <2>1. OpenShrinks
    BY <1>0, <1>2, SetStale DEF GoStale, TypeOK, OpenShrinks
  <2> QED
    BY <1>2, <2>1, ShrinkKeepsDedup DEF GoStale, NoNewAnswer
<1>3. ASSUME NEW k \in Keys, Lookup(k) PROVE DedupInv'
  <2> DEFINE l == Owner[k]
  <2>1. PICK id \in FindOpenAlert(k) :
          cur' = [cur EXCEPT ![l] =
                    [key |-> k, failing |-> world[k] = "bad", id |-> id]]
    BY <1>3 DEF Lookup
  <2>2. UNCHANGED alerts /\ pc' = [pc EXCEPT ![l] = "count"]
    BY <1>3 DEF Lookup
  <2>3. \A m \in Loops : m # l => cur'[m] = cur[m] /\ pc'[m] = pc[m]
    BY <1>0, <2>1, <2>2
  <2>4. l \in Procs
    BY ProcAssumption DEF Procs
  <2>5. cur'[l].id = 0 => OpenOf(cur'[l].key) = {}
    BY <1>0, <2>1, <2>4 DEF FindOpenAlert, OpenOf, Ids
  <2>6. \A q : OpenOf(q)' = OpenOf(q)
    BY <2>2 DEF OpenOf, OpenRows, Ids
  <2>7. NoneOpen'
    BY <2>3, <2>5, <2>6 DEF NoneOpen, DedupInv
  <2>8. OneOpenPerKey'
    BY <2>2 DEF OneOpenPerKey, DedupInv, OpenRows, Ids
  <2> QED
    BY <2>7, <2>8 DEF DedupInv
<1>4. ASSUME NEW l \in Loops, Count(l) PROVE DedupInv'
  <2>1. PICK place : pc' = [pc EXCEPT ![l] = place]
    <3>1. CASE CountFailing(l)
      BY <3>1 DEF CountFailing
    <3>2. CASE CountHealthy(l)
      BY <3>2 DEF CountHealthy
    <3> QED
      BY <1>4, <3>1, <3>2 DEF Count
  <2>2. UNCHANGED <<alerts, cur>> /\ pc[l] = "count"
    BY <1>4 DEF Count
  <2>3. NoNewAnswer
    BY <1>0, <2>1, <2>2 DEF NoNewAnswer
  <2> QED
    BY <2>2, <2>3, SameTableShrinks, ShrinkKeepsDedup
<1>5. ASSUME NEW l \in Loops, Touch(l) PROVE DedupInv'
  <2>1. OpenShrinks
    <3>1. cur[l].id \in Ids
      BY <1>0, <1>5 DEF Touch, TypeOK, Placed, Ids
    <3>2. CASE UNCHANGED alerts
      BY <3>2, SameTableShrinks
    <3>3. CASE alerts' = [alerts EXCEPT ![cur[l].id].stale = FALSE]
      BY <1>0, <3>1, <3>3, SetStale DEF TypeOK, OpenShrinks
    <3> QED
      BY <1>5, <3>2, <3>3 DEF Touch
  <2>2. NoNewAnswer
    BY <1>0, <1>5 DEF Touch, NoNewAnswer
  <2> QED
    BY <2>1, <2>2, ShrinkKeepsDedup
<1>6. ASSUME NEW l \in Loops, Create(l) PROVE DedupInv'
  <2>1. CASE UNCHANGED alerts /\ UNCHANGED cur /\ pc' = [pc EXCEPT ![l] = "idle"]
    <3>1. NoNewAnswer
      BY <1>0, <2>1 DEF NoNewAnswer
    <3> QED
      BY <2>1, <3>1, SameTableShrinks, ShrinkKeepsDedup
  <2>2. CASE /\ alerts' = Append(alerts, [key |-> cur[l].key, status |-> "open",
                                          stale |-> FALSE])
             /\ cur' = [cur EXCEPT ![l].id = Len(alerts) + 1]
             /\ pc' = [pc EXCEPT ![l] = "announceCreated"]
    <3> DEFINE r == [key |-> cur[l].key, status |-> "open", stale |-> FALSE]
               new == Len(alerts) + 1
    <3>1. r \in Row /\ r.key = cur[l].key /\ alerts' = Append(alerts, r)
      BY <1>0, <2>2 DEF Row
    <3> HIDE DEF r
    <3>2. /\ Len(alerts') = new /\ alerts'[new] = r
          /\ \A j \in Ids : alerts'[j] = alerts[j]
      BY <1>0, <3>1, AddRow DEF TypeOK
    <3>3. Ids' = Ids \cup {new} /\ new \notin Ids
      BY <1>0, <3>2 DEF Ids
    <3>4. OpenOf(cur[l].key) = {} /\ Owner[cur[l].key] = l
      BY <1>0, <1>6 DEF Create, DedupInv, NoneOpen, Placed
    <3>5. \A k : OpenOf(k)' \subseteq OpenOf(k) \cup (IF k = r.key THEN {new} ELSE {})
      BY <3>2, <3>3 DEF OpenOf, OpenRows
    <3>6. OneOpenPerKey'
      <4> SUFFICES ASSUME NEW k, NEW i \in OpenOf(k)', NEW j \in OpenOf(k)'
                   PROVE  i = j
        BY DEF OneOpenPerKey, OpenOf
      <4>1. CASE k = r.key
        BY <3>1, <3>4, <3>5, <4>1
      <4>2. CASE k # r.key
        <5>1. i \in OpenRows /\ j \in OpenRows /\ alerts[i].key = alerts[j].key
          BY <3>5, <4>2 DEF OpenOf
        <5> QED
          BY <5>1 DEF DedupInv, OneOpenPerKey
      <4> QED
        BY <4>1, <4>2
    <3>7. NoneOpen'
      <4> SUFFICES ASSUME NEW m \in Loops, pc'[m] \in {"count", "create"},
                          cur'[m].id = 0
                   PROVE  OpenOf(cur[m].key)' = {}
        BY DEF NoneOpen
      <4>1. m # l
        BY <1>0, <2>2
      <4>2. cur'[m] = cur[m] /\ pc'[m] = pc[m]
        BY <1>0, <2>2, <4>1
      <4>3. OpenOf(cur[m].key) = {} /\ Owner[cur[m].key] = m
        BY <1>0, <4>2 DEF DedupInv, NoneOpen, Placed
      <4>4. cur[m].key # r.key
        BY <3>1, <3>4, <4>1, <4>3
      <4>5. \A k : k = cur'[m].key => OpenOf(k)' = {}
        BY <3>5, <4>2, <4>3, <4>4
      <4> QED
        BY <4>5 DEF OpenOf, OpenRows, Ids
    <3> QED
      BY <3>6, <3>7 DEF DedupInv
  <2> QED
    BY <1>6, <2>1, <2>2 DEF Create
<1>7. ASSUME NEW l \in Loops, AnnounceCreated(l) PROVE DedupInv'
  <2>1. NoNewAnswer
    BY <1>0, <1>7 DEF AnnounceCreated, NoNewAnswer
  <2> QED
    BY <1>7, <2>1, SameTableShrinks, ShrinkKeepsDedup DEF AnnounceCreated
<1>8. ASSUME StartSweep PROVE DedupInv'
  <2>1. NoNewAnswer
    BY <1>0, <1>8 DEF StartSweep, NoNewAnswer
  <2> QED
    BY <1>8, <2>1, SameTableShrinks, ShrinkKeepsDedup DEF StartSweep
<1>9. ASSUME NEW p \in Procs, Resolve(p) PROVE DedupInv'
  <2>1. CASE /\ Close(p)
             /\ pc' = [pc EXCEPT ![p] = "announceResolved"]
             /\ UNCHANGED <<cur, batch, swept>>
    <3>1. cur[p].id \in Ids
      BY <1>0, <1>9 DEF Resolve, TypeOK, Placed, Ids, Procs
    <3>2. OpenShrinks
      BY <1>0, <2>1, <3>1, SetRow DEF Close, ResolveAlert, TypeOK, OpenShrinks
    <3>3. NoNewAnswer
      BY <1>0, <2>1 DEF NoNewAnswer
    <3> QED
      BY <3>2, <3>3, ShrinkKeepsDedup
  <2>2. CASE NextRow(swept) /\ UNCHANGED <<alerts, streak>>
    <3>1. NoNewAnswer
      BY <1>0, <2>2, NextRowFacts DEF NoNewAnswer, TypeOK
    <3> QED
      BY <2>2, <3>1, SameTableShrinks, ShrinkKeepsDedup
  <2>3. CASE pc' = [pc EXCEPT ![p] = "idle"] /\ UNCHANGED <<alerts, cur>>
    <3>1. NoNewAnswer
      BY <1>0, <2>3 DEF NoNewAnswer
    <3> QED
      BY <2>3, <3>1, SameTableShrinks, ShrinkKeepsDedup
  <2> QED
    BY <1>9, <2>1, <2>2, <2>3 DEF Resolve
<1>10. ASSUME NEW p \in Procs, AnnounceResolved(p) PROVE DedupInv'
  <2>1. NoNewAnswer
    BY <1>0, <1>10 DEF AnnounceResolved, NoNewAnswer
  <2> QED
    BY <1>10, <2>1, SameTableShrinks, ShrinkKeepsDedup DEF AnnounceResolved
<1>11. ASSUME ClearCounters PROVE DedupInv'
  <2>1. NextRow(TRUE) /\ UNCHANGED alerts
    BY <1>11 DEF ClearCounters
  <2>2. NoNewAnswer
    BY <1>0, <2>1, NextRowFacts DEF NoNewAnswer
  <2> QED
    BY <2>1, <2>2, SameTableShrinks, ShrinkKeepsDedup
<1>12. ASSUME NEW p \in Procs, ReadOpen(p) PROVE DedupInv'
  <2>1. NoNewAnswer
    BY <1>0, <1>12 DEF ReadOpen, NoNewAnswer
  <2> QED
    BY <1>12, <2>1, SameTableShrinks, ShrinkKeepsDedup DEF ReadOpen
<1>13. ASSUME NEW p \in Procs, StoreScore(p) PROVE DedupInv'
  <2>1. NoNewAnswer
    BY <1>0, <1>13 DEF StoreScore, NoNewAnswer
  <2> QED
    BY <1>13, <2>1, SameTableShrinks, ShrinkKeepsDedup DEF StoreScore
<1>14. ASSUME Crash PROVE DedupInv'
  <2>1. NoNewAnswer
    BY <1>0, <1>14 DEF Crash, NoNewAnswer
  <2> QED
    BY <1>14, <2>1, SameTableShrinks, ShrinkKeepsDedup DEF Crash
<1>15. ASSUME Restart PROVE DedupInv'
  BY <1>15, SameTableShrinks, ShrinkKeepsDedup DEF Restart, NoNewAnswer
<1>16. CASE UNCHANGED vars
  BY <1>16, SameTableShrinks, ShrinkKeepsDedup DEF vars, NoNewAnswer
<1> QED
  BY <1>1, <1>2, <1>3, <1>4, <1>5, <1>6, <1>7, <1>8, <1>9, <1>10, <1>11, <1>12,
     <1>13, <1>14, <1>15, <1>16 DEF Next

(***************************************************************************)
(* No duplicate rows: although FindOpenAlert and CreateAlert are separate  *)
(* statements and no index of the schema forbids it, a key never has two   *)
(* open alerts, because its one loop is the only goroutine that inserts    *)
(* for it and every other one can only close rows in between.              *)
(***************************************************************************)
THEOREM OneOpenHolds == Spec => []OneOpenPerKey
<1>1. Init => DedupInv
  BY EmptySeq DEF Init, DedupInv, NoneOpen, OneOpenPerKey, OpenOf, OpenRows, Ids, Procs
<1>2. Base /\ DedupInv /\ [Next]_vars => DedupInv'
  BY StepDedup
<1>3. DedupInv => OneOpenPerKey
  BY DEF DedupInv
<1> QED
  BY <1>1, <1>2, <1>3, BaseHolds, PTL DEF Spec

----------------------------------------------------------------------------
(* Hysteresis                                                              *)

(***************************************************************************)
(* A step that observes nothing: it changes no evidence, counts nothing,   *)
(* and lets no collector decide to open or resolve.                        *)
(***************************************************************************)
ObservesNothing ==
  /\ \A k \in Keys : /\ streak'[k].bad = streak[k].bad
                     /\ streak'[k].good = streak[k].good
                     /\ failures'[k] = failures[k] \/ failures'[k] = 0
                     /\ healthy'[k] = healthy[k] \/ healthy'[k] = 0
  /\ \A l \in Loops : pc'[l] \in {"create", "resolve"} =>
                        pc'[l] = pc[l] /\ cur'[l].key = cur[l].key

LEMMA CountersTyped ==
  ASSUME Base
  PROVE  /\ \A k \in Keys : /\ failures[k] \in 0..CountCap
                            /\ healthy[k] \in 0..CountCap
                            /\ streak[k].bad \in 0..CountCap
                            /\ streak[k].good \in 0..CountCap
         /\ \A l \in Loops : cur[l].key \in Keys
<1>1. streak \in [Keys -> Streak] /\ cur \in [Procs -> [key : Keys, failing : BOOLEAN, id : Nat]]
  BY DEF Base, TypeOK
<1>2. failures \in [Keys -> 0..CountCap] /\ healthy \in [Keys -> 0..CountCap]
  BY DEF Base, TypeOK
<1>3. \A l \in Loops : cur[l].key \in Keys
  BY <1>1 DEF Procs
<1>4. \A k \in Keys : streak[k] \in Streak
  BY <1>1
<1>5. \A k \in Keys : streak[k].bad \in 0..CountCap /\ streak[k].good \in 0..CountCap
  BY <1>4 DEF Streak
<1> QED
  BY <1>2, <1>3, <1>5

LEMMA ObservesNothingKeeps ==
  ASSUME Base, HysteresisInv, ObservesNothing
  PROVE  HysteresisInv'
<1>1. CountersBounded'
  <2> SUFFICES ASSUME NEW k \in Keys
               PROVE  failures'[k] <= streak'[k].bad /\ healthy'[k] <= streak'[k].good
    BY DEF CountersBounded
  <2>1. failures[k] <= streak[k].bad /\ healthy[k] <= streak[k].good
    BY DEF HysteresisInv, CountersBounded
  <2> QED
    BY <2>1, CountersTyped, DebounceAssumption DEF ObservesNothing
<1>2. Hysteresis'
  <2> SUFFICES ASSUME NEW l \in Loops
               PROVE  /\ pc'[l] = "create" =>
                           \E t \in Thresholds(cur'[l].key) :
                              streak'[cur'[l].key].bad >= t
                      /\ pc'[l] = "resolve" =>
                           \E m \in ResolveMs : streak'[cur'[l].key].good >= m
    BY DEF Hysteresis, Thresholds
  <2>1. cur[l].key \in Keys
    BY CountersTyped
  <2>2. CASE pc'[l] = "create"
    <3>1. cur'[l].key = cur[l].key /\ pc[l] = "create"
      BY <2>2 DEF ObservesNothing
    <3>2. PICK t \in Thresholds(cur[l].key) : streak[cur[l].key].bad >= t
      BY <3>1 DEF HysteresisInv, Hysteresis
    <3>3. streak'[cur[l].key].bad >= t
      BY <2>1, <3>2 DEF ObservesNothing
    <3> QED
      BY <2>2, <3>1, <3>2, <3>3
  <2>3. CASE pc'[l] = "resolve"
    <3>1. cur'[l].key = cur[l].key /\ pc[l] = "resolve"
      BY <2>3 DEF ObservesNothing
    <3>2. PICK m \in ResolveMs : streak[cur[l].key].good >= m
      BY <3>1 DEF HysteresisInv, Hysteresis
    <3>3. streak'[cur[l].key].good >= m
      BY <2>1, <3>2 DEF ObservesNothing
    <3> QED
      BY <2>3, <3>1, <3>2, <3>3
  <2> QED
    BY <2>2, <2>3
<1> QED
  BY <1>1, <1>2 DEF HysteresisInv

LEMMA BumpMonotone ==
  ASSUME NEW m \in 0..CountCap, NEW n \in 0..CountCap, m <= n
  PROVE  Bump(m) <= Bump(n)
BY DebounceAssumption DEF Bump

(***************************************************************************)
(* An observation of loop l concerns one key, and no other loop holds a    *)
(* decision about it, so what other loops decided stands.                  *)
(***************************************************************************)
LEMMA CountKeepsHysteresis ==
  ASSUME Base, HysteresisInv, NEW l \in Loops, Count(l)
  PROVE  HysteresisInv'
<1> DEFINE k == cur[l].key
<1>1. /\ k \in Keys /\ l \in Procs /\ pc[l] = "count" /\ cur' = cur
      /\ Owner[k] = l
      /\ pc \in [Procs -> Places]
      /\ failures \in [Keys -> 0..CountCap] /\ healthy \in [Keys -> 0..CountCap]
      /\ streak \in [Keys -> Streak]
  BY CountersTyped DEF Count, Base, TypeOK, Placed, Procs
<1>2. failures[k] <= streak[k].bad /\ healthy[k] <= streak[k].good
  BY <1>1 DEF HysteresisInv, CountersBounded
<1>3. /\ failures[k] \in 0..CountCap /\ healthy[k] \in 0..CountCap
      /\ streak[k].bad \in 0..CountCap /\ streak[k].good \in 0..CountCap
  BY <1>1, CountersTyped
<1>4. /\ Bump(failures[k]) <= Bump(streak[k].bad)
      /\ Bump(healthy[k]) <= Bump(streak[k].good)
      /\ Bump(failures[k]) \in 0..CountCap /\ Bump(healthy[k]) \in 0..CountCap
      /\ Bump(streak[k].bad) \in 0..CountCap /\ Bump(streak[k].good) \in 0..CountCap
  BY <1>2, <1>3, BumpMonotone, BumpInRange
<1> HIDE DEF k
<1>5. ASSUME NEW f \in 0..CountCap, NEW h \in 0..CountCap, NEW s, NEW place,
             failures' = [failures EXCEPT ![k] = f],
             healthy' = [healthy EXCEPT ![k] = h],
             streak' = [streak EXCEPT ![k] = s],
             pc' = [pc EXCEPT ![l] = place],
             f <= s.bad, h <= s.good,
             place = "create" => \E t \in Thresholds(k) : s.bad >= t,
             place = "resolve" => \E m \in ResolveMs : s.good >= m
      PROVE  HysteresisInv'
  <2>1. CountersBounded'
    <3> SUFFICES ASSUME NEW q \in Keys
                 PROVE  failures'[q] <= streak'[q].bad /\ healthy'[q] <= streak'[q].good
      BY DEF CountersBounded
    <3>1. CASE q = k
      BY <1>1, <1>5, <3>1
    <3>2. CASE q # k
      BY <1>1, <1>5, <3>2 DEF HysteresisInv, CountersBounded
    <3> QED
      BY <3>1, <3>2
  <2>2. Hysteresis'
    <3> SUFFICES ASSUME NEW j \in Loops
                 PROVE  /\ pc'[j] = "create" =>
                             \E t \in Thresholds(cur[j].key) :
                                streak'[cur[j].key].bad >= t
                        /\ pc'[j] = "resolve" =>
                             \E m \in ResolveMs : streak'[cur[j].key].good >= m
      BY <1>1 DEF Hysteresis, Thresholds
    <3>1. CASE j = l
      BY <1>1, <1>5, <3>1 DEF k
    <3>2. CASE j # l
      <4>1. pc'[j] = pc[j]
        BY <1>1, <1>5, <3>2
      <4>2. CASE pc[j] \in {"create", "resolve"}
        <5>1. Owner[cur[j].key] = j
          BY <4>2 DEF Base, Placed
        <5>2. streak'[cur[j].key] = streak[cur[j].key]
          BY <1>1, <1>5, <3>2, <5>1
        <5> QED
          BY <4>1, <5>2 DEF HysteresisInv, Hysteresis
      <4> QED
        BY <4>1, <4>2
    <3> QED
      BY <3>1, <3>2
  <2> QED
    BY <2>1, <2>2 DEF HysteresisInv
<1>6. CASE CountFailing(l)
  <2> DEFINE s == [bad |-> Bump(streak[k].bad),
                   sinceClosed |-> Bump(streak[k].sinceClosed), good |-> 0]
  <2>1. /\ failures' = [failures EXCEPT ![k] = Bump(failures[k])]
        /\ healthy' = [healthy EXCEPT ![k] = 0]
        /\ streak' = [streak EXCEPT ![k] = s]
    BY <1>1, <1>6 DEF CountFailing, k
  <2>2. PICK place \in {"touch", "idle", "create"} :
          /\ pc' = [pc EXCEPT ![l] = place]
          /\ place = "create" => \E t \in Thresholds(k) : ~(Bump(failures[k]) < t)
    <3>1. CASE pc' = [pc EXCEPT ![l] = "touch"]
      <4> WITNESS "touch" \in {"touch", "idle", "create"}
      <4> QED
        BY <3>1
    <3>2. CASE \E t \in Thresholds(k) :
                 pc' = [pc EXCEPT ![l] = IF Bump(failures[k]) < t THEN "idle"
                                         ELSE "create"]
      <4>1. PICK t \in Thresholds(k) :
              pc' = [pc EXCEPT ![l] = IF Bump(failures[k]) < t THEN "idle"
                                      ELSE "create"]
        BY <3>2
      <4>2. CASE Bump(failures[k]) < t
        BY <4>1, <4>2
      <4>3. CASE ~(Bump(failures[k]) < t)
        BY <4>1, <4>3
      <4> QED
        BY <4>2, <4>3
    <3> QED
      BY <1>6, <3>1, <3>2 DEF CountFailing, Goto, k
  <2>3. \A t \in Thresholds(k) : t \in Nat
    BY DebounceAssumption DEF Thresholds
  <2>4. place = "create" => \E t \in Thresholds(k) : s.bad >= t
    BY <1>4, <2>2, <2>3
  <2>5. Bump(failures[k]) <= s.bad /\ 0 <= s.good /\ 0 \in 0..CountCap
    BY <1>4, DebounceAssumption
  <2> HIDE DEF s
  <2>6. place # "resolve"
    BY <2>2
  <2> QED
    BY <1>4, <1>5, <2>1, <2>2, <2>4, <2>5, <2>6
<1>7. CASE CountHealthy(l)
  <2> DEFINE s == [bad |-> 0, sinceClosed |-> 0, good |-> Bump(streak[k].good)]
  <2>1. /\ failures' = [failures EXCEPT ![k] = 0]
        /\ streak' = [streak EXCEPT ![k] = s]
    BY <1>1, <1>7 DEF CountHealthy, k
  <2>2. PICK h \in {0, Bump(healthy[k])}, place \in {"idle", "resolve"} :
          /\ healthy' = [healthy EXCEPT ![k] = h]
          /\ pc' = [pc EXCEPT ![l] = place]
          /\ place = "resolve" => \E m \in ResolveMs : ~(Bump(healthy[k]) < m)
    <3>1. CASE /\ healthy' = [healthy EXCEPT ![k] = Bump(healthy[k])]
               /\ \E m \in ResolveMs :
                    pc' = [pc EXCEPT ![l] = IF Bump(healthy[k]) < m THEN "idle"
                                            ELSE "resolve"]
      <4>1. PICK m \in ResolveMs :
              pc' = [pc EXCEPT ![l] = IF Bump(healthy[k]) < m THEN "idle"
                                      ELSE "resolve"]
        BY <3>1
      <4>2. CASE Bump(healthy[k]) < m
        BY <3>1, <4>1, <4>2
      <4>3. CASE ~(Bump(healthy[k]) < m)
        BY <3>1, <4>1, <4>3
      <4> QED
        BY <4>2, <4>3
    <3>2. CASE /\ healthy' = [healthy EXCEPT ![k] = 0]
               /\ pc' = [pc EXCEPT ![l] = "idle"]
      BY <3>2
    <3> QED
      BY <1>7, <3>1, <3>2 DEF CountHealthy, Goto, k
  <2>3. \A m \in ResolveMs : m \in Nat
    BY DebounceAssumption
  <2>4. place = "resolve" => \E m \in ResolveMs : s.good >= m
    BY <1>4, <2>2, <2>3
  <2>5. h <= s.good /\ 0 <= s.bad /\ 0 \in 0..CountCap /\ h \in 0..CountCap
    BY <1>4, <2>2, DebounceAssumption
  <2> HIDE DEF s
  <2>6. place # "create"
    BY <2>2
  <2> QED
    BY <1>4, <1>5, <2>1, <2>2, <2>4, <2>5, <2>6
<1> QED
  BY <1>6, <1>7 DEF Count

LEMMA CloseObservesNothing ==
  ASSUME Base, NEW p \in Procs, Close(p)
  PROVE  \A k \in Keys : /\ streak'[k].bad = streak[k].bad
                         /\ streak'[k].good = streak[k].good
<1>1. streak \in [Keys -> Streak] /\ cur[p].key \in Keys
  BY DEF Base, TypeOK
<1>2. streak' = [streak EXCEPT ![cur[p].key].sinceClosed = 0]
  BY DEF Close
<1> SUFFICES ASSUME NEW k \in Keys
             PROVE  streak'[k].bad = streak[k].bad /\ streak'[k].good = streak[k].good
  OBVIOUS
<1>3. streak[k] \in Streak
  BY <1>1
<1> QED
  BY <1>1, <1>2, <1>3 DEF Streak

LEMMA StepHysteresis == Base /\ HysteresisInv /\ [Next]_vars => HysteresisInv'
<1> SUFFICES ASSUME Base, HysteresisInv, [Next]_vars PROVE HysteresisInv'
  OBVIOUS
<1> USE DEF Goto
<1>0. /\ Sweeper \in Procs /\ \A l \in Loops : l \in Procs /\ l # Sweeper
      /\ pc \in [Procs -> Places]
      /\ cur \in [Procs -> [key : Keys, failing : BOOLEAN, id : Nat]]
      /\ failures \in [Keys -> 0..CountCap] /\ healthy \in [Keys -> 0..CountCap]
  BY ProcAssumption DEF Base, TypeOK, Procs
<1>1. ASSUME NEW k \in Keys, Change(k) PROVE HysteresisInv'
  BY <1>1, ObservesNothingKeeps DEF Change, ObservesNothing
<1>2. ASSUME NEW i \in Ids, GoStale(i) PROVE HysteresisInv'
  BY <1>2, ObservesNothingKeeps DEF GoStale, ObservesNothing
<1>3. ASSUME NEW k \in Keys, Lookup(k) PROVE HysteresisInv'
  <2> DEFINE l == Owner[k]
  <2>1. PICK id \in FindOpenAlert(k) :
          cur' = [cur EXCEPT ![l] =
                    [key |-> k, failing |-> world[k] = "bad", id |-> id]]
    BY <1>3 DEF Lookup
  <2>2. UNCHANGED <<failures, healthy, streak>> /\ pc' = [pc EXCEPT ![l] = "count"]
    BY <1>3 DEF Lookup
  <2>3. ObservesNothing
    BY <1>0, <2>1, <2>2 DEF ObservesNothing
  <2> QED
    BY <2>3, ObservesNothingKeeps
<1>4. ASSUME NEW l \in Loops, Count(l) PROVE HysteresisInv'
  BY <1>4, CountKeepsHysteresis
<1>5. ASSUME NEW l \in Loops, Touch(l) PROVE HysteresisInv'
  <2>1. ObservesNothing
    BY <1>0, <1>5 DEF Touch, ObservesNothing
  <2> QED
    BY <2>1, ObservesNothingKeeps
<1>6. ASSUME NEW l \in Loops, Create(l) PROVE HysteresisInv'
  <2>1. PICK place \in {"announceCreated", "idle"} : pc' = [pc EXCEPT ![l] = place]
    BY <1>6 DEF Create
  <2>2. UNCHANGED cur \/ cur' = [cur EXCEPT ![l].id = Len(alerts) + 1]
    BY <1>6 DEF Create
  <2>3. UNCHANGED <<failures, healthy, streak>>
    BY <1>6 DEF Create
  <2>4. ObservesNothing
    BY <1>0, <2>1, <2>2, <2>3 DEF ObservesNothing
  <2> QED
    BY <2>4, ObservesNothingKeeps
<1>7. ASSUME NEW l \in Loops, AnnounceCreated(l) PROVE HysteresisInv'
  <2>1. ObservesNothing
    BY <1>0, <1>7 DEF AnnounceCreated, ObservesNothing
  <2> QED
    BY <2>1, ObservesNothingKeeps
<1>8. ASSUME StartSweep PROVE HysteresisInv'
  <2>1. ObservesNothing
    BY <1>0, <1>8 DEF StartSweep, ObservesNothing
  <2> QED
    BY <2>1, ObservesNothingKeeps
<1>9. ASSUME NEW p \in Procs, Resolve(p) PROVE HysteresisInv'
  <2>1. UNCHANGED <<failures, healthy>>
    BY <1>9 DEF Resolve
  <2>2. \A k \in Keys : /\ streak'[k].bad = streak[k].bad
                        /\ streak'[k].good = streak[k].good
    BY <1>9, CloseObservesNothing DEF Resolve
  <2>3. \A l \in Loops : pc'[l] \in {"create", "resolve"} =>
                           pc'[l] = pc[l] /\ cur'[l].key = cur[l].key
    <3>1. CASE pc' = [pc EXCEPT ![p] = "announceResolved"] /\ UNCHANGED cur
      BY <1>0, <3>1
    <3>2. CASE pc' = [pc EXCEPT ![p] = "idle"] /\ UNCHANGED cur
      BY <1>0, <3>2
    <3>3. CASE NextRow(swept)
      BY <1>0, <3>3, NextRowFacts DEF Base, TypeOK
    <3> QED
      BY <1>9, <3>1, <3>2, <3>3 DEF Resolve
  <2>4. ObservesNothing
    BY <2>1, <2>2, <2>3 DEF ObservesNothing
  <2> QED
    BY <2>4, ObservesNothingKeeps
<1>10. ASSUME NEW p \in Procs, AnnounceResolved(p) PROVE HysteresisInv'
  <2>1. ObservesNothing
    BY <1>0, <1>10 DEF AnnounceResolved, ObservesNothing
  <2> QED
    BY <2>1, ObservesNothingKeeps
<1>11. ASSUME ClearCounters PROVE HysteresisInv'
  <2>1. NextRow(TRUE) /\ UNCHANGED streak
    BY <1>11 DEF ClearCounters
  <2>2. \A k \in Keys : /\ failures'[k] = failures[k] \/ failures'[k] = 0
                        /\ healthy'[k] = healthy[k] \/ healthy'[k] = 0
    BY <1>0, <1>11 DEF ClearCounters
  <2>3. \A l \in Loops : pc'[l] = pc[l] /\ cur'[l] = cur[l]
    BY <1>0, <2>1, NextRowFacts DEF Base, TypeOK
  <2>4. ObservesNothing
    BY <2>1, <2>2, <2>3 DEF ObservesNothing
  <2> QED
    BY <2>4, ObservesNothingKeeps
<1>12. ASSUME NEW p \in Procs, ReadOpen(p) PROVE HysteresisInv'
  <2>1. ObservesNothing
    BY <1>0, <1>12 DEF ReadOpen, ObservesNothing
  <2> QED
    BY <2>1, ObservesNothingKeeps
<1>13. ASSUME NEW p \in Procs, StoreScore(p) PROVE HysteresisInv'
  <2>1. ObservesNothing
    BY <1>0, <1>13 DEF StoreScore, ObservesNothing
  <2> QED
    BY <2>1, ObservesNothingKeeps
<1>14. ASSUME Crash PROVE HysteresisInv'
  <2>1. CountersBounded'
    BY <1>14 DEF Crash, CountersBounded, NoStreak
  <2>2. Hysteresis'
    BY <1>0, <1>14 DEF Crash, Hysteresis
  <2> QED
    BY <2>1, <2>2 DEF HysteresisInv
<1>15. ASSUME Restart PROVE HysteresisInv'
  BY <1>15, ObservesNothingKeeps DEF Restart, ObservesNothing
<1>16. CASE UNCHANGED vars
  BY <1>16, ObservesNothingKeeps DEF vars, ObservesNothing
<1> QED
  BY <1>1, <1>2, <1>3, <1>4, <1>5, <1>6, <1>7, <1>8, <1>9, <1>10, <1>11, <1>12,
     <1>13, <1>14, <1>15, <1>16 DEF Next

(***************************************************************************)
(* An alert is opened only after enough failing observations in a row, and *)
(* resolved by a collector only after enough healthy ones, for every       *)
(* threshold and whatever the sweep, failed calls, restarts and settings   *)
(* changes do to the counters: those never exceed the evidence.            *)
(***************************************************************************)
THEOREM HysteresisHolds == Spec => []Hysteresis
<1>1. Init => HysteresisInv
  BY DEF Init, HysteresisInv, CountersBounded, Hysteresis, NoStreak, Procs
<1>2. Base /\ HysteresisInv /\ [Next]_vars => HysteresisInv'
  BY StepHysteresis
<1>3. HysteresisInv => Hysteresis
  BY DEF HysteresisInv
<1> QED
  BY <1>1, <1>2, <1>3, BaseHolds, PTL DEF Spec

----------------------------------------------------------------------------
(* Refinement of AlertLifecycle                                            *)

(***************************************************************************)
(* OpenId as a function of the set of open rows alone.                     *)
(***************************************************************************)
Pick(S) == IF S = {} THEN 0 ELSE CHOOSE i \in S : TRUE

LEMMA OpenIdIsPick ==
  \A k : OpenId(k) = Pick(OpenOf(k)) /\ OpenId(k)' = Pick(OpenOf(k)')
BY DEF OpenId, Pick

LEMMA PickOnly == \A i : Pick({i}) = i
BY DEF Pick

LEMMA PickNone == Pick({}) = 0
BY DEF Pick

SameOpen == /\ Len(alerts') = Len(alerts)
            /\ \A k \in Keys : OpenOf(k)' = OpenOf(k)

SameEvidence == \A k \in Keys : streak'[k].bad = streak[k].bad

LEMMA SameRowsSameOpen ==
  ASSUME Len(alerts') = Len(alerts),
         \A i \in Ids : /\ alerts'[i].key = alerts[i].key
                        /\ alerts'[i].status = alerts[i].status
  PROVE  SameOpen
<1>1. Ids' = Ids
  BY DEF Ids
<1>2. OpenRows' = OpenRows
  BY <1>1 DEF OpenRows
<1>3. \A k : OpenOf(k)' = OpenOf(k)
  BY <1>2 DEF OpenOf, OpenRows
<1> QED
  BY <1>3 DEF SameOpen

LEMMA SameTableSameOpen == UNCHANGED alerts => SameOpen
BY SameRowsSameOpen

LEMMA NothingHappens ==
  ASSUME SameOpen, SameEvidence
  PROVE  UNCHANGED Lifecycle!vars
<1>1. \A k \in Keys : OpenId(k)' = OpenId(k)
  BY OpenIdIsPick DEF SameOpen
<1>2. \A k \in Keys : (streak[k].bad)' = streak[k].bad
  BY DEF SameEvidence
<1> QED
  BY <1>1, <1>2 DEF SameOpen, Lifecycle!vars

LEMMA ObservationHappens ==
  ASSUME SameOpen, NEW k \in Keys, NEW n \in {0, streak[k].bad + 1},
         \A q \in Keys : streak'[q].bad = IF q = k THEN n ELSE streak[q].bad
  PROVE  Lifecycle!Observe(k)
<1>1. \A q \in Keys : OpenId(q)' = OpenId(q)
  BY OpenIdIsPick DEF SameOpen
<1>2. \A q \in Keys : (streak[q].bad)' = IF q = k THEN n ELSE streak[q].bad
  OBVIOUS
<1>3. [q \in Keys |-> streak[q].bad]' = [[q \in Keys |-> streak[q].bad] EXCEPT ![k] = n]
  BY <1>2
<1>4. UNCHANGED <<[q \in Keys |-> OpenId(q)], Len(alerts)>>
  BY <1>1 DEF SameOpen
<1> QED
  BY <1>3, <1>4 DEF Lifecycle!Observe

LEMMA OpeningHappens ==
  ASSUME NEW k \in Keys, OpenOf(k) = {}, SameEvidence,
         NEW t \in Thresholds(k), streak[k].bad >= t,
         Len(alerts') = Len(alerts) + 1,
         \A q \in Keys : OpenOf(q)' = IF q = k THEN {Len(alerts) + 1} ELSE OpenOf(q)
  PROVE  Lifecycle!Open(k)
<1>1. OpenId(k) = 0
  BY OpenIdIsPick, PickNone
<1>2. \A q \in Keys : OpenId(q)' = IF q = k THEN Len(alerts) + 1 ELSE OpenId(q)
  BY OpenIdIsPick, PickOnly
<1>3. [q \in Keys |-> OpenId(q)]'
        = [[q \in Keys |-> OpenId(q)] EXCEPT ![k] = Len(alerts) + 1]
  BY <1>2
<1>4. UNCHANGED [q \in Keys |-> streak[q].bad]
  BY DEF SameEvidence
<1>5. [q \in Keys |-> OpenId(q)][k] = 0
  BY <1>1
<1>6. \E n \in [q \in Keys |-> Thresholds(q)][k] :
        [q \in Keys |-> streak[q].bad][k] >= n
  OBVIOUS
<1>7. Len(alerts)' = Len(alerts) + 1
  OBVIOUS
<1> QED
  BY <1>3, <1>4, <1>5, <1>6, <1>7 DEF Lifecycle!Open

LEMMA ClosingHappens ==
  ASSUME NEW k \in Keys, NEW i \in Nat \ {0}, OpenOf(k) = {i}, SameEvidence,
         Len(alerts') = Len(alerts),
         \A q \in Keys : OpenOf(q)' = IF q = k THEN {} ELSE OpenOf(q)
  PROVE  Lifecycle!Close(k)
<1>1. OpenId(k) = i /\ i # 0
  BY OpenIdIsPick, PickOnly
<1>2. \A q \in Keys : OpenId(q)' = IF q = k THEN 0 ELSE OpenId(q)
  BY OpenIdIsPick, PickNone
<1>3. [q \in Keys |-> OpenId(q)]' = [[q \in Keys |-> OpenId(q)] EXCEPT ![k] = 0]
  BY <1>2
<1>4. UNCHANGED <<Len(alerts), [q \in Keys |-> streak[q].bad]>>
  BY DEF SameEvidence
<1>5. [q \in Keys |-> OpenId(q)][k] # 0
  BY <1>1
<1> QED
  BY <1>3, <1>4, <1>5 DEF Lifecycle!Close

(***************************************************************************)
(* The step from the lookup's answer to the table: a row the sweep or a    *)
(* collector resolves is its key's only open one, or none is.              *)
(***************************************************************************)
LEMMA CloseStep ==
  ASSUME Base, DedupInv, NEW p \in Procs, Close(p), cur[p].id \in Ids,
         alerts[cur[p].id].key = cur[p].key
  PROVE  [Lifecycle!Next]_(Lifecycle!vars)
<1> DEFINE i == cur[p].id
           k == cur[p].key
<1>1. /\ alerts \in Seq(Row) /\ Len(alerts) \in Nat /\ k \in Keys /\ i \in Ids
      /\ alerts[i] \in Row /\ i \in Nat \ {0} /\ alerts[i].key = k
  BY RowsOfTable DEF Base, TypeOK, Ids
<1>2. SameEvidence
  BY CloseObservesNothing DEF SameEvidence
<1>3. /\ Len(alerts') = Len(alerts)
      /\ \A j \in Ids : alerts'[j] =
           IF j = i THEN [key |-> alerts[i].key, status |-> "resolved", stale |-> FALSE]
                    ELSE alerts[j]
  BY <1>1, SetRow DEF Close, ResolveAlert
<1> HIDE DEF i, k
<1>4. /\ \A j \in Ids : alerts'[j].key = alerts[j].key
      /\ \A j \in Ids : j # i => alerts'[j].status = alerts[j].status
      /\ alerts'[i].status = "resolved"
  BY <1>1, <1>3
<1>5. CASE alerts[i].status = "open"
  <2>1. OpenOf(k) = {i}
    BY <1>1, <1>5 DEF DedupInv, OneOpenPerKey, OpenOf, OpenRows
  <2>2. Ids' = Ids
    BY <1>3 DEF Ids
  <2>3. OpenRows' = OpenRows \ {i}
    BY <1>4, <2>2 DEF OpenRows
  <2>4. \A q : OpenOf(q)' = OpenOf(q) \ {i}
    BY <1>4, <2>3 DEF OpenOf, OpenRows
  <2>5. \A q : q # k => i \notin OpenOf(q)
    BY <1>1 DEF OpenOf
  <2>6. \A q \in Keys : OpenOf(q)' = IF q = k THEN {} ELSE OpenOf(q)
    BY <2>1, <2>4, <2>5
  <2>7. Lifecycle!Close(k)
    BY <1>1, <1>2, <1>3, <2>1, <2>6, ClosingHappens
  <2> QED
    BY <1>1, <2>7 DEF Lifecycle!Next
<1>6. CASE alerts[i].status # "open"
  <2>1. alerts[i].status = "resolved"
    BY <1>1, <1>6 DEF Row
  <2>2. SameOpen
    BY <1>3, <1>4, <2>1, SameRowsSameOpen
  <2> QED
    BY <1>2, <2>2, NothingHappens
<1> QED
  BY <1>5, <1>6

(***************************************************************************)
(* The insert opens an alert: the answer "none open" still holds, and      *)
(* enough failing observations were made.                                  *)
(***************************************************************************)
LEMMA CreateStep ==
  ASSUME Base, DedupInv, HysteresisInv, NEW l \in Loops, pc[l] = "create",
         CreateAlert(cur[l].key), UNCHANGED streak
  PROVE  [Lifecycle!Next]_(Lifecycle!vars)
<1> DEFINE k == cur[l].key
           r == [key |-> k, status |-> "open", stale |-> FALSE]
           new == Len(alerts) + 1
<1>1. alerts \in Seq(Row) /\ Len(alerts) \in Nat /\ k \in Keys /\ r \in Row
  BY RowsOfTable, CountersTyped DEF Base, TypeOK, Row
<1>2. alerts' = Append(alerts, r) /\ r.key = k /\ r.status = "open"
  BY DEF CreateAlert
<1>3. SameEvidence
  BY DEF SameEvidence
<1>4. OpenOf(k) = {}
  BY DEF DedupInv, NoneOpen, Base, Placed
<1>5. PICK t \in Thresholds(k) : streak[k].bad >= t
  BY DEF HysteresisInv, Hysteresis
<1> HIDE DEF r, k
<1>6. /\ Len(alerts') = new /\ alerts'[new] = r
      /\ \A j \in Ids : alerts'[j] = alerts[j]
  BY <1>1, <1>2, AddRow
<1>7. Ids' = Ids \cup {new} /\ new \notin Ids
  BY <1>1, <1>6 DEF Ids
<1> HIDE DEF new
<1>8. OpenRows' = OpenRows \cup {new}
  BY <1>2, <1>6, <1>7 DEF OpenRows
<1>9. \A q : OpenOf(q)' = OpenOf(q) \cup (IF q = k THEN {new} ELSE {})
  BY <1>2, <1>6, <1>7, <1>8 DEF OpenOf, OpenRows
<1>10. \A q \in Keys : OpenOf(q)' = IF q = k THEN {new} ELSE OpenOf(q)
  BY <1>4, <1>9
<1>11. Lifecycle!Open(k)
  BY <1>1, <1>3, <1>4, <1>5, <1>6, <1>10, OpeningHappens DEF new
<1> QED
  BY <1>1, <1>11 DEF Lifecycle!Next

LEMMA CountStep ==
  ASSUME Base, NEW l \in Loops, Count(l), NEW k \in Keys, k = cur[l].key
  PROVE  [Lifecycle!Next]_(Lifecycle!vars)
<1>1. streak \in [Keys -> Streak] /\ streak[k] \in Streak
  BY CountersTyped DEF Base, TypeOK
<1>2. streak[k].bad \in 0..CountCap
  BY <1>1, CountersTyped
<1>3. SameOpen
  BY SameTableSameOpen DEF Count
<1>4. PICK s : /\ streak' = [streak EXCEPT ![k] = s]
               /\ s.bad = 0 \/ s.bad = Bump(streak[k].bad)
  <2>1. CASE CountFailing(l)
    <3> DEFINE s == [bad |-> Bump(streak[k].bad),
                     sinceClosed |-> Bump(streak[k].sinceClosed), good |-> 0]
    <3>1. streak' = [streak EXCEPT ![k] = s]
      BY <1>1, <2>1 DEF CountFailing
    <3>2. s.bad = Bump(streak[k].bad)
      OBVIOUS
    <3> HIDE DEF s
    <3> QED
      BY <3>1, <3>2
  <2>2. CASE CountHealthy(l)
    <3> DEFINE s == [bad |-> 0, sinceClosed |-> 0, good |-> Bump(streak[k].good)]
    <3>1. streak' = [streak EXCEPT ![k] = s]
      BY <1>1, <2>2 DEF CountHealthy
    <3>2. s.bad = 0
      OBVIOUS
    <3> HIDE DEF s
    <3> QED
      BY <3>1, <3>2
  <2> QED
    BY <2>1, <2>2 DEF Count
<1>5. PICK n : /\ n = 0 \/ n = Bump(streak[k].bad)
               /\ \A q \in Keys : streak'[q].bad = IF q = k THEN n ELSE streak[q].bad
  BY <1>1, <1>4
<1>6. CASE n \in {0, streak[k].bad + 1}
  <2>1. Lifecycle!Observe(k)
    BY <1>3, <1>5, <1>6, ObservationHappens
  <2> QED
    BY <2>1 DEF Lifecycle!Next
<1>7. CASE n = streak[k].bad
  <2>1. SameEvidence
    BY <1>5, <1>7 DEF SameEvidence
  <2> QED
    BY <1>3, <2>1, NothingHappens
<1> QED
  BY <1>5, <1>6, <1>7 DEF Bump

LEMMA StepLifecycle ==
  Base /\ DedupInv /\ HysteresisInv /\ [Next]_vars
    => [Lifecycle!Next]_(Lifecycle!vars)
<1> SUFFICES ASSUME Base, DedupInv, HysteresisInv, [Next]_vars
             PROVE  [Lifecycle!Next]_(Lifecycle!vars)
  OBVIOUS
<1>0. /\ TypeOK /\ Placed /\ alerts \in Seq(Row)
      /\ Sweeper \in Procs /\ \A l \in Loops : l \in Procs
  BY ProcAssumption DEF Base, TypeOK, Procs
<1>a. ASSUME UNCHANGED <<alerts, streak>>
      PROVE  [Lifecycle!Next]_(Lifecycle!vars)
  BY <1>a, SameTableSameOpen, NothingHappens DEF SameEvidence
<1>b. ASSUME NEW i \in Ids, NEW b \in BOOLEAN, UNCHANGED streak,
             alerts' = [alerts EXCEPT ![i].stale = b]
      PROVE  [Lifecycle!Next]_(Lifecycle!vars)
  <2>1. SameOpen
    BY <1>0, <1>b, SetStale, SameRowsSameOpen
  <2> QED
    BY <1>b, <2>1, NothingHappens DEF SameEvidence
<1>1. ASSUME NEW k \in Keys, Change(k) PROVE [Lifecycle!Next]_(Lifecycle!vars)
  BY <1>1, <1>a DEF Change
<1>2. ASSUME NEW i \in Ids, GoStale(i) PROVE [Lifecycle!Next]_(Lifecycle!vars)
  BY <1>2, <1>b DEF GoStale
<1>3. ASSUME NEW k \in Keys, Lookup(k) PROVE [Lifecycle!Next]_(Lifecycle!vars)
  BY <1>3, <1>a DEF Lookup
<1>4. ASSUME NEW l \in Loops, Count(l) PROVE [Lifecycle!Next]_(Lifecycle!vars)
  <2>1. PICK k \in Keys : k = cur[l].key
    BY CountersTyped
  <2> QED
    BY <1>4, <2>1, CountStep
<1>5. ASSUME NEW l \in Loops, Touch(l) PROVE [Lifecycle!Next]_(Lifecycle!vars)
  <2>1. cur[l].id \in Ids
    BY <1>0, <1>5 DEF Touch, TypeOK, Placed, Ids
  <2> QED
    BY <1>5, <2>1, <1>a, <1>b DEF Touch, TouchAlert
<1>6. ASSUME NEW l \in Loops, Create(l) PROVE [Lifecycle!Next]_(Lifecycle!vars)
  <2>1. CASE CreateAlert(cur[l].key)
    BY <1>6, <2>1, CreateStep DEF Create
  <2>2. CASE UNCHANGED alerts
    BY <1>6, <2>2, <1>a DEF Create
  <2> QED
    BY <1>6, <2>1, <2>2 DEF Create
<1>7. ASSUME NEW l \in Loops, AnnounceCreated(l)
      PROVE  [Lifecycle!Next]_(Lifecycle!vars)
  BY <1>7, <1>a DEF AnnounceCreated
<1>8. ASSUME StartSweep PROVE [Lifecycle!Next]_(Lifecycle!vars)
  BY <1>8, <1>a DEF StartSweep
<1>9. ASSUME NEW p \in Procs, Resolve(p) PROVE [Lifecycle!Next]_(Lifecycle!vars)
  <2>0. pc[p] = "resolve" /\ cur[p].id \in 0..Len(alerts) /\ batch \subseteq Ids
    BY <1>0, <1>9 DEF Resolve, TypeOK
  <2>1. cur[p].id \in Ids
    BY <1>0, <2>0 DEF Placed, Ids, Procs
  <2>1a. cur[p].id # 0 /\ pc[p] # "idle"
    BY <2>0, <2>1 DEF Ids
  <2>1b. alerts[cur[p].id].key = cur[p].key
    BY <1>0, <2>1a DEF Placed
  <2>2. CASE Close(p)
    BY <2>1, <2>1b, <2>2, CloseStep
  <2>3. CASE UNCHANGED <<alerts, streak>>
    BY <2>3, <1>a
  <2> QED
    BY <1>9, <2>2, <2>3 DEF Resolve
<1>10. ASSUME NEW p \in Procs, AnnounceResolved(p)
       PROVE  [Lifecycle!Next]_(Lifecycle!vars)
  BY <1>10, <1>a DEF AnnounceResolved
<1>11. ASSUME ClearCounters PROVE [Lifecycle!Next]_(Lifecycle!vars)
  BY <1>11, <1>a DEF ClearCounters
<1>12. ASSUME NEW p \in Procs, ReadOpen(p) PROVE [Lifecycle!Next]_(Lifecycle!vars)
  BY <1>12, <1>a DEF ReadOpen
<1>13. ASSUME NEW p \in Procs, StoreScore(p) PROVE [Lifecycle!Next]_(Lifecycle!vars)
  BY <1>13, <1>a DEF StoreScore
<1>14. ASSUME Crash PROVE [Lifecycle!Next]_(Lifecycle!vars)
  <2>1. SameOpen
    BY <1>14, SameTableSameOpen DEF Crash
  <2>2. \A k \in Keys : OpenId(k)' = OpenId(k)
    BY <2>1, OpenIdIsPick DEF SameOpen
  <2>3. \A k \in Keys : (streak[k].bad)' = 0
    BY <1>14 DEF Crash, NoStreak
  <2>4. UNCHANGED <<[k \in Keys |-> OpenId(k)], Len(alerts)>>
    BY <2>1, <2>2 DEF SameOpen
  <2>5. [k \in Keys |-> streak[k].bad]' = [k \in Keys |-> 0]
    BY <2>3
  <2>6. Lifecycle!Restart
    BY <2>4, <2>5 DEF Lifecycle!Restart
  <2> QED
    BY <2>6 DEF Lifecycle!Next
<1>15. ASSUME Restart PROVE [Lifecycle!Next]_(Lifecycle!vars)
  BY <1>15, <1>a DEF Restart
<1>16. CASE UNCHANGED vars
  BY <1>16, <1>a DEF vars
<1> QED
  BY <1>1, <1>2, <1>3, <1>4, <1>5, <1>6, <1>7, <1>8, <1>9, <1>10, <1>11, <1>12,
     <1>13, <1>14, <1>15, <1>16 DEF Next

(***************************************************************************)
(* The engine implements AlertLifecycle for any keys, loops and faults:    *)
(* every statement of Observe, SweepStale and resolve is an observation,   *)
(* an opening on enough evidence of a key with nothing open, a closing of  *)
(* the key's one open alert, or nothing at all.  Both halves matter: the   *)
(* dedup invariant makes the insert an opening, and one open row per key   *)
(* makes an UPDATE that checks no status a closing or nothing.             *)
(***************************************************************************)
THEOREM LifecycleImplemented == Spec => ImplementsLifecycle
<1>1. Init => Lifecycle!Init
  <2> SUFFICES ASSUME Init PROVE Lifecycle!Init
    OBVIOUS
  <2>1. alerts = <<>> /\ Len(alerts) = 0 /\ streak = [k \in Keys |-> NoStreak]
    BY EmptySeq DEF Init
  <2>2. \A k \in Keys : OpenOf(k) = {}
    BY <2>1 DEF OpenOf, OpenRows, Ids
  <2>3. \A k \in Keys : OpenId(k) = 0 /\ streak[k].bad = 0
    BY <2>1, <2>2, OpenIdIsPick, PickNone DEF NoStreak
  <2> QED
    BY <2>1, <2>3 DEF Lifecycle!Init
<1>2. Spec => []DedupInv
  <2>1. Init => DedupInv
    BY EmptySeq DEF Init, DedupInv, NoneOpen, OneOpenPerKey, OpenOf, OpenRows, Ids, Procs
  <2>2. Base /\ DedupInv /\ [Next]_vars => DedupInv'
    BY StepDedup
  <2> QED
    BY <2>1, <2>2, BaseHolds, PTL DEF Spec
<1>3. Spec => []HysteresisInv
  <2>1. Init => HysteresisInv
    BY DEF Init, HysteresisInv, CountersBounded, Hysteresis, NoStreak, Procs
  <2>2. Base /\ HysteresisInv /\ [Next]_vars => HysteresisInv'
    BY StepHysteresis
  <2> QED
    BY <2>1, <2>2, BaseHolds, PTL DEF Spec
<1>4. Base /\ DedupInv /\ HysteresisInv /\ [Next]_vars
        => [Lifecycle!Next]_(Lifecycle!vars)
  BY StepLifecycle
<1> QED
  BY <1>1, <1>2, <1>3, <1>4, BaseHolds, PTL DEF Spec, ImplementsLifecycle, Lifecycle!Spec

----------------------------------------------------------------------------
(* What subscribers hear                                                   *)

Said(type, i) == \E n \in DOMAIN events : events[n] = [type |-> type, id |-> i]

EventsOfRows == \A n \in DOMAIN events : events[n].id \in Ids

(***************************************************************************)
(* A row whose opening nobody has heard of is in the hands of its own      *)
(* loop, and the sweep cannot have taken it: it is neither old nor part of *)
(* the sweep's snapshot.                                                   *)
(***************************************************************************)
CreatedHeard ==
  /\ \A i \in Ids : \/ Said("created", i)
                    \/ \E l \in Loops : pc[l] = "announceCreated" /\ cur[l].id = i
  /\ \A l \in Loops : pc[l] = "announceCreated" =>
       ~alerts[cur[l].id].stale /\ cur[l].id \notin batch

(***************************************************************************)
(* A row is announced as resolved, or about to be, exactly if it is.       *)
(***************************************************************************)
ResolvedHeard ==
  /\ \A i \in Ids \ OpenRows :
       \/ Said("resolved", i)
       \/ \E p \in Procs : pc[p] = "announceResolved" /\ cur[p].id = i
  /\ \A n \in DOMAIN events :
       events[n].type = "resolved" => events[n].id \notin OpenRows
  /\ \A p \in Procs : pc[p] = "announceResolved" => cur[p].id \notin OpenRows

AnnouncedInv ==
  EventsOfRows /\ CreatedHeard /\ ResolvedHeard /\ CreatedBeforeResolved

LEMMA AppendedEvent ==
  ASSUME events \in Seq(EventSet), NEW e \in EventSet, events' = Append(events, e)
  PROVE  /\ Len(events) \in Nat
         /\ DOMAIN events = 1..Len(events)
         /\ DOMAIN events' = 1..(Len(events) + 1)
         /\ \A n \in DOMAIN events : events'[n] = events[n]
         /\ events'[Len(events) + 1] = e
BY AppendProperties, LenProperties

(***************************************************************************)
(* A step in which no row changes its status, nothing is published and     *)
(* nobody starts or stops being about to publish.                          *)
(***************************************************************************)
AnnouncesNothing ==
  /\ UNCHANGED events
  /\ Len(alerts') = Len(alerts)
  /\ \A i \in Ids : alerts'[i].status = alerts[i].status
  /\ \A p \in Procs :
       /\ pc'[p] = "announceCreated" <=> pc[p] = "announceCreated"
       /\ pc'[p] = "announceResolved" <=> pc[p] = "announceResolved"
       /\ pc[p] \in {"announceCreated", "announceResolved"} => cur'[p].id = cur[p].id
  /\ \A l \in Loops : pc[l] = "announceCreated" =>
       ~alerts'[cur[l].id].stale /\ cur[l].id \notin batch'

LEMMA AnnouncesNothingKeeps ==
  ASSUME AnnouncedInv, AnnouncesNothing, Loops \subseteq Procs
  PROVE  AnnouncedInv'
<1>1. Ids' = Ids /\ OpenRows' = OpenRows
  BY DEF AnnouncesNothing, Ids, OpenRows
<1>2. \A type, i : Said(type, i)' = Said(type, i)
  BY DEF AnnouncesNothing, Said
<1>3. EventsOfRows' /\ CreatedBeforeResolved'
  BY <1>1 DEF AnnouncesNothing, AnnouncedInv, EventsOfRows, CreatedBeforeResolved
<1>4. CreatedHeard'
  BY <1>1, <1>2 DEF AnnouncesNothing, AnnouncedInv, CreatedHeard
<1>5. ResolvedHeard'
  BY <1>1, <1>2 DEF AnnouncesNothing, AnnouncedInv, ResolvedHeard
<1> QED
  BY <1>3, <1>4, <1>5 DEF AnnouncedInv

LEMMA StepAnnounced ==
  "crash" \notin Faults /\ Base /\ AnnouncedInv /\ [Next]_vars => AnnouncedInv'
<1> SUFFICES ASSUME "crash" \notin Faults, Base, AnnouncedInv, [Next]_vars
             PROVE  AnnouncedInv'
  OBVIOUS
<1> USE DEF Goto, CreateAlert, TouchAlert, Publish
<1>0. /\ TypeOK /\ Placed
      /\ Len(alerts) \in Nat /\ OpenRows \subseteq Ids
      /\ \A i \in Ids : alerts[i] \in Row
      /\ Sweeper \in Procs /\ Loops \subseteq Procs
      /\ \A l \in Loops : l \in Procs /\ l # Sweeper
      /\ pc \in [Procs -> Places]
      /\ cur \in [Procs -> [key : Keys, failing : BOOLEAN, id : Nat]]
      /\ events \in Seq(EventSet) /\ alerts \in Seq(Row)
      /\ CreatedHeard /\ ResolvedHeard /\ EventsOfRows /\ CreatedBeforeResolved
  BY RowsOfTable, ProcAssumption DEF Base, TypeOK, Procs, AnnouncedInv
<1>00. \A p \in Procs : pc[p] # "idle" /\ cur[p].id # 0 => cur[p].id \in Ids
  BY <1>0 DEF TypeOK, Ids
<1>01. \A l \in Loops : pc[l] = "announceCreated" =>
         ~alerts[cur[l].id].stale /\ cur[l].id \notin batch /\ cur[l].id \in Ids
  BY <1>0, <1>00 DEF CreatedHeard, Placed
<1>1. ASSUME NEW k \in Keys, Change(k) PROVE AnnouncedInv'
  <2>1. AnnouncesNothing
    BY <1>1, <1>01 DEF Change, AnnouncesNothing
  <2> QED
    BY <1>0, <2>1, AnnouncesNothingKeeps
<1>2. ASSUME NEW i \in Ids, GoStale(i) PROVE AnnouncedInv'
  <2>1. /\ Len(alerts') = Len(alerts)
        /\ \A j \in Ids : alerts'[j] =
             IF j = i THEN [key |-> alerts[i].key, status |-> alerts[i].status,
                            stale |-> TRUE]
                      ELSE alerts[j]
    BY <1>0, <1>2, SetStale DEF GoStale
  <2>2. \A l \in Loops : pc[l] = "announceCreated" => cur[l].id # i
    BY <1>0, <1>2 DEF GoStale, Placed
  <2>3. UNCHANGED <<events, pc, cur, batch>>
    BY <1>2 DEF GoStale
  <2>4. AnnouncesNothing
    BY <1>01, <2>1, <2>2, <2>3 DEF AnnouncesNothing
  <2> QED
    BY <1>0, <2>4, AnnouncesNothingKeeps
<1>3. ASSUME NEW k \in Keys, Lookup(k) PROVE AnnouncedInv'
  <2> DEFINE l == Owner[k]
  <2>1. PICK id \in FindOpenAlert(k) :
          cur' = [cur EXCEPT ![l] =
                    [key |-> k, failing |-> world[k] = "bad", id |-> id]]
    BY <1>3 DEF Lookup
  <2>2. /\ UNCHANGED <<alerts, events, batch>> /\ pc' = [pc EXCEPT ![l] = "count"]
        /\ pc[l] = "idle"
    BY <1>3 DEF Lookup
  <2>3. \A p \in Procs : p # l => cur'[p] = cur[p] /\ pc'[p] = pc[p]
    BY <1>0, <2>1, <2>2
  <2>4. l \in Procs /\ pc'[l] = "count"
    BY <1>0, <2>2, ProcAssumption DEF Procs
  <2>5. AnnouncesNothing
    BY <1>01, <2>2, <2>3, <2>4 DEF AnnouncesNothing
  <2> QED
    BY <1>0, <2>5, AnnouncesNothingKeeps
<1>4. ASSUME NEW l \in Loops, Count(l) PROVE AnnouncedInv'
  <2>1. PICK place \in {"idle", "touch", "create", "resolve"} :
          pc' = [pc EXCEPT ![l] = place]
    <3>1. CASE CountFailing(l)
      BY <3>1 DEF CountFailing
    <3>2. CASE CountHealthy(l)
      BY <3>2 DEF CountHealthy
    <3> QED
      BY <1>4, <3>1, <3>2 DEF Count
  <2>2. UNCHANGED <<alerts, cur, events, batch>> /\ pc[l] = "count"
    BY <1>4 DEF Count
  <2>3. AnnouncesNothing
    BY <1>0, <1>01, <2>1, <2>2 DEF AnnouncesNothing
  <2> QED
    BY <1>0, <2>3, AnnouncesNothingKeeps
<1>5. ASSUME NEW l \in Loops, Touch(l) PROVE AnnouncedInv'
  <2>1. /\ Len(alerts') = Len(alerts)
        /\ \A j \in Ids : /\ alerts'[j].status = alerts[j].status
                          /\ alerts'[j].stale => alerts[j].stale
    <3>1. cur[l].id \in Ids
      BY <1>0, <1>5 DEF Touch, TypeOK, Placed, Ids
    <3>2. CASE UNCHANGED alerts
      BY <3>2
    <3>3. CASE alerts' = [alerts EXCEPT ![cur[l].id].stale = FALSE]
      BY <1>0, <3>1, <3>3, SetStale
    <3> QED
      BY <1>5, <3>2, <3>3 DEF Touch
  <2>2. /\ UNCHANGED <<cur, events, batch>> /\ pc' = [pc EXCEPT ![l] = "idle"]
        /\ pc[l] = "touch"
    BY <1>5 DEF Touch
  <2>3. AnnouncesNothing
    BY <1>0, <1>01, <2>1, <2>2 DEF AnnouncesNothing
  <2> QED
    BY <1>0, <2>3, AnnouncesNothingKeeps
<1>6. ASSUME NEW l \in Loops, Create(l) PROVE AnnouncedInv'
  <2>0. UNCHANGED <<events, batch>> /\ pc[l] = "create" /\ l \in Procs
    BY <1>0, <1>6 DEF Create
  <2>1. CASE UNCHANGED alerts /\ UNCHANGED cur /\ pc' = [pc EXCEPT ![l] = "idle"]
    <3>1. AnnouncesNothing
      BY <1>0, <1>01, <2>0, <2>1 DEF AnnouncesNothing
    <3> QED
      BY <1>0, <3>1, AnnouncesNothingKeeps
  <2>2. CASE /\ alerts' = Append(alerts, [key |-> cur[l].key, status |-> "open",
                                          stale |-> FALSE])
             /\ cur' = [cur EXCEPT ![l].id = Len(alerts) + 1]
             /\ pc' = [pc EXCEPT ![l] = "announceCreated"]
    <3> DEFINE r == [key |-> cur[l].key, status |-> "open", stale |-> FALSE]
               new == Len(alerts) + 1
    <3>1. r \in Row /\ r.status = "open" /\ r.stale = FALSE
          /\ alerts' = Append(alerts, r)
      BY <1>0, <2>2 DEF Row
    <3> HIDE DEF r
    <3>2. /\ Len(alerts') = new /\ alerts'[new] = r
          /\ \A j \in Ids : alerts'[j] = alerts[j]
      BY <1>0, <3>1, AddRow
    <3>3. Ids' = Ids \cup {new} /\ new \notin Ids /\ new \in Nat
      BY <1>0, <3>2 DEF Ids
    <3>4. OpenRows' = OpenRows \cup {new}
      BY <3>1, <3>2, <3>3 DEF OpenRows
    <3>5. /\ pc'[l] = "announceCreated" /\ cur'[l].id = new
          /\ \A p \in Procs : p # l => pc'[p] = pc[p] /\ cur'[p] = cur[p]
      BY <1>0, <2>0, <2>2
    <3>6. \A type, i : Said(type, i)' = Said(type, i)
      BY <2>0 DEF Said
    <3>7. EventsOfRows' /\ CreatedBeforeResolved'
      BY <1>0, <2>0, <3>3 DEF EventsOfRows, CreatedBeforeResolved
    <3>8. CreatedHeard'
      <4>1. ASSUME NEW i \in Ids'
            PROVE  \/ Said("created", i)'
                   \/ \E m \in Loops : pc'[m] = "announceCreated" /\ cur'[m].id = i
        <5>1. CASE i = new
          BY <3>5, <5>1
        <5>2. CASE i \in Ids
          <6>1. CASE Said("created", i)
            BY <3>6, <6>1
          <6>2. ASSUME NEW m \in Loops, pc[m] = "announceCreated", cur[m].id = i
                PROVE  pc'[m] = "announceCreated" /\ cur'[m].id = i
            BY <1>0, <2>0, <3>5, <6>2
          <6> QED
            BY <1>0, <5>2, <6>1, <6>2 DEF CreatedHeard
        <5> QED
          BY <3>3, <5>1, <5>2
      <4>2. ASSUME NEW m \in Loops, pc'[m] = "announceCreated"
            PROVE  ~alerts'[cur'[m].id].stale /\ cur'[m].id \notin batch'
        <5>1. CASE m = l
          BY <1>0, <2>0, <3>1, <3>2, <3>3, <3>5, <5>1 DEF TypeOK
        <5>2. CASE m # l
          BY <1>0, <1>01, <2>0, <3>2, <3>5, <4>2, <5>2
        <5> QED
          BY <5>1, <5>2
      <4> QED
        BY <4>1, <4>2 DEF CreatedHeard
    <3>9. ResolvedHeard'
      <4>1. \A p \in Procs : pc'[p] = "announceResolved" =>
              /\ pc[p] = "announceResolved" /\ cur'[p] = cur[p] /\ cur[p].id \in Ids
        <5> SUFFICES ASSUME NEW p \in Procs, pc'[p] = "announceResolved"
                     PROVE  /\ pc[p] = "announceResolved" /\ cur'[p] = cur[p]
                            /\ cur[p].id \in Ids
          OBVIOUS
        <5>1. pc[p] = "announceResolved" /\ cur'[p] = cur[p]
          BY <3>5
        <5>2. CASE p = Sweeper
          BY <1>0, <5>1, <5>2 DEF TypeOK, Placed
        <5>3. CASE p \in Loops
          BY <1>0, <1>00, <5>1, <5>3 DEF Placed
        <5> QED
          BY <5>1, <5>2, <5>3 DEF Procs
      <4>2. \A p \in Procs : pc[p] = "announceResolved" =>
              pc'[p] = "announceResolved" /\ cur'[p] = cur[p]
        BY <2>0, <3>5
      <4>3. Ids' \ OpenRows' = Ids \ OpenRows
        BY <3>3, <3>4
      <4>4. \A i \in Ids' \ OpenRows' :
              \/ Said("resolved", i)'
              \/ \E p \in Procs : pc'[p] = "announceResolved" /\ cur'[p].id = i
        BY <1>0, <3>6, <4>2, <4>3 DEF ResolvedHeard
      <4>5. \A n \in DOMAIN events' :
              events'[n].type = "resolved" => events'[n].id \notin OpenRows'
        BY <1>0, <2>0, <3>3, <3>4 DEF ResolvedHeard, EventsOfRows
      <4>6. \A p \in Procs : pc'[p] = "announceResolved" => cur'[p].id \notin OpenRows'
        BY <1>0, <3>3, <3>4, <4>1 DEF ResolvedHeard
      <4> QED
        BY <4>4, <4>5, <4>6 DEF ResolvedHeard
    <3> QED
      BY <3>7, <3>8, <3>9 DEF AnnouncedInv
  <2> QED
    BY <1>6, <2>1, <2>2 DEF Create
<1>7. ASSUME NEW l \in Loops, AnnounceCreated(l) PROVE AnnouncedInv'
  <2> DEFINE e == [type |-> "created", id |-> cur[l].id]
             last == Len(events) + 1
  <2>1. /\ pc[l] = "announceCreated" /\ pc' = [pc EXCEPT ![l] = "read"]
        /\ UNCHANGED <<alerts, cur, batch>> /\ events' = Append(events, e)
        /\ cur[l].id \in Ids
    BY <1>7, <1>01 DEF AnnounceCreated
  <2>2. e \in EventSet /\ e.type = "created" /\ e.id = cur[l].id
    BY <2>1 DEF EventSet, Ids
  <2> HIDE DEF e
  <2>3. /\ Len(events) \in Nat
        /\ DOMAIN events = 1..Len(events)
        /\ DOMAIN events' = 1..last
        /\ \A n \in DOMAIN events : events'[n] = events[n]
        /\ events'[last] = e
    BY <1>0, <2>1, <2>2, AppendedEvent
  <2>4. /\ DOMAIN events' = DOMAIN events \cup {last} /\ last \notin DOMAIN events
    BY <2>3
  <2>5. Ids' = Ids /\ OpenRows' = OpenRows
    BY <2>1 DEF Ids, OpenRows
  <2>6. \A p \in Procs : pc'[p] = IF p = l THEN "read" ELSE pc[p]
    BY <1>0, <2>1
  <2>7. \A type, i : Said(type, i) => Said(type, i)'
    BY <2>3, <2>4 DEF Said
  <2>8. Said("created", cur[l].id)'
    BY <2>1, <2>2, <2>3, <2>4 DEF Said, e
  <2>9. EventsOfRows'
    BY <1>0, <2>1, <2>2, <2>3, <2>4, <2>5 DEF EventsOfRows
  <2>10. CreatedHeard'
    BY <1>0, <2>1, <2>5, <2>6, <2>7, <2>8 DEF CreatedHeard
  <2>11. ResolvedHeard'
    <3>1. \A p \in Procs : (pc'[p] = "announceResolved") = (pc[p] = "announceResolved")
      BY <2>1, <2>6
    <3> QED
      BY <1>0, <2>1, <2>2, <2>3, <2>4, <2>5, <2>7, <3>1 DEF ResolvedHeard
  <2>12. CreatedBeforeResolved'
    <3> SUFFICES ASSUME NEW n \in DOMAIN events', events'[n].type = "resolved"
                 PROVE  \E m \in 1..(n - 1) :
                          events'[m] = [type |-> "created", id |-> events'[n].id]
      BY DEF CreatedBeforeResolved
    <3>1. n \in DOMAIN events /\ events'[n] = events[n]
      BY <2>2, <2>3, <2>4
    <3>2. PICK m \in 1..(n - 1) : events[m] = [type |-> "created", id |-> events[n].id]
      BY <1>0, <3>1 DEF CreatedBeforeResolved
    <3>3. m \in DOMAIN events
      BY <2>3, <3>1
    <3> QED
      BY <2>3, <3>1, <3>2, <3>3
  <2> QED
    BY <2>9, <2>10, <2>11, <2>12 DEF AnnouncedInv
<1>8. ASSUME StartSweep PROVE AnnouncedInv'
  <2>1. /\ pc[Sweeper] = "idle" /\ pc' = [pc EXCEPT ![Sweeper] = "resolve"]
        /\ UNCHANGED <<alerts, events>>
        /\ batch' = {i \in OpenRows : alerts[i].stale}
    BY <1>8 DEF StartSweep
  <2>2. \A p \in Procs : p # Sweeper => cur'[p] = cur[p] /\ pc'[p] = pc[p]
    BY <1>0, <1>8, <2>1 DEF StartSweep
  <2>3. pc'[Sweeper] = "resolve"
    BY <1>0, <2>1
  <2>4. AnnouncesNothing
    BY <1>0, <1>01, <2>1, <2>2, <2>3 DEF AnnouncesNothing
  <2> QED
    BY <1>0, <2>4, AnnouncesNothingKeeps
<1>9. ASSUME NEW p \in Procs, Resolve(p) PROVE AnnouncedInv'
  <2>0. pc[p] = "resolve" /\ UNCHANGED events
    BY <1>9 DEF Resolve
  <2>1. CASE /\ Close(p)
             /\ pc' = [pc EXCEPT ![p] = "announceResolved"]
             /\ UNCHANGED <<cur, batch, swept>>
    <3> DEFINE i == cur[p].id
    <3>1. i \in Ids
      BY <1>0, <2>0 DEF TypeOK, Placed, Ids, Procs
    <3>2. /\ Len(alerts') = Len(alerts)
          /\ \A j \in Ids : alerts'[j] =
               IF j = i THEN [key |-> alerts[i].key, status |-> "resolved",
                              stale |-> FALSE]
                        ELSE alerts[j]
      BY <1>0, <2>1, <3>1, SetRow DEF Close, ResolveAlert
    <3>3. Ids' = Ids /\ OpenRows' = OpenRows \ {i}
      BY <3>2 DEF Ids, OpenRows
    <3>4. \A q \in Procs : pc'[q] = IF q = p THEN "announceResolved" ELSE pc[q]
      BY <1>0, <2>1
    <3>5. \A type, j : Said(type, j)' = Said(type, j)
      BY <2>0 DEF Said
    <3>6. EventsOfRows' /\ CreatedBeforeResolved'
      BY <1>0, <2>0, <3>3 DEF EventsOfRows, CreatedBeforeResolved
    <3>7. CreatedHeard'
      <4>1. \A l \in Loops :
              (pc'[l] = "announceCreated") = (pc[l] = "announceCreated")
        BY <1>0, <2>0, <3>4
      <4>2. \A l \in Loops : pc[l] = "announceCreated" => ~alerts'[cur[l].id].stale
        BY <1>01, <3>2
      <4> QED
        BY <1>0, <2>1, <3>3, <3>5, <4>1, <4>2 DEF CreatedHeard
    <3>8. ResolvedHeard'
      <4>1. \A q \in Procs : pc[q] = "announceResolved" => pc'[q] = "announceResolved"
        BY <3>4
      <4>2. \A j \in Ids' \ OpenRows' :
              \/ Said("resolved", j)'
              \/ \E q \in Procs : pc'[q] = "announceResolved" /\ cur'[q].id = j
        BY <1>0, <2>1, <3>3, <3>4, <3>5, <4>1 DEF ResolvedHeard
      <4> QED
        BY <1>0, <2>0, <2>1, <3>3, <3>4, <4>2 DEF ResolvedHeard
    <3> QED
      BY <3>6, <3>7, <3>8 DEF AnnouncedInv
  <2>2. CASE p = Sweeper /\ NextRow(swept) /\ UNCHANGED alerts
    <3>1. /\ \A q \in Loops : cur'[q] = cur[q] /\ pc'[q] = pc[q]
          /\ pc'[Sweeper] \in {"idle", "read", "resolve"}
          /\ batch' \subseteq batch
      BY <1>0, <2>2, NextRowFacts DEF TypeOK, Base, NextRow
    <3>2. AnnouncesNothing
      BY <1>0, <1>01, <2>0, <2>2, <3>1 DEF AnnouncesNothing, Procs
    <3> QED
      BY <1>0, <3>2, AnnouncesNothingKeeps
  <2>3. CASE pc' = [pc EXCEPT ![p] = "idle"] /\ UNCHANGED <<alerts, cur, batch>>
    <3>1. AnnouncesNothing
      BY <1>0, <1>01, <2>0, <2>3 DEF AnnouncesNothing
    <3> QED
      BY <1>0, <3>1, AnnouncesNothingKeeps
  <2> QED
    BY <1>9, <2>1, <2>2, <2>3 DEF Resolve
<1>10. ASSUME NEW p \in Procs, AnnounceResolved(p) PROVE AnnouncedInv'
  <2> DEFINE i == cur[p].id
             e == [type |-> "resolved", id |-> i]
             last == Len(events) + 1
  <2>1. PICK place \in {"clear", "read"} : pc' = [pc EXCEPT ![p] = place]
    BY <1>10 DEF AnnounceResolved
  <2>2. /\ pc[p] = "announceResolved"
        /\ UNCHANGED <<alerts, cur, batch>> /\ events' = Append(events, e)
    BY <1>10 DEF AnnounceResolved
  <2>3. i \in Ids
    BY <1>0, <2>2 DEF TypeOK, Placed, Ids, Procs
  <2>4. e \in EventSet /\ e.type = "resolved" /\ e.id = i
    BY <2>3 DEF EventSet, Ids
  <2> HIDE DEF e
  <2>5. /\ Len(events) \in Nat
        /\ DOMAIN events = 1..Len(events)
        /\ DOMAIN events' = 1..last
        /\ \A n \in DOMAIN events : events'[n] = events[n]
        /\ events'[last] = e
    BY <1>0, <2>2, <2>4, AppendedEvent
  <2>6. DOMAIN events' = DOMAIN events \cup {last} /\ last \notin DOMAIN events
    BY <2>5
  <2>7. Ids' = Ids /\ OpenRows' = OpenRows
    BY <2>2 DEF Ids, OpenRows
  <2>8. \A q \in Procs : pc'[q] = IF q = p THEN place ELSE pc[q]
    BY <1>0, <2>1
  <2>9. \A type, j : Said(type, j) => Said(type, j)'
    BY <2>5, <2>6 DEF Said
  <2>10. Said("resolved", i)'
    BY <2>2, <2>4, <2>5, <2>6 DEF Said, e
  <2>11. Said("created", i)
    <3>1. CASE p = Sweeper
      BY <1>0, <1>01, <2>2, <2>3, <3>1 DEF CreatedHeard, Placed
    <3>2. CASE p \in Loops
      <4> SUFFICES ASSUME NEW l \in Loops, pc[l] = "announceCreated", cur[l].id = i
                   PROVE  FALSE
        BY <1>0, <2>3 DEF CreatedHeard
      <4>1. i # 0
        BY <2>3 DEF Ids
      <4>2. cur[l].key = cur[p].key
        BY <1>0, <2>2, <4>1 DEF Placed
      <4>3. Owner[cur[l].key] = l /\ Owner[cur[p].key] = p
        BY <1>0, <2>2, <3>2 DEF Placed
      <4> QED
        BY <2>2, <4>2, <4>3
    <3> QED
      BY <3>1, <3>2 DEF Procs
  <2>12. EventsOfRows'
    BY <1>0, <2>3, <2>4, <2>5, <2>6, <2>7 DEF EventsOfRows
  <2>13. CreatedHeard'
    <3>1. \A l \in Loops : (pc'[l] = "announceCreated") = (pc[l] = "announceCreated")
      BY <1>0, <2>2, <2>8
    <3> QED
      BY <1>0, <2>2, <2>7, <2>9, <3>1 DEF CreatedHeard
  <2>14. ResolvedHeard'
    <3>1. i \notin OpenRows
      BY <1>0, <2>2 DEF ResolvedHeard
    <3>2. ASSUME NEW j \in Ids' \ OpenRows'
          PROVE  \/ Said("resolved", j)'
                 \/ \E q \in Procs : pc'[q] = "announceResolved" /\ cur'[q].id = j
      <4>1. CASE Said("resolved", j)
        BY <2>9, <4>1
      <4>2. ASSUME NEW q \in Procs, pc[q] = "announceResolved", cur[q].id = j
            PROVE  j = i \/ (pc'[q] = "announceResolved" /\ cur'[q].id = j)
        BY <2>2, <2>8, <4>2
      <4>3. j \in Ids \ OpenRows
        BY <2>7
      <4>4. CASE j = i
        BY <2>2, <2>10, <4>4
      <4> QED
        BY <1>0, <4>1, <4>2, <4>3, <4>4 DEF ResolvedHeard
    <3>3. \A n \in DOMAIN events' :
            events'[n].type = "resolved" => events'[n].id \notin OpenRows'
      BY <1>0, <2>4, <2>5, <2>6, <2>7, <3>1 DEF ResolvedHeard
    <3>4. \A q \in Procs : pc'[q] = "announceResolved" => cur'[q].id \notin OpenRows'
      BY <1>0, <2>2, <2>7, <2>8 DEF ResolvedHeard
    <3> QED
      BY <3>2, <3>3, <3>4 DEF ResolvedHeard
  <2>15. CreatedBeforeResolved'
    <3> SUFFICES ASSUME NEW n \in DOMAIN events', events'[n].type = "resolved"
                 PROVE  \E m \in 1..(n - 1) :
                          events'[m] = [type |-> "created", id |-> events'[n].id]
      BY DEF CreatedBeforeResolved
    <3>1. CASE n = last
      <4>1. PICK m \in DOMAIN events : events[m] = [type |-> "created", id |-> i]
        BY <2>11 DEF Said
      <4>2. m \in 1..(last - 1) /\ events'[m] = events[m]
        BY <2>5, <4>1
      <4> QED
        BY <2>4, <2>5, <3>1, <4>1, <4>2
    <3>2. CASE n \in DOMAIN events
      <4>1. events'[n] = events[n]
        BY <2>5, <3>2
      <4>2. PICK m \in 1..(n - 1) : events[m] = [type |-> "created", id |-> events[n].id]
        BY <1>0, <3>2, <4>1 DEF CreatedBeforeResolved
      <4>3. m \in DOMAIN events
        BY <2>5, <3>2
      <4> QED
        BY <2>5, <4>1, <4>2, <4>3
    <3> QED
      BY <2>6, <3>1, <3>2
  <2> QED
    BY <2>12, <2>13, <2>14, <2>15 DEF AnnouncedInv
<1>11. ASSUME ClearCounters PROVE AnnouncedInv'
  <2>1. NextRow(TRUE) /\ UNCHANGED <<alerts, events>> /\ pc[Sweeper] = "clear"
    BY <1>11 DEF ClearCounters
  <2>2. /\ \A q \in Loops : cur'[q] = cur[q] /\ pc'[q] = pc[q]
        /\ pc'[Sweeper] \in {"idle", "read", "resolve"}
        /\ batch' \subseteq batch
    BY <1>0, <2>1, NextRowFacts DEF NextRow
  <2>3. AnnouncesNothing
    BY <1>0, <1>01, <2>1, <2>2 DEF AnnouncesNothing, Procs
  <2> QED
    BY <1>0, <2>3, AnnouncesNothingKeeps
<1>12. ASSUME NEW p \in Procs, ReadOpen(p) PROVE AnnouncedInv'
  <2>1. PICK place \in {"store", "idle"} : pc' = [pc EXCEPT ![p] = place]
    BY <1>12 DEF ReadOpen
  <2>2. UNCHANGED <<alerts, cur, events, batch>> /\ pc[p] = "read"
    BY <1>12 DEF ReadOpen
  <2>3. AnnouncesNothing
    BY <1>0, <1>01, <2>1, <2>2 DEF AnnouncesNothing
  <2> QED
    BY <1>0, <2>3, AnnouncesNothingKeeps
<1>13. ASSUME NEW p \in Procs, StoreScore(p) PROVE AnnouncedInv'
  <2>1. /\ UNCHANGED <<alerts, cur, events, batch>> /\ pc[p] = "store"
        /\ pc' = [pc EXCEPT ![p] = "idle"]
    BY <1>13 DEF StoreScore
  <2>2. AnnouncesNothing
    BY <1>0, <1>01, <2>1 DEF AnnouncesNothing
  <2> QED
    BY <1>0, <2>2, AnnouncesNothingKeeps
<1>14. ASSUME Crash PROVE AnnouncedInv'
  BY <1>14 DEF Crash, MayFail
<1>15. ASSUME Restart PROVE AnnouncedInv'
  <2>1. AnnouncesNothing
    BY <1>01, <1>15 DEF Restart, AnnouncesNothing
  <2> QED
    BY <1>0, <2>1, AnnouncesNothingKeeps
<1>16. CASE UNCHANGED vars
  <2>1. AnnouncesNothing
    BY <1>01, <1>16 DEF vars, AnnouncesNothing
  <2> QED
    BY <1>0, <2>1, AnnouncesNothingKeeps
<1> QED
  BY <1>1, <1>2, <1>3, <1>4, <1>5, <1>6, <1>7, <1>8, <1>9, <1>10, <1>11, <1>12,
     <1>13, <1>14, <1>15, <1>16 DEF Next

LEMMA AnnouncedHolds ==
  ASSUME "crash" \notin Faults
  PROVE  Spec => []AnnouncedInv
<1>1. Init => AnnouncedInv
  <2> SUFFICES ASSUME Init PROVE AnnouncedInv
    OBVIOUS
  <2>1. Ids = {} /\ DOMAIN events = {} /\ \A p \in Procs : pc[p] = "idle"
    BY EmptySeq DEF Init, Ids
  <2>2. Loops \subseteq Procs
    BY DEF Procs
  <2> QED
    BY <2>1, <2>2 DEF AnnouncedInv, EventsOfRows, CreatedHeard, ResolvedHeard,
                      CreatedBeforeResolved
<1>2. Base /\ AnnouncedInv /\ [Next]_vars => AnnouncedInv'
  BY StepAnnounced
<1> QED
  BY <1>1, <1>2, BaseHolds, PTL DEF Spec

(***************************************************************************)
(* Without a crash, nobody hears of a resolution before the opening,       *)
(* whichever goroutines publish the two: the sweep takes a row only after  *)
(* its loop has announced it.                                              *)
(***************************************************************************)
THEOREM CreatedFirst ==
  ASSUME "crash" \notin Faults
  PROVE  Spec => []CreatedBeforeResolved
<1>1. AnnouncedInv => CreatedBeforeResolved
  BY DEF AnnouncedInv
<1> QED
  BY <1>1, AnnouncedHolds, PTL

(***************************************************************************)
(* Without a crash, no transition is silent and none is announced that did *)
(* not happen, for any number of loops, keys and failing calls.            *)
(***************************************************************************)
THEOREM AllAnnounced ==
  ASSUME "crash" \notin Faults
  PROVE  Spec => []EveryTransitionAnnounced
<1>1. Base /\ AnnouncedInv => EveryTransitionAnnounced
  <2> SUFFICES ASSUME Base, AnnouncedInv, Quiet
               PROVE  /\ Announced("created") = Ids
                      /\ Announced("resolved") = Ids \ OpenRows
    BY DEF EveryTransitionAnnounced
  <2>1. \A p \in Procs : pc[p] = "idle"
    BY DEF Quiet
  <2>2. \A type, i : Said(type, i) => i \in Announced(type)
    BY DEF Said, Announced
  <2>3. \A i \in Ids : Said("created", i)
    BY <2>1 DEF AnnouncedInv, CreatedHeard, Procs
  <2>4. \A i \in Ids \ OpenRows : Said("resolved", i)
    BY <2>1 DEF AnnouncedInv, ResolvedHeard
  <2>5. Announced("created") \subseteq Ids
    BY DEF AnnouncedInv, EventsOfRows, Announced
  <2>6. Announced("resolved") \subseteq Ids \ OpenRows
    BY DEF AnnouncedInv, EventsOfRows, ResolvedHeard, Announced
  <2> QED
    BY <2>2, <2>3, <2>4, <2>5, <2>6
<1> QED
  BY <1>1, AnnouncedHolds, BaseHolds, PTL

----------------------------------------------------------------------------
(* Keys whose source stays                                                 *)

Observed == Keys \ Vanishing

(***************************************************************************)
(* The sweep leaves the alerts alone whose source is still there.          *)
(***************************************************************************)
NeverSwept ==
  /\ \A k \in Observed : world[k] # "gone"
  /\ \A i \in Ids : alerts[i].key \in Observed => ~alerts[i].stale /\ i \notin batch

(***************************************************************************)
(* Steps after which no row is old, and none in the sweep's snapshot, that *)
(* was not before.                                                         *)
(***************************************************************************)
NothingAges ==
  /\ UNCHANGED world
  /\ Len(alerts') = Len(alerts)
  /\ \A i \in Ids : /\ alerts'[i].key = alerts[i].key
                    /\ alerts'[i].stale => alerts[i].stale
  /\ batch' \subseteq batch

LEMMA NothingAgesKeeps ==
  ASSUME NeverSwept, NothingAges
  PROVE  NeverSwept'
BY DEF NeverSwept, NothingAges, Ids, Observed

LEMMA NothingAgesSameTable ==
  ASSUME UNCHANGED <<alerts, world>>, batch' \subseteq batch
  PROVE  NothingAges
BY DEF NothingAges

LEMMA StepNeverSwept == Base /\ NeverSwept /\ [Next]_vars => NeverSwept'
<1> SUFFICES ASSUME Base, NeverSwept, [Next]_vars PROVE NeverSwept'
  OBVIOUS
<1> USE DEF Goto, CreateAlert, TouchAlert
<1>0. /\ TypeOK /\ Placed
      /\ Len(alerts) \in Nat /\ OpenRows \subseteq Ids
      /\ \A i \in Ids : alerts[i] \in Row
      /\ Loops \subseteq Procs
      /\ cur \in [Procs -> [key : Keys, failing : BOOLEAN, id : Nat]]
      /\ alerts \in Seq(Row)
  BY RowsOfTable DEF Base, TypeOK, Procs
<1>1. ASSUME NEW k \in Keys, Change(k) PROVE NeverSwept'
  <2>1. UNCHANGED <<alerts, batch>>
    BY <1>1 DEF Change
  <2>2. \A j \in Observed : world'[j] # "gone"
    BY <1>0, <1>1 DEF Change, NeverSwept, Observed, TypeOK
  <2> QED
    BY <2>1, <2>2 DEF NeverSwept, Ids
<1>2. ASSUME NEW i \in Ids, GoStale(i) PROVE NeverSwept'
  <2>1. /\ Len(alerts') = Len(alerts)
        /\ \A j \in Ids : alerts'[j] =
             IF j = i THEN [key |-> alerts[i].key, status |-> alerts[i].status,
                            stale |-> TRUE]
                      ELSE alerts[j]
    BY <1>0, <1>2, SetStale DEF GoStale
  <2>2. alerts[i].key \notin Observed /\ UNCHANGED <<world, batch>>
    BY <1>2 DEF GoStale, NeverSwept
  <2> QED
    BY <2>1, <2>2 DEF NeverSwept, Ids
<1>3. ASSUME NEW k \in Keys, Lookup(k) PROVE NeverSwept'
  BY <1>3, NothingAgesSameTable, NothingAgesKeeps DEF Lookup
<1>4. ASSUME NEW l \in Loops, Count(l) PROVE NeverSwept'
  BY <1>4, NothingAgesSameTable, NothingAgesKeeps DEF Count
<1>5. ASSUME NEW l \in Loops, Touch(l) PROVE NeverSwept'
  <2>1. CASE UNCHANGED alerts
    BY <1>5, <2>1, NothingAgesSameTable, NothingAgesKeeps DEF Touch
  <2>2. CASE alerts' = [alerts EXCEPT ![cur[l].id].stale = FALSE]
    <3>1. cur[l].id \in Ids
      BY <1>0, <1>5 DEF Touch, TypeOK, Placed, Ids
    <3>2. NothingAges
      BY <1>0, <1>5, <2>2, <3>1, SetStale DEF Touch, NothingAges
    <3> QED
      BY <3>2, NothingAgesKeeps
  <2> QED
    BY <1>5, <2>1, <2>2 DEF Touch
<1>6. ASSUME NEW l \in Loops, Create(l) PROVE NeverSwept'
  <2>1. CASE UNCHANGED alerts
    BY <1>6, <2>1, NothingAgesSameTable, NothingAgesKeeps DEF Create
  <2>2. CASE alerts' = Append(alerts, [key |-> cur[l].key, status |-> "open",
                                       stale |-> FALSE])
    <3> DEFINE r == [key |-> cur[l].key, status |-> "open", stale |-> FALSE]
               new == Len(alerts) + 1
    <3>1. r \in Row /\ r.stale = FALSE /\ alerts' = Append(alerts, r)
      BY <1>0, <2>2 DEF Row
    <3> HIDE DEF r
    <3>2. /\ Len(alerts') = new /\ alerts'[new] = r
          /\ \A j \in Ids : alerts'[j] = alerts[j]
      BY <1>0, <3>1, AddRow
    <3>3. Ids' = Ids \cup {new} /\ new \notin Ids
      BY <1>0, <3>2 DEF Ids
    <3>4. UNCHANGED <<world, batch>> /\ batch \subseteq Ids
      BY <1>0, <1>6 DEF Create, TypeOK
    <3> QED
      BY <3>1, <3>2, <3>3, <3>4 DEF NeverSwept
  <2> QED
    BY <1>6, <2>1, <2>2 DEF Create
<1>7. ASSUME NEW l \in Loops, AnnounceCreated(l) PROVE NeverSwept'
  BY <1>7, NothingAgesSameTable, NothingAgesKeeps DEF AnnounceCreated
<1>8. ASSUME StartSweep PROVE NeverSwept'
  <2>1. UNCHANGED <<alerts, world>> /\ batch' = {i \in OpenRows : alerts[i].stale}
    BY <1>8 DEF StartSweep
  <2> QED
    BY <2>1 DEF NeverSwept, Ids
<1>9. ASSUME NEW p \in Procs, Resolve(p) PROVE NeverSwept'
  <2>1. UNCHANGED world /\ batch' \subseteq batch
    BY <1>9 DEF Resolve, NextRow
  <2>2. CASE UNCHANGED alerts
    BY <2>1, <2>2, NothingAgesSameTable, NothingAgesKeeps
  <2>3. CASE Close(p)
    <3>1. cur[p].id \in Ids
      BY <1>0, <1>9 DEF Resolve, TypeOK, Placed, Ids, Procs
    <3>2. NothingAges
      BY <1>0, <2>1, <2>3, <3>1, SetRow DEF Close, ResolveAlert, NothingAges
    <3> QED
      BY <3>2, NothingAgesKeeps
  <2> QED
    BY <1>9, <2>2, <2>3 DEF Resolve
<1>10. ASSUME NEW p \in Procs, AnnounceResolved(p) PROVE NeverSwept'
  BY <1>10, NothingAgesSameTable, NothingAgesKeeps DEF AnnounceResolved
<1>11. ASSUME ClearCounters PROVE NeverSwept'
  BY <1>11, NothingAgesSameTable, NothingAgesKeeps DEF ClearCounters, NextRow
<1>12. ASSUME NEW p \in Procs, ReadOpen(p) PROVE NeverSwept'
  BY <1>12, NothingAgesSameTable, NothingAgesKeeps DEF ReadOpen
<1>13. ASSUME NEW p \in Procs, StoreScore(p) PROVE NeverSwept'
  BY <1>13, NothingAgesSameTable, NothingAgesKeeps DEF StoreScore
<1>14. ASSUME Crash PROVE NeverSwept'
  <2>1. batch' \subseteq batch
    BY <1>14 DEF Crash
  <2> QED
    BY <1>14, <2>1, NothingAgesSameTable, NothingAgesKeeps DEF Crash
<1>15. ASSUME Restart PROVE NeverSwept'
  BY <1>15, NothingAgesSameTable, NothingAgesKeeps DEF Restart
<1>16. CASE UNCHANGED vars
  BY <1>16, NothingAgesSameTable, NothingAgesKeeps DEF vars
<1> QED
  BY <1>1, <1>2, <1>3, <1>4, <1>5, <1>6, <1>7, <1>8, <1>9, <1>10, <1>11, <1>12,
     <1>13, <1>14, <1>15, <1>16 DEF Next

LEMMA NeverSweptHolds == Spec => []NeverSwept
<1>1. Init => NeverSwept
  <2> SUFFICES ASSUME Init PROVE NeverSwept
    OBVIOUS
  <2>1. Ids = {}
    BY EmptySeq DEF Init, Ids
  <2>2. \A k \in Keys : world[k] # "gone"
    BY DEF Init
  <2> QED
    BY <2>1, <2>2 DEF NeverSwept, Observed
<1>2. Base /\ NeverSwept /\ [Next]_vars => NeverSwept'
  BY StepNeverSwept
<1> QED
  BY <1>1, <1>2, BaseHolds, PTL DEF Spec

----------------------------------------------------------------------------
(* Debounced since the last resolution                                     *)

(***************************************************************************)
(* What the failure counter holds was counted since the key's last         *)
(* resolution, but for the moment in which a sweep has resolved the row    *)
(* and not yet cleared the counter; a collector that resolves has cleared  *)
(* it before, with the healthy observation that made it resolve.           *)
(***************************************************************************)
CountedSince(k) == failures[k] <= streak[k].sinceClosed \/ SweepUnfinished(k)

DebounceInv ==
  /\ \A k \in Keys : CountedSince(k)
  /\ \A l \in Loops : pc[l] = "resolve" => failures[cur[l].key] = 0

(***************************************************************************)
(* Steps that count nothing and leave the sweep where it is.               *)
(***************************************************************************)
CountsNothing ==
  /\ UNCHANGED <<failures, streak>>
  /\ pc'[Sweeper] = pc[Sweeper] /\ cur'[Sweeper] = cur[Sweeper]
  /\ \A l \in Loops : pc'[l] = "resolve" => pc[l] = "resolve" /\ cur'[l].key = cur[l].key

LEMMA CountsNothingKeeps ==
  ASSUME DebounceInv, CountsNothing
  PROVE  DebounceInv'
BY DEF DebounceInv, CountedSince, SweepUnfinished, CountsNothing

\* A step of loop l that takes it to another place than "resolve".
LEMMA LoopCountsNothing ==
  ASSUME Base, NEW l \in Loops, NEW place, place # "resolve",
         pc' = [pc EXCEPT ![l] = place],
         \A p \in Procs : p # l => cur'[p] = cur[p],
         UNCHANGED <<failures, streak>>
  PROVE  CountsNothing
BY ProcAssumption DEF Base, TypeOK, Procs, CountsNothing

LEMMA StepDebounce == Base /\ DebounceInv /\ [Next]_vars => DebounceInv'
<1> SUFFICES ASSUME Base, DebounceInv, [Next]_vars PROVE DebounceInv'
  OBVIOUS
<1> USE DEF Goto
<1>0. /\ Sweeper \in Procs /\ \A l \in Loops : l \in Procs /\ l # Sweeper
      /\ pc \in [Procs -> Places] /\ Placed
      /\ cur \in [Procs -> [key : Keys, failing : BOOLEAN, id : Nat]]
      /\ streak \in [Keys -> Streak] /\ failures \in [Keys -> 0..CountCap]
      /\ \A p \in Procs : cur[p].key \in Keys
  BY ProcAssumption DEF Base, TypeOK, Procs
<1>00. \A k \in Keys : failures[k] \in 0..CountCap /\ streak[k].sinceClosed \in 0..CountCap
  BY <1>0 DEF Streak
<1>1. ASSUME NEW k \in Keys, Change(k) PROVE DebounceInv'
  BY <1>1, CountsNothingKeeps DEF Change, CountsNothing
<1>2. ASSUME NEW i \in Ids, GoStale(i) PROVE DebounceInv'
  BY <1>2, CountsNothingKeeps DEF GoStale, CountsNothing
<1>3. ASSUME NEW k \in Keys, Lookup(k) PROVE DebounceInv'
  <2>1. /\ UNCHANGED <<failures, streak>> /\ pc' = [pc EXCEPT ![Owner[k]] = "count"]
        /\ Owner[k] \in Loops
    BY <1>3, ProcAssumption DEF Lookup
  <2>2. \A p \in Procs : p # Owner[k] => cur'[p] = cur[p]
    BY <1>0, <1>3 DEF Lookup
  <2> QED
    BY <2>1, <2>2, LoopCountsNothing, CountsNothingKeeps
<1>4. ASSUME NEW l \in Loops, Count(l) PROVE DebounceInv'
  <2> DEFINE k == cur[l].key
  <2>1. k \in Keys /\ Owner[k] = l /\ l \in Procs /\ UNCHANGED cur
    BY <1>0, <1>4 DEF Count, Placed
  <2>2. \A m \in Loops : m # l /\ pc[m] # "idle" => cur[m].key # k
    BY <1>0, <2>1 DEF Placed
  <2>3. PICK place \in Places : pc' = [pc EXCEPT ![l] = place]
    BY <1>4 DEF Count, CountFailing, CountHealthy, Places
  <2>4. pc'[Sweeper] = pc[Sweeper] /\ \A m \in Loops : m # l => pc'[m] = pc[m]
    BY <1>0, <2>3
  <2>5. CASE CountFailing(l)
    <3>1. /\ failures' = [failures EXCEPT ![k] = Bump(failures[k])]
          /\ streak' = [streak EXCEPT ![k] = [bad |-> Bump(@.bad),
                          sinceClosed |-> Bump(@.sinceClosed), good |-> 0]]
      BY <2>5 DEF CountFailing
    <3>2. \A j \in Keys : j # k => streak'[j] = streak[j] /\ failures'[j] = failures[j]
      BY <1>0, <3>1
    <3>3. streak'[k].sinceClosed = Bump(streak[k].sinceClosed)
          /\ failures'[k] = Bump(failures[k])
      BY <1>0, <2>1, <3>1
    <3>4. pc'[l] # "resolve"
      BY <1>0, <2>1, <2>5 DEF CountFailing
    <3> HIDE DEF k
    <3>5. failures[k] <= streak[k].sinceClosed => failures'[k] <= streak'[k].sinceClosed
      BY <1>00, <2>1, <3>3, BumpMonotone
    <3>6. \A j \in Keys : CountedSince(j)'
      BY <2>1, <2>4, <3>2, <3>5 DEF DebounceInv, CountedSince, SweepUnfinished
    <3>7. \A m \in Loops : pc'[m] = "resolve" => failures'[cur'[m].key] = 0
      BY <1>0, <2>1, <2>2, <2>4, <3>2, <3>4 DEF DebounceInv
    <3> QED
      BY <3>6, <3>7 DEF DebounceInv
  <2>6. CASE CountHealthy(l)
    <3>1. /\ failures' = [failures EXCEPT ![k] = 0]
          /\ streak' = [streak EXCEPT ![k] = [bad |-> 0, sinceClosed |-> 0,
                                              good |-> Bump(@.good)]]
      BY <2>6 DEF CountHealthy
    <3>2. \A j \in Keys : j # k => streak'[j] = streak[j] /\ failures'[j] = failures[j]
      BY <1>0, <3>1
    <3>3. streak'[k].sinceClosed = 0 /\ failures'[k] = 0
      BY <1>0, <2>1, <3>1
    <3> HIDE DEF k
    <3>4. \A j \in Keys : CountedSince(j)'
      BY <2>1, <2>4, <3>2, <3>3 DEF DebounceInv, CountedSince, SweepUnfinished
    <3>5. \A m \in Loops : m # l /\ pc'[m] = "resolve" => failures'[cur'[m].key] = 0
      BY <1>0, <2>1, <2>2, <2>4, <3>2 DEF DebounceInv
    <3>6. failures'[cur'[l].key] = 0
      BY <2>1, <3>3 DEF k
    <3> QED
      BY <3>4, <3>5, <3>6 DEF DebounceInv
  <2> QED
    BY <1>4, <2>5, <2>6 DEF Count
<1>5. ASSUME NEW l \in Loops, Touch(l) PROVE DebounceInv'
  BY <1>5, LoopCountsNothing, CountsNothingKeeps DEF Touch
<1>6. ASSUME NEW l \in Loops, Create(l) PROVE DebounceInv'
  <2>1. PICK place \in {"announceCreated", "idle"} : pc' = [pc EXCEPT ![l] = place]
    BY <1>6 DEF Create
  <2>2. \A p \in Procs : p # l => cur'[p] = cur[p]
    BY <1>0, <1>6 DEF Create
  <2> QED
    BY <1>6, <2>1, <2>2, LoopCountsNothing, CountsNothingKeeps DEF Create
<1>7. ASSUME NEW l \in Loops, AnnounceCreated(l) PROVE DebounceInv'
  BY <1>7, LoopCountsNothing, CountsNothingKeeps DEF AnnounceCreated
<1>8. ASSUME NEW p \in Procs, p = Sweeper, UNCHANGED <<failures, streak>>,
             ~(pc[p] \in {"announceResolved", "clear"}),
             \A l \in Loops : pc'[l] = pc[l] /\ cur'[l] = cur[l]
      PROVE  DebounceInv'
  BY <1>8 DEF DebounceInv, CountedSince, SweepUnfinished
<1>9. ASSUME StartSweep PROVE DebounceInv'
  <2>1. \A l \in Loops : pc'[l] = pc[l] /\ cur'[l] = cur[l]
    BY <1>0, <1>9 DEF StartSweep
  <2> QED
    BY <1>0, <1>8, <1>9, <2>1 DEF StartSweep
<1>10. ASSUME NEW p \in Procs, Resolve(p) PROVE DebounceInv'
  <2>1. CASE Close(p) /\ pc' = [pc EXCEPT ![p] = "announceResolved"] /\ UNCHANGED cur
    <3> DEFINE k == cur[p].key
    <3>1. streak' = [streak EXCEPT ![k].sinceClosed = 0] /\ UNCHANGED failures
      BY <1>10, <2>1 DEF Close, Resolve
    <3>2. k \in Keys /\ \A j \in Keys : j # k => streak'[j] = streak[j]
      BY <1>0, <3>1
    <3>3. p \in Loops => failures[k] = 0
      BY <1>10 DEF Resolve, DebounceInv
    <3>4. streak'[k].sinceClosed = 0
      BY <1>0, <3>1, <3>2 DEF Streak
    <3>5. \A q \in Procs : pc'[q] = IF q = p THEN "announceResolved" ELSE pc[q]
      BY <1>0, <2>1
    <3>6. ASSUME NEW j \in Keys, j = k PROVE CountedSince(j)'
      <4>1. CASE p \in Loops
        BY <3>1, <3>3, <3>4, <3>6, <4>1 DEF CountedSince
      <4>2. CASE p = Sweeper
        BY <1>0, <2>1, <3>5, <3>6, <4>2 DEF CountedSince, SweepUnfinished
      <4> QED
        BY <4>1, <4>2 DEF Procs
    <3>7. pc[p] = "resolve"
      BY <1>10 DEF Resolve
    <3> HIDE DEF k
    <3>8. ASSUME NEW j \in Keys, j # k PROVE CountedSince(j)'
      <4>1. SweepUnfinished(j) => SweepUnfinished(j)'
        BY <1>0, <2>1, <3>5, <3>7 DEF SweepUnfinished
      <4> QED
        BY <3>1, <3>2, <3>8, <4>1 DEF DebounceInv, CountedSince
    <3>9. \A l \in Loops : pc'[l] = "resolve" => failures'[cur'[l].key] = 0
      BY <1>0, <2>1, <3>1, <3>5 DEF DebounceInv
    <3> QED
      BY <3>6, <3>8, <3>9 DEF DebounceInv
  <2>2. CASE p = Sweeper /\ NextRow(swept) /\ UNCHANGED streak
    <3>1. \A l \in Loops : pc'[l] = pc[l] /\ cur'[l] = cur[l]
      BY <2>2, NextRowFacts DEF Base, TypeOK
    <3> QED
      BY <1>0, <1>8, <1>10, <2>2, <3>1 DEF Resolve
  <2>3. CASE p \in Loops /\ pc' = [pc EXCEPT ![p] = "idle"] /\ UNCHANGED <<cur, streak>>
    BY <1>10, <2>3, LoopCountsNothing, CountsNothingKeeps DEF Resolve
  <2> QED
    BY <1>10, <2>1, <2>2, <2>3 DEF Resolve, Procs
<1>11. ASSUME NEW p \in Procs, AnnounceResolved(p) PROVE DebounceInv'
  <2>1. CASE p \in Loops
    BY <1>0, <1>11, <2>1, LoopCountsNothing, CountsNothingKeeps DEF AnnounceResolved
  <2>2. CASE p = Sweeper
    <3>1. /\ UNCHANGED <<failures, streak, cur>> /\ pc'[Sweeper] = "clear"
          /\ \A l \in Loops : pc'[l] = pc[l]
      BY <1>0, <1>11, <2>2 DEF AnnounceResolved
    <3> QED
      BY <3>1 DEF DebounceInv, CountedSince, SweepUnfinished
  <2> QED
    BY <2>1, <2>2 DEF Procs
<1>12. ASSUME ClearCounters PROVE DebounceInv'
  <2> DEFINE k == cur[Sweeper].key
  <2>1. failures' = [failures EXCEPT ![k] = 0] /\ UNCHANGED streak
    BY <1>12 DEF ClearCounters
  <2>2. \A l \in Loops : pc'[l] = pc[l] /\ cur'[l] = cur[l]
    BY <1>12, NextRowFacts DEF ClearCounters
  <2>3. \A j \in Keys : failures'[j] = IF j = k THEN 0 ELSE failures[j]
    BY <1>0, <2>1
  <2>4. ASSUME NEW j \in Keys PROVE CountedSince(j)'
    <3>1. failures'[j] <= streak[j].sinceClosed
      BY <1>00, <2>3, <2>4 DEF DebounceInv, CountedSince, SweepUnfinished
    <3> QED
      BY <2>1, <3>1 DEF CountedSince
  <2>5. \A l \in Loops : pc'[l] = "resolve" => failures'[cur'[l].key] = 0
    BY <1>0, <2>2, <2>3 DEF DebounceInv
  <2> QED
    BY <2>4, <2>5 DEF DebounceInv
<1>13. ASSUME NEW p \in Procs, ReadOpen(p) \/ StoreScore(p) PROVE DebounceInv'
  <2>1. /\ UNCHANGED <<failures, streak, cur>>
        /\ \E place \in {"store", "idle"} : pc' = [pc EXCEPT ![p] = place]
        /\ pc[p] \in {"read", "store"}
    BY <1>13 DEF ReadOpen, StoreScore
  <2>2. CASE p \in Loops
    BY <1>0, <2>1, <2>2, LoopCountsNothing, CountsNothingKeeps
  <2>3. CASE p = Sweeper
    <3>1. \A l \in Loops : pc'[l] = pc[l] /\ cur'[l] = cur[l]
      BY <1>0, <2>1, <2>3
    <3> QED
      BY <1>0, <1>8, <2>1, <2>3, <3>1
  <2> QED
    BY <2>2, <2>3 DEF Procs
<1>14. ASSUME Crash PROVE DebounceInv'
  <2>1. \A k \in Keys : failures'[k] = 0 /\ streak'[k].sinceClosed = 0
    BY <1>14 DEF Crash, NoStreak
  <2>2. \A l \in Loops : pc'[l] = "idle"
    BY <1>0, <1>14 DEF Crash
  <2> QED
    BY <2>1, <2>2 DEF DebounceInv, CountedSince
<1>15. ASSUME Restart PROVE DebounceInv'
  BY <1>15, CountsNothingKeeps DEF Restart, CountsNothing
<1>16. CASE UNCHANGED vars
  BY <1>16, CountsNothingKeeps DEF vars, CountsNothing
<1> QED
  BY <1>1, <1>2, <1>3, <1>4, <1>5, <1>6, <1>7, <1>9, <1>10, <1>11, <1>12,
     <1>13, <1>14, <1>15, <1>16 DEF Next

\* Only Count takes a loop to "create", and only past the threshold.
LEMMA CreateIsDebounced ==
  Base /\ DebounceInv /\ DebounceInv' /\ [Next]_vars
  => \A l \in Loops : pc[l] = "count" /\ pc'[l] = "create" =>
       LET k == cur[l].key IN
       (\E t \in Thresholds(k) : streak'[k].sinceClosed >= t) \/ SweepUnfinished(k)
<1> SUFFICES ASSUME Base, DebounceInv, DebounceInv', [Next]_vars, NEW l \in Loops,
                    pc[l] = "count", pc'[l] = "create", ~SweepUnfinished(cur[l].key)
             PROVE  \E t \in Thresholds(cur[l].key) : streak'[cur[l].key].sinceClosed >= t
  OBVIOUS
<1> USE DEF Goto
<1> DEFINE k == cur[l].key
<1>0. /\ Sweeper \in Procs /\ l \in Procs /\ l # Sweeper
      /\ pc \in [Procs -> Places] /\ failures \in [Keys -> 0..CountCap]
      /\ k \in Keys
  BY ProcAssumption DEF Base, TypeOK, Procs
<1>1. ASSUME NEW p \in Procs, NEW place, pc' = [pc EXCEPT ![p] = place],
             place # "create" \/ p # l
      PROVE  FALSE
  BY <1>0, <1>1
<1>2. Count(l)
  <2>1. ~ \E j \in Keys : Change(j) \/ Lookup(j)
    <3>1. \A j \in Keys : ~Change(j)
      BY DEF Change
    <3>2. ASSUME NEW j \in Keys, Lookup(j) PROVE FALSE
      BY <1>0, <1>1, <3>2, ProcAssumption DEF Lookup, Procs
    <3> QED
      BY <3>1, <3>2
  <2>2. ~ \E i \in Ids : GoStale(i)
    BY DEF GoStale
  <2>3. ASSUME NEW m \in Loops, m # l, Count(m) PROVE FALSE
    <3>1. \E place : pc' = [pc EXCEPT ![m] = place]
      BY <2>3 DEF Count, CountFailing, CountHealthy
    <3> QED
      BY <1>1, <2>3, <3>1 DEF Procs
  <2>4. ASSUME NEW m \in Loops, Touch(m) \/ Create(m) \/ AnnounceCreated(m) PROVE FALSE
    <3>1. \E place \in {"idle", "announceCreated", "read"} : pc' = [pc EXCEPT ![m] = place]
      BY <2>4 DEF Touch, Create, AnnounceCreated
    <3> QED
      BY <1>1, <3>1 DEF Procs
  <2>5. ~StartSweep
    BY <1>0, <1>1 DEF StartSweep
  <2>6. ASSUME ClearCounters \/ \E p \in Procs : Resolve(p) PROVE FALSE
    <3>1. ASSUME NEW any \in BOOLEAN, NextRow(any) PROVE FALSE
      BY <3>1, NextRowFacts
    <3>2. ~ClearCounters
      BY <3>1 DEF ClearCounters
    <3>3. ASSUME NEW p \in Procs, Resolve(p) PROVE FALSE
      <4>1. swept \in BOOLEAN
        BY DEF Base, TypeOK
      <4>2. \E place \in {"announceResolved", "idle"} : pc' = [pc EXCEPT ![p] = place]
        BY <3>1, <3>3, <4>1 DEF Resolve
      <4> QED
        BY <1>1, <4>2
    <3> QED
      BY <2>6, <3>2, <3>3
  <2>7. ASSUME NEW p \in Procs, AnnounceResolved(p) \/ ReadOpen(p) \/ StoreScore(p)
        PROVE  FALSE
    <3>1. \E place \in {"clear", "read", "store", "idle"} : pc' = [pc EXCEPT ![p] = place]
      BY <2>7 DEF AnnounceResolved, ReadOpen, StoreScore
    <3> QED
      BY <1>1, <3>1
  <2>8. ~Crash /\ ~Restart /\ ~UNCHANGED vars
    BY <1>0 DEF Crash, Restart, vars
  <2> QED
    BY <2>1, <2>2, <2>3, <2>4, <2>5, <2>6, <2>7, <2>8 DEF Next
<1>3. CountFailing(l)
  BY <1>0, <1>2 DEF Count, CountHealthy
<1>4. PICK t \in Thresholds(k) : ~(Bump(failures[k]) < t)
  BY <1>0, <1>3 DEF CountFailing
<1>5. failures'[k] = Bump(failures[k])
  BY <1>0, <1>3 DEF CountFailing
<1>6. pc'[Sweeper] = pc[Sweeper] /\ UNCHANGED cur
  <2>1. \E place : pc' = [pc EXCEPT ![l] = place]
    BY <1>3 DEF CountFailing
  <2> QED
    BY <1>0, <1>2, <2>1 DEF Count
<1>7. failures'[k] <= streak'[k].sinceClosed
  BY <1>0, <1>6 DEF DebounceInv, CountedSince, SweepUnfinished
<1>8. streak'[k].sinceClosed \in Nat /\ Bump(failures[k]) \in Nat /\ t \in Nat
  <2>1. t = 1 \/ t \in 1..CountCap
    BY <1>4, DebounceAssumption DEF Thresholds
  <2>2. failures[k] \in 0..CountCap
    BY <1>0
  <2>3. Bump(failures[k]) \in Nat
    BY <2>2, BumpInRange
  <2>4. streak[k] \in Streak
    BY <1>0 DEF Base, TypeOK
  <2>5. streak'[k].sinceClosed = Bump(streak[k].sinceClosed)
    BY <1>0, <1>3 DEF CountFailing, Base, TypeOK
  <2>6. streak[k].sinceClosed \in 0..CountCap
    BY <2>4 DEF Streak
  <2> QED
    BY <2>1, <2>3, <2>5, <2>6, BumpInRange
<1> HIDE DEF k
<1>9. streak'[k].sinceClosed >= t
  BY <1>4, <1>5, <1>7, <1>8
<1> QED
  BY <1>9 DEF k

(***************************************************************************)
(* Beside the sweep, whatever fails and is killed: an alert is opened by   *)
(* enough failing observations since its key's last resolution, unless the *)
(* sweep has that key's counters still to clear.                           *)
(***************************************************************************)
THEOREM DebouncedUnlessSweptHolds == Spec => DebouncedUnlessSwept
<1>1. Init => DebounceInv
  BY DEF Init, DebounceInv, CountedSince, NoStreak, Procs
<1>2. Base /\ DebounceInv /\ [Next]_vars => DebounceInv'
  BY StepDebounce
<1>3. Base /\ DebounceInv /\ DebounceInv' /\ [Next]_vars
      => [\A l \in Loops : pc[l] = "count" /\ pc'[l] = "create" =>
            LET k == cur[l].key IN
            \/ \E t \in Thresholds(k) : streak'[k].sinceClosed >= t
            \/ SweepUnfinished(k)]_vars
  BY CreateIsDebounced
<1> QED
  BY <1>1, <1>2, <1>3, BaseHolds, PTL DEF Spec, DebouncedUnlessSwept

----------------------------------------------------------------------------
(* Resolved once, or twice                                                 *)

(***************************************************************************)
(* The rows a goroutine has in hand and may go on to announce as resolved: *)
(* those of the sweep's snapshot it has not announced yet, and the one a   *)
(* loop's lookup returned.                                                 *)
(***************************************************************************)
InHand ==
  [p \in Procs |->
     IF p = Sweeper
       THEN batch \ (IF pc[p] = "clear" THEN {cur[p].id} ELSE {})
       ELSE IF pc[p] \in {"count", "touch", "resolve", "announceResolved"}
              THEN {cur[p].id} ELSE {}]

Resolutions == {n \in DOMAIN events : IsResolution(n)}

(***************************************************************************)
(* Nobody takes a row in hand that is closed.  So once a resolution has    *)
(* been announced at most one goroutine still has the row in hand, and     *)
(* none has it after a second announcement, or if only its own loop can    *)
(* have it.                                                                *)
(***************************************************************************)
TwiceInv ==
  /\ \A p \in Procs : pc[p] = "announceResolved" => cur[p].id \in Ids \ OpenRows
  /\ \A n \in Resolutions :
       LET i == events[n].id IN
       /\ i \in Ids \ OpenRows
       /\ \A p, q \in Procs : i \in InHand[p] /\ i \in InHand[q] => p = q
       /\ alerts[i].key \in Observed => \A p \in Procs : i \notin InHand[p]
       /\ \A m \in Resolutions : m # n /\ events[m] = events[n] =>
            \A p \in Procs : i \notin InHand[p]
  /\ AnnouncedTwiceAtMost

(***************************************************************************)
(* Steps that announce no resolution, reopen nothing, and put no closed    *)
(* row into a hand that did not have it.                                   *)
(***************************************************************************)
ResolvesQuietly ==
  /\ Resolutions' = Resolutions
  /\ \A n \in Resolutions : events'[n] = events[n]
  /\ \A i \in Ids : alerts'[i].key = alerts[i].key /\ i \in Ids'
  /\ \A i \in Ids \ OpenRows : i \notin OpenRows'
  /\ \A p \in Procs : pc'[p] = "announceResolved" => cur'[p].id \in Ids \ OpenRows'
  /\ \A i \in Ids \ OpenRows, p \in Procs : i \in InHand'[p] => i \in InHand[p]

LEMMA ResolvesQuietlyKeeps ==
  ASSUME TwiceInv, ResolvesQuietly
  PROVE  TwiceInv'
<1>1. \A p \in Procs : pc'[p] = "announceResolved" => cur'[p].id \in Ids' \ OpenRows'
  BY DEF ResolvesQuietly
<1>2. \A n \in Resolutions : events[n].id \in Ids \ OpenRows
  BY DEF TwiceInv
<1>3. ASSUME NEW n \in Resolutions'
      PROVE  /\ events'[n].id \in Ids' \ OpenRows'
             /\ \A p, q \in Procs :
                  events'[n].id \in InHand'[p] /\ events'[n].id \in InHand'[q] => p = q
             /\ alerts'[events'[n].id].key \in Observed =>
                  \A p \in Procs : events'[n].id \notin InHand'[p]
             /\ \A m \in Resolutions' : m # n /\ events'[m] = events'[n] =>
                  \A p \in Procs : events'[n].id \notin InHand'[p]
  <2> DEFINE i == events[n].id
  <2>1. n \in Resolutions /\ events'[n].id = i
        /\ \A m \in Resolutions' : m \in Resolutions /\ events'[m] = events[m]
    BY <1>3 DEF ResolvesQuietly
  <2>2. /\ i \in Ids \ OpenRows
        /\ \A p, q \in Procs : i \in InHand[p] /\ i \in InHand[q] => p = q
        /\ alerts[i].key \in Observed => \A p \in Procs : i \notin InHand[p]
        /\ \A m \in Resolutions : m # n /\ events[m] = events[n] =>
             \A p \in Procs : i \notin InHand[p]
    BY <2>1 DEF TwiceInv
  <2>3. events'[n] = events[n]
    BY <2>1 DEF ResolvesQuietly
  <2> HIDE DEF i
  <2>4. i \in Ids' \ OpenRows' /\ alerts'[i].key = alerts[i].key
        /\ \A p \in Procs : i \in InHand'[p] => i \in InHand[p]
    BY <2>2 DEF ResolvesQuietly
  <2>5. alerts'[i].key \in Observed => \A p \in Procs : i \notin InHand'[p]
    BY <2>2, <2>4
  <2>6. \A p, q \in Procs : i \in InHand'[p] /\ i \in InHand'[q] => p = q
    BY <2>2, <2>4
  <2>7. \A m \in Resolutions' : m # n /\ events'[m] = events'[n] =>
          \A p \in Procs : i \notin InHand'[p]
    BY <2>1, <2>2, <2>3, <2>4
  <2> QED
    BY <2>1, <2>4, <2>5, <2>6, <2>7
<1>4. AnnouncedTwiceAtMost'
  <2>1. \A n \in DOMAIN events' : IsResolution(n)' => n \in Resolutions /\ events'[n] = events[n]
    BY DEF ResolvesQuietly, Resolutions, IsResolution
  <2>2. \A n \in Resolutions : n \in DOMAIN events /\ IsResolution(n)
                               /\ events[n].type = "resolved"
    BY DEF Resolutions, IsResolution
  <2>3. ASSUME NEW l \in DOMAIN events', NEW m \in DOMAIN events', NEW n \in DOMAIN events',
               IsResolution(l)', events'[l] = events'[m], events'[m] = events'[n]
        PROVE  l = m \/ l = n \/ m = n
    <3>1. IsResolution(m)' /\ IsResolution(n)'
      BY <2>3 DEF IsResolution
    <3> QED
      BY <2>1, <2>2, <2>3, <3>1 DEF TwiceInv, AnnouncedTwiceAtMost
  <2>4. ASSUME NEW m \in DOMAIN events', NEW n \in DOMAIN events',
               IsResolution(m)', events'[m] = events'[n],
               alerts'[events'[m].id].key \notin Vanishing
        PROVE  m = n
    <3>1. IsResolution(n)'
      BY <2>4 DEF IsResolution
    <3>2. m \in Resolutions /\ n \in Resolutions /\ events[m] = events[n]
          /\ alerts'[events[m].id].key \notin Vanishing
      BY <2>1, <2>4, <3>1
    <3>3. alerts[events[m].id].key \notin Vanishing
      BY <1>2, <3>2 DEF ResolvesQuietly
    <3> QED
      BY <2>2, <3>2, <3>3 DEF TwiceInv, AnnouncedTwiceAtMost
  <2> QED
    BY <2>3, <2>4 DEF AnnouncedTwiceAtMost
<1> QED
  BY <1>1, <1>3, <1>4 DEF TwiceInv, Observed

\* The loop that owns a row's key is the only one to have it in hand.
LEMMA OneLoopHolds ==
  ASSUME Base, NEW i \in Ids, NEW p \in Loops, NEW q \in Loops,
         i \in InHand[p], i \in InHand[q]
  PROVE  p = q
<1>1. p \in Procs /\ q \in Procs /\ p # Sweeper /\ q # Sweeper /\ i # 0
  BY ProcAssumption DEF Procs, Ids
<1>2. /\ pc[p] # "idle" /\ cur[p].id = i
      /\ pc[q] # "idle" /\ cur[q].id = i
  BY <1>1 DEF InHand
<1>3. cur[p].key = alerts[i].key /\ cur[q].key = alerts[i].key
  BY <1>1, <1>2 DEF Base, Placed
<1> QED
  BY <1>2, <1>3 DEF Base, Placed

\* A step of loop l alone, between places, with the same row.
LEMMA LoopMovesOn ==
  ASSUME Base, TwiceInv, NEW l \in Loops, NEW place,
         pc' = [pc EXCEPT ![l] = place], place # "announceResolved",
         UNCHANGED <<batch, events>>,
         \A i \in Ids : alerts'[i].key = alerts[i].key /\ i \in Ids',
         \A i \in Ids \ OpenRows : i \notin OpenRows',
         \A p \in Procs : p # l => cur'[p] = cur[p],
         \/ place \notin {"count", "touch", "resolve"}
         \/ pc[l] \in {"count", "touch", "resolve"} /\ cur'[l] = cur[l]
         \/ cur'[l].id \notin Ids \ OpenRows
  PROVE  TwiceInv'
<1>1. /\ l \in Procs /\ l # Sweeper /\ Sweeper \in Procs
      /\ \A p \in Procs : pc'[p] = IF p = l THEN place ELSE pc[p]
  BY ProcAssumption DEF Base, TypeOK, Procs
<1>2. \A p \in Procs : p # l => InHand'[p] = InHand[p]
  BY <1>1 DEF InHand
<1>3. \A i \in Ids \ OpenRows : i \in InHand'[l] => i \in InHand[l]
  BY <1>1 DEF InHand
<1>4. Resolutions' = Resolutions
  BY DEF Resolutions, IsResolution
<1>5. \A p \in Procs : pc'[p] = "announceResolved" => cur'[p].id \in Ids \ OpenRows'
  BY <1>1 DEF TwiceInv
<1> QED
  BY <1>2, <1>3, <1>4, <1>5, ResolvesQuietlyKeeps DEF ResolvesQuietly

\* A step that touches neither the table nor the bus, and gives the hands nothing.
LEMMA NothingInHandMoves ==
  ASSUME TwiceInv, UNCHANGED <<alerts, events>>,
         \A p \in Procs : pc'[p] = "announceResolved" =>
                            pc[p] = "announceResolved" /\ cur'[p] = cur[p],
         \A i \in Ids \ OpenRows, p \in Procs : i \in InHand'[p] => i \in InHand[p]
  PROVE  TwiceInv'
<1>1. Ids' = Ids /\ OpenRows' = OpenRows /\ Resolutions' = Resolutions
  BY DEF Ids, OpenRows, Resolutions, IsResolution
<1> QED
  BY <1>1, ResolvesQuietlyKeeps DEF ResolvesQuietly, TwiceInv

LEMMA StepTwice == Base /\ NeverSwept /\ TwiceInv /\ [Next]_vars => TwiceInv'
<1> SUFFICES ASSUME Base, NeverSwept, TwiceInv, [Next]_vars PROVE TwiceInv'
  OBVIOUS
<1> USE DEF Goto, CreateAlert, TouchAlert, Publish
<1>0. /\ TypeOK /\ Placed
      /\ Len(alerts) \in Nat /\ OpenRows \subseteq Ids
      /\ \A i \in Ids : alerts[i] \in Row
      /\ Sweeper \in Procs /\ Loops \subseteq Procs
      /\ \A l \in Loops : l \in Procs /\ l # Sweeper
      /\ pc \in [Procs -> Places]
      /\ cur \in [Procs -> [key : Keys, failing : BOOLEAN, id : Nat]]
      /\ events \in Seq(EventSet) /\ alerts \in Seq(Row)
      /\ batch \subseteq Ids
  BY RowsOfTable, ProcAssumption DEF Base, TypeOK, Procs
<1>00. \A p \in Procs : pc[p] # "idle" /\ cur[p].id # 0 =>
         cur[p].id \in Ids /\ alerts[cur[p].id].key = cur[p].key
  BY <1>0 DEF TypeOK, Placed, Ids
<1>1. ASSUME NEW k \in Keys, Change(k) PROVE TwiceInv'
  <2>1. InHand' = InHand
    BY <1>1 DEF Change, InHand
  <2> QED
    BY <1>1, <2>1, NothingInHandMoves DEF Change
<1>2. ASSUME NEW i \in Ids, GoStale(i) PROVE TwiceInv'
  <2>1. InHand' = InHand /\ Resolutions' = Resolutions
    BY <1>2 DEF GoStale, InHand, Resolutions, IsResolution
  <2>2. /\ Len(alerts') = Len(alerts)
        /\ \A j \in Ids : /\ alerts'[j].status = alerts[j].status
                          /\ alerts'[j].key = alerts[j].key
    BY <1>0, <1>2, SetStale DEF GoStale
  <2>3. Ids' = Ids /\ OpenRows' = OpenRows
    BY <2>2 DEF Ids, OpenRows
  <2>4. ResolvesQuietly
    BY <1>2, <2>1, <2>2, <2>3 DEF GoStale, ResolvesQuietly, TwiceInv
  <2> QED
    BY <2>4, ResolvesQuietlyKeeps
<1>3. ASSUME NEW k \in Keys, Lookup(k) PROVE TwiceInv'
  <2> DEFINE l == Owner[k]
  <2>1. PICK id \in FindOpenAlert(k) :
          cur' = [cur EXCEPT ![l] =
                    [key |-> k, failing |-> world[k] = "bad", id |-> id]]
    BY <1>3 DEF Lookup
  <2>2. /\ UNCHANGED <<alerts, events, batch>> /\ pc' = [pc EXCEPT ![l] = "count"]
        /\ l \in Loops
    BY <1>3, ProcAssumption DEF Lookup
  <2>3. cur'[l].id \notin Ids \ OpenRows
    <3>1. cur'[l].id = id
      BY <1>0, <2>1, <2>2
    <3>2. id = 0 \/ id \in OpenRows
      BY DEF FindOpenAlert, OpenOf
    <3> QED
      BY <3>1, <3>2 DEF Ids
  <2>4. \A p \in Procs : p # l => cur'[p] = cur[p]
    BY <1>0, <2>1
  <2>5. Ids' = Ids /\ OpenRows' = OpenRows
    BY <2>2 DEF Ids, OpenRows
  <2> HIDE DEF l
  <2> QED
    BY <2>2, <2>3, <2>4, <2>5, LoopMovesOn
<1>4. ASSUME NEW l \in Loops, Count(l) PROVE TwiceInv'
  <2>1. PICK place \in {"idle", "touch", "create", "resolve"} :
          pc' = [pc EXCEPT ![l] = place]
    <3>1. CASE CountFailing(l)
      BY <3>1 DEF CountFailing
    <3>2. CASE CountHealthy(l)
      BY <3>2 DEF CountHealthy
    <3> QED
      BY <1>4, <3>1, <3>2 DEF Count
  <2>2. UNCHANGED <<alerts, cur, events, batch>> /\ pc[l] = "count"
    BY <1>4 DEF Count
  <2>3. Ids' = Ids /\ OpenRows' = OpenRows
    BY <2>2 DEF Ids, OpenRows
  <2> QED
    BY <2>1, <2>2, <2>3, LoopMovesOn
<1>5. ASSUME NEW l \in Loops, Touch(l) PROVE TwiceInv'
  <2>1. /\ Len(alerts') = Len(alerts)
        /\ \A j \in Ids : /\ alerts'[j].status = alerts[j].status
                          /\ alerts'[j].key = alerts[j].key
    <3>1. cur[l].id \in Ids
      BY <1>0, <1>5 DEF Touch, TypeOK, Placed, Ids
    <3>2. CASE UNCHANGED alerts
      BY <3>2
    <3>3. CASE alerts' = [alerts EXCEPT ![cur[l].id].stale = FALSE]
      BY <1>0, <3>1, <3>3, SetStale
    <3> QED
      BY <1>5, <3>2, <3>3 DEF Touch
  <2>2. UNCHANGED <<cur, events, batch>> /\ pc' = [pc EXCEPT ![l] = "idle"]
    BY <1>5 DEF Touch
  <2>3. Ids' = Ids /\ OpenRows' = OpenRows
    BY <2>1 DEF Ids, OpenRows
  <2> QED
    BY <2>1, <2>2, <2>3, LoopMovesOn
<1>6. ASSUME NEW l \in Loops, Create(l) PROVE TwiceInv'
  <2>1. PICK place \in {"idle", "announceCreated"} : pc' = [pc EXCEPT ![l] = place]
    BY <1>6 DEF Create
  <2>2. UNCHANGED <<events, batch>> /\ \A p \in Procs : p # l => cur'[p] = cur[p]
    BY <1>0, <1>6 DEF Create
  <2>3. /\ \A i \in Ids : alerts'[i].key = alerts[i].key /\ i \in Ids'
        /\ \A i \in Ids \ OpenRows : i \notin OpenRows'
    <3>1. CASE UNCHANGED alerts
      BY <3>1 DEF Ids, OpenRows
    <3>2. CASE alerts' = Append(alerts, [key |-> cur[l].key, status |-> "open",
                                         stale |-> FALSE])
      <4> DEFINE r == [key |-> cur[l].key, status |-> "open", stale |-> FALSE]
      <4>1. r \in Row
        BY <1>0 DEF Row
      <4> HIDE DEF r
      <4>2. Len(alerts') = Len(alerts) + 1 /\ \A j \in Ids : alerts'[j] = alerts[j]
        BY <1>0, <3>2, <4>1, AddRow DEF r
      <4> QED
        BY <1>0, <4>2 DEF Ids, OpenRows
    <3> QED
      BY <1>6, <3>1, <3>2 DEF Create
  <2> QED
    BY <2>1, <2>2, <2>3, LoopMovesOn
<1>7. ASSUME NEW l \in Loops, AnnounceCreated(l) PROVE TwiceInv'
  <2> DEFINE e == [type |-> "created", id |-> cur[l].id]
  <2>1. cur[l].id \in Ids
    BY <1>0, <1>00, <1>7 DEF AnnounceCreated, Placed
  <2>2. e \in EventSet /\ e.type = "created" /\ events' = Append(events, e)
    BY <1>7, <2>1 DEF EventSet, Ids, AnnounceCreated
  <2> HIDE DEF e
  <2>3. Resolutions' = Resolutions /\ \A n \in Resolutions : events'[n] = events[n]
    BY <1>0, <2>2, AppendedEvent DEF Resolutions, IsResolution
  <2>4. \A p \in Procs : pc'[p] = IF p = l THEN "read" ELSE pc[p]
    BY <1>0, <1>7 DEF AnnounceCreated
  <2>5. UNCHANGED <<alerts, batch, cur>> /\ pc[l] = "announceCreated"
    BY <1>7 DEF AnnounceCreated
  <2>6. InHand' = InHand
    BY <1>0, <2>4, <2>5 DEF InHand
  <2>7. Ids' = Ids /\ OpenRows' = OpenRows
    BY <2>5 DEF Ids, OpenRows
  <2>8. ResolvesQuietly
    BY <2>3, <2>4, <2>5, <2>6, <2>7 DEF ResolvesQuietly, TwiceInv
  <2> QED
    BY <2>8, ResolvesQuietlyKeeps
<1>8. ASSUME StartSweep PROVE TwiceInv'
  <2>1. /\ batch' \subseteq OpenRows /\ UNCHANGED <<alerts, events>>
        /\ pc' = [pc EXCEPT ![Sweeper] = "resolve"]
        /\ \A l \in Loops : cur'[l] = cur[l]
    BY <1>0, <1>8 DEF StartSweep
  <2>2. pc'[Sweeper] = "resolve" /\ \A l \in Loops : pc'[l] = pc[l]
    BY <1>0, <2>1
  <2>3. \A l \in Loops : InHand'[l] = InHand[l]
    BY <1>0, <2>1, <2>2 DEF InHand
  <2>4. InHand'[Sweeper] \subseteq OpenRows
    BY <1>0, <2>1 DEF InHand
  <2>5. \A p \in Procs : pc'[p] = "announceResolved" =>
                           pc[p] = "announceResolved" /\ cur'[p] = cur[p]
    BY <2>1, <2>2 DEF Procs
  <2> QED
    BY <2>1, <2>3, <2>4, <2>5, NothingInHandMoves DEF Procs
<1>9. ASSUME NEW any \in BOOLEAN, NextRow(any), UNCHANGED <<alerts, events>>,
             pc[Sweeper] \in {"resolve", "clear"}
      PROVE  TwiceInv'
  <2>1. /\ \A l \in Loops : cur'[l] = cur[l] /\ pc'[l] = pc[l]
        /\ pc'[Sweeper] \in {"idle", "read", "resolve"}
    BY <1>9, NextRowFacts
  <2>2. batch' = batch \ {cur[Sweeper].id}
    BY <1>9 DEF NextRow
  <2>3. \A l \in Loops : InHand'[l] = InHand[l]
    BY <1>0, <2>1 DEF InHand
  <2>4. InHand'[Sweeper] \subseteq InHand[Sweeper]
    BY <1>0, <1>9, <2>1, <2>2 DEF InHand
  <2>5. \A p \in Procs : pc'[p] = "announceResolved" =>
                           pc[p] = "announceResolved" /\ cur'[p] = cur[p]
    BY <2>1 DEF Procs
  <2> QED
    BY <1>9, <2>3, <2>4, <2>5, NothingInHandMoves DEF Procs
<1>10. ASSUME NEW p \in Procs, Resolve(p) PROVE TwiceInv'
  <2>0. pc[p] = "resolve" /\ UNCHANGED events
    BY <1>10 DEF Resolve
  <2>1. CASE Close(p) /\ pc' = [pc EXCEPT ![p] = "announceResolved"]
             /\ UNCHANGED <<cur, batch>>
    <3> DEFINE i == cur[p].id
    <3>1. i \in Ids
      BY <1>0, <2>0 DEF TypeOK, Placed, Ids, Procs
    <3>2. /\ Len(alerts') = Len(alerts)
          /\ \A j \in Ids : alerts'[j] =
               IF j = i THEN [key |-> alerts[i].key, status |-> "resolved",
                              stale |-> FALSE]
                        ELSE alerts[j]
      BY <1>0, <2>1, <3>1, SetRow DEF Close, ResolveAlert
    <3>3. Ids' = Ids /\ OpenRows' = OpenRows \ {i}
      BY <3>2 DEF Ids, OpenRows
    <3>4. \A j \in Ids : alerts'[j].key = alerts[j].key
      BY <3>2
    <3>5. \A q \in Procs : pc'[q] = IF q = p THEN "announceResolved" ELSE pc[q]
      BY <1>0, <2>1
    <3>6. ASSUME NEW q \in Procs PROVE InHand'[q] = InHand[q]
      <4>1. pc'[q] = pc[q] \/ (pc[q] = "resolve" /\ pc'[q] = "announceResolved")
        BY <2>0, <3>5
      <4> QED
        BY <2>1, <4>1 DEF InHand
    <3>7. Resolutions' = Resolutions
      BY <2>0 DEF Resolutions, IsResolution
    <3>8. \A q \in Procs : pc'[q] = "announceResolved" => cur'[q].id \in Ids \ OpenRows'
      BY <2>1, <3>1, <3>3, <3>5 DEF TwiceInv
    <3> HIDE DEF i
    <3>9. ResolvesQuietly
      BY <2>0, <3>3, <3>4, <3>6, <3>7, <3>8 DEF ResolvesQuietly
    <3> QED
      BY <3>9, ResolvesQuietlyKeeps
  <2>2. CASE p = Sweeper /\ NextRow(swept) /\ UNCHANGED alerts
    BY <1>0, <1>9, <2>0, <2>2 DEF TypeOK
  <2>3. CASE p \in Loops /\ pc' = [pc EXCEPT ![p] = "idle"] /\ UNCHANGED <<alerts, cur, batch>>
    <3>1. Ids' = Ids /\ OpenRows' = OpenRows
      BY <2>3 DEF Ids, OpenRows
    <3> QED
      BY <2>0, <2>3, <3>1, LoopMovesOn
  <2> QED
    BY <1>10, <2>1, <2>2, <2>3 DEF Resolve, Procs
<1>11. ASSUME NEW p \in Procs, AnnounceResolved(p) PROVE TwiceInv'
  <2> DEFINE i == cur[p].id
             e == [type |-> "resolved", id |-> i]
             last == Len(events) + 1
  <2>1. PICK place \in {"clear", "read"} :
          pc' = [pc EXCEPT ![p] = place] /\ (place = "clear" <=> p = Sweeper)
    BY <1>11 DEF AnnounceResolved
  <2>2. pc[p] = "announceResolved" /\ UNCHANGED <<alerts, cur, batch>>
        /\ events' = Append(events, e)
    BY <1>11 DEF AnnounceResolved
  <2>3. i \in Ids /\ i \notin OpenRows /\ i # 0
    BY <2>2 DEF TwiceInv, Ids
  <2>4. e \in EventSet /\ e.type = "resolved" /\ e.id = i
    BY <2>3 DEF EventSet, Ids
  <2>5. /\ Len(events) \in Nat
        /\ DOMAIN events = 1..Len(events)
        /\ DOMAIN events' = 1..last
        /\ \A n \in DOMAIN events : events'[n] = events[n]
        /\ events'[last] = e
    <3> HIDE DEF e
    <3> QED
      BY <1>0, <2>2, <2>4, AppendedEvent
  <2>6. Ids' = Ids /\ OpenRows' = OpenRows
    BY <2>2 DEF Ids, OpenRows
  <2>7. \A q \in Procs : pc'[q] = IF q = p THEN place ELSE pc[q]
    BY <1>0, <2>1
  <2>8. i \in InHand[p]
    BY <1>0, <2>2 DEF InHand, Placed
  <2>9. \A q \in Procs : q # p => InHand'[q] = InHand[q]
    BY <2>2, <2>7 DEF InHand
  <2>10. InHand'[p] \subseteq InHand[p] /\ i \notin InHand'[p]
    BY <2>1, <2>2, <2>7 DEF InHand
  <2> HIDE DEF e
  <2>11. Resolutions' = Resolutions \cup {last} /\ last \notin DOMAIN events
    BY <2>4, <2>5 DEF Resolutions, IsResolution
  <2>12. \A n \in Resolutions : n \in DOMAIN events /\ events'[n] = events[n] /\ n # last
    BY <2>5 DEF Resolutions
  <2> HIDE DEF last, i
  <2>13. \A q \in Procs : pc'[q] = "announceResolved" => cur'[q].id \in Ids' \ OpenRows'
    BY <2>1, <2>2, <2>6, <2>7 DEF TwiceInv
  \* After the announcement at most one other goroutine has the row.
  <2>14. ASSUME NEW q \in Procs, NEW r \in Procs, i \in InHand'[q], i \in InHand'[r]
         PROVE  q = r
    <3>1. q # p /\ r # p /\ i \in InHand[q] /\ i \in InHand[r]
      BY <2>9, <2>10, <2>14
    <3>2. \A a, b \in Loops : i \in InHand[a] /\ i \in InHand[b] => a = b
      BY <2>3, OneLoopHolds
    <3> QED
      BY <2>8, <3>1, <3>2 DEF Procs
  <2>15. ASSUME alerts[i].key \in Observed
         PROVE  /\ \A q \in Procs : i \notin InHand'[q]
                /\ \A n \in Resolutions : events[n] # e
    <3>1. i \notin InHand[Sweeper]
      BY <1>0, <2>3, <2>15 DEF NeverSwept, InHand
    <3>2. p # Sweeper
      BY <2>8, <3>1
    <3>3. \A q \in Procs : i \in InHand[q] => q = p
      BY <2>3, <2>8, <3>1, <3>2, OneLoopHolds DEF Procs
    <3>4. \A n \in Resolutions : events[n] # e
      BY <2>4, <2>8, <2>15 DEF TwiceInv
    <3> QED
      BY <2>9, <2>10, <3>3, <3>4
  <2>16. ASSUME NEW n \in Resolutions, events[n] = e
         PROVE  /\ \A q \in Procs : i \notin InHand'[q]
                /\ \A m \in Resolutions : events[m] = e => m = n
    <3>1. \A q \in Procs : i \in InHand[q] => q = p
      BY <2>4, <2>8, <2>16 DEF TwiceInv
    <3>2. \A m \in Resolutions : events[m] = e => m = n
      BY <2>4, <2>8, <2>16 DEF TwiceInv
    <3> QED
      BY <2>9, <2>10, <3>1, <3>2
  <2>17. ASSUME NEW n \in Resolutions'
         PROVE  /\ events'[n].id \in Ids' \ OpenRows'
                /\ \A q, r \in Procs :
                     events'[n].id \in InHand'[q] /\ events'[n].id \in InHand'[r] => q = r
                /\ alerts'[events'[n].id].key \in Observed =>
                     \A q \in Procs : events'[n].id \notin InHand'[q]
                /\ \A m \in Resolutions' : m # n /\ events'[m] = events'[n] =>
                     \A q \in Procs : events'[n].id \notin InHand'[q]
    <3>1. CASE n = last
      <4>1. events'[n] = e /\ events'[n].id = i
        BY <2>4, <2>5, <3>1
      <4>2. \A m \in Resolutions' : m # n => m \in Resolutions /\ events'[m] = events[m]
        BY <2>11, <2>12, <3>1
      <4>3. \A m \in Resolutions' : m # n /\ events'[m] = events'[n] =>
              \A q \in Procs : i \notin InHand'[q]
        BY <2>16, <4>1, <4>2
      <4>4. i \in Ids' \ OpenRows' /\ alerts'[i].key = alerts[i].key
        BY <2>2, <2>3, <2>6
      <4>5. alerts'[i].key \in Observed => \A q \in Procs : i \notin InHand'[q]
        BY <2>15, <4>4
      <4>6. \A q, r \in Procs : i \in InHand'[q] /\ i \in InHand'[r] => q = r
        BY <2>14
      <4> QED
        BY <4>1, <4>3, <4>4, <4>5, <4>6
    <3>2. CASE n \in Resolutions
      <4> DEFINE j == events[n].id
      <4>1. events'[n] = events[n] /\ events'[n].id = j /\ n # last
        BY <2>12, <3>2
      <4>2. /\ j \in Ids \ OpenRows
            /\ \A q, r \in Procs : j \in InHand[q] /\ j \in InHand[r] => q = r
            /\ alerts[j].key \in Observed => \A q \in Procs : j \notin InHand[q]
            /\ \A m \in Resolutions : m # n /\ events[m] = events[n] =>
                 \A q \in Procs : j \notin InHand[q]
        BY <3>2 DEF TwiceInv
      <4>3. \A q \in Procs : j \in InHand'[q] => j \in InHand[q]
        BY <2>9, <2>10
      <4>4. ASSUME NEW m \in Resolutions', m # n, events'[m] = events[n]
            PROVE  \A q \in Procs : j \notin InHand'[q]
        <5>1. CASE m = last
          <6>1. events[n] = e /\ j = i
            BY <2>4, <2>5, <4>4, <5>1
          <6> QED
            BY <2>16, <3>2, <6>1
        <5>2. CASE m \in Resolutions
          BY <2>12, <4>2, <4>3, <4>4, <5>2
        <5> QED
          BY <2>11, <4>4, <5>1, <5>2
      <4> HIDE DEF j
      <4>5. j \in Ids' \ OpenRows' /\ alerts'[j].key = alerts[j].key
        BY <2>2, <2>6, <4>2
      <4>6. alerts'[j].key \in Observed => \A q \in Procs : j \notin InHand'[q]
        BY <4>2, <4>3, <4>5
      <4>7. \A q, r \in Procs : j \in InHand'[q] /\ j \in InHand'[r] => q = r
        BY <4>2, <4>3
      <4>8. \A m \in Resolutions' : m # n /\ events'[m] = events'[n] =>
              \A q \in Procs : j \notin InHand'[q]
        BY <4>1, <4>4
      <4> QED
        BY <4>1, <4>5, <4>6, <4>7, <4>8
    <3> QED
      BY <2>11, <2>17, <3>1, <3>2
  <2>18. AnnouncedTwiceAtMost'
    <3>1. \A n \in DOMAIN events' : IsResolution(n)' => n \in Resolutions'
      BY DEF Resolutions
    <3>2. \A n \in Resolutions : n \in DOMAIN events /\ IsResolution(n)
      BY DEF Resolutions
    <3>3. ASSUME NEW l \in Resolutions', NEW m \in Resolutions', NEW n \in Resolutions',
                 events'[l] = events'[m], events'[m] = events'[n]
          PROVE  l = m \/ l = n \/ m = n
      <4> SUFFICES ASSUME l # m, l # n, m # n PROVE FALSE
        OBVIOUS
      <4>1. ASSUME NEW a \in Resolutions, NEW b \in Resolutions, a # b,
                   events[a] = e, events[b] = e
            PROVE  FALSE
        BY <2>16, <4>1
      <4>2. CASE l \in Resolutions /\ m \in Resolutions /\ n \in Resolutions
        BY <2>12, <3>2, <3>3, <4>2 DEF TwiceInv, AnnouncedTwiceAtMost
      <4>3. CASE l = last
        BY <2>5, <2>11, <2>12, <3>3, <4>1, <4>3
      <4>4. CASE m = last
        BY <2>5, <2>11, <2>12, <3>3, <4>1, <4>4
      <4>5. CASE n = last
        BY <2>5, <2>11, <2>12, <3>3, <4>1, <4>5
      <4> QED
        BY <2>11, <4>2, <4>3, <4>4, <4>5
    <3>4. ASSUME NEW m \in Resolutions', NEW n \in Resolutions', events'[m] = events'[n],
                 alerts'[events'[m].id].key \notin Vanishing
          PROVE  m = n
      <4> SUFFICES ASSUME m # n PROVE FALSE
        OBVIOUS
      <4>1. CASE m \in Resolutions /\ n \in Resolutions
        BY <2>2, <2>12, <3>2, <3>4, <4>1 DEF TwiceInv, AnnouncedTwiceAtMost
      <4>2. CASE m = last \/ n = last
        <5>1. events'[m] = e /\ events'[n] = e
          BY <2>5, <3>4, <4>2
        <5>2. PICK a \in Resolutions : events[a] = e
          BY <2>11, <2>12, <4>2, <5>1
        <5>3. alerts[i].key \notin Vanishing /\ alerts[i].key \in Keys
          BY <1>0, <2>2, <2>3, <2>4, <3>4, <5>1 DEF Row
        <5> QED
          BY <2>15, <5>2, <5>3 DEF Observed
      <4> QED
        BY <2>11, <4>1, <4>2
    <3>5. \A m, n \in DOMAIN events' : IsResolution(m)' /\ events'[m] = events'[n]
                                       => m \in Resolutions' /\ n \in Resolutions'
      BY DEF Resolutions, IsResolution
    <3>6. ASSUME NEW l \in DOMAIN events', NEW m \in DOMAIN events', NEW n \in DOMAIN events',
                 IsResolution(l)', events'[l] = events'[m], events'[m] = events'[n]
          PROVE  l = m \/ l = n \/ m = n
      <4>1. l \in Resolutions' /\ m \in Resolutions' /\ n \in Resolutions'
        BY <3>5, <3>6
      <4> QED
        BY <3>3, <3>6, <4>1
    <3>7. ASSUME NEW m \in DOMAIN events', NEW n \in DOMAIN events', IsResolution(m)',
                 events'[m] = events'[n], alerts'[events'[m].id].key \notin Vanishing
          PROVE  m = n
      BY <3>4, <3>5, <3>7
    <3> QED
      BY <3>6, <3>7 DEF AnnouncedTwiceAtMost
  <2> QED
    BY <2>13, <2>17, <2>18 DEF TwiceInv, Observed
<1>12. ASSUME ClearCounters PROVE TwiceInv'
  BY <1>9, <1>12 DEF ClearCounters
<1>13. ASSUME NEW p \in Procs, ReadOpen(p) \/ StoreScore(p) PROVE TwiceInv'
  <2>1. /\ UNCHANGED <<alerts, events, cur, batch>> /\ pc[p] \in {"read", "store"}
        /\ \E place \in {"store", "idle"} : pc' = [pc EXCEPT ![p] = place]
    BY <1>13 DEF ReadOpen, StoreScore
  <2>2. \A q \in Procs : \/ pc'[q] = pc[q]
                         \/ pc[q] \in {"read", "store"} /\ pc'[q] \in {"store", "idle"}
    BY <1>0, <2>1
  <2>3. \A q \in Procs : InHand'[q] = InHand[q]
    BY <2>1, <2>2 DEF InHand
  <2> QED
    BY <2>1, <2>2, <2>3, NothingInHandMoves
<1>14. ASSUME Crash PROVE TwiceInv'
  <2>1. UNCHANGED <<alerts, events>> /\ batch' = {} /\ \A p \in Procs : pc'[p] = "idle"
    BY <1>14 DEF Crash
  <2>2. \A p \in Procs : InHand'[p] = {}
    BY <2>1 DEF InHand
  <2> QED
    BY <2>1, <2>2, NothingInHandMoves
<1>15. ASSUME Restart PROVE TwiceInv'
  <2>1. InHand' = InHand
    BY <1>15 DEF Restart, InHand
  <2> QED
    BY <1>15, <2>1, NothingInHandMoves DEF Restart
<1>16. CASE UNCHANGED vars
  <2>1. InHand' = InHand
    BY <1>16 DEF vars, InHand
  <2> QED
    BY <1>16, <2>1, NothingInHandMoves DEF vars
<1> QED
  BY <1>1, <1>2, <1>3, <1>4, <1>5, <1>6, <1>7, <1>8, <1>10, <1>11, <1>12,
     <1>13, <1>14, <1>15, <1>16 DEF Next

(***************************************************************************)
(* Beside the sweep, whatever is killed or fails: an alert is announced as *)
(* resolved at most twice, and once if its source is always observed.      *)
(***************************************************************************)
THEOREM AnnouncedTwiceAtMostHolds == Spec => []AnnouncedTwiceAtMost
<1>1. Init => TwiceInv
  <2> SUFFICES ASSUME Init PROVE TwiceInv
    OBVIOUS
  <2>1. DOMAIN events = {} /\ Resolutions = {}
    BY EmptySeq DEF Init, Resolutions
  <2>2. \A p \in Procs : pc[p] = "idle"
    BY DEF Init
  <2> QED
    BY <2>1, <2>2 DEF TwiceInv, AnnouncedTwiceAtMost
<1>2. Base /\ NeverSwept /\ TwiceInv /\ [Next]_vars => TwiceInv'
  BY StepTwice
<1>3. TwiceInv => AnnouncedTwiceAtMost
  BY DEF TwiceInv
<1> QED
  BY <1>1, <1>2, <1>3, BaseHolds, NeverSweptHolds, PTL DEF Spec

----------------------------------------------------------------------------
(* The score                                                               *)

(***************************************************************************)
(* No two goroutines are between reading the open alerts and storing the   *)
(* score computed from them, as if a lock covered Recompute.  None does:   *)
(* see AlertScoreRace.cfg.                                                 *)
(***************************************************************************)
OneRecompute == \A p, q \in Procs : pc[p] = "store" /\ pc[q] = "store" => p = q

\* The recomputation's own statements succeed.
ScoreStored == "read" \notin Faults /\ "store" \notin Faults

\* Has moved the table, or may have, and not read it since.
Owing(p) == \/ pc[p] \in {"announceCreated", "announceResolved", "clear", "read"}
            \/ p = Sweeper /\ pc[p] = "resolve" /\ swept = TRUE

(***************************************************************************)
(* Unless a goroutine is yet to recompute, what another has in hand still  *)
(* is the set of open keys, and otherwise the newest score is.             *)
(***************************************************************************)
ScoreInv ==
  /\ ~up => \A p \in Procs : pc[p] = "idle"
  /\ up => \/ \E p \in Procs : Owing(p)
           \/ /\ \A p \in Procs : pc[p] = "store" => input[p] = OpenKeys
              /\ (\A p \in Procs : pc[p] # "store") => score = OpenKeys

(***************************************************************************)
(* The open rows make the set of open keys, and an update that leaves      *)
(* every row's key and status alone leaves that set alone.                 *)
(***************************************************************************)
LEMMA SameOpenKeys ==
  ASSUME Len(alerts') = Len(alerts),
         \A i \in Ids : /\ alerts'[i].key = alerts[i].key
                        /\ alerts'[i].status = alerts[i].status
  PROVE  OpenKeys' = OpenKeys
<1>1. Ids' = Ids
  BY DEF Ids
<1>2. OpenRows' = OpenRows /\ \A i \in OpenRows : alerts'[i].key = alerts[i].key
  BY <1>1 DEF OpenRows
<1> QED
  BY <1>2 DEF OpenKeys

\* Steps that neither move the table nor end or begin a recomputation.
LEMMA QuietStepKeepsScore ==
  ASSUME ScoreInv, UNCHANGED <<score, input, up>>, OpenKeys' = OpenKeys,
         ~up => UNCHANGED pc,
         \A p \in Procs : /\ pc'[p] = "store" <=> pc[p] = "store"
                          /\ Owing(p) => Owing(p)'
  PROVE  ScoreInv'
<1>1. CASE \E p \in Procs : Owing(p)
  <2>1. \E p \in Procs : Owing(p)'
    BY <1>1
  <2> QED
    BY <2>1 DEF ScoreInv
<1>2. CASE ~ \E p \in Procs : Owing(p)
  BY <1>2 DEF ScoreInv
<1> QED
  BY <1>1, <1>2

\* Steps of a loop between two places where nothing is owed or stored.
LEMMA LoopStepKeepsScore ==
  ASSUME TypeOK, ScoreInv, UNCHANGED <<score, input, up, swept>>, OpenKeys' = OpenKeys, up,
         NEW l \in Loops,
         NEW place \in {"idle", "count", "touch", "create", "resolve"},
         pc[l] \in {"idle", "count", "touch", "create", "resolve"},
         pc' = [pc EXCEPT ![l] = place]
  PROVE  ScoreInv'
<1>1. l \in Procs /\ l # Sweeper
  BY ProcAssumption DEF Procs
<1>2. \A p \in Procs : pc'[p] = IF p = l THEN place ELSE pc[p]
  BY <1>1 DEF TypeOK
<1>3. \A p \in Procs : /\ pc'[p] = "store" <=> pc[p] = "store"
                       /\ Owing(p) => Owing(p)'
  BY <1>1, <1>2 DEF Owing
<1> QED
  BY <1>3, QuietStepKeepsScore

LEMMA StepScore ==
  ASSUME ScoreStored
  PROVE  Base /\ ScoreInv /\ OneRecompute /\ OneRecompute' /\ [Next]_vars => ScoreInv'
<1> SUFFICES ASSUME Base, ScoreInv, OneRecompute, OneRecompute', [Next]_vars
             PROVE  ScoreInv'
  OBVIOUS
<1> USE DEF Goto, CreateAlert, TouchAlert, Publish
<1>0. /\ TypeOK /\ Placed
      /\ Sweeper \in Procs /\ \A l \in Loops : l \in Procs /\ l # Sweeper
      /\ \A p \in Procs : p # Sweeper => p \in Loops
      /\ pc \in [Procs -> Places] /\ input \in [Procs -> SUBSET Keys]
      /\ swept \in BOOLEAN /\ alerts \in Seq(Row)
      /\ \A p \in Procs : pc[p] # "idle" => up
  BY ProcAssumption DEF Base, TypeOK, Procs, ScoreInv
<1>a. ASSUME NEW p \in Procs, Owing(p)', up' PROVE ScoreInv'
  BY <1>a DEF ScoreInv
<1>b. ASSUME NEW p \in Procs, NEW place \in {"announceCreated", "announceResolved", "clear", "read"},
             pc' = [pc EXCEPT ![p] = place], pc[p] # "idle", UNCHANGED up
      PROVE  ScoreInv'
  <2>1. pc'[p] = place
    BY <1>0, <1>b
  <2>2. Owing(p)' /\ up'
    BY <1>0, <1>b, <2>1 DEF Owing
  <2> QED
    BY <1>a, <2>2
<1>1. ASSUME NEW k \in Keys, Change(k) PROVE ScoreInv'
  BY <1>1 DEF Change, ScoreInv, Owing, OpenKeys, OpenRows, Ids
<1>2. ASSUME NEW i \in Ids, GoStale(i) PROVE ScoreInv'
  <2>1. UNCHANGED <<score, input, up, pc, swept>> /\ alerts' = [alerts EXCEPT ![i].stale = TRUE]
    BY <1>2 DEF GoStale
  <2>2. \A j \in Ids : alerts[j] \in Row
    BY <1>0, RowsOfTable
  <2>3. /\ Len(alerts') = Len(alerts)
        /\ \A j \in Ids : /\ alerts'[j].key = alerts[j].key
                          /\ alerts'[j].status = alerts[j].status
    BY <1>0, <2>1, <2>2, SetStale
  <2>4. OpenKeys' = OpenKeys
    BY <2>3, SameOpenKeys
  <2> QED
    BY <2>1, <2>4, QuietStepKeepsScore DEF Owing
<1>3. ASSUME NEW k \in Keys, Lookup(k) PROVE ScoreInv'
  <2>1. /\ Owner[k] \in Loops /\ up /\ pc[Owner[k]] = "idle"
        /\ pc' = [pc EXCEPT ![Owner[k]] = "count"]
        /\ UNCHANGED <<alerts, score, input, up, swept>>
    BY <1>3, ProcAssumption DEF Lookup
  <2> QED
    BY <1>0, <2>1, SameOpenKeys, LoopStepKeepsScore
<1>4. ASSUME NEW l \in Loops, Count(l) PROVE ScoreInv'
  <2>1. PICK place \in {"idle", "touch", "create", "resolve"} :
          pc' = [pc EXCEPT ![l] = place]
    <3>1. CASE CountFailing(l)
      BY <3>1 DEF CountFailing
    <3>2. CASE CountHealthy(l)
      BY <3>2 DEF CountHealthy
    <3> QED
      BY <1>4, <3>1, <3>2 DEF Count
  <2>2. UNCHANGED <<alerts, score, input, up, swept>> /\ pc[l] = "count" /\ up
    BY <1>0, <1>4 DEF Count
  <2> QED
    BY <1>0, <2>1, <2>2, SameOpenKeys, LoopStepKeepsScore
<1>5. ASSUME NEW l \in Loops, Touch(l) PROVE ScoreInv'
  <2>1. OpenKeys' = OpenKeys
    <3>1. cur[l].id \in Ids
      BY <1>0, <1>5 DEF Touch, TypeOK, Placed, Ids
    <3>2. CASE UNCHANGED alerts
      BY <3>2, SameOpenKeys
    <3>3. CASE alerts' = [alerts EXCEPT ![cur[l].id].stale = FALSE]
      <4>1. /\ Len(alerts') = Len(alerts)
            /\ \A j \in Ids : /\ alerts'[j].key = alerts[j].key
                              /\ alerts'[j].status = alerts[j].status
        BY <1>0, <3>1, <3>3, SetStale
      <4> QED
        BY <4>1, SameOpenKeys
    <3> QED
      BY <1>5, <3>2, <3>3 DEF Touch
  <2>2. /\ UNCHANGED <<score, input, up, swept>> /\ pc[l] = "touch" /\ up
        /\ pc' = [pc EXCEPT ![l] = "idle"]
    BY <1>0, <1>5 DEF Touch
  <2> QED
    BY <1>0, <2>1, <2>2, LoopStepKeepsScore
<1>6. ASSUME NEW l \in Loops, Create(l) PROVE ScoreInv'
  <2>0. UNCHANGED <<score, input, up, swept>> /\ pc[l] = "create" /\ up
    BY <1>0, <1>6 DEF Create
  <2>1. CASE UNCHANGED alerts /\ pc' = [pc EXCEPT ![l] = "idle"]
    BY <1>0, <2>0, <2>1, SameOpenKeys, LoopStepKeepsScore
  <2>2. CASE pc' = [pc EXCEPT ![l] = "announceCreated"]
    BY <1>0, <1>b, <2>0, <2>2
  <2> QED
    BY <1>6, <2>1, <2>2 DEF Create
<1>7. ASSUME NEW l \in Loops, AnnounceCreated(l) PROVE ScoreInv'
  BY <1>0, <1>7, <1>b DEF AnnounceCreated
<1>8. ASSUME StartSweep PROVE ScoreInv'
  <2>1. /\ UNCHANGED <<alerts, score, input, up>> /\ up /\ swept' = FALSE
        /\ pc[Sweeper] = "idle" /\ pc' = [pc EXCEPT ![Sweeper] = "resolve"]
    BY <1>8 DEF StartSweep
  <2>2. \A p \in Procs : pc'[p] = IF p = Sweeper THEN "resolve" ELSE pc[p]
    BY <1>0, <2>1
  <2>3. \A p \in Procs : /\ pc'[p] = "store" <=> pc[p] = "store"
                         /\ Owing(p) => Owing(p)'
    BY <2>1, <2>2 DEF Owing
  <2>4. OpenKeys' = OpenKeys
    BY <2>1, SameOpenKeys
  <2> QED
    BY <2>1, <2>3, <2>4, QuietStepKeepsScore
\* The sweep goes on to its next row, or to what it owes.
<1>c. ASSUME NextRow(TRUE), up' PROVE ScoreInv'
  <2>1. /\ swept' = TRUE
        /\ \/ pc' = [pc EXCEPT ![Sweeper] = "read"]
           \/ pc' = [pc EXCEPT ![Sweeper] = "resolve"]
    BY <1>c DEF NextRow
  <2>2. Owing(Sweeper)'
    BY <1>0, <2>1 DEF Owing
  <2> QED
    BY <1>0, <1>a, <1>c, <2>2
<1>9. ASSUME NEW p \in Procs, Resolve(p) PROVE ScoreInv'
  <2>0. UNCHANGED <<score, input, up>> /\ pc[p] = "resolve" /\ up
    BY <1>0, <1>9 DEF Resolve
  <2>1. CASE UNCHANGED <<alerts, swept>> /\ p # Sweeper /\ pc' = [pc EXCEPT ![p] = "idle"]
    BY <1>0, <2>0, <2>1, SameOpenKeys, LoopStepKeepsScore
  <2>2. CASE pc' = [pc EXCEPT ![p] = "announceResolved"]
    BY <1>b, <2>0, <2>2
  <2>3. CASE UNCHANGED alerts /\ p = Sweeper /\ NextRow(swept)
    <3>1. CASE swept = TRUE
      BY <1>c, <2>0, <2>3, <3>1
    <3>2. CASE swept = FALSE
      <4>1. /\ swept' = FALSE
            /\ \/ pc' = [pc EXCEPT ![Sweeper] = "idle"]
               \/ pc' = [pc EXCEPT ![Sweeper] = "resolve"]
        BY <2>3, <3>2 DEF NextRow
      <4>2. /\ pc'[Sweeper] \in {"idle", "resolve"}
            /\ \A q \in Procs : q # Sweeper => pc'[q] = pc[q]
        BY <1>0, <4>1
      <4>3. \A q \in Procs : /\ pc'[q] = "store" <=> pc[q] = "store"
                             /\ Owing(q) => Owing(q)'
        BY <2>0, <2>3, <3>2, <4>2 DEF Owing
      <4>4. OpenKeys' = OpenKeys
        BY <2>3, SameOpenKeys
      <4> QED
        BY <2>0, <4>3, <4>4, QuietStepKeepsScore
    <3> QED
      BY <1>0, <3>1, <3>2
  <2> QED
    BY <1>9, <2>1, <2>2, <2>3 DEF Resolve
<1>10. ASSUME NEW p \in Procs, AnnounceResolved(p) PROVE ScoreInv'
  BY <1>10, <1>b DEF AnnounceResolved
<1>11. ASSUME ClearCounters PROVE ScoreInv'
  BY <1>0, <1>11, <1>c DEF ClearCounters
\* Nobody else has an answer in hand after a read, and so none before a store.
<1>12. ASSUME NEW p \in Procs, ReadOpen(p) PROVE ScoreInv'
  <2>1. /\ UNCHANGED <<alerts, score, up, swept>> /\ up
        /\ input' = [input EXCEPT ![p] = OpenKeys]
        /\ pc' = [pc EXCEPT ![p] = "store"]
    BY <1>0, <1>12 DEF ReadOpen, MayFail, ScoreStored
  <2>2. input'[p] = OpenKeys /\ pc'[p] = "store"
    BY <1>0, <2>1
  <2>3. OpenKeys' = OpenKeys
    BY <2>1, SameOpenKeys
  <2>4. \A q \in Procs : pc'[q] = "store" => q = p
    BY <2>2 DEF OneRecompute
  <2>5. /\ \A q \in Procs : pc'[q] = "store" => input'[q] = OpenKeys'
        /\ ~ \A q \in Procs : pc'[q] # "store"
    BY <2>2, <2>3, <2>4
  <2> QED
    BY <2>1, <2>5 DEF ScoreInv
<1>13. ASSUME NEW p \in Procs, StoreScore(p) PROVE ScoreInv'
  <2>1. /\ UNCHANGED <<alerts, up, swept>> /\ score' = input[p] /\ pc[p] = "store"
        /\ pc' = [pc EXCEPT ![p] = "idle"] /\ up
    BY <1>0, <1>13 DEF StoreScore, InsertHealthScore, MayFail, ScoreStored
  <2>2. \A q \in Procs : pc'[q] = IF q = p THEN "idle" ELSE pc[q]
    BY <1>0, <2>1
  <2>3. OpenKeys' = OpenKeys
    BY <2>1, SameOpenKeys
  <2>4. \A q \in Procs : pc'[q] # "store"
    BY <2>1, <2>2 DEF OneRecompute
  <2>5. CASE \E q \in Procs : Owing(q)
    <3>1. PICK q \in Procs : Owing(q)
      BY <2>5
    <3>2. Owing(q)'
      BY <2>1, <2>2, <3>1 DEF Owing
    <3> QED
      BY <1>a, <2>1, <3>2
  <2>6. CASE ~ \E q \in Procs : Owing(q)
    <3>1. score' = OpenKeys'
      BY <2>1, <2>3, <2>6 DEF ScoreInv
    <3> QED
      BY <2>1, <2>4, <3>1 DEF ScoreInv
  <2> QED
    BY <2>5, <2>6
<1>14. ASSUME Crash PROVE ScoreInv'
  <2>1. ~up' /\ \A p \in Procs : pc'[p] = "idle"
    BY <1>14 DEF Crash
  <2> QED
    BY <2>1 DEF ScoreInv
<1>15. ASSUME Restart PROVE ScoreInv'
  <2>1. /\ ~up /\ up' /\ UNCHANGED <<alerts, pc, input>> /\ score' = OpenKeys
    BY <1>15 DEF Restart, InsertHealthScore, MayFail, ScoreStored
  <2>2. OpenKeys' = OpenKeys
    BY <2>1, SameOpenKeys
  <2>3. \A p \in Procs : pc'[p] = "idle"
    BY <2>1 DEF ScoreInv
  <2> QED
    BY <2>1, <2>2, <2>3 DEF ScoreInv
<1>16. ASSUME UNCHANGED vars PROVE ScoreInv'
  BY <1>16 DEF vars, ScoreInv, Owing, OpenKeys, OpenRows, Ids
<1> QED
  BY <1>1, <1>2, <1>3, <1>4, <1>5, <1>6, <1>7, <1>8, <1>9, <1>10, <1>11, <1>12,
     <1>13, <1>14, <1>15, <1>16 DEF Next

(***************************************************************************)
(* With nothing in progress the newest score is the one the open alerts    *)
(* give, also after a crash between an alert's transition and its          *)
(* recomputation: for any loops, beside the sweep, whatever other          *)
(* statements fail, as long as recomputations do not overlap between their *)
(* read and their store and both succeed.  Transitions may overlap them.   *)
(***************************************************************************)
THEOREM ScoreFollowsAlerts ==
  ASSUME ScoreStored
  PROVE  Spec /\ []OneRecompute => []ScoreMatchesAlerts
<1>1. Init => ScoreInv
  <2> SUFFICES ASSUME Init PROVE ScoreInv
    OBVIOUS
  <2>1. OpenKeys = {}
    BY EmptySeq DEF Init, OpenKeys, OpenRows, Ids
  <2> QED
    BY <2>1 DEF Init, ScoreInv
<1>2. Base /\ ScoreInv /\ OneRecompute /\ OneRecompute' /\ [Next]_vars => ScoreInv'
  BY StepScore
<1>3. ScoreInv => ScoreMatchesAlerts
  BY DEF ScoreInv, ScoreMatchesAlerts, Quiet, Owing
<1> QED
  BY <1>1, <1>2, <1>3, BaseHolds, PTL DEF Spec
=============================================================================
