--------------------------- MODULE DatabaseProofs ---------------------------
(***************************************************************************)
(* The schema is the one the recorded version says, for any bounds: with   *)
(* any number of kills, power losses and failing statements at any step of *)
(* a migration.                                                            *)
(***************************************************************************)
EXTENDS Database, FiniteSetTheorems, TLAPS

Versions == 0..3

Schemas == {SchemaAt[v] : v \in Versions}

\* What the places of Open say about the file and the transaction.  A power
\* loss goes back to a schema that was committed once.
IInv ==
  /\ schema \in Schemas /\ synced \in Schemas
  /\ at \in {"down", "versioned", "migrating", "applied", "up"}
  /\ at # "down" => version \in Versions /\ schema = SchemaAt[version]
  /\ at \in {"migrating", "applied"} => version < 3
  /\ at = "migrating" => tx = schema.tables
  /\ at = "applied" => tx = SchemaAt[version + 1].tables
  /\ at = "up" => version = 3

----------------------------------------------------------------------------
(* Lemmas                                                                  *)

\* The migrations: no table is created and dropped at once.
LEMMA MigrationFacts ==
  /\ Len(Migrations) = 3
  /\ \A v \in 1..3 : /\ Migrations[v].creates \subseteq Schema1 \cup Schema2
                     /\ Migrations[v].creates \cap Migrations[v].drops = {}
<1>1. Len(Migrations) = 3
  BY DEF Migrations
<1>2. Migrations[1] = [creates |-> Schema1, drops |-> {}]
  BY DEF Migrations
<1>3. Migrations[2] = [creates |-> Schema2, drops |-> {}]
  BY DEF Migrations
<1>4. Migrations[3] = [creates |-> {}, drops |-> Dropped3]
  BY DEF Migrations
<1>5. \A v \in 1..3 : v = 1 \/ v = 2 \/ v = 3
  OBVIOUS
<1> QED
  BY <1>1, <1>2, <1>3, <1>4, <1>5

\* A schema records the migrations up to its version.
LEMMA SchemaFacts ==
  ASSUME NEW v \in Versions
  PROVE  /\ SchemaAt[v].versions = 1..v
         /\ SchemaAt[v].tables =
              {t \in Schema1 \cup Schema2 :
                 \E w \in 1..v : /\ t \in Migrations[w].creates
                                 /\ \A u \in (w + 1)..v : t \notin Migrations[u].drops}
         /\ SchemaAt[v] = [versions |-> SchemaAt[v].versions, tables |-> SchemaAt[v].tables]
BY MigrationFacts DEF SchemaAt, Versions

LEMMA RecordedIs ==
  ASSUME NEW v \in Versions
  PROVE  Recorded(SchemaAt[v]) = v
<1> DEFINE S == SchemaAt[v].versions \cup {0}
<1>1. S = 0..v
  BY SchemaFacts DEF Versions
<1>2. v \in S /\ \A y \in S : v >= y
  BY <1>1 DEF Versions
<1>3. \A x \in S : (\A y \in S : x >= y) => x = v
  BY <1>1 DEF Versions
<1> HIDE DEF S
<1>4. Max(S) = v
  BY <1>2, <1>3 DEF Max
<1> QED
  BY <1>4 DEF Recorded, S

\* One migration takes a schema to the next version's.
LEMMA NextSchema ==
  ASSUME NEW v \in 0..2
  PROVE  /\ SchemaAt[v + 1].versions = SchemaAt[v].versions \cup {v + 1}
         /\ SchemaAt[v + 1].tables =
              (SchemaAt[v].tables \cup Migrations[v + 1].creates) \ Migrations[v + 1].drops
<1>1. v \in Versions /\ v + 1 \in Versions /\ v + 1 \in 1..3
  BY DEF Versions
<1>2. SchemaAt[v + 1].versions = SchemaAt[v].versions \cup {v + 1}
  <2>1. SchemaAt[v + 1].versions = 1..(v + 1) /\ SchemaAt[v].versions = 1..v
    BY <1>1, SchemaFacts
  <2>2. 1..(v + 1) = (1..v) \cup {v + 1}
    OBVIOUS
  <2> QED
    BY <2>1, <2>2
<1> DEFINE Has(n, t) == \E w \in 1..n : /\ t \in Migrations[w].creates
                                       /\ \A u \in (w + 1)..n : t \notin Migrations[u].drops
<1>3. ASSUME NEW t \in Schema1 \cup Schema2
      PROVE  Has(v + 1, t) <=> /\ Has(v, t) \/ t \in Migrations[v + 1].creates
                               /\ t \notin Migrations[v + 1].drops
  <2>1. ASSUME Has(v + 1, t)
        PROVE  /\ Has(v, t) \/ t \in Migrations[v + 1].creates
               /\ t \notin Migrations[v + 1].drops
    <3>1. PICK w \in 1..(v + 1) : /\ t \in Migrations[w].creates
                                  /\ \A u \in (w + 1)..(v + 1) : t \notin Migrations[u].drops
      BY <2>1
    <3>2. CASE w = v + 1
      BY <3>1, <3>2, <1>1, MigrationFacts
    <3>3. CASE w # v + 1
      <4>1. w \in 1..v /\ v + 1 \in (w + 1)..(v + 1) /\ (w + 1)..v \subseteq (w + 1)..(v + 1)
        BY <3>3
      <4> QED
        BY <3>1, <4>1
    <3> QED
      BY <3>2, <3>3
  <2>2. ASSUME Has(v, t), t \notin Migrations[v + 1].drops
        PROVE  Has(v + 1, t)
    <3>1. PICK w \in 1..v : /\ t \in Migrations[w].creates
                            /\ \A u \in (w + 1)..v : t \notin Migrations[u].drops
      BY <2>2
    <3>2. \A u \in (w + 1)..(v + 1) : u = v + 1 \/ u \in (w + 1)..v
      OBVIOUS
    <3>3. w \in 1..(v + 1)
      OBVIOUS
    <3> QED
      BY <2>2, <3>1, <3>2, <3>3
  <2>3. ASSUME t \in Migrations[v + 1].creates
        PROVE  Has(v + 1, t)
    <3>1. v + 1 \in 1..(v + 1) /\ ((v + 1) + 1)..(v + 1) = {}
      OBVIOUS
    <3> QED
      BY <2>3, <3>1
  <2> QED
    BY <2>1, <2>2, <2>3
<1>4. /\ SchemaAt[v].tables = {t \in Schema1 \cup Schema2 : Has(v, t)}
      /\ SchemaAt[v + 1].tables = {t \in Schema1 \cup Schema2 : Has(v + 1, t)}
  BY <1>1, SchemaFacts
<1>5. Migrations[v + 1].creates \subseteq Schema1 \cup Schema2
  BY <1>1, MigrationFacts
<1> HIDE DEF Has
<1> QED
  BY <1>2, <1>3, <1>4, <1>5

\* The newest schema has every table the retention job names.
LEMMA NewestHasRetentionTables == RetentionTables \subseteq SchemaAt[3].tables
<1>1. /\ Migrations[1].creates = Schema1 /\ Migrations[2].creates = Schema2
      /\ Migrations[2].drops = {} /\ Migrations[3].drops = Dropped3
  BY DEF Migrations
<1>2. \A t \in Schema1 \ Dropped3 : t \in SchemaAt[3].tables
  <2>1. 1 \in 1..3 /\ \A u \in 2..3 : u = 2 \/ u = 3
    OBVIOUS
  <2> QED
    BY <1>1, <2>1, SchemaFacts DEF Versions
<1>3. \A t \in Schema2 \ Dropped3 : t \in SchemaAt[3].tables
  <2>1. 2 \in 1..3 /\ \A u \in 3..3 : u = 3
    OBVIOUS
  <2> QED
    BY <1>1, <2>1, SchemaFacts DEF Versions
<1>4. RetentionTables \subseteq (Schema1 \ Dropped3) \cup (Schema2 \ Dropped3)
  BY DEF RetentionTables, Schema1, Schema2, Dropped3
<1> QED
  BY <1>2, <1>3, <1>4

----------------------------------------------------------------------------
(* The invariant                                                           *)

LEMMA InitInv == Init => IInv
<1>1. Len(Migrations) = 3
  BY MigrationFacts
<1> QED
  BY <1>1 DEF Init, IInv, Schemas, Versions

\* The steps of Open.
LEMMA MigrateStep ==
  ASSUME IInv, Migrate
  PROVE  IInv'
<1>0. Len(Migrations) = 3
  BY MigrationFacts
<1>1. CASE OpenFile
  <2>1. PICK v \in Versions : schema = SchemaAt[v]
    BY DEF IInv, Schemas
  <2>2. version' = v
    BY <1>1, <2>1, RecordedIs DEF OpenFile
  <2> QED
    BY <1>1, <2>1, <2>2 DEF OpenFile, IInv, file
<1>2. CASE BeginMigration
  BY <1>0, <1>2 DEF BeginMigration, IInv, file
<1>3. CASE ExecMigration
  <2>1. version \in 0..2 /\ tx = SchemaAt[version].tables
    BY <1>3 DEF ExecMigration, IInv, Versions
  <2>2. CASE at' = "applied" /\ tx' = (tx \cup Migrations[version + 1].creates)
                                        \ Migrations[version + 1].drops
    <3>1. tx' = SchemaAt[version + 1].tables
      BY <2>1, <2>2, NextSchema
    <3> QED
      BY <1>3, <2>1, <2>2, <3>1 DEF ExecMigration, IInv, file
  <2>3. CASE at' = "down"
    BY <1>3, <2>3 DEF ExecMigration, IInv, file
  <2> QED
    BY <1>3, <2>2, <2>3 DEF ExecMigration
<1>4. CASE CommitMigration
  <2>1. version \in 0..2 /\ schema = SchemaAt[version] /\ tx = SchemaAt[version + 1].tables
    BY <1>4 DEF CommitMigration, IInv, Versions
  <2>2. CASE /\ schema' = [versions |-> schema.versions \cup {version + 1}, tables |-> tx]
             /\ version' = version + 1 /\ at' = "versioned"
    <3>1. version + 1 \in Versions
      BY <2>1 DEF Versions
    <3>2. schema' = SchemaAt[version + 1]
      BY <2>1, <2>2, <3>1, NextSchema, SchemaFacts
    <3> QED
      BY <1>4, <2>2, <3>1, <3>2 DEF CommitMigration, IInv, Schemas
  <2>3. CASE at' = "down" /\ UNCHANGED <<schema, version>>
    BY <1>4, <2>3 DEF CommitMigration, IInv
  <2> QED
    BY <1>4, <2>2, <2>3 DEF CommitMigration
<1>5. CASE Opened
  BY <1>0, <1>5 DEF Opened, IInv, file
<1> QED
  BY <1>1, <1>2, <1>3, <1>4, <1>5 DEF Migrate

LEMMA InvStep == IInv /\ [Next]_vars => IInv'
<1> SUFFICES ASSUME IInv, [Next]_vars PROVE IInv'
  OBVIOUS
<1>1. CASE Migrate
  BY <1>1, MigrateStep
<1>2. CASE Kill \/ PowerLoss
  BY <1>2 DEF Kill, PowerLoss, Down, IInv, file
<1>3. CASE Checkpoint
  BY <1>3 DEF Checkpoint, IInv, open
<1>4. ASSUME UNCHANGED <<file, open>> PROVE IInv'
  BY <1>4 DEF IInv, file, open
<1>5. CASE Cleanup
  <2>1. UNCHANGED <<file, open>>
    BY <1>5 DEF Cleanup, StartCleanup, DeleteBatch, DeleteAlerts
  <2> QED
    BY <1>4, <2>1
<1>6. CASE List
  <2>1. UNCHANGED <<file, open>>
    BY <1>6 DEF List, StartList, NextPage, EndList
  <2> QED
    BY <1>4, <2>1
<1>7. CASE \/ \E t \in Series : Insert(t)
           \/ CreateAlert \/ (\E id \in DOMAIN alerts : UpdateAlert(id)) \/ Expire
  <2>1. UNCHANGED <<file, open>>
    BY <1>7 DEF Insert, CreateAlert, UpdateAlert, Expire
  <2> QED
    BY <1>4, <2>1
<1>8. CASE UNCHANGED vars
  <2>1. UNCHANGED <<file, open>>
    BY <1>8 DEF vars
  <2> QED
    BY <1>4, <2>1
<1> QED
  BY <1>1, <1>2, <1>3, <1>5, <1>6, <1>7, <1>8 DEF Next

----------------------------------------------------------------------------
(* Retention                                                               *)

Ages == {"recent", "expired", "cut"}

\* What is left to delete of a pass is there, and a table a pass has gone
\* through has nothing left: the cutoff is taken once, and rows only ever get
\* older.
PassInv ==
  /\ recent \in [Series -> Nat] /\ expired \in [Series -> Nat] /\ cut \in [Series -> Nat]
  /\ \A t \in Series : cut[t] <= expired[t]
  /\ \A t \in Series \ cleaning : cut[t] = 0
  /\ \A id \in DOMAIN alerts : alerts[id] \in [status : {"open", "resolved"}, updated : Ages]

LEMMA MinOfTwo ==
  ASSUME NEW m \in Int, NEW n \in Int
  PROVE  /\ Min({m, n}) = IF m <= n THEN m ELSE n
<1> DEFINE least == IF m <= n THEN m ELSE n
<1>1. least \in {m, n} /\ \A y \in {m, n} : least <= y
  OBVIOUS
<1>2. \A x \in {m, n} : (\A y \in {m, n} : x <= y) => x = least
  OBVIOUS
<1>3. Min({m, n}) = least
  BY <1>1, <1>2 DEF Min
<1> QED
  BY <1>3

\* A batch: what it takes, and when it is the last one of its table.
LEMMA BatchTakes ==
  ASSUME NEW k \in Nat
  PROVE  /\ Min({Batch, k}) \in Nat /\ Min({Batch, k}) <= k
         /\ Min({Batch, k}) < Batch => Min({Batch, k}) = k
<1>1. Batch \in Nat
  BY DatabaseAssumption
<1>2. Min({Batch, k}) = IF Batch <= k THEN Batch ELSE k
  BY <1>1, MinOfTwo
<1> QED
  BY <1>1, <1>2

\* Forgetting a cutoff changes neither which alerts there are nor their status.
LEMMA ForgetFacts ==
  ASSUME NEW as, \A id \in DOMAIN as : as[id] \in [status : {"open", "resolved"}, updated : Ages]
  PROVE  /\ DOMAIN Forget(as) = DOMAIN as
         /\ \A id \in DOMAIN as :
              /\ Forget(as)[id] \in [status : {"open", "resolved"}, updated : Ages]
              /\ Forget(as)[id].status = as[id].status
BY DEF Forget, Ages

LEMMA PassInit == Init => PassInv
BY DatabaseAssumption DEF Init, PassInv, Ages

\* The retention job itself.
LEMMA CleanupStep ==
  ASSUME PassInv, Cleanup
  PROVE  PassInv'
<1>1. CASE StartCleanup
  BY <1>1 DEF StartCleanup, PassInv, Ages, series
<1>2. ASSUME NEW t \in Series, DeleteBatch(t)
      PROVE  PassInv'
  <2> DEFINE n == Min({Batch, cut[t]})
  <2>1. n \in Nat /\ n <= cut[t] /\ (n < Batch => n = cut[t])
    BY BatchTakes DEF PassInv
  <2> HIDE DEF n
  <2>2. CASE /\ cut' = [cut EXCEPT ![t] = @ - n] /\ expired' = [expired EXCEPT ![t] = @ - n]
             /\ cleaning' = IF n < Batch THEN cleaning \ {t} ELSE cleaning
             /\ UNCHANGED <<alerts, recent>>
    <3>1. cut' \in [Series -> Nat] /\ expired' \in [Series -> Nat]
      BY <2>1, <2>2 DEF PassInv
    <3>2. \A u \in Series : cut'[u] <= expired'[u]
      BY <2>1, <2>2 DEF PassInv
    <3>3. \A u \in Series \ cleaning' : cut'[u] = 0
      <4>1. t \in cleaning
        BY <1>2 DEF DeleteBatch
      <4>2. CASE n < Batch
        BY <2>1, <2>2, <4>2 DEF PassInv
      <4>3. CASE ~(n < Batch)
        BY <2>2, <4>1, <4>3 DEF PassInv
      <4> QED
        BY <4>2, <4>3
    <3> QED
      BY <2>2, <3>1, <3>2, <3>3 DEF PassInv
  <2>3. CASE EndPass /\ alerts' = Forget(alerts) /\ UNCHANGED <<expired, recent>>
    BY <2>3, ForgetFacts DEF EndPass, PassInv
  <2> QED
    BY <1>2, <2>2, <2>3 DEF DeleteBatch, n
<1>3. CASE DeleteAlerts
  <2>1. PICK gone : alerts' = Forget([id \in DOMAIN alerts \ gone |-> alerts[id]])
    BY <1>3 DEF DeleteAlerts
  <2>2. UNCHANGED series /\ EndPass
    BY <1>3 DEF DeleteAlerts
  <2> DEFINE kept == [id \in DOMAIN alerts \ gone |-> alerts[id]]
  <2>3. \A id \in DOMAIN kept : kept[id] \in [status : {"open", "resolved"}, updated : Ages]
    BY DEF PassInv
  <2> HIDE DEF kept
  <2>4. \A id \in DOMAIN alerts' : alerts'[id] \in [status : {"open", "resolved"}, updated : Ages]
    BY <2>1, <2>3, ForgetFacts DEF kept
  <2> QED
    BY <2>2, <2>4 DEF EndPass, PassInv, series
<1> QED
  BY <1>1, <1>2, <1>3 DEF Cleanup

LEMMA PassStep == PassInv /\ [Next]_vars => PassInv'
<1> SUFFICES ASSUME PassInv, [Next]_vars PROVE PassInv'
  OBVIOUS
<1>0. ASSUME UNCHANGED <<series, alerts, pass>> PROVE PassInv'
  BY <1>0 DEF PassInv, series, pass
<1>1. CASE Migrate
  <2>1. UNCHANGED <<series, alerts, pass>>
    BY <1>1 DEF Migrate, OpenFile, BeginMigration, ExecMigration, CommitMigration, Opened
  <2> QED
    BY <1>0, <2>1
<1>2. CASE Cleanup
  BY <1>2, CleanupStep
<1>3. CASE List
  <2>1. UNCHANGED <<series, alerts, pass>>
    BY <1>3 DEF List, StartList, NextPage, EndList
  <2> QED
    BY <1>0, <2>1
<1>4. ASSUME NEW t \in Series, Insert(t) PROVE PassInv'
  BY <1>4 DEF Insert, PassInv, pass
<1>5. CASE CreateAlert
  BY <1>5 DEF CreateAlert, PassInv, Ages, series, pass
<1>6. ASSUME NEW id \in DOMAIN alerts, UpdateAlert(id) PROVE PassInv'
  BY <1>6 DEF UpdateAlert, PassInv, Ages, series, pass
<1>7. CASE Expire
  <2>1. ASSUME NEW t \in Series, recent[t] > 0,
               recent' = [recent EXCEPT ![t] = @ - 1],
               expired' = [expired EXCEPT ![t] = @ + 1], UNCHANGED <<alerts, pass>>
        PROVE  PassInv'
    BY <2>1 DEF PassInv, pass
  <2>2. ASSUME NEW id \in DOMAIN alerts,
               alerts' = [alerts EXCEPT ![id].updated = "expired"], UNCHANGED <<series, pass>>
        PROVE  PassInv'
    BY <2>2 DEF PassInv, Ages, series, pass
  <2> QED
    BY <1>7, <2>1, <2>2 DEF Expire
<1>8. CASE Kill \/ PowerLoss
  BY <1>8, ForgetFacts DEF Kill, PowerLoss, Down, EndPass, PassInv, series
<1>9. CASE Checkpoint
  BY <1>0, <1>9 DEF Checkpoint
<1>10. CASE UNCHANGED vars
  BY <1>0, <1>10 DEF vars
<1> QED
  BY <1>1, <1>2, <1>3, <1>4, <1>5, <1>6, <1>7, <1>8, <1>9, <1>10 DEF Next

----------------------------------------------------------------------------
(* Pages                                                                   *)

\* What is owed to the client is in its list and below the cursor; what it has
\* is in order and, while there is a page to ask for, not below the cursor.
ListInv ==
  /\ nextId \in Nat \ {0} /\ DOMAIN alerts \subseteq 1..(nextId - 1)
  /\ cursor \in Nat /\ paging \in BOOLEAN /\ listed \in Seq(Nat)
  /\ \A i, j \in DOMAIN listed : i < j => listed[i] > listed[j]
  /\ paging /\ cursor = 0 => listed = <<>>
  /\ paging => \A i \in DOMAIN listed : listed[i] >= cursor
  /\ \A id \in owed : /\ id \in DOMAIN alerts /\ filter \in {"any", alerts[id].status}
                      /\ cursor > 0 => id < cursor
  /\ ~paging => owed = {}

LEMMA LeastExists ==
  ASSUME NEW S \in SUBSET Nat, S # {}
  PROVE  \E m \in S : \A x \in S : m <= x
<1>1. PICK m \in S : \A x \in S : ~ (<<x, m>> \in OpToRel(<, Nat))
  BY WFMin, NatLessThanWellFounded
<1>2. \A x \in S : m <= x
  <2> TAKE x \in S
  <2>1. ~ (x < m)
    <3>1. <<x, m>> \notin OpToRel(<, Nat)
      BY <1>1
    <3>2. <<x, m>> \in Nat \X Nat
      OBVIOUS
    <3> QED
      BY <3>1, <3>2 DEF OpToRel
  <2> QED
    BY <2>1
<1> QED
  BY <1>2

LEMMA LargestExists ==
  ASSUME NEW n \in Nat, NEW S \in SUBSET (0..n), S # {}
  PROVE  \E m \in S : \A x \in S : m >= x
<1> DEFINE D == {n - x : x \in S}
<1>1. D \in SUBSET Nat /\ D # {}
  <2>1. \A x \in S : x \in 0..n
    OBVIOUS
  <2>2. \A x \in S : n - x \in Nat
    BY <2>1
  <2> QED
    BY <2>2
<1>2. PICK d \in D : \A e \in D : d <= e
  <2> HIDE DEF D
  <2> QED
    BY <1>1, LeastExists
<1>3. PICK m \in S : d = n - m
  BY <1>2
<1>4. \A x \in S : n - m <= n - x
  BY <1>2, <1>3
<1>5. \A x \in S : x \in Int
  OBVIOUS
<1> QED
  BY <1>3, <1>4, <1>5

LEMMA MinIsLeast ==
  ASSUME NEW S \in SUBSET Nat, S # {}
  PROVE  Min(S) \in S /\ \A x \in S : Min(S) <= x
BY LeastExists DEF Min

\* A finite set of ids can be listed in descending order: if not, take the
\* smallest set that cannot, and put its least id after the others.
IsDescending(s, S) ==
  s \in [1..Cardinality(S) -> S] /\ \A i, j \in DOMAIN s : i < j => s[i] > s[j]

LEMMA DescendingExists ==
  ASSUME NEW S \in SUBSET Nat, IsFiniteSet(S)
  PROVE  \E s : IsDescending(s, S)
<1> DEFINE Without(T) == ~ \E s : IsDescending(s, T)
           N == {n \in Nat : \E T \in SUBSET S : Without(T) /\ Cardinality(T) = n}
<1> SUFFICES ASSUME Without(S) PROVE FALSE
  OBVIOUS
<1>1. \A T \in SUBSET S : IsFiniteSet(T) /\ Cardinality(T) \in Nat
  BY FS_Subset, FS_CardinalityType
<1>2. N \in SUBSET Nat /\ N # {}
  BY <1>1
<1>3. PICK n \in N : \A k \in N : n <= k
  <2> HIDE DEF N
  <2> QED
    BY <1>2, LeastExists
<1>4. PICK T \in SUBSET S : Without(T) /\ Cardinality(T) = n
  BY <1>3
<1>5. T # {}
  <2> SUFFICES ASSUME T = {} PROVE FALSE
    OBVIOUS
  <2>1. Cardinality(T) = 0
    BY FS_EmptySet
  <2> DEFINE s == [i \in 1..0 |-> i]
  <2>2. 1..0 = {}
    OBVIOUS
  <2>3. s \in [1..0 -> T] /\ DOMAIN s = {}
    BY <2>2
  <2>4. IsDescending(s, T)
    BY <2>1, <2>3 DEF IsDescending
  <2> QED
    BY <1>4, <2>4
<1>6. PICK m \in T : \A x \in T : m <= x
  BY <1>5, LeastExists
<1> DEFINE U == T \ {m}
<1>7. U \in SUBSET S /\ Cardinality(U) = n - 1 /\ n \in Nat /\ Cardinality(U) \in Nat
  BY <1>1, <1>2, <1>4, <1>6, FS_RemoveElement
<1>8. PICK r : IsDescending(r, U)
  <2> HIDE DEF U, Without
  <2>1. CASE Without(U)
    <3>1. n - 1 \in N
      BY <1>7, <2>1
    <3>2. n <= n - 1
      BY <1>3, <3>1
    <3> QED
      BY <1>7, <3>2
  <2>2. CASE ~Without(U)
    BY <2>2 DEF Without
  <2> QED
    BY <2>1, <2>2
<1> DEFINE s == [i \in 1..n |-> IF i = n THEN m ELSE r[i]]
<1>9. \A i \in 1..(n - 1) : r[i] \in U
  BY <1>7, <1>8 DEF IsDescending
<1>10. s \in [1..n -> T]
  BY <1>6, <1>7, <1>9
<1>11. ASSUME NEW i \in 1..n, NEW j \in 1..n, i < j
       PROVE  s[i] > s[j]
  <2>1. i \in 1..(n - 1) /\ s[i] = r[i] /\ r[i] \in U
    BY <1>7, <1>9, <1>11
  <2>2. CASE j = n
    <3>1. s[j] = m /\ m \in Nat /\ r[i] \in Nat
      BY <1>6, <2>1, <2>2
    <3> QED
      BY <1>6, <2>1, <3>1
  <2>3. CASE j # n
    <3>1. j \in 1..(n - 1) /\ s[j] = r[j]
      BY <1>7, <2>3
    <3> QED
      BY <1>7, <1>8, <1>11, <2>1, <3>1 DEF IsDescending
  <2> QED
    BY <2>2, <2>3
<1>12. IsDescending(s, T)
  <2> HIDE DEF s
  <2> QED
    BY <1>4, <1>10, <1>11 DEF IsDescending
<1> QED
  BY <1>4, <1>12

LEMMA DescendingFacts ==
  ASSUME NEW S \in SUBSET Nat, IsFiniteSet(S)
  PROVE  /\ Descending(S) \in Seq(Nat)
         /\ \A i \in DOMAIN Descending(S) : Descending(S)[i] \in S
         /\ \A i, j \in DOMAIN Descending(S) : i < j => Descending(S)[i] > Descending(S)[j]
<1>1. IsDescending(Descending(S), S)
  BY DescendingExists DEF Descending, IsDescending
<1>2. Cardinality(S) \in Nat
  BY FS_CardinalityType
<1>3. Descending(S) \in [1..Cardinality(S) -> Nat]
  BY <1>1 DEF IsDescending
<1> QED
  BY <1>1, <1>2, <1>3 DEF IsDescending

\* A page is the top of what is left: it is empty only if nothing is left, and
\* everything else is below all of it.
LEMMA PageFacts ==
  ASSUME ListInv
  PROVE  /\ Page \in SUBSET Nat /\ IsFiniteSet(Page) /\ Page \subseteq Matching(alerts)
         /\ \A id \in Page : id > 0 /\ (cursor > 0 => id < cursor)
         /\ Matching(alerts) # {} => Page # {}
         /\ \A id \in Matching(alerts) \ Page : \A p \in Page : id < p
<1> DEFINE found == Matching(alerts)
           Above(id) == {other \in found : other > id}
<1>1. found \subseteq 1..(nextId - 1) /\ nextId - 1 \in Nat
  BY DEF ListInv, Matching
<1>2. IsFiniteSet(found)
  <2> HIDE DEF found
  <2>1. IsFiniteSet(1..(nextId - 1))
    BY <1>1, FS_Interval
  <2>2. found \in SUBSET (1..(nextId - 1))
    BY <1>1
  <2> QED
    BY <2>1, <2>2, FS_Subset
<1>3. Page = {id \in found : Cardinality(Above(id)) < PageSize}
  BY DEF Page
<1>4. \A id \in found : cursor > 0 => id < cursor
  BY DEF Matching
<1> HIDE DEF found
<1>5. Page \in SUBSET Nat /\ IsFiniteSet(Page) /\ Page \subseteq found
  <2>1. Page \in SUBSET found
    BY <1>3
  <2>2. IsFiniteSet(Page)
    BY <1>2, <2>1, FS_Subset
  <2>3. found \in SUBSET Nat
    BY <1>1
  <2> QED
    BY <2>1, <2>2, <2>3
<1>6. ASSUME found # {} PROVE Page # {}
  <2>1. found \in SUBSET (0..(nextId - 1))
    BY <1>1
  <2>2. PICK m \in found : \A x \in found : m >= x
    BY <1>1, <1>6, <2>1, LargestExists
  <2>3. Above(m) = {}
    <3>1. \A x \in found : x \in Int
      BY <1>1
    <3>2. \A x \in found : ~ (x > m)
      BY <2>2, <3>1
    <3> QED
      BY <3>2
  <2>4. Cardinality(Above(m)) < PageSize
    BY <2>3, FS_EmptySet, DatabaseAssumption
  <2> QED
    BY <1>3, <2>2, <2>4
<1>7. ASSUME NEW id \in found \ Page, NEW p \in Page PROVE id < p
  <2> SUFFICES ASSUME id > p PROVE FALSE
    <3>1. id \in Int /\ p \in Int /\ id # p
      BY <1>1, <1>5, <1>7
    <3> QED
      BY <3>1
  <2>1. Above(id) \in SUBSET Above(p) /\ Above(p) \in SUBSET found
    <3>1. id \in Int /\ p \in Int /\ \A x \in found : x \in Int
      BY <1>1, <1>5, <1>7
    <3>2. \A x \in found : x > id => x > p
      BY <3>1
    <3> QED
      BY <3>2
  <2>2. IsFiniteSet(Above(p))
    BY <1>2, <2>1, FS_Subset
  <2>3. /\ Cardinality(Above(id)) <= Cardinality(Above(p))
        /\ Cardinality(Above(id)) \in Nat /\ Cardinality(Above(p)) \in Nat
    <3> HIDE DEF Above
    <3> QED
      BY <2>1, <2>2, FS_Subset, FS_CardinalityType
  <2>4. Cardinality(Above(p)) < PageSize
    BY <1>3
  <2>5. Cardinality(Above(id)) < PageSize
    <3> HIDE DEF Above
    <3> QED
      BY <2>3, <2>4, DatabaseAssumption
  <2> QED
    BY <1>3, <1>7, <2>5
<1> QED
  BY <1>1, <1>4, <1>5, <1>6, <1>7 DEF found

LEMMA ListInit == Init => ListInv
<1> SUFFICES ASSUME Init PROVE ListInv
  OBVIOUS
<1>1. listed = <<>> /\ DOMAIN listed = {} /\ listed \in Seq(Nat)
  BY DEF Init
<1>2. DOMAIN alerts = {} /\ nextId = 1 /\ cursor = 0 /\ paging = FALSE /\ owed = {}
  BY DEF Init
<1>3. nextId \in Nat \ {0} /\ cursor \in Nat
  BY <1>2
<1>5. paging \in BOOLEAN
  BY <1>2
<1>4. DOMAIN alerts \subseteq 1..(nextId - 1)
  BY <1>2
<1> QED
  BY <1>1, <1>2, <1>3, <1>4, <1>5 DEF ListInv

\* One page after the other.
LEMMA NextPageStep ==
  ASSUME ListInv, NextPage
  PROVE  ListInv'
<1> DEFINE page == Page
           rest == Descending(Page)
<1>0. UNCHANGED <<nextId, alerts, filter>> /\ paging
  BY DEF NextPage
<1>1. /\ page \in SUBSET Nat /\ IsFiniteSet(page)
      /\ \A id \in page : id > 0 /\ (cursor > 0 => id < cursor)
      /\ page \subseteq Matching(alerts)
      /\ Matching(alerts) # {} => page # {}
      /\ \A id \in Matching(alerts) \ page : \A p \in page : id < p
  BY PageFacts
<1>2. /\ rest \in Seq(Nat) /\ \A i \in DOMAIN rest : rest[i] \in page
      /\ \A i, j \in DOMAIN rest : i < j => rest[i] > rest[j]
  BY <1>1, DescendingFacts
<1>3. listed' = listed \o rest /\ owed' = owed \ page
  BY DEF NextPage
<1>4. \/ Matching(alerts) = page /\ paging' = FALSE /\ cursor' = cursor
      \/ Matching(alerts) # page /\ paging' = TRUE /\ cursor' = Min(page)
  BY DEF NextPage
<1> HIDE DEF page, rest
<1>5. \A i \in DOMAIN listed : \A id \in page : listed[i] > id
  <2> TAKE i \in DOMAIN listed
  <2> TAKE id \in page
  <2>1. cursor > 0 /\ listed[i] >= cursor /\ listed[i] \in Nat /\ cursor \in Nat
    BY <1>0 DEF ListInv
  <2> QED
    BY <1>1, <2>1
<1>6. /\ listed' \in Seq(Nat)
      /\ \A i \in DOMAIN listed' :
           listed'[i] \in page \/ \E k \in DOMAIN listed : listed'[i] = listed[k]
      /\ \A i, j \in DOMAIN listed' : i < j => listed'[i] > listed'[j]
  <2>1. listed \in Seq(Nat) /\ \A i, j \in DOMAIN listed : i < j => listed[i] > listed[j]
    BY DEF ListInv
  <2> DEFINE m == Len(listed)
             n == Len(rest)
  <2>2. /\ m \in Nat /\ n \in Nat /\ DOMAIN listed = 1..m /\ DOMAIN rest = 1..n
        /\ listed' \in Seq(Nat) /\ DOMAIN listed' = 1..(m + n)
    BY <1>2, <1>3, <2>1
  <2>3. \A i \in 1..(m + n) : listed'[i] = IF i <= m THEN listed[i] ELSE rest[i - m]
    BY <1>2, <1>3, <2>1
  <2> HIDE DEF m, n
  <2>4. \A i \in 1..(m + n) : /\ i <= m => i \in DOMAIN listed
                              /\ ~(i <= m) => i - m \in DOMAIN rest
    BY <2>2
  <2>5. ASSUME NEW i \in 1..(m + n), NEW j \in 1..(m + n), i < j
        PROVE  listed'[i] > listed'[j]
    <3>1. CASE j <= m
      <4>1. i <= m
        BY <2>2, <2>5, <3>1
      <4> QED
        BY <2>1, <2>3, <2>4, <2>5, <3>1, <4>1
    <3>2. CASE i <= m /\ ~(j <= m)
      <4>1. rest[j - m] \in page /\ i \in DOMAIN listed
        BY <1>2, <2>4, <3>2
      <4> QED
        BY <1>5, <2>3, <3>2, <4>1
    <3>3. CASE ~(i <= m) /\ ~(j <= m)
      <4>1. i - m \in DOMAIN rest /\ j - m \in DOMAIN rest /\ i - m < j - m
        BY <2>2, <2>4, <2>5, <3>3
      <4> QED
        BY <1>2, <2>3, <3>3, <4>1
    <3> QED
      BY <2>2, <3>1, <3>2, <3>3
  <2>6. \A i \in DOMAIN listed' :
          listed'[i] \in page \/ \E k \in DOMAIN listed : listed'[i] = listed[k]
    BY <1>2, <2>2, <2>3, <2>4
  <2> QED
    BY <2>2, <2>5, <2>6
<1>7. \A id \in owed : id \in Matching(alerts)
  BY DEF ListInv, Matching
<1>8. CASE Matching(alerts) = page /\ paging' = FALSE /\ cursor' = cursor
  <2>1. owed' = {}
    BY <1>3, <1>7, <1>8
  <2> QED
    BY <1>0, <1>6, <1>8, <2>1 DEF ListInv
<1>9. CASE Matching(alerts) # page /\ paging' = TRUE /\ cursor' = Min(page)
  <2>1. page # {}
    BY <1>1, <1>9
  <2>2. cursor' \in page /\ \A x \in page : cursor' <= x
    BY <1>1, <1>9, <2>1, MinIsLeast
  <2>3. cursor' \in Nat /\ cursor' > 0
    BY <1>1, <2>2
  <2>4. \A i \in DOMAIN listed' : listed'[i] >= cursor'
    <3> TAKE i \in DOMAIN listed'
    <3>1. CASE listed'[i] \in page
      BY <1>1, <2>2, <3>1
    <3>2. ASSUME NEW k \in DOMAIN listed, listed'[i] = listed[k] PROVE listed'[i] >= cursor'
      <4>1. listed[k] > cursor' /\ listed[k] \in Nat
        BY <1>5, <2>2 DEF ListInv
      <4> QED
        BY <2>3, <3>2, <4>1
    <3> QED
      BY <1>6, <3>1, <3>2
  <2>5. \A id \in owed' : /\ id \in DOMAIN alerts /\ filter \in {"any", alerts[id].status}
                          /\ id < cursor'
    BY <1>1, <1>3, <1>7, <2>2 DEF ListInv
  <2> QED
    BY <1>0, <1>6, <1>9, <2>3, <2>4, <2>5 DEF ListInv
<1> QED
  BY <1>4, <1>8, <1>9

LEMMA ListStep == ListInv /\ PassInv /\ [Next]_vars => ListInv'
<1> SUFFICES ASSUME ListInv, PassInv, [Next]_vars PROVE ListInv'
  OBVIOUS
\* A step of the daemon: alerts may go, and those owed that stay in the list are
\* owed still.
<1>0. ASSUME UNCHANGED client, nextId' \in Nat, nextId' >= nextId,
             DOMAIN alerts' \subseteq 1..(nextId' - 1), owed' \subseteq owed,
             \A id \in owed' : id \in DOMAIN alerts' /\ filter \in {"any", alerts'[id].status}
      PROVE  ListInv'
  BY <1>0 DEF ListInv, client
\* One that leaves the status of every alert alone.
<1>1. ASSUME UNCHANGED <<client, nextId, owed>>, DOMAIN alerts' = DOMAIN alerts,
             \A id \in DOMAIN alerts : alerts'[id].status = alerts[id].status
      PROVE  ListInv'
  BY <1>0, <1>1 DEF ListInv
<1>2. CASE Migrate
  <2>1. UNCHANGED <<client, nextId, owed, alerts>>
    BY <1>2 DEF Migrate, OpenFile, BeginMigration, ExecMigration, CommitMigration, Opened
  <2> QED
    BY <1>1, <2>1
<1>3. CASE Checkpoint \/ UNCHANGED vars \/ \E t \in Series : Insert(t)
  <2>1. UNCHANGED <<client, nextId, owed, alerts>>
    BY <1>3 DEF Checkpoint, vars, Insert
  <2> QED
    BY <1>1, <2>1
<1>4. CASE StartCleanup
  BY <1>1, <1>4 DEF StartCleanup, PassInv, Ages
<1>5. ASSUME NEW t \in Series, DeleteBatch(t) PROVE ListInv'
  <2>1. UNCHANGED <<client, nextId, owed>> /\ (alerts' = alerts \/ alerts' = Forget(alerts))
    BY <1>5 DEF DeleteBatch
  <2>2. CASE alerts' = alerts
    BY <1>1, <2>1, <2>2
  <2>3. CASE alerts' = Forget(alerts)
    BY <1>1, <2>1, <2>3, ForgetFacts DEF PassInv
  <2> QED
    BY <2>1, <2>2, <2>3
<1>6. CASE DeleteAlerts
  <2>1. PICK gone : alerts' = Forget([id \in DOMAIN alerts \ gone |-> alerts[id]])
    BY <1>6 DEF DeleteAlerts
  <2>2. UNCHANGED <<client, nextId>> /\ owed' = owed \cap InList(alerts')
    BY <1>6 DEF DeleteAlerts
  <2> DEFINE kept == [id \in DOMAIN alerts \ gone |-> alerts[id]]
  <2>3. \A id \in DOMAIN kept : kept[id] \in [status : {"open", "resolved"}, updated : Ages]
    BY DEF PassInv
  <2>4. DOMAIN kept \subseteq DOMAIN alerts
    OBVIOUS
  <2> HIDE DEF kept
  <2>5. DOMAIN alerts' \subseteq DOMAIN alerts
    BY <2>1, <2>3, <2>4, ForgetFacts DEF kept
  <2> QED
    BY <1>0, <2>2, <2>5 DEF ListInv, InList
<1>7. CASE StartList
  BY <1>7 DEF StartList, ListInv
<1>8. CASE NextPage
  BY <1>8, NextPageStep
<1>9. CASE EndList
  BY <1>9 DEF EndList, ListInv
<1>10. CASE CreateAlert
  <2>1. /\ UNCHANGED <<client, owed>> /\ nextId' = nextId + 1
        /\ DOMAIN alerts' = DOMAIN alerts \cup {nextId}
        /\ \A id \in DOMAIN alerts : id # nextId => alerts'[id] = alerts[id]
    BY <1>10 DEF CreateAlert
  <2>2. nextId \in Nat \ {0} /\ DOMAIN alerts \subseteq 1..(nextId - 1)
    BY DEF ListInv
  <2>3. DOMAIN alerts' \subseteq 1..(nextId' - 1) /\ nextId \notin DOMAIN alerts
    BY <2>1, <2>2
  <2> QED
    BY <1>0, <2>1, <2>2, <2>3 DEF ListInv
<1>11. ASSUME NEW id \in DOMAIN alerts, UpdateAlert(id) PROVE ListInv'
  <2>1. DOMAIN alerts' = DOMAIN alerts /\ UNCHANGED <<client, nextId>>
        /\ owed' = owed \cap InList(alerts')
    BY <1>11 DEF UpdateAlert
  <2> QED
    BY <1>0, <2>1 DEF ListInv, InList
<1>12. CASE Expire
  <2>1. UNCHANGED <<client, nextId, owed>> /\ DOMAIN alerts' = DOMAIN alerts
    BY <1>12 DEF Expire
  <2>2. \A id \in DOMAIN alerts : alerts'[id].status = alerts[id].status
    BY <1>12 DEF Expire, PassInv
  <2> QED
    BY <1>1, <2>1, <2>2
<1>13. CASE Kill \/ PowerLoss
  <2>1. UNCHANGED <<client, nextId, owed>> /\ alerts' = Forget(alerts)
    BY <1>13 DEF Kill, PowerLoss, Down
  <2> QED
    BY <1>1, <2>1, ForgetFacts DEF PassInv
<1> QED
  BY <1>2, <1>3, <1>4, <1>5, <1>6, <1>7, <1>8, <1>9, <1>10, <1>11, <1>12, <1>13
     DEF Next, Cleanup, List

----------------------------------------------------------------------------
(* Theorem                                                                 *)

\* Wherever a migration is interrupted, and whatever a power loss takes back,
\* the file has exactly the tables of the version it records, and a daemon that
\* is up those of its release.
THEOREM SchemaMatchesVersionHolds == Spec => []SchemaMatchesVersion
<1>1. IInv => SchemaMatchesVersion
  <2> SUFFICES ASSUME IInv PROVE SchemaMatchesVersion
    OBVIOUS
  <2>1. schema = SchemaAt[Recorded(schema)]
    BY RecordedIs DEF IInv, Schemas
  <2>2. at = "up" => schema = SchemaAt[3]
    BY DEF IInv
  <2> QED
    BY <2>1, <2>2, MigrationFacts, NewestHasRetentionTables DEF SchemaMatchesVersion
<1>2. Spec => []IInv
  BY InitInv, InvStep, PTL DEF Spec
<1> QED
  BY <1>1, <1>2, PTL

\* A pass that ends has nothing left of its cutoff.
OverExact ==
  cleaning = {} /\ cleaning' # {} /\ at' = "up" =>
    /\ \A t \in Series : cut[t] = 0
    /\ \A id \in DOMAIN alerts' : alerts[id].updated = "cut" => alerts'[id].status = "open"

\* What a step takes from a time series, and which alerts it deletes.
RowsExact ==
  \A t \in Series :
    /\ recent'[t] < recent[t] => recent[t] - recent'[t] = expired'[t] - expired[t]
    /\ expired[t] - expired'[t] <= cut[t]

AlertsExact ==
  \A id \in DOMAIN alerts \ DOMAIN alerts' :
    alerts[id].status = "resolved" /\ alerts[id].updated = "cut"

LEMMA RetentionStep == PassInv /\ PassInv' /\ [Next]_vars => OverExact /\ RowsExact /\ AlertsExact
<1> SUFFICES ASSUME PassInv, PassInv', [Next]_vars
             PROVE  OverExact /\ RowsExact /\ AlertsExact
  OBVIOUS
<1>t. \A t \in Series : /\ recent[t] \in Nat /\ expired[t] \in Nat /\ cut[t] \in Nat
                        /\ recent'[t] \in Nat /\ expired'[t] \in Nat
  BY DEF PassInv
\* A step that deletes nothing and ends no pass.
<1>0. ASSUME \A t \in Series : recent[t] <= recent'[t] /\ expired[t] = expired'[t],
             DOMAIN alerts \subseteq DOMAIN alerts',
             cleaning = {} => cleaning' = {} \/ at' # "up"
      PROVE  OverExact /\ RowsExact /\ AlertsExact
  BY <1>0, <1>t DEF OverExact, RowsExact, AlertsExact
<1>1. ASSUME UNCHANGED <<recent, expired, alerts, cleaning>>
      PROVE  OverExact /\ RowsExact /\ AlertsExact
  BY <1>0, <1>1, <1>t
<1>2. CASE Migrate
  <2>1. UNCHANGED <<recent, expired, alerts, cleaning>>
    BY <1>2 DEF Migrate, OpenFile, BeginMigration, ExecMigration, CommitMigration, Opened,
                series, pass
  <2> QED
    BY <1>1, <2>1
<1>3. CASE List \/ Checkpoint \/ UNCHANGED vars
  <2>1. UNCHANGED <<recent, expired, alerts, cleaning>>
    BY <1>3 DEF List, StartList, NextPage, EndList, Checkpoint, vars, series, pass
  <2> QED
    BY <1>1, <2>1
<1>33. ASSUME NEW t \in Series, Insert(t)
       PROVE  OverExact /\ RowsExact /\ AlertsExact
  <2>1. UNCHANGED <<expired, alerts, cleaning>> /\ recent' = [recent EXCEPT ![t] = @ + 1]
    BY <1>33 DEF Insert, pass
  <2>2. \A u \in Series : recent[u] <= recent'[u]
    BY <1>t, <2>1 DEF PassInv
  <2> QED
    BY <1>0, <2>1, <2>2
<1>4. CASE StartCleanup
  <2>1. cleaning # {} /\ UNCHANGED <<recent, expired>>
    BY <1>4 DEF StartCleanup, series
  <2>2. DOMAIN alerts' = DOMAIN alerts
    BY <1>4 DEF StartCleanup
  <2> QED
    BY <1>0, <1>t, <2>1, <2>2
<1>5. ASSUME NEW t \in Series, DeleteBatch(t)
      PROVE  OverExact /\ RowsExact /\ AlertsExact
  <2> DEFINE n == Min({Batch, cut[t]})
  <2>1. cleaning # {}
    BY <1>5 DEF DeleteBatch
  <2>2. DOMAIN alerts' = DOMAIN alerts
    BY <1>5, ForgetFacts DEF DeleteBatch, PassInv
  <2>3. n \in Nat /\ n <= cut[t]
    BY BatchTakes DEF PassInv
  <2>4. /\ expired' = [expired EXCEPT ![t] = @ - n] \/ expired' = expired
        /\ UNCHANGED recent
    BY <1>5 DEF DeleteBatch
  <2> HIDE DEF n
  <2>5. RowsExact
    <3> SUFFICES ASSUME NEW u \in Series
                 PROVE  recent'[u] = recent[u] /\ expired[u] - expired'[u] <= cut[u]
      BY <1>t DEF RowsExact
    <3>1. expired'[u] = expired[u] \/ (u = t /\ expired'[u] = expired[u] - n)
      BY <2>4 DEF PassInv
    <3> QED
      BY <1>t, <2>3, <2>4, <3>1
  <2> QED
    BY <2>1, <2>2, <2>5 DEF OverExact, AlertsExact
<1>6. CASE DeleteAlerts
  <2> DEFINE gone == {id \in DOMAIN alerts :
                        alerts[id].status = "resolved" /\ alerts[id].updated = "cut"}
             kept == [id \in DOMAIN alerts \ gone |-> alerts[id]]
  <2>1. alerts' = Forget(kept) /\ cleaning = {} /\ UNCHANGED <<recent, expired>>
    BY <1>6 DEF DeleteAlerts, series
  <2>2. \A id \in DOMAIN kept : kept[id] \in [status : {"open", "resolved"}, updated : Ages]
    BY DEF PassInv
  <2>3. DOMAIN kept = DOMAIN alerts \ gone /\ \A id \in DOMAIN kept : kept[id] = alerts[id]
    OBVIOUS
  <2> HIDE DEF kept
  <2>4. DOMAIN alerts' = DOMAIN alerts \ gone
    BY <2>1, <2>2, <2>3, ForgetFacts
  <2>5. \A id \in DOMAIN alerts' : alerts'[id].status = alerts[id].status
    BY <2>1, <2>2, <2>3, <2>4, ForgetFacts
  <2>6. OverExact
    <3>1. \A t \in Series : cut[t] = 0
      BY <2>1 DEF PassInv
    <3>2. ASSUME NEW id \in DOMAIN alerts', alerts[id].updated = "cut"
          PROVE  alerts'[id].status = "open"
      BY <2>4, <2>5, <3>2 DEF PassInv
    <3> QED
      BY <3>1, <3>2 DEF OverExact
  <2>7. RowsExact
    BY <1>t, <2>1 DEF RowsExact
  <2> QED
    BY <2>4, <2>6, <2>7 DEF AlertsExact
<1>7. CASE CreateAlert
  BY <1>0, <1>7, <1>t DEF CreateAlert, PassInv, series, pass
<1>8. ASSUME NEW id \in DOMAIN alerts, UpdateAlert(id)
      PROVE  OverExact /\ RowsExact /\ AlertsExact
  BY <1>0, <1>8, <1>t DEF UpdateAlert, PassInv, series, pass
<1>9. CASE Expire
  <2>1. UNCHANGED <<cleaning>> /\ DOMAIN alerts' = DOMAIN alerts
    BY <1>9 DEF Expire, pass
  <2>2. RowsExact
    <3>1. CASE UNCHANGED series
      BY <1>t, <3>1 DEF RowsExact, series
    <3>2. ASSUME NEW t \in Series, recent' = [recent EXCEPT ![t] = @ - 1],
                 expired' = [expired EXCEPT ![t] = @ + 1]
          PROVE  RowsExact
      BY <1>t, <3>2 DEF RowsExact, PassInv
    <3> QED
      BY <1>9, <3>1, <3>2 DEF Expire
  <2> QED
    BY <2>1, <2>2 DEF OverExact, AlertsExact
<1>10. CASE Kill \/ PowerLoss
  <2>1. UNCHANGED <<recent, expired>> /\ alerts' = Forget(alerts) /\ at' = "down"
    BY <1>10 DEF Kill, PowerLoss, Down, series
  <2>2. DOMAIN alerts' = DOMAIN alerts
    BY <2>1, ForgetFacts DEF PassInv
  <2> QED
    BY <1>0, <1>t, <2>1, <2>2 DEF PassInv
<1> QED
  BY <1>2, <1>3, <1>33, <1>4, <1>5, <1>6, <1>7, <1>8, <1>9, <1>10 DEF Next, Cleanup

LEMMA PassHolds == Spec => []PassInv
BY PassInit, PassStep, PTL DEF Spec

\* A pass of the retention job that ends well leaves nothing that was expired
\* when it started, with tables of any size, batches of any size and any
\* writes, kills and restarts in between.
THEOREM RetentionCompleteHolds == Spec => RetentionComplete
<1>1. PassInv /\ PassInv' /\ [Next]_vars =>
        [cleaning = {} /\ cleaning' # {} /\ at' = "up" =>
           /\ \A t \in Series : cut[t] = 0
           /\ \A id \in DOMAIN alerts' :
                alerts[id].updated = "cut" => alerts'[id].status = "open"]_vars
  BY RetentionStep DEF OverExact
<1> QED
  BY <1>1, PassHolds, PTL DEF Spec, RetentionComplete

\* Nothing else is ever deleted: no row that is recent, no more rows than were
\* beyond the cutoff of the pass, no alert that is open or was updated since.
THEOREM OnlyExpiredDeletedHolds == Spec => OnlyExpiredDeleted
<1>1. PassInv /\ PassInv' /\ [Next]_vars =>
        [/\ \A t \in Series :
              /\ recent'[t] < recent[t] => recent[t] - recent'[t] = expired'[t] - expired[t]
              /\ expired[t] - expired'[t] <= cut[t]
         /\ \A id \in DOMAIN alerts \ DOMAIN alerts' :
              alerts[id].status = "resolved" /\ alerts[id].updated = "cut"]_vars
  BY RetentionStep DEF RowsExact, AlertsExact
<1> QED
  BY <1>1, PassHolds, PTL DEF Spec, OnlyExpiredDeleted

\* Both halves together: retention deletes exactly what is expired.
THEOREM RetentionExactHolds == Spec => RetentionExact
BY RetentionCompleteHolds, OnlyExpiredDeletedHolds DEF RetentionExact

\* A client that follows the cursor to the end has every alert that was in its
\* list all the while, each once, for pages of any size and whatever is opened,
\* resolved, deleted or restarted between two of them.
THEOREM PagesCompleteHolds == Spec => []PagesComplete
<1>1. ListInv => PagesComplete
  BY DEF ListInv, PagesComplete
<1>2. Spec => [](PassInv /\ ListInv)
  BY PassInit, PassStep, ListInit, ListStep, PTL DEF Spec
<1> QED
  BY <1>1, <1>2, PTL
=============================================================================
