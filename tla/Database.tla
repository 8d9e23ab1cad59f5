----------------------------- MODULE Database -----------------------------
(***************************************************************************)
(* The SQLite file across the life of the daemon: Open applies migrations  *)
(* (storage/migrations.go), collectors and the alert engine write rows, a  *)
(* client lists alerts page by page (storage/cursor.go, ListAlerts), and   *)
(* the retention job deletes what is expired in batches (DB.Cleanup).  The *)
(* process may be killed and the machine may lose power at any step.       *)
(*                                                                         *)
(* A migration is the set of tables it creates and the set it drops: its   *)
(* statements are "IF NOT EXISTS" and "IF EXISTS".  Indexes and columns    *)
(* belong to their tables.  SQLite makes a transaction atomic; with        *)
(* synchronous=NORMAL a power loss takes back what was committed since the *)
(* last checkpoint, a kill takes back only the open transaction.           *)
(***************************************************************************)
EXTENDS Integers, Sequences, FiniteSets, FiniteSetsExt

CONSTANTS
  Series,      \* the tables of retentionTables whose rows are followed
  Batch,       \* rows a DELETE of the retention job takes at most
  PageSize,    \* rows per page, what ClampLimit leaves of ?limit=
  Filters,     \* the values of ?status= a client sends
  MaxRows,     \* bound on the rows of a time series
  MaxAlerts,   \* bound on alerts ever opened
  MaxCrashes   \* bound on kills, power losses, failing statements

Schema1 == {"interfaces", "interface_metrics", "devices", "latency_checks", "dns_checks",
  "connections", "system_memory_metrics", "process_memory_metrics", "daemon_memory_metrics",
  "alerts", "events", "settings", "health_score_history", "system_load_metrics"}

Schema2 == {"app_traffic_metrics"}

Dropped3 == {"connections"}

Migrations == << [creates |-> Schema1, drops |-> {}],
                 [creates |-> Schema2, drops |-> {}],
                 [creates |-> {}, drops |-> Dropped3] >>

\* What DB.Cleanup goes through.
RetentionTables == {"interface_metrics", "latency_checks", "dns_checks", "system_memory_metrics",
  "process_memory_metrics", "daemon_memory_metrics", "system_load_metrics", "app_traffic_metrics",
  "health_score_history", "events"}

\* The schema of a file at each version.
SchemaAt ==
  [v \in 0..Len(Migrations) |->
     [versions |-> 1..v,
      tables |-> {t \in Schema1 \cup Schema2 :
                    \E w \in 1..v : /\ t \in Migrations[w].creates
                                    /\ \A u \in (w + 1)..v : t \notin Migrations[u].drops}]]

ASSUME DatabaseAssumption ==
  /\ Series \subseteq RetentionTables
  /\ Batch \in Nat \ {0} /\ PageSize \in Nat \ {0}
  /\ Filters \subseteq {"any", "open", "resolved"}
  /\ MaxRows \in Nat /\ MaxAlerts \in Nat /\ MaxCrashes \in Nat

NotCleaning == "no pass"

VARIABLES
  \* the file
  schema,         \* recorded versions and existing tables
  synced,         \* the schema that would survive a power loss
  recent, expired,\* rows of each time series, within and beyond the retention window
  alerts,         \* id -> status, and the age of updated_at
  nextId,         \* AUTOINCREMENT never hands out an id twice
  \* the daemon: Open
  at,             \* "down", "versioned", "migrating", "applied", "up"
  tx,             \* tables as the open transaction has them
  version,        \* the migrations it has behind it
  \* the daemon: Cleanup
  cleaning,       \* the tables it has yet to go through
  table,          \* the one it is in the middle of
  cut,            \* rows of each table older than the cutoff of this pass
  \* a client that lists alerts
  filter,         \* the status it asks for, or "any"
  cursor,         \* 0 before the first page
  listed,         \* ids on the pages so far
  paging,         \* there is a page to ask for
  owed,           \* history: in the list since the first page was asked for, and not shown
  crashes

file    == <<schema, synced>>
open    == <<at, tx, version>>
series  == <<recent, expired>>
pass    == <<cleaning, table, cut>>
client  == <<filter, cursor, listed, paging>>
vars    == <<file, open, series, alerts, nextId, pass, client, owed, crashes>>

Fault == crashes < MaxCrashes /\ crashes' = crashes + 1

----------------------------------------------------------------------------
(* Migrations                                                              *)

\* The version recorded last, 0 for a new file.
Recorded(sch) == Max(sch.versions \cup {0})

OpenFile ==
  /\ at = "down"
  /\ at' = "versioned" /\ version' = Recorded(schema)
  /\ UNCHANGED <<file, tx, series, alerts, nextId, pass, client, owed, crashes>>

BeginMigration ==
  /\ at = "versioned" /\ version < Len(Migrations)
  /\ at' = "migrating" /\ tx' = schema.tables
  /\ UNCHANGED <<file, version, series, alerts, nextId, pass, client, owed, crashes>>

\* Mutant: the statements run outside the transaction.
ExecMigrationUnguarded ==
  LET m == Migrations[version + 1]
  IN  /\ at = "migrating" /\ at' = "applied"
      /\ tx' = (tx \cup m.creates) \ m.drops
      /\ schema' = [schema EXCEPT !.tables = tx']
      /\ UNCHANGED <<synced, version, series, alerts, nextId, pass, client, owed, crashes>>

\* A failing statement rolls back, and the daemon does not start.
ExecMigration ==
  LET m == Migrations[version + 1]
  IN  /\ at = "migrating"
      /\ \/ /\ tx' = (tx \cup m.creates) \ m.drops
            /\ at' = "applied"
            /\ UNCHANGED crashes
         \/ Fault /\ at' = "down" /\ tx' = {}
      /\ UNCHANGED <<file, version, series, alerts, nextId, pass, client, owed>>

\* The version is recorded in the same transaction.
CommitMigration ==
  /\ at = "applied"
  /\ tx' = {}
  /\ \/ /\ schema' = [versions |-> schema.versions \cup {version + 1}, tables |-> tx]
        /\ version' = version + 1
        /\ at' = "versioned"
        /\ UNCHANGED crashes
     \/ Fault /\ at' = "down" /\ UNCHANGED <<schema, version>>
  /\ UNCHANGED <<synced, series, alerts, nextId, pass, client, owed>>

Opened ==
  /\ at = "versioned" /\ version = Len(Migrations)
  /\ at' = "up"
  /\ UNCHANGED <<file, tx, version, series, alerts, nextId, pass, client, owed, crashes>>

----------------------------------------------------------------------------
(* Collectors and the alert engine                                         *)

Insert(t) ==
  /\ at = "up" /\ recent[t] + expired[t] < MaxRows
  /\ recent' = [recent EXCEPT ![t] = @ + 1]
  /\ UNCHANGED <<file, open, expired, alerts, nextId, pass, client, owed, crashes>>

\* The ids of a listing; with a cursor, those below it.
Matching(as) == {id \in DOMAIN as : filter \in {"any", as[id].status}
                                    /\ (cursor > 0 => id < cursor)}
InList(as)   == {id \in DOMAIN as : filter \in {"any", as[id].status}}

CreateAlert ==
  /\ at = "up" /\ nextId <= MaxAlerts
  /\ alerts' = [id \in DOMAIN alerts \cup {nextId} |->
                  IF id = nextId THEN [status |-> "open", updated |-> "recent"] ELSE alerts[id]]
  /\ nextId' = nextId + 1
  /\ UNCHANGED <<file, open, series, pass, client, owed, crashes>>

\* TouchAlert refreshes updated_at of an open alert, ResolveAlert of any.
UpdateAlert(id) ==
  /\ at = "up"
  /\ \/ alerts[id].status = "open" /\ alerts' = [alerts EXCEPT ![id].updated = "recent"]
     \/ alerts' = [alerts EXCEPT ![id] = [status |-> "resolved", updated |-> "recent"]]
  /\ owed' = owed \cap InList(alerts')
  /\ UNCHANGED <<file, open, series, nextId, pass, client, crashes>>

\* Time passes: a row leaves the window.
Expire ==
  /\ \/ \E t \in Series :
          /\ recent[t] > 0
          /\ recent' = [recent EXCEPT ![t] = @ - 1] /\ expired' = [expired EXCEPT ![t] = @ + 1]
          /\ UNCHANGED alerts
     \/ \E id \in DOMAIN alerts :
          /\ alerts[id].updated = "recent"
          /\ alerts' = [alerts EXCEPT ![id].updated = "expired"]
          /\ UNCHANGED series
  /\ UNCHANGED <<file, open, nextId, pass, client, owed, crashes>>

----------------------------------------------------------------------------
(* DB.Cleanup                                                              *)

\* The cutoff of a pass is taken once: what expires later is for the next.
StartCleanup ==
  /\ at = "up" /\ cleaning = {NotCleaning}
  /\ cleaning' = Series /\ table' = {} /\ cut' = expired
  /\ alerts' = [id \in DOMAIN alerts |->
                  IF alerts[id].updated = "expired" THEN [alerts[id] EXCEPT !.updated = "cut"]
                  ELSE alerts[id]]
  /\ UNCHANGED <<file, open, series, nextId, client, owed, crashes>>

\* What is left of the cutoff when the pass is over.
Forget(as) == [id \in DOMAIN as |->
                 IF as[id].updated = "cut" THEN [as[id] EXCEPT !.updated = "expired"] ELSE as[id]]

EndPass == cleaning' = {NotCleaning} /\ table' = {} /\ cut' = [t \in Series |-> 0]

\* Mutant: the DELETE is not bound by the cutoff, and takes what was just written.
DeleteBatchOfAny(t) ==
  LET n == Min({Batch, recent[t]})
  IN  /\ at = "up" /\ t \in cleaning \ {NotCleaning} /\ table \subseteq {t}
      /\ recent' = [recent EXCEPT ![t] = @ - n] /\ UNCHANGED <<expired, cut>>
      /\ cleaning' = IF n < Batch THEN cleaning \ {t} ELSE cleaning
      /\ table' = IF n < Batch THEN {} ELSE {t}
      /\ UNCHANGED <<file, open, alerts, nextId, client, owed, crashes>>

\* One DELETE.  A table is done when a batch is not full, and the next one may
\* be any: the tables are a Go map.  An error ends the pass.
DeleteBatch(t) ==
  LET n == Min({Batch, cut[t]})
  IN  /\ at = "up" /\ t \in cleaning \ {NotCleaning} /\ table \subseteq {t}
      /\ \/ /\ cut' = [cut EXCEPT ![t] = @ - n] /\ expired' = [expired EXCEPT ![t] = @ - n]
            /\ cleaning' = IF n < Batch THEN cleaning \ {t} ELSE cleaning
            /\ table' = IF n < Batch THEN {} ELSE {t}
            /\ UNCHANGED <<alerts, crashes>>
         \/ /\ Fault
            /\ EndPass /\ alerts' = Forget(alerts)
            /\ UNCHANGED expired
      /\ UNCHANGED <<file, open, recent, nextId, client, owed>>

\* The last statement: resolved alerts not updated since the cutoff.
DeleteAlerts ==
  /\ at = "up" /\ cleaning = {}
  /\ EndPass
  /\ LET gone == {id \in DOMAIN alerts : alerts[id].status = "resolved" /\ alerts[id].updated = "cut"}
     IN  alerts' = Forget([id \in DOMAIN alerts \ gone |-> alerts[id]])
  /\ owed' = owed \cap InList(alerts')
  /\ UNCHANGED <<file, open, series, nextId, client, crashes>>

----------------------------------------------------------------------------
(* ListAlerts, page by page                                                *)

StartList ==
  /\ ~paging /\ listed = <<>>
  /\ \E f \in Filters :
       /\ filter' = f
       /\ owed' = {id \in DOMAIN alerts : f \in {"any", alerts[id].status}}
  /\ cursor' = 0 /\ paging' = TRUE
  /\ UNCHANGED <<file, open, series, alerts, nextId, pass, listed, crashes>>

\* The ids of the next page, newest first; one row more tells of another page.
Page == LET found == Matching(alerts)
        IN  {id \in found : Cardinality({other \in found : other > id}) < PageSize}
Descending(S) == CHOOSE s \in [1..Cardinality(S) -> S] : \A i, j \in DOMAIN s : i < j => s[i] > s[j]

\* Mutant: the cursor is the row that tells of another page.
NextPageFromExtra ==
  /\ at = "up" /\ paging
  /\ listed' = listed \o Descending(Page) /\ owed' = owed \ Page
  /\ LET rest == Matching(alerts) \ Page
     IN  IF rest = {} THEN paging' = FALSE /\ UNCHANGED cursor
         ELSE paging' = TRUE /\ cursor' = Max(rest)
  /\ UNCHANGED <<file, open, series, alerts, nextId, pass, filter, crashes>>

\* The cursor is the last row shown.
NextPage ==
  /\ at = "up" /\ paging
  /\ listed' = listed \o Descending(Page) /\ owed' = owed \ Page
  /\ IF Matching(alerts) = Page THEN paging' = FALSE /\ UNCHANGED cursor
     ELSE paging' = TRUE /\ cursor' = Min(Page)
  /\ UNCHANGED <<file, open, series, alerts, nextId, pass, filter, crashes>>

\* The client is done with its list.
EndList ==
  /\ ~paging /\ filter # "none"
  /\ filter' = "none" /\ listed' = <<>> /\ cursor' = 0 /\ owed' = {}
  /\ UNCHANGED <<file, open, series, alerts, nextId, pass, paging, crashes>>

----------------------------------------------------------------------------
(* Kills and power losses                                                  *)

Down ==
  /\ at # "down" /\ Fault
  /\ at' = "down" /\ tx' = {} /\ version' = 0
  /\ EndPass /\ alerts' = Forget(alerts)
  /\ UNCHANGED <<series, nextId, client, owed>>

Kill == Down /\ UNCHANGED file

\* Which rows are lost makes no difference here; the schema goes back.
PowerLoss == Down /\ schema' = synced /\ UNCHANGED synced

Checkpoint ==
  /\ synced # schema /\ synced' = schema
  /\ UNCHANGED <<schema, open, series, alerts, nextId, pass, client, owed, crashes>>

\* A file of an earlier release, or a new one.
Init ==
  /\ schema \in {SchemaAt[v] : v \in 0..Len(Migrations)} /\ synced = schema
  /\ recent = [t \in Series |-> 0] /\ expired \in [Series -> {0, MaxRows}]
  /\ alerts = [id \in {} |-> [status |-> "open", updated |-> "recent"]] /\ nextId = 1
  /\ at = "down" /\ tx = {} /\ version = 0
  /\ cleaning = {NotCleaning} /\ table = {} /\ cut = [t \in Series |-> 0]
  /\ filter = "none" /\ cursor = 0 /\ listed = <<>> /\ paging = FALSE /\ owed = {}
  /\ crashes = 0

Migrate == OpenFile \/ BeginMigration \/ ExecMigration \/ CommitMigration \/ Opened
Cleanup == StartCleanup \/ (\E t \in Series : DeleteBatch(t)) \/ DeleteAlerts
List    == StartList \/ NextPage \/ EndList

Next ==
  \/ Migrate \/ Cleanup \/ List
  \/ \E t \in Series : Insert(t)
  \/ CreateAlert \/ (\E id \in DOMAIN alerts : UpdateAlert(id)) \/ Expire
  \/ Kill \/ PowerLoss \/ Checkpoint

Spec == Init /\ [][Next]_vars

----------------------------------------------------------------------------
(* Properties                                                              *)

\* The file never claims a version it does not have, whenever a migration is
\* interrupted and whatever a power loss takes back, and a daemon that is up
\* has every table of its release, the ones the retention job names included.
SchemaMatchesVersion ==
  /\ schema = SchemaAt[Recorded(schema)]
  /\ at = "up" => /\ schema = SchemaAt[Len(Migrations)]
                  /\ RetentionTables \subseteq schema.tables

\* A pass of the retention job that ends well has deleted all that was expired
\* when it started, however many batches that took and whatever was written,
\* updated or grew old meanwhile.
RetentionComplete ==
  [][cleaning = {} /\ cleaning' # {} /\ at' = "up" =>
       /\ \A t \in Series : cut[t] = 0
       /\ \A id \in DOMAIN alerts' :
            alerts[id].updated = "cut" => alerts'[id].status = "open"]_vars

\* Nothing else is ever deleted.  A recent row goes only by growing old, so it
\* is then among the expired; of those no more go than the pass counted at its
\* cutoff; and no alert that is open or was updated since the cutoff.
OnlyExpiredDeleted ==
  [][/\ \A t \in Series :
          /\ recent'[t] < recent[t] => recent[t] - recent'[t] = expired'[t] - expired[t]
          /\ expired[t] - expired'[t] <= cut[t]
     /\ \A id \in DOMAIN alerts \ DOMAIN alerts' :
          alerts[id].status = "resolved" /\ alerts[id].updated = "cut"]_vars

\* Retention deletes what is expired and nothing else, pass by pass and batch by
\* batch beside everything that writes (Cleanup, sqlite.go).
RetentionExact == RetentionComplete /\ OnlyExpiredDeleted

\* A client that follows the cursor to the end has seen every alert that was
\* in the list all the while, and none twice, also if alerts opened, resolved
\* or were deleted between two pages or the daemon started again.
PagesComplete ==
  /\ \A i, j \in DOMAIN listed : i < j => listed[i] > listed[j]
  /\ ~paging => owed = {}
=============================================================================
