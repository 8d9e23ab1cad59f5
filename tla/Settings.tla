----------------------------- MODULE Settings ------------------------------
(***************************************************************************)
(* The settings of a running daemon: the configuration store               *)
(* (internal/config/config.go), POST /settings                             *)
(* (internal/api/settings_handler.go), the settings row of the database    *)
(* and the startup that re-applies it (cmd/routeviewnetd/main.go).         *)
(*                                                                         *)
(* A document has a list setting, a hot-reloadable scalar (the log level)  *)
(* and two restart-only settings: the port, and the path of the database   *)
(* the documents themselves are stored in.  A list is a Go slice, a length *)
(* and a reference to an array: copying a document copies the reference,   *)
(* and encoding/json decodes into the array in place as far as it reaches. *)
(***************************************************************************)
EXTENDS Naturals, Sequences, FiniteSets

CONSTANTS
  Requests,     \* POST /settings requests in flight
  Lists,        \* values of the list setting, all sequences
  Levels,       \* valid values of the scalar
  Ports,        \* ports
  Paths,        \* database paths
  Yaml,         \* the document of config.yaml
  PathChanges,  \* whether requests may change the database path
  MaxPosts      \* bound on the requests

Absent  == "absent"    \* a field the request leaves out
Invalid == "invalid"   \* a value Validate rejects

Elements == UNION {{l[i] : i \in DOMAIN l} : l \in Lists}
Docs     == [list : Seq(Elements), level : Levels, port : Ports, path : Paths]

ASSUME SettingsAssumption ==
  /\ IsFiniteSet(Requests)
  /\ Lists \subseteq Seq(Elements)
  /\ Yaml \in Docs
  /\ PathChanges \in BOOLEAN
  /\ MaxPosts \in Nat
  /\ {Absent, Invalid} \cap (Levels \cup Ports \cup Paths) = {}

VARIABLES
  arrays,     \* the backing arrays of lists
  cfg,        \* Store.cfg, what is in effect
  desired,    \* Store.desired
  level,      \* the level the logger uses
  bound,      \* the port the listener is bound to
  open,       \* the path of the open database
  stored,     \* the settings row of each database, if it has one
  up,         \* whether the daemon runs
  req,        \* the requests: where each is, its body and its documents
  posts,      \* how many requests there were
  answer,     \* history: the answer to the last request, "none" before it
  owed,       \* history: the documents a restart may bring back
  overlapped  \* history: whether two requests were ever in flight at once

store   == <<arrays, cfg, desired>>
process == <<level, bound, open, up>>
history == <<answer, owed, overlapped>>
vars == <<store, process, stored, req, posts, history>>

----------------------------------------------------------------------------
(* Slices and documents                                                    *)

Nil    == [array |-> 0, len |-> 0]
Arrays == 1..(2 + 2 * Cardinality(Requests))
NoDoc  == [list |-> Nil, level |-> Absent, port |-> Absent, path |-> Absent]
NoBody == [list |-> {}, level |-> Absent, port |-> Absent, path |-> Absent,
           unknown |-> FALSE]
Idle   == [at |-> "idle", body |-> NoBody, next |-> NoDoc, restart |-> FALSE]

Content(s) == IF s = Nil THEN <<>> ELSE SubSeq(arrays[s.array], 1, s.len)
Value(d)   == [d EXCEPT !.list = Content(@)]

(***************************************************************************)
(* Decoding a list into slice s of the arrays h: an empty one gets an      *)
(* empty slice of its own, one that fits is written into s's array, a      *)
(* longer one fills that array first and then moves to a new one.          *)
(***************************************************************************)
Fits(h, s, list) == s # Nil /\ Len(list) <= Len(h[s.array])
Free(h)          == CHOOSE a \in Arrays : h[a] = <<>>
Overwrite(old, new) ==
  [i \in DOMAIN old |-> IF i <= Len(new) THEN new[i] ELSE old[i]]

ListAfter(h, s, list) ==
  IF list = <<>> THEN Nil
  ELSE [array |-> IF Fits(h, s, list) THEN s.array ELSE Free(h),
        len   |-> Len(list)]

ArraysAfter(h, s, list) ==
  LET written == IF s = Nil THEN h
                 ELSE [h EXCEPT ![s.array] = Overwrite(@, list)]
  IN IF list = <<>> \/ Fits(h, s, list) THEN written
     ELSE [written EXCEPT ![Free(h)] = list]

\* An optional value is a set of at most one.
Only(s) == CHOOSE x \in s : TRUE

\* Fields the body leaves out keep what the document had.
Merge(old, new) == IF new = Absent THEN old ELSE new

Decoded(d, body) ==
  [list  |-> IF body.list = {} THEN d.list
             ELSE ListAfter(arrays, d.list, Only(body.list)),
   level |-> Merge(d.level, body.level),
   port  |-> Merge(d.port, body.port),
   path  |-> Merge(d.path, body.path)]

Bodies ==
  [list : {{}} \cup {{l} : l \in Lists}, level : Levels \cup {Absent, Invalid},
   port : Ports \cup {Absent},
   path : {Absent} \cup (IF PathChanges THEN Paths ELSE {}),
   unknown : BOOLEAN]

Valid(d)          == d.level # Invalid
RestartOnly(d, e) == d.port # e.port \/ d.path # e.path

----------------------------------------------------------------------------
(* Startup                                                                 *)

YamlArrays == [a \in Arrays |-> IF a = 1 THEN Yaml.list ELSE <<>>]
YamlSlice  == IF Yaml.list = <<>> THEN Nil ELSE [array |-> 1, len |-> Len(Yaml.list)]

\* Mutant: the level is not set again after the stored document is adopted.
BootYamlLevel(rows) ==
  LET row == rows[Yaml.path]
      doc == IF row = {} THEN [Yaml EXCEPT !.list = YamlSlice]
             ELSE [Only(row) EXCEPT !.list = ListAfter(YamlArrays, YamlSlice, @)]
  IN /\ cfg' = doc
     /\ desired' = doc
     /\ arrays' = IF row = {} THEN YamlArrays
                  ELSE ArraysAfter(YamlArrays, YamlSlice, Only(row).list)
     /\ level' = Yaml.level
     /\ bound' = doc.port
     /\ open' = doc.path

(***************************************************************************)
(* The document a start ends up with: the settings row of the database     *)
(* config.yaml names, decoded over config.yaml and adopted wholesale, or   *)
(* config.yaml alone.                                                      *)
(***************************************************************************)
Boot(rows) ==
  LET row == rows[Yaml.path]
      doc == IF row = {} THEN [Yaml EXCEPT !.list = YamlSlice]
             ELSE [Only(row) EXCEPT !.list = ListAfter(YamlArrays, YamlSlice, @)]
  IN /\ cfg' = doc
     /\ desired' = doc
     /\ arrays' = IF row = {} THEN YamlArrays
                  ELSE ArraysAfter(YamlArrays, YamlSlice, Only(row).list)
     /\ level' = doc.level
     /\ bound' = doc.port
     /\ open' = doc.path

Init ==
  /\ arrays = YamlArrays
  /\ cfg = [Yaml EXCEPT !.list = YamlSlice]
  /\ desired = cfg
  /\ level = Yaml.level
  /\ bound = Yaml.port
  /\ open = Yaml.path
  /\ stored = [p \in Paths |-> {}]
  /\ up = TRUE
  /\ req = [r \in Requests |-> Idle]
  /\ posts = 0
  /\ answer = "none"
  /\ owed = {Yaml}
  /\ overlapped = FALSE

Start ==
  /\ ~up
  /\ up' = TRUE
  /\ Boot(stored)
  /\ owed' = {Value(desired)'}
  /\ answer' = "none"
  /\ UNCHANGED <<stored, req, posts, overlapped>>

\* A shutdown or a crash: handlers in progress are gone, the rows stay.
Stop ==
  /\ up
  /\ up' = FALSE
  /\ req' = [r \in Requests |-> Idle]
  /\ UNCHANGED <<store, level, bound, open, stored, posts, history>>

----------------------------------------------------------------------------
(* POST /settings                                                          *)

Goto(r, place) == req' = [req EXCEPT ![r].at = place]

Finish(r, code) == req' = [req EXCEPT ![r] = Idle] /\ answer' = code

\* Arrays of h that only the finished request refers to are collected.
Collected(h, r) ==
  LET used == {cfg.list.array, desired.list.array}
                \cup {req[q].next.list.array : q \in Requests \ {r}}
  IN [a \in Arrays |-> IF a \in used THEN h[a] ELSE <<>>]

CollectFor(r) == arrays' = Collected(arrays, r)

\* next := Desired(), a copy that shares its arrays.
Begin(r) ==
  /\ up
  /\ req[r].at = "idle"
  /\ posts < MaxPosts
  /\ \E body \in Bodies :
       req' = [req EXCEPT ![r] = [Idle EXCEPT !.at = "decode", !.body = body,
                                              !.next = desired]]
  /\ posts' = posts + 1
  /\ answer' = "none"
  /\ overlapped' = (overlapped \/ \E q \in Requests : req[q].at # "idle")
  /\ UNCHANGED <<store, process, stored, owed>>

(***************************************************************************)
(* The body is decoded over next.  An unknown field is reported only after *)
(* everything else has been decoded.                                       *)
(***************************************************************************)
Decode(r) ==
  LET list == req[r].body.list
      h    == IF list = {} THEN arrays
              ELSE ArraysAfter(arrays, req[r].next.list, Only(list)) IN
  /\ req[r].at = "decode"
  /\ IF req[r].body.unknown
       THEN Finish(r, "400") /\ arrays' = Collected(h, r)
       ELSE /\ req' = [req EXCEPT ![r].at = "apply",
                                  ![r].next = Decoded(@, req[r].body)]
            /\ arrays' = h
            /\ UNCHANGED answer
  /\ UNCHANGED <<cfg, desired, process, stored, posts, owed, overlapped>>

\* Mutant: the whole document becomes live, restart-only settings included.
ApplyWholesale(r) ==
  /\ req[r].at = "apply"
  /\ Valid(req[r].next)
  /\ desired' = req[r].next
  /\ cfg' = req[r].next
  /\ Goto(r, "reread")
  /\ UNCHANGED <<arrays, process, stored, posts, history>>

\* Mutant: restart is asked for only when it was not before.
ApplyComparingDesired(r) ==
  LET next == req[r].next IN
  /\ req[r].at = "apply"
  /\ Valid(next)
  /\ desired' = next
  /\ cfg' = [next EXCEPT !.port = cfg.port, !.path = cfg.path]
  /\ req' = [req EXCEPT ![r].at = "reread",
                        ![r].restart = RestartOnly(desired, next)]
  /\ UNCHANGED <<arrays, process, stored, posts, history>>

\* Mutant: nothing is validated.
ApplyUnchecked(r) ==
  /\ req[r].at = "apply"
  /\ desired' = req[r].next
  /\ cfg' = [req[r].next EXCEPT !.port = cfg.port, !.path = cfg.path]
  /\ Goto(r, "reread")
  /\ UNCHANGED <<arrays, process, stored, posts, history>>

(***************************************************************************)
(* Store.Apply: validate, then, under the mutex, keep what only a restart  *)
(* can change at its running value in cfg and the whole request in         *)
(* desired.                                                                *)
(***************************************************************************)
Apply(r) ==
  LET next == req[r].next IN
  /\ req[r].at = "apply"
  /\ \/ /\ ~Valid(next)
        /\ Finish(r, "400")
        /\ CollectFor(r)
        /\ UNCHANGED <<cfg, desired>>
     \/ /\ Valid(next)
        /\ desired' = next
        /\ cfg' = [next EXCEPT !.port = cfg.port, !.path = cfg.path]
        /\ req' = [req EXCEPT ![r].at = "reread",
                              ![r].restart = RestartOnly(cfg, next)]
        /\ UNCHANGED <<arrays, answer>>
  /\ UNCHANGED <<process, stored, posts, owed, overlapped>>

\* Mutant: the live document is persisted.
RereadLive(r) ==
  /\ req[r].at = "reread"
  /\ req' = [req EXCEPT ![r].at = "save", ![r].next = cfg]
  /\ UNCHANGED <<store, process, stored, posts, history>>

\* applied := Desired(): what will be persisted and answered.
Reread(r) ==
  /\ req[r].at = "reread"
  /\ req' = [req EXCEPT ![r].at = "save", ![r].next = desired]
  /\ UNCHANGED <<store, process, stored, posts, history>>

(***************************************************************************)
(* SaveSetting writes to the database that is open.  If it fails the       *)
(* answer says so, and the log level is left as it was.                    *)
(***************************************************************************)
Save(r) ==
  LET doc == Value(req[r].next) IN
  /\ req[r].at = "save"
  /\ \/ /\ stored' = [stored EXCEPT ![open] = {doc}]
        /\ owed' = owed \cup {Value(desired)}
        /\ Goto(r, "answer")
        /\ UNCHANGED <<arrays, answer>>
     \/ /\ Finish(r, "500")
        /\ CollectFor(r)
        /\ UNCHANGED <<stored, owed>>
  /\ UNCHANGED <<cfg, desired, process, posts, overlapped>>

\* SetLogLevel, and the 200 answer.
Answer(r) ==
  /\ req[r].at = "answer"
  /\ level' = req[r].next.level
  /\ owed' = {Value(desired)}
  /\ Finish(r, IF req[r].restart THEN "restart" ELSE "200")
  /\ CollectFor(r)
  /\ UNCHANGED <<cfg, desired, bound, open, up, stored, posts, overlapped>>

Next ==
  \/ Start
  \/ Stop
  \/ \E r \in Requests : Begin(r)
  \/ \E r \in Requests : Decode(r)
  \/ \E r \in Requests : Apply(r)
  \/ \E r \in Requests : Reread(r)
  \/ \E r \in Requests : Save(r)
  \/ \E r \in Requests : Answer(r)

Spec == Init /\ [][Next]_vars

----------------------------------------------------------------------------
(* Properties                                                              *)

Slices == [array : {0} \cup Arrays, len : Nat]

(***************************************************************************)
(* A document Validate rejects gets nowhere: neither live, nor desired,    *)
(* nor into a database, where it would be rejected again at every start    *)
(* and take the good settings with it.                                     *)
(***************************************************************************)
OnlyValidSettings ==
  /\ Valid(cfg) /\ Valid(desired)
  /\ \A p \in Paths : \A row \in stored[p] : Valid(row)

(***************************************************************************)
(* The live configuration tells what the process actually uses, the port   *)
(* it listens on and the database it has open, whatever was requested and  *)
(* is pending.                                                             *)
(***************************************************************************)
LiveIsInUse == up => cfg.port = bound /\ cfg.path = open

(***************************************************************************)
(* The snapshot "survives restarts" (settings_handler.go): a start brings  *)
(* back the document of the last request answered 200, or one saved after  *)
(* it whose answer a crash prevented; never one that was rejected, lost or *)
(* superseded.  Overlapping requests are excepted: the last save need not  *)
(* be the last change.                                                     *)
(***************************************************************************)
RestartDelivers ==
  [][~up /\ up' /\ ~overlapped => Value(desired)' \in owed]_vars

(***************************************************************************)
(* A 200 without restart_required means the change "applies on the next    *)
(* collection cycle" (docs/api.md): a restart after it changes no scalar   *)
(* setting of the live configuration.                                      *)
(***************************************************************************)
RestartOnlyWhenAsked ==
  [][~up /\ up' /\ ~overlapped /\ answer = "200" =>
       \A f \in {"level", "port", "path"} : cfg'[f] = cfg[f]]_vars

(***************************************************************************)
(* With no request in progress the logger uses the live configuration's    *)
(* level, at every start and after every answer but one that reported a    *)
(* failed save.                                                            *)
(***************************************************************************)
LevelIsLive ==
  /\ up /\ ~overlapped /\ answer \in {"none", "200", "restart"}
  /\ \A r \in Requests : req[r].at = "idle"
  => level = cfg.level

(***************************************************************************)
(* "Store is the mutex-guarded live config" (config.go): it changes by     *)
(* Apply alone.                                                            *)
(***************************************************************************)
LiveChangesByApply ==
  [][up /\ up' /\ (\A r \in Requests : req[r].at # "apply")
       => Value(cfg)' = Value(cfg)]_vars
=============================================================================
