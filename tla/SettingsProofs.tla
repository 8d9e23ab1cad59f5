-------------------------- MODULE SettingsProofs ---------------------------
(***************************************************************************)
(* Proofs about Settings for any lists, levels, ports, paths and requests, *)
(* and any number of them one after the other.                             *)
(***************************************************************************)
EXTENDS Settings, SequenceTheorems, FiniteSetTheorems, TLAPS

Places == {"idle", "decode", "apply", "reread", "save", "answer"}

\* A document: its fields, and the values its restart-only settings have.
IsDoc(d) ==
  /\ d = [list |-> d.list, level |-> d.level, port |-> d.port, path |-> d.path]
  /\ d.port \in Ports /\ d.path \in Paths

IsRequest(q) ==
  /\ q = [at |-> q.at, body |-> q.body, next |-> q.next, restart |-> q.restart]
  /\ q.at \in Places
  /\ q.restart \in BOOLEAN
  /\ q.at = "idle" => q = Idle
  /\ q.at = "decode" => q.body \in Bodies
  /\ q.at # "idle" => IsDoc(q.next) /\ q.next.level \in Levels \cup {Invalid}
  /\ q.at \in {"reread", "save", "answer"} => q.next.level \in Levels

(***************************************************************************)
(* Lists are left out: what they are is part of Heap below.                *)
(***************************************************************************)
TypeOK ==
  /\ IsDoc(cfg) /\ cfg.level \in Levels
  /\ IsDoc(desired) /\ desired.level \in Levels
  /\ stored = [p \in Paths |-> stored[p]]
  /\ \A p \in Paths : \A row \in stored[p] : IsDoc(row) /\ row.level \in Levels
  /\ req = [r \in Requests |-> req[r]]
  /\ \A r \in Requests : IsRequest(req[r])
  /\ level \in Levels /\ bound \in Ports /\ open \in Paths
  /\ up \in BOOLEAN /\ overlapped \in BOOLEAN
  /\ ~up => \A r \in Requests : req[r].at = "idle"

----------------------------------------------------------------------------
(* Lemmas                                                                  *)

\* Request r becomes q and the others stay as they are.
Becomes(r, q) ==
  /\ req' = [x \in Requests |-> req'[x]]
  /\ req'[r] = q
  /\ \A x \in Requests : x # r => req'[x] = req[x]

LEMMA SetRequest ==
  ASSUME TypeOK, NEW r \in Requests, NEW q, req' = [req EXCEPT ![r] = q]
  PROVE  Becomes(r, q)
<1>1. req = [x \in Requests |-> req[x]]
  BY DEF TypeOK
<1> QED
  BY <1>1 DEF Becomes

LEMMA FinishIdles ==
  ASSUME TypeOK, NEW r \in Requests, NEW code, Finish(r, code)
  PROVE  Becomes(r, Idle) /\ answer' = code
BY SetRequest DEF Finish

LEMMA GotoMoves ==
  ASSUME TypeOK, NEW r \in Requests, NEW place, Goto(r, place)
  PROVE  Becomes(r, [at |-> place, body |-> req[r].body, next |-> req[r].next,
                     restart |-> req[r].restart])
<1>1. req[r] = [at |-> req[r].at, body |-> req[r].body, next |-> req[r].next,
                restart |-> req[r].restart]
  BY DEF TypeOK, IsRequest
<1>2. [req[r] EXCEPT !.at = place]
        = [at |-> place, body |-> req[r].body, next |-> req[r].next,
           restart |-> req[r].restart]
  BY <1>1
<1>3. req' = [req EXCEPT ![r] = [req[r] EXCEPT !.at = place]]
  BY DEF Goto
<1> QED
  BY <1>2, <1>3, SetRequest

LEMMA BeginBecomes ==
  ASSUME TypeOK, NEW r \in Requests, Begin(r)
  PROVE  \E body \in Bodies :
           Becomes(r, [at |-> "decode", body |-> body, next |-> desired,
                       restart |-> FALSE])
<1>1. PICK body \in Bodies :
        req' = [req EXCEPT ![r] = [Idle EXCEPT !.at = "decode", !.body = body,
                                               !.next = desired]]
  BY DEF Begin
<1> DEFINE q == [Idle EXCEPT !.at = "decode", !.body = body, !.next = desired]
<1>2. Becomes(r, q)
  BY <1>1, SetRequest
<1>3. req'[r] = [at |-> "decode", body |-> body, next |-> desired, restart |-> FALSE]
  <2>1. req'[r] = [Idle EXCEPT !.at = "decode", !.body = body, !.next = desired]
    BY <1>2 DEF Becomes
  <2> QED
    BY <2>1 DEF Idle
<1> HIDE DEF q
<1> QED
  BY <1>2, <1>3 DEF Becomes

LEMMA DecodeBecomes ==
  ASSUME TypeOK, NEW r \in Requests, Decode(r), ~req[r].body.unknown
  PROVE  Becomes(r, [at |-> "apply", body |-> req[r].body,
                     next |-> Decoded(req[r].next, req[r].body),
                     restart |-> req[r].restart])
<1>1. req[r] = [at |-> req[r].at, body |-> req[r].body, next |-> req[r].next,
                restart |-> req[r].restart]
      /\ req = [x \in Requests |-> req[x]]
  BY DEF TypeOK, IsRequest
<1> DEFINE d == Decoded(req[r].next, req[r].body)
<1>2. req' = [req EXCEPT ![r].at = "apply", ![r].next = d]
  BY <1>1 DEF Decode
<1> HIDE DEF d
<1>3. req' = [req EXCEPT ![r] = [req[r] EXCEPT !.at = "apply", !.next = d]]
  BY <1>1, <1>2
<1> DEFINE q == [req[r] EXCEPT !.at = "apply", !.next = d]
<1>4. Becomes(r, q)
  BY <1>3, SetRequest
<1>5. req'[r] = [req[r] EXCEPT !.at = "apply", !.next = d]
  BY <1>4 DEF Becomes
<1>6. req'[r]
        = [at |-> "apply", body |-> req[r].body, next |-> d, restart |-> req[r].restart]
  BY <1>1, <1>5
<1> HIDE DEF q
<1> QED
  BY <1>4, <1>6 DEF Becomes, d

LEMMA ApplyBecomes ==
  ASSUME TypeOK, NEW r \in Requests, Apply(r), Valid(req[r].next)
  PROVE  /\ Becomes(r, [at |-> "reread", body |-> req[r].body, next |-> req[r].next,
                        restart |-> RestartOnly(cfg, req[r].next)])
         /\ desired' = req[r].next
         /\ cfg' = [list |-> desired'.list, level |-> desired'.level,
                    port |-> cfg.port, path |-> cfg.path]
         /\ UNCHANGED <<arrays, answer>>
<1>1. req[r] = [at |-> req[r].at, body |-> req[r].body, next |-> req[r].next,
                restart |-> req[r].restart]
      /\ req = [x \in Requests |-> req[x]] /\ req[r].at = "apply"
      /\ IsDoc(req[r].next)
  BY DEF TypeOK, IsRequest, Apply
<1> DEFINE b == RestartOnly(cfg, req[r].next)
<1>2. /\ req' = [req EXCEPT ![r].at = "reread", ![r].restart = b]
      /\ desired' = req[r].next
      /\ cfg' = [req[r].next EXCEPT !.port = cfg.port, !.path = cfg.path]
      /\ UNCHANGED <<arrays, answer>>
  BY DEF Apply
<1> HIDE DEF b
<1>3. req' = [req EXCEPT ![r] = [req[r] EXCEPT !.at = "reread", !.restart = b]]
  BY <1>1, <1>2
<1> DEFINE q == [req[r] EXCEPT !.at = "reread", !.restart = b]
<1>4. Becomes(r, q)
  BY <1>3, SetRequest
<1>6. req'[r] = [req[r] EXCEPT !.at = "reread", !.restart = b]
  BY <1>4 DEF Becomes
<1>7. req'[r]
        = [at |-> "reread", body |-> req[r].body, next |-> req[r].next, restart |-> b]
  BY <1>1, <1>6
<1>5. cfg' = [list |-> desired'.list, level |-> desired'.level,
              port |-> cfg.port, path |-> cfg.path]
  BY <1>1, <1>2 DEF IsDoc
<1> HIDE DEF q
<1> QED
  BY <1>2, <1>4, <1>5, <1>7 DEF b, Becomes

LEMMA RereadBecomes ==
  ASSUME TypeOK, NEW r \in Requests, Reread(r)
  PROVE  Becomes(r, [at |-> "save", body |-> req[r].body, next |-> desired,
                     restart |-> req[r].restart])
<1>1. req[r] = [at |-> req[r].at, body |-> req[r].body, next |-> req[r].next,
                restart |-> req[r].restart]
      /\ req = [x \in Requests |-> req[x]]
  BY DEF TypeOK, IsRequest
<1>2. req' = [req EXCEPT ![r].at = "save", ![r].next = desired]
  BY DEF Reread
<1>3. req' = [req EXCEPT ![r] = [req[r] EXCEPT !.at = "save", !.next = desired]]
  BY <1>1, <1>2
<1> DEFINE q == [req[r] EXCEPT !.at = "save", !.next = desired]
<1>4. Becomes(r, q)
  BY <1>3, SetRequest
<1>5. req'[r] = [req[r] EXCEPT !.at = "save", !.next = desired]
  BY <1>4 DEF Becomes
<1>6. req'[r]
        = [at |-> "save", body |-> req[r].body, next |-> desired, restart |-> req[r].restart]
  BY <1>1, <1>5
<1> HIDE DEF q
<1> QED
  BY <1>4, <1>6 DEF Becomes

LEMMA OneRequestMoves ==
  ASSUME TypeOK, NEW r \in Requests, NEW q, IsRequest(q), Becomes(r, q)
  PROVE  /\ req' = [x \in Requests |-> req'[x]]
         /\ \A x \in Requests : IsRequest(req'[x])
BY DEF TypeOK, Becomes

LEMMA IdleIsRequest == IsRequest(Idle)
BY DEF IsRequest, Idle, Places

\* The document a start ends up with.
Row       == Only(stored[Yaml.path])
BootDoc ==
  IF stored[Yaml.path] = {}
    THEN [list |-> YamlSlice, level |-> Yaml.level, port |-> Yaml.port, path |-> Yaml.path]
    ELSE [list  |-> ListAfter(YamlArrays, YamlSlice, Row.list),
          level |-> Row.level, port |-> Row.port, path |-> Row.path]

LEMMA YamlIsDoc == IsDoc(Yaml) /\ Yaml.level \in Levels
BY SettingsAssumption DEF Docs, IsDoc

LEMMA OnlyIsMember ==
  /\ \A s : s # {} => Only(s) \in s
  /\ \A x : Only({x}) = x
BY DEF Only

LEMMA StartFacts ==
  ASSUME TypeOK, Start
  PROVE  /\ cfg' = BootDoc /\ desired' = BootDoc
         /\ level' = BootDoc.level /\ bound' = BootDoc.port /\ open' = BootDoc.path
         /\ IsDoc(BootDoc) /\ BootDoc.level \in Levels
         /\ UNCHANGED <<stored, req, posts, overlapped>> /\ answer' = "none"
         /\ ~up /\ up'
<1> DEFINE doc == IF stored[Yaml.path] = {} THEN [Yaml EXCEPT !.list = YamlSlice]
                  ELSE [Row EXCEPT !.list = ListAfter(YamlArrays, YamlSlice, @)]
<1>1. /\ cfg' = doc /\ desired' = doc
      /\ level' = doc.level /\ bound' = doc.port /\ open' = doc.path
      /\ UNCHANGED <<stored, req, posts, overlapped>> /\ answer' = "none"
      /\ ~up /\ up'
  BY DEF Start, Boot, Row
<1>2. stored[Yaml.path] # {} => IsDoc(Row) /\ Row.level \in Levels
  BY OnlyIsMember, YamlIsDoc DEF TypeOK, Row, IsDoc
<1>3. doc = BootDoc /\ IsDoc(BootDoc) /\ BootDoc.level \in Levels
  <2>1. CASE stored[Yaml.path] = {}
    BY <2>1, YamlIsDoc DEF BootDoc, IsDoc
  <2>2. CASE stored[Yaml.path] # {}
    BY <1>2, <2>2 DEF BootDoc, IsDoc
  <2> QED
    BY <2>1, <2>2
<1> QED
  BY <1>1, <1>3

----------------------------------------------------------------------------
(* Types                                                                   *)

LEMMA InitType == Init => TypeOK
<1> SUFFICES ASSUME Init PROVE TypeOK
  OBVIOUS
<1>1. IsDoc(cfg) /\ cfg.level \in Levels /\ desired = cfg
  BY YamlIsDoc DEF Init, IsDoc
<1> QED
  BY <1>1, YamlIsDoc, IdleIsRequest DEF Init, TypeOK, IsDoc, Idle

LEMMA DecodedIsDoc ==
  ASSUME NEW d, IsDoc(d), d.level \in Levels \cup {Invalid}, NEW body \in Bodies
  PROVE  /\ IsDoc(Decoded(d, body))
         /\ Decoded(d, body).level \in Levels \cup {Invalid}
<1>1. /\ body.level \in Levels \cup {Absent, Invalid}
      /\ body.port \in Ports \cup {Absent}
      /\ body.path \in {Absent} \cup Paths
  BY DEF Bodies
<1>2. /\ Merge(d.level, body.level) \in Levels \cup {Invalid}
      /\ Merge(d.port, body.port) \in Ports
      /\ Merge(d.path, body.path) \in Paths
  BY <1>1 DEF Merge, IsDoc
<1> QED
  BY <1>2 DEF Decoded, IsDoc

LEMMA ValidIsLevel == \A d : d.level \in Levels \cup {Invalid} => (Valid(d) <=> d.level \in Levels)
BY SettingsAssumption DEF Valid

\* What the saved document is.
LEMMA ValueOfDoc ==
  \A d : IsDoc(d) => Value(d) = [list |-> Content(d.list), level |-> d.level,
                                 port |-> d.port, path |-> d.path]
BY DEF Value, IsDoc

LEMMA StepType == TypeOK /\ [Next]_vars => TypeOK'
<1> SUFFICES ASSUME TypeOK, [Next]_vars PROVE TypeOK'
  OBVIOUS
<1> USE DEF store, process, history
<1>0. /\ IsDoc(cfg) /\ cfg.level \in Levels /\ IsDoc(desired) /\ desired.level \in Levels
      /\ stored = [p \in Paths |-> stored[p]]
      /\ \A p \in Paths : \A row \in stored[p] : IsDoc(row) /\ row.level \in Levels
      /\ req = [r \in Requests |-> req[r]] /\ \A r \in Requests : IsRequest(req[r])
      /\ level \in Levels /\ bound \in Ports /\ open \in Paths
      /\ up \in BOOLEAN /\ overlapped \in BOOLEAN
      /\ ~up => \A r \in Requests : req[r].at = "idle"
  BY DEF TypeOK
<1>1. ASSUME Start PROVE TypeOK'
  <2>1. IsDoc(BootDoc) /\ BootDoc.level \in Levels /\ BootDoc.port \in Ports /\ BootDoc.path \in Paths
    BY <1>1, StartFacts DEF IsDoc
  <2> HIDE DEF BootDoc
  <2> QED
    BY <1>0, <1>1, <2>1, StartFacts DEF TypeOK
<1>2. ASSUME Stop PROVE TypeOK'
  <2>1. req' = [r \in Requests |-> Idle] /\ up' = FALSE
        /\ UNCHANGED <<store, level, bound, open, stored, posts, history>>
    BY <1>2 DEF Stop
  <2>2. \A r \in Requests : req'[r] = Idle /\ IsRequest(req'[r]) /\ req'[r].at = "idle"
    BY <2>1, IdleIsRequest DEF Idle
  <2>3. req' = [r \in Requests |-> req'[r]]
    BY <2>1
  <2> QED
    BY <1>0, <2>1, <2>2, <2>3 DEF TypeOK
\* A step of one request that is up and leaves the documents alone.
<1>a. ASSUME NEW r \in Requests, NEW q, IsRequest(q), Becomes(r, q), up, up' = up,
             IsDoc(cfg'), cfg'.level \in Levels, IsDoc(desired'), desired'.level \in Levels,
             stored' = [p \in Paths |-> stored'[p]],
             \A p \in Paths : \A row \in stored'[p] : IsDoc(row) /\ row.level \in Levels,
             level' \in Levels, UNCHANGED <<bound, open>>, overlapped' \in BOOLEAN
      PROVE  TypeOK'
  BY <1>0, <1>a, OneRequestMoves DEF TypeOK
<1>b. \A r \in Requests : req[r].at # "idle" => up
  BY <1>0
<1>3. ASSUME NEW r \in Requests, Begin(r) PROVE TypeOK'
  <2>1. PICK body \in Bodies :
          Becomes(r, [at |-> "decode", body |-> body, next |-> desired, restart |-> FALSE])
    BY <1>3, BeginBecomes
  <2>2. IsRequest([at |-> "decode", body |-> body, next |-> desired, restart |-> FALSE])
    BY <1>0 DEF IsRequest, Places
  <2>3. up /\ UNCHANGED <<store, process, stored>> /\ overlapped' \in BOOLEAN
    BY <1>0, <1>3 DEF Begin
  <2> QED
    BY <1>0, <1>a, <2>1, <2>2, <2>3
<1>4. ASSUME NEW r \in Requests, Decode(r) PROVE TypeOK'
  <2>1. /\ req[r].at = "decode" /\ up /\ UNCHANGED <<cfg, desired, process, stored, overlapped>>
        /\ req[r].body \in Bodies /\ IsDoc(req[r].next)
        /\ req[r].next.level \in Levels \cup {Invalid} /\ req[r].restart \in BOOLEAN
    BY <1>0, <1>b, <1>4 DEF Decode, IsRequest
  <2>2. CASE req[r].body.unknown
    <3>1. Becomes(r, Idle)
      BY <1>4, <2>2, FinishIdles DEF Decode
    <3> QED
      BY <1>0, <1>a, <2>1, <3>1, IdleIsRequest
  <2>3. CASE ~req[r].body.unknown
    <3> DEFINE d == Decoded(req[r].next, req[r].body)
               q == [at |-> "apply", body |-> req[r].body, next |-> d,
                     restart |-> req[r].restart]
    <3>1. Becomes(r, q)
      BY <1>4, <2>3, DecodeBecomes
    <3>2. IsDoc(d) /\ d.level \in Levels \cup {Invalid}
      BY <2>1, DecodedIsDoc
    <3> HIDE DEF d
    <3>3. IsRequest(q)
      BY <2>1, <3>2 DEF IsRequest, Places
    <3> QED
      BY <1>0, <1>a, <2>1, <3>1, <3>3
  <2> QED
    BY <2>2, <2>3
<1>5. ASSUME NEW r \in Requests, Apply(r) PROVE TypeOK'
  <2>1. /\ req[r].at = "apply" /\ up /\ UNCHANGED <<process, stored, overlapped>>
        /\ IsDoc(req[r].next)
        /\ req[r].next.level \in Levels \cup {Invalid} /\ req[r].restart \in BOOLEAN
    BY <1>0, <1>b, <1>5 DEF Apply, IsRequest
  <2>2. CASE ~Valid(req[r].next)
    <3>1. Becomes(r, Idle) /\ UNCHANGED <<cfg, desired>>
      BY <1>5, <2>2, FinishIdles DEF Apply
    <3> QED
      BY <1>0, <1>a, <2>1, <3>1, IdleIsRequest
  <2>3. CASE Valid(req[r].next)
    <3> DEFINE b == RestartOnly(cfg, req[r].next)
               q == [at |-> "reread", body |-> req[r].body, next |-> req[r].next,
                     restart |-> b]
    <3>1. /\ Becomes(r, q) /\ desired' = req[r].next
          /\ cfg' = [list |-> desired'.list, level |-> desired'.level,
                     port |-> cfg.port, path |-> cfg.path]
      BY <1>5, <2>3, ApplyBecomes
    <3>2. b \in BOOLEAN
      BY DEF RestartOnly
    <3> HIDE DEF b
    <3>3. req[r].next.level \in Levels
      BY <2>1, <2>3, ValidIsLevel
    <3>4. IsRequest(q)
      BY <2>1, <3>2, <3>3 DEF IsRequest, Places
    <3>5. IsDoc(cfg') /\ cfg'.level \in Levels
      BY <1>0, <2>1, <3>1, <3>3 DEF IsDoc
    <3> QED
      BY <1>0, <1>a, <2>1, <3>1, <3>3, <3>4, <3>5
  <2> QED
    BY <2>2, <2>3
<1>6. ASSUME NEW r \in Requests, Reread(r) PROVE TypeOK'
  <2> DEFINE q == [at |-> "save", body |-> req[r].body, next |-> desired,
                   restart |-> req[r].restart]
  <2>1. Becomes(r, q)
    BY <1>6, RereadBecomes
  <2>2. IsRequest(q)
    BY <1>0 DEF IsRequest, Places
  <2>3. up /\ UNCHANGED <<store, process, stored, overlapped>>
    BY <1>b, <1>6 DEF Reread
  <2> QED
    BY <1>0, <1>a, <2>1, <2>2, <2>3
<1>7. ASSUME NEW r \in Requests, Save(r) PROVE TypeOK'
  <2>1. /\ req[r].at = "save" /\ up /\ UNCHANGED <<cfg, desired, process, overlapped>>
        /\ IsDoc(req[r].next) /\ req[r].next.level \in Levels /\ req[r].restart \in BOOLEAN
    BY <1>0, <1>b, <1>7 DEF Save, IsRequest
  <2>2. CASE stored' = [stored EXCEPT ![open] = {Value(req[r].next)}] /\ Goto(r, "answer")
    <3> DEFINE q == [at |-> "answer", body |-> req[r].body, next |-> req[r].next,
                     restart |-> req[r].restart]
               v == Value(req[r].next)
    <3>1. Becomes(r, q)
      BY <2>2, GotoMoves
    <3>2. IsRequest(q)
      BY <2>1 DEF IsRequest, Places
    <3>3. IsDoc(v) /\ v.level \in Levels
      BY <2>1, ValueOfDoc DEF IsDoc
    <3> HIDE DEF v
    <3>4. stored' = [stored EXCEPT ![open] = {v}]
      BY <2>2 DEF v
    <3>5. stored' = [p \in Paths |-> stored'[p]]
          /\ \A p \in Paths : stored'[p] = IF p = open THEN {v} ELSE stored[p]
      BY <1>0, <3>4
    <3>6. \A p \in Paths : \A row \in stored'[p] : IsDoc(row) /\ row.level \in Levels
      BY <1>0, <3>3, <3>5
    <3> QED
      BY <1>0, <1>a, <2>1, <3>1, <3>2, <3>5, <3>6
  <2>3. CASE Finish(r, "500") /\ UNCHANGED stored
    <3>1. Becomes(r, Idle)
      BY <2>3, FinishIdles
    <3> QED
      BY <1>0, <1>a, <2>1, <2>3, <3>1, IdleIsRequest
  <2> QED
    BY <1>7, <2>2, <2>3 DEF Save
<1>8. ASSUME NEW r \in Requests, Answer(r) PROVE TypeOK'
  <2>1. /\ req[r].at = "answer" /\ up
        /\ UNCHANGED <<cfg, desired, bound, open, up, stored, overlapped>>
        /\ level' = req[r].next.level /\ level' \in Levels
    BY <1>0, <1>b, <1>8 DEF Answer, IsRequest
  <2>2. Becomes(r, Idle)
    BY <1>8, FinishIdles DEF Answer
  <2> QED
    BY <1>0, <1>a, <2>1, <2>2, IdleIsRequest
<1>9. ASSUME UNCHANGED vars PROVE TypeOK'
  BY <1>0, <1>9 DEF vars, TypeOK
<1> QED
  BY <1>1, <1>2, <1>3, <1>4, <1>5, <1>6, <1>7, <1>8, <1>9 DEF Next

(***************************************************************************)
(* The documents, the requests and the rows keep their shape, and a level  *)
(* Validate accepts, whatever bodies are posted, requests overlap, saves   *)
(* fail and crashes interrupt.                                             *)
(***************************************************************************)
THEOREM TypeCorrect == Spec => []TypeOK
BY InitType, StepType, PTL DEF Spec

(***************************************************************************)
(* A document Validate rejects gets nowhere: neither live, nor desired,    *)
(* nor into a database.                                                    *)
(***************************************************************************)
THEOREM SettingsStayValid == Spec => []OnlyValidSettings
<1>1. TypeOK => OnlyValidSettings
  BY ValidIsLevel DEF TypeOK, OnlyValidSettings
<1> QED
  BY <1>1, TypeCorrect, PTL

----------------------------------------------------------------------------
(* What is in use                                                          *)

InUse == cfg.port = bound /\ cfg.path = open

LEMMA StepInUse == TypeOK /\ InUse /\ [Next]_vars => InUse'
<1> SUFFICES ASSUME TypeOK, InUse, [Next]_vars PROVE InUse'
  OBVIOUS
<1> USE DEF store, process, history, InUse
<1>1. CASE Start
  BY <1>1, StartFacts
<1>2. CASE Stop \/ UNCHANGED vars
  BY <1>2 DEF Stop, vars
<1>3. ASSUME NEW r \in Requests, Begin(r) \/ Decode(r) \/ Reread(r) \/ Save(r) \/ Answer(r)
      PROVE  InUse'
  BY <1>3 DEF Begin, Decode, Reread, Save, Answer
<1>4. ASSUME NEW r \in Requests, Apply(r) PROVE InUse'
  <2>1. UNCHANGED <<bound, open>>
    BY <1>4 DEF Apply
  <2>2. CASE Valid(req[r].next)
    <3>1. cfg' = [list |-> desired'.list, level |-> desired'.level,
                  port |-> cfg.port, path |-> cfg.path]
      BY <1>4, <2>2, ApplyBecomes
    <3>2. cfg'.port = cfg.port /\ cfg'.path = cfg.path
      BY <3>1
    <3> QED
      BY <2>1, <3>2
  <2>3. CASE ~Valid(req[r].next)
    BY <1>4, <2>1, <2>3 DEF Apply
  <2> QED
    BY <2>2, <2>3
<1> QED
  BY <1>1, <1>2, <1>3, <1>4 DEF Next

(***************************************************************************)
(* The live configuration tells what the process actually uses, the port   *)
(* it listens on and the database it has open, whatever was requested and  *)
(* is pending.                                                             *)
(***************************************************************************)
THEOREM LiveSettingsAreInUse == Spec => []LiveIsInUse
<1>1. Init => InUse
  BY YamlIsDoc DEF Init, InUse, IsDoc
<1>2. InUse => LiveIsInUse
  BY DEF InUse, LiveIsInUse
<1> QED
  BY <1>1, <1>2, StepInUse, TypeCorrect, PTL DEF Spec

----------------------------------------------------------------------------
(* The log level                                                           *)

Active(r) == req[r].at # "idle"

(***************************************************************************)
(* Until requests overlap there is one at a time, and what it saves and    *)
(* answers with is the desired document.                                   *)
(***************************************************************************)
OneAtATime ==
  /\ \A q, r \in Requests : Active(q) /\ Active(r) => q = r
  /\ \A r \in Requests : req[r].at \in {"save", "answer"} => req[r].next = desired

Alone == ~overlapped => OneAtATime

\* What is left of a step when its request is the only one.
LEMMA AloneStep ==
  ASSUME TypeOK, OneAtATime, NEW r \in Requests, NEW q, Becomes(r, q),
         Active(r) \/ \A x \in Requests : ~Active(x),
         q.at \in {"save", "answer"} => q.next = desired'
  PROVE  /\ OneAtATime'
         /\ \A x \in Requests : x # r => req[x] = Idle /\ req'[x] = Idle
<1>1. \A x \in Requests : x # r => req[x].at = "idle" /\ req[x] = Idle /\ req'[x] = Idle
  BY DEF OneAtATime, Active, TypeOK, IsRequest, Becomes
<1>2. req'[r] = q /\ \A x \in Requests : x # r => req'[x].at = "idle"
  BY <1>1 DEF Becomes
<1> QED
  BY <1>1, <1>2 DEF OneAtATime, Active

LEMMA StepAlone == TypeOK /\ Alone /\ [Next]_vars => Alone'
<1> SUFFICES ASSUME TypeOK, Alone, [Next]_vars, ~overlapped' PROVE OneAtATime'
  BY DEF Alone
<1> USE DEF store, process, history
<1>1. CASE Start
  <2>1. UNCHANGED <<req, overlapped>> /\ ~up
    BY <1>1, StartFacts
  <2> QED
    BY <2>1 DEF TypeOK, Alone, OneAtATime, Active
<1>2. CASE Stop
  <2>1. \A r \in Requests : req'[r].at = "idle"
    BY <1>2 DEF Stop, Idle
  <2> QED
    BY <2>1 DEF OneAtATime, Active
<1>3. ASSUME NEW r \in Requests, Begin(r) PROVE OneAtATime'
  <2>1. PICK body \in Bodies :
          Becomes(r, [at |-> "decode", body |-> body, next |-> desired, restart |-> FALSE])
    BY <1>3, BeginBecomes
  <2>2. ~overlapped /\ \A x \in Requests : ~Active(x)
    BY <1>3 DEF Begin, Active
  <2> QED
    BY <2>1, <2>2, AloneStep DEF Alone
<1>4. ASSUME NEW r \in Requests, Decode(r) \/ Apply(r) \/ Reread(r) \/ Save(r) \/ Answer(r)
      PROVE  OneAtATime'
  <2>1. ~overlapped /\ Active(r) /\ OneAtATime
    BY <1>4 DEF Alone, Active, Decode, Apply, Reread, Save, Answer
  <2>2. ASSUME NEW code, Finish(r, code) PROVE OneAtATime'
    BY <2>1, <2>2, FinishIdles, AloneStep DEF Idle
  <2>3. CASE Decode(r)
    <3>1. CASE req[r].body.unknown
      BY <2>2, <2>3, <3>1 DEF Decode
    <3>2. CASE ~req[r].body.unknown
      BY <2>1, <2>3, <3>2, DecodeBecomes, AloneStep
    <3> QED
      BY <3>1, <3>2
  <2>4. CASE Apply(r)
    <3>1. CASE ~Valid(req[r].next)
      BY <2>2, <2>4, <3>1 DEF Apply
    <3>2. CASE Valid(req[r].next)
      BY <2>1, <2>4, <3>2, ApplyBecomes, AloneStep
    <3> QED
      BY <3>1, <3>2
  <2>5. CASE Reread(r)
    <3>1. desired' = desired
      BY <2>5 DEF Reread
    <3> QED
      BY <2>1, <2>5, <3>1, RereadBecomes, AloneStep
  <2>6. CASE Save(r)
    <3>1. desired' = desired /\ req[r].next = desired
      BY <2>1, <2>6 DEF Save, OneAtATime
    <3>2. CASE Goto(r, "answer")
      BY <2>1, <3>1, <3>2, GotoMoves, AloneStep
    <3>3. CASE Finish(r, "500")
      BY <2>2, <3>3
    <3> QED
      BY <2>6, <3>2, <3>3 DEF Save
  <2>7. CASE Answer(r)
    BY <2>2, <2>7 DEF Answer
  <2> QED
    BY <1>4, <2>3, <2>4, <2>5, <2>6, <2>7
<1>5. CASE UNCHANGED vars
  BY <1>5 DEF vars, Alone, OneAtATime, Active
<1> QED
  BY <1>1, <1>2, <1>3, <1>4, <1>5 DEF Next

LEMMA AloneHolds == Spec => []Alone
<1>1. Init => Alone
  BY DEF Init, Alone, OneAtATime, Active, Idle
<1> QED
  BY <1>1, StepAlone, TypeCorrect, PTL DEF Spec

LevelInv == cfg.level = desired.level /\ LevelIsLive

LEMMA StepLevel == TypeOK /\ Alone /\ LevelInv /\ [Next]_vars => LevelInv'
<1> SUFFICES ASSUME TypeOK, Alone, LevelInv, [Next]_vars PROVE LevelInv'
  OBVIOUS
<1> USE DEF store, process, history
<1>1. CASE Start
  BY <1>1, StartFacts DEF LevelInv, LevelIsLive
<1>2. CASE Stop
  BY <1>2 DEF Stop, LevelInv, LevelIsLive
\* A step with a request in progress after it.
<1>a. ASSUME NEW r \in Requests, req'[r].at # "idle", cfg'.level = desired'.level
      PROVE  LevelInv'
  BY <1>a DEF LevelInv, LevelIsLive
\* A step after which the answer is an error.
<1>b. ASSUME answer' \in {"400", "500"}, UNCHANGED <<cfg, desired>>
      PROVE  LevelInv'
  BY <1>b DEF LevelInv, LevelIsLive
<1>3. ASSUME NEW r \in Requests, Begin(r) PROVE LevelInv'
  <2>1. UNCHANGED <<cfg, desired>>
    BY <1>3 DEF Begin
  <2>2. req'[r].at = "decode"
    <3>1. PICK body \in Bodies :
            Becomes(r, [at |-> "decode", body |-> body, next |-> desired, restart |-> FALSE])
      BY <1>3, BeginBecomes
    <3>2. req'[r] = [at |-> "decode", body |-> body, next |-> desired, restart |-> FALSE]
      BY <3>1 DEF Becomes
    <3> QED
      BY <3>2
  <2> QED
    BY <1>a, <2>1, <2>2 DEF LevelInv
<1>4. ASSUME NEW r \in Requests, Decode(r) PROVE LevelInv'
  <2>1. UNCHANGED <<cfg, desired>>
    BY <1>4 DEF Decode
  <2>2. CASE req[r].body.unknown
    BY <1>4, <1>b, <2>1, <2>2 DEF Decode, Finish
  <2>3. CASE ~req[r].body.unknown
    <3>1. req'[r].at = "apply"
      <4>1. Becomes(r, [at |-> "apply", body |-> req[r].body,
                        next |-> Decoded(req[r].next, req[r].body),
                        restart |-> req[r].restart])
        BY <1>4, <2>3, DecodeBecomes
      <4> QED
        BY <4>1 DEF Becomes
    <3> QED
      BY <1>a, <2>1, <3>1 DEF LevelInv
  <2> QED
    BY <2>2, <2>3
<1>5. ASSUME NEW r \in Requests, Apply(r) PROVE LevelInv'
  <2>1. CASE ~Valid(req[r].next)
    BY <1>5, <1>b, <2>1 DEF Apply, Finish
  <2>2. CASE Valid(req[r].next)
    <3>1. req'[r].at = "reread" /\ cfg'.level = desired'.level
      <4>1. /\ Becomes(r, [at |-> "reread", body |-> req[r].body, next |-> req[r].next,
                            restart |-> RestartOnly(cfg, req[r].next)])
            /\ cfg' = [list |-> desired'.list, level |-> desired'.level,
                       port |-> cfg.port, path |-> cfg.path]
        BY <1>5, <2>2, ApplyBecomes
      <4>2. cfg'.level = desired'.level
        BY <4>1
      <4> QED
        BY <4>1, <4>2 DEF Becomes
    <3> QED
      BY <1>a, <3>1
  <2> QED
    BY <2>1, <2>2
<1>6. ASSUME NEW r \in Requests, Reread(r) PROVE LevelInv'
  <2>1. UNCHANGED <<cfg, desired>> /\ req'[r].at = "save"
    BY <1>6, RereadBecomes DEF Becomes, Reread
  <2> QED
    BY <1>a, <2>1 DEF LevelInv
<1>7. ASSUME NEW r \in Requests, Save(r) PROVE LevelInv'
  <2>1. UNCHANGED <<cfg, desired>>
    BY <1>7 DEF Save
  <2>2. CASE Goto(r, "answer")
    <3>1. req'[r].at = "answer"
      <4>1. Becomes(r, [at |-> "answer", body |-> req[r].body, next |-> req[r].next,
                        restart |-> req[r].restart])
        BY <2>2, GotoMoves
      <4> QED
        BY <4>1 DEF Becomes
    <3> QED
      BY <1>a, <2>1, <3>1 DEF LevelInv
  <2>3. CASE Finish(r, "500")
    BY <1>b, <2>1, <2>3 DEF Finish
  <2> QED
    BY <1>7, <2>2, <2>3 DEF Save
<1>8. ASSUME NEW r \in Requests, Answer(r) PROVE LevelInv'
  <2>1. UNCHANGED <<cfg, desired, overlapped>> /\ level' = req[r].next.level
    BY <1>8 DEF Answer
  <2>2. ~overlapped => req[r].next = desired
    BY <1>8 DEF Alone, OneAtATime, Answer
  <2> QED
    BY <2>1, <2>2 DEF LevelInv, LevelIsLive
<1>9. CASE UNCHANGED vars
  BY <1>9 DEF vars, LevelInv, LevelIsLive
<1> QED
  BY <1>1, <1>2, <1>3, <1>4, <1>5, <1>6, <1>7, <1>8, <1>9 DEF Next

(***************************************************************************)
(* With no request in progress the logger uses the live configuration's    *)
(* level, at every start and after every answer but one that reported a    *)
(* failed save, as long as no two requests overlapped.                     *)
(***************************************************************************)
THEOREM LoggerUsesLiveLevel == Spec => []LevelIsLive
<1>1. Init => LevelInv
  BY YamlIsDoc DEF Init, LevelInv, LevelIsLive, IsDoc
<1>2. LevelInv => LevelIsLive
  BY DEF LevelInv
<1> QED
  BY <1>1, <1>2, StepLevel, TypeCorrect, AloneHolds, PTL DEF Spec

----------------------------------------------------------------------------
(* What was asked for                                                      *)

(***************************************************************************)
(* Requests save while the open database is the one config.yaml names,     *)
(* which is the one a start reads (see SettingsPath.cfg).                  *)
(***************************************************************************)
AtHome      == \A r \in Requests : Save(r) => open = Yaml.path
SavedAtHome == [][AtHome]_vars

Same(d, e) == d.level = e.level /\ d.port = e.port /\ d.path = e.path

(***************************************************************************)
(* A request that is answered has its document in the database, and one    *)
(* that asks for no restart has made nothing but live settings different.  *)
(***************************************************************************)
AsAsked ==
  /\ \A r \in Requests :
       /\ req[r].at = "answer" => stored[Yaml.path] = {Value(desired)}
       /\ req[r].at \in {"reread", "save", "answer"} /\ ~req[r].restart
            => Same(cfg, desired)
  /\ answer = "200" =>
       /\ \A r \in Requests : ~Active(r)
       /\ \E row : stored[Yaml.path] = {row} /\ Same(row, cfg)

Asked == ~overlapped => AsAsked

LEMMA StepAsked == TypeOK /\ Alone /\ Asked /\ [Next]_vars /\ [AtHome]_vars => Asked'
<1> SUFFICES ASSUME TypeOK, Alone, Asked, [Next]_vars, [AtHome]_vars, ~overlapped'
             PROVE  AsAsked'
  BY DEF Asked
<1> USE DEF store, process, history
\* A step of the only request that answers nothing.
<1>a. ASSUME OneAtATime, NEW r \in Requests, NEW q, Becomes(r, q),
             Active(r) \/ \A x \in Requests : ~Active(x),
             answer' # "200",
             q.at = "answer" => stored'[Yaml.path] = {Value(desired)'},
             q.at \in {"reread", "save", "answer"} /\ ~q.restart => Same(cfg, desired)'
      PROVE  AsAsked'
  <2>1. \A x \in Requests : x # r => req'[x].at = "idle"
    BY <1>a DEF OneAtATime, Active, Becomes
  <2>2. req'[r] = q
    BY <1>a DEF Becomes
  <2> QED
    BY <1>a, <2>1, <2>2 DEF AsAsked, Same
<1>b. ASSUME OneAtATime, NEW r \in Requests, NEW code, Finish(r, code), code # "200", Active(r)
      PROVE  AsAsked'
  BY <1>a, <1>b, FinishIdles DEF Idle
<1>1. CASE Start
  <2>1. /\ \A r \in Requests : req'[r].at = "idle"
        /\ answer' = "none"
    BY <1>1, StartFacts DEF TypeOK
  <2> QED
    BY <2>1 DEF AsAsked
<1>2. CASE Stop
  <2>1. \A r \in Requests : req'[r].at = "idle"
    BY <1>2 DEF Stop, Idle
  <2> QED
    BY <1>2, <2>1 DEF Stop, Asked, AsAsked, Active, Same
<1>3. ASSUME NEW r \in Requests, Begin(r) PROVE AsAsked'
  <2>1. PICK body \in Bodies :
          Becomes(r, [at |-> "decode", body |-> body, next |-> desired, restart |-> FALSE])
    BY <1>3, BeginBecomes
  <2>2. OneAtATime /\ answer' = "none" /\ \A x \in Requests : ~Active(x)
    BY <1>3 DEF Begin, Alone, Active
  <2> QED
    BY <1>a, <2>1, <2>2
<1>c. ASSUME NEW r \in Requests, Active(r), UNCHANGED overlapped
      PROVE  OneAtATime /\ AsAsked /\ answer # "200"
  BY <1>c DEF Alone, Asked, AsAsked
<1>4. ASSUME NEW r \in Requests, Decode(r) PROVE AsAsked'
  <2>1. Active(r) /\ UNCHANGED overlapped
    BY <1>4 DEF Decode, Active
  <2>2. CASE req[r].body.unknown
    BY <1>4, <1>b, <1>c, <2>1, <2>2 DEF Decode
  <2>3. CASE ~req[r].body.unknown
    <3>1. answer' = answer
      BY <1>4, <2>3 DEF Decode
    <3> QED
      BY <1>4, <1>a, <1>c, <2>1, <2>3, <3>1, DecodeBecomes
  <2> QED
    BY <2>2, <2>3
<1>5. ASSUME NEW r \in Requests, Apply(r) PROVE AsAsked'
  <2>1. Active(r) /\ UNCHANGED overlapped
    BY <1>5 DEF Apply, Active
  <2>2. CASE ~Valid(req[r].next)
    BY <1>5, <1>b, <1>c, <2>1, <2>2 DEF Apply
  <2>3. CASE Valid(req[r].next)
    <3> DEFINE b == RestartOnly(cfg, req[r].next)
    <3>1. /\ Becomes(r, [at |-> "reread", body |-> req[r].body, next |-> req[r].next,
                         restart |-> b])
          /\ desired' = req[r].next /\ answer' = answer
          /\ cfg' = [list |-> desired'.list, level |-> desired'.level,
                     port |-> cfg.port, path |-> cfg.path]
      BY <1>5, <2>3, ApplyBecomes
    <3>2. /\ cfg'.level = desired'.level /\ cfg'.port = cfg.port
          /\ cfg'.path = cfg.path
      BY <3>1
    <3>3. ~b => Same(cfg, desired)'
      BY <3>1, <3>2 DEF RestartOnly, Same
    <3> HIDE DEF b
    <3> QED
      BY <1>a, <1>c, <2>1, <3>1, <3>3
  <2> QED
    BY <2>2, <2>3
<1>6. ASSUME NEW r \in Requests, Reread(r) PROVE AsAsked'
  <2>1. Active(r) /\ UNCHANGED <<overlapped, answer, cfg, desired>> /\ req[r].at = "reread"
    BY <1>6 DEF Reread, Active
  <2>2. ~req[r].restart => Same(cfg, desired)'
    BY <1>c, <2>1 DEF AsAsked, Same
  <2> QED
    BY <1>6, <1>a, <1>c, <2>1, <2>2, RereadBecomes
<1>7. ASSUME NEW r \in Requests, Save(r), AtHome PROVE AsAsked'
  <2>1. Active(r) /\ UNCHANGED <<overlapped, cfg, desired>> /\ req[r].at = "save"
    BY <1>7 DEF Save, Active
  <2>2. CASE /\ stored' = [stored EXCEPT ![open] = {Value(req[r].next)}]
             /\ Goto(r, "answer") /\ UNCHANGED <<arrays, answer>>
    <3>1. Becomes(r, [at |-> "answer", body |-> req[r].body, next |-> req[r].next,
                      restart |-> req[r].restart])
      BY <2>2, GotoMoves
    <3>2. req[r].next = desired /\ open = Yaml.path /\ Yaml.path \in Paths
      BY <1>7, <1>c, <2>1, YamlIsDoc DEF OneAtATime, AtHome, IsDoc
    <3>3. stored'[Yaml.path] = {Value(desired)}
      BY <2>2, <3>2 DEF TypeOK
    <3>4. Value(desired)' = Value(desired)
      BY <2>1, <2>2 DEF Value, Content
    <3>5. ~req[r].restart => Same(cfg, desired)'
      BY <1>c, <2>1 DEF AsAsked, Same
    <3> QED
      BY <1>a, <1>c, <2>1, <2>2, <3>1, <3>3, <3>4, <3>5
  <2>3. CASE Finish(r, "500")
    BY <1>b, <1>c, <2>1, <2>3
  <2> QED
    BY <1>7, <2>2, <2>3 DEF Save
<1>8. ASSUME NEW r \in Requests, Answer(r) PROVE AsAsked'
  <2>1. /\ Active(r) /\ UNCHANGED <<overlapped, cfg, desired, stored>>
        /\ req[r].at = "answer"
        /\ Finish(r, IF req[r].restart THEN "restart" ELSE "200")
    BY <1>8 DEF Answer, Active
  <2>2. CASE req[r].restart
    BY <1>b, <1>c, <2>1, <2>2
  <2>3. CASE ~req[r].restart
    <3>1. Becomes(r, Idle) /\ answer' = "200"
      BY <2>1, <2>3, FinishIdles
    <3>2. \A x \in Requests : req'[x].at = "idle"
      BY <1>c, <2>1, <3>1 DEF OneAtATime, Active, Becomes, Idle
    <3>3. stored[Yaml.path] = {Value(desired)} /\ Same(cfg, desired)
      BY <1>c, <2>1, <2>3 DEF AsAsked
    <3>4. Same(Value(desired), cfg)
      BY <3>3, ValueOfDoc DEF TypeOK, Same
    <3>5. \E row : stored'[Yaml.path] = {row} /\ Same(row, cfg)'
      <4> DEFINE v == Value(desired)
      <4> HIDE DEF v
      <4>1. \A row : row = v => stored'[Yaml.path] = {row} /\ Same(row, cfg)'
        BY <2>1, <3>3, <3>4 DEF Same, v
      <4> QED
        BY <4>1
    <3> QED
      BY <3>2, <3>5 DEF AsAsked, Active
  <2> QED
    BY <2>2, <2>3
<1>9. CASE UNCHANGED vars
  BY <1>9 DEF vars, Asked, AsAsked, Active, Same, Value, Content
<1> QED
  BY <1>1, <1>2, <1>3, <1>4, <1>5, <1>6, <1>7, <1>8, <1>9 DEF Next

LEMMA AskedHolds == Spec /\ SavedAtHome => []Asked
<1>1. Init => Asked
  BY DEF Init, Asked, AsAsked, Active, Idle
<1> QED
  BY <1>1, StepAsked, TypeCorrect, AloneHolds, PTL DEF Spec, SavedAtHome

LEMMA OnlyStartStarts == [Next]_vars /\ TypeOK /\ ~up /\ up' => Start
BY DEF Next, vars, store, process, history, TypeOK, Stop, Begin, Decode, Apply,
       Reread, Save, Answer

(***************************************************************************)
(* A 200 without restart_required means the change "applies on the next    *)
(* collection cycle" (docs/api.md): a restart after it changes no scalar   *)
(* setting of the live configuration, if requests save to the database     *)
(* config.yaml names.                                                      *)
(***************************************************************************)
THEOREM RestartAskedFor == Spec /\ SavedAtHome => RestartOnlyWhenAsked
<1>1. TypeOK /\ Asked /\ [Next]_vars =>
        [~up /\ up' /\ ~overlapped /\ answer = "200" =>
           \A f \in {"level", "port", "path"} : cfg'[f] = cfg[f]]_vars
  <2> SUFFICES ASSUME TypeOK, Asked, [Next]_vars, ~up, up', ~overlapped, answer = "200"
               PROVE  cfg'.level = cfg.level /\ cfg'.port = cfg.port /\ cfg'.path = cfg.path
    OBVIOUS
  <2>1. cfg' = BootDoc
    BY OnlyStartStarts, StartFacts
  <2>2. PICK row : stored[Yaml.path] = {row} /\ Same(row, cfg)
    BY DEF Asked, AsAsked
  <2>3. Row = row
    BY <2>2, OnlyIsMember DEF Row
  <2>4. BootDoc.level = row.level /\ BootDoc.port = row.port /\ BootDoc.path = row.path
    BY <2>2, <2>3 DEF BootDoc
  <2> QED
    BY <2>1, <2>2, <2>4 DEF Same
<1> QED
  BY <1>1, TypeCorrect, AskedHolds, PTL DEF Spec, RestartOnlyWhenAsked

----------------------------------------------------------------------------
(* Slices                                                                  *)

Heaps == [Arrays -> Seq(Elements)]

\* A slice of the arrays h: none, or a beginning of one of them.
SliceOf(h, s) ==
  \/ s = Nil
  \/ /\ s = [array |-> s.array, len |-> s.len]
     /\ s.array \in Arrays
     /\ s.len \in 1..Len(h[s.array])

LEMMA ArraysAreNumbers ==
  /\ Arrays \subseteq Nat \ {0} /\ 1 \in Arrays /\ 2 \in Arrays
  /\ Requests # {} => 3 \in Arrays /\ 4 \in Arrays
<1>1. Cardinality(Requests) \in Nat /\ (Requests # {} => Cardinality(Requests) # 0)
  BY SettingsAssumption, FS_CardinalityType, FS_EmptySet
<1> QED
  BY <1>1 DEF Arrays

LEMMA FreeIsEmpty ==
  ASSUME NEW h, \E a \in Arrays : h[a] = <<>>
  PROVE  Free(h) \in Arrays /\ h[Free(h)] = <<>>
BY DEF Free

LEMMA OverwriteFacts ==
  ASSUME NEW old \in Seq(Elements), NEW new \in Seq(Elements)
  PROVE  /\ Overwrite(old, new) \in Seq(Elements)
         /\ Len(Overwrite(old, new)) = Len(old)
         /\ \A i \in 1..Len(old) :
              Overwrite(old, new)[i] = IF i <= Len(new) THEN new[i] ELSE old[i]
<1> DEFINE n == Len(old)
           g == Overwrite(old, new)
<1>1. /\ n \in Nat /\ Len(new) \in Nat /\ DOMAIN old = 1..n
      /\ \A i \in 1..n : old[i] \in Elements
      /\ \A i \in 1..Len(new) : new[i] \in Elements
  BY LenProperties, ElementOfSeq
<1>2. g = [i \in 1..n |-> IF i <= Len(new) THEN new[i] ELSE old[i]]
  BY <1>1 DEF Overwrite
<1>3. \A i \in 1..n : (IF i <= Len(new) THEN new[i] ELSE old[i]) \in Elements
  BY <1>1
<1> HIDE DEF g, n
<1>4. g \in [1..n -> Elements]
  BY <1>2, <1>3
<1>5. g \in Seq(Elements) /\ DOMAIN g = 1..n
  BY <1>1, <1>4, SeqDef
<1>6. Len(g) = n
  BY <1>1, <1>5
<1> QED
  BY <1>2, <1>5, <1>6 DEF g, n

\* The beginning of an array is a list.
LEMMA Beginning ==
  ASSUME NEW x \in Seq(Elements), NEW n \in 0..Len(x)
  PROVE  /\ SubSeq(x, 1, n) \in Seq(Elements)
         /\ Len(SubSeq(x, 1, n)) = n
         /\ \A i \in 1..n : SubSeq(x, 1, n)[i] = x[i]
<1>1. Len(x) \in Nat /\ \A i \in 1..n : x[i] \in Elements
  BY LenProperties, ElementOfSeq
<1> QED
  BY <1>1, SubSeqProperties

(***************************************************************************)
(* Decoding yields a slice whose content is the decoded list, takes one    *)
(* array that was free at most, and leaves every slice a slice, although   *)
(* it may write into what they share.                                      *)
(***************************************************************************)
LEMMA DecodingFacts ==
  ASSUME NEW h \in Heaps, NEW s, SliceOf(h, s), NEW list \in Seq(Elements),
         \E a \in Arrays : h[a] = <<>>
  PROVE  /\ ArraysAfter(h, s, list) \in Heaps
         /\ SliceOf(ArraysAfter(h, s, list), ListAfter(h, s, list))
         /\ \A u : SliceOf(h, u) => SliceOf(ArraysAfter(h, s, list), u)
         /\ \A a \in Arrays :
              ArraysAfter(h, s, list)[a] # <<>>
                => h[a] # <<>> \/ a = ListAfter(h, s, list).array
         /\ list = <<>> => ListAfter(h, s, list) = Nil
         /\ list # <<>> =>
              /\ ListAfter(h, s, list) # Nil
              /\ SubSeq(ArraysAfter(h, s, list)[ListAfter(h, s, list).array],
                        1, ListAfter(h, s, list).len) = list
<1> DEFINE g == ArraysAfter(h, s, list)
           t == ListAfter(h, s, list)
           f == Free(h)
           written == IF s = Nil THEN h
                      ELSE [h EXCEPT ![s.array] = Overwrite(@, list)]
<1>1. f \in Arrays /\ h[f] = <<>>
  BY FreeIsEmpty
<1>2. s # Nil => /\ s.array \in Arrays /\ h[s.array] \in Seq(Elements)
                 /\ s.len \in 1..Len(h[s.array])
  BY DEF SliceOf, Heaps
<1>3. /\ written \in Heaps
      /\ \A a \in Arrays : Len(written[a]) = Len(h[a])
      /\ s # Nil => written[s.array] = Overwrite(h[s.array], list)
  <2>1. CASE s = Nil
    BY <2>1
  <2>2. CASE s # Nil
    <3> DEFINE o == Overwrite(h[s.array], list)
    <3>1. o \in Seq(Elements) /\ Len(o) = Len(h[s.array])
      BY <1>2, <2>2, OverwriteFacts
    <3>2. written = [h EXCEPT ![s.array] = o]
      BY <2>2
    <3> HIDE DEF o, written
    <3>3. written \in Heaps /\ \A a \in Arrays : written[a] = IF a = s.array THEN o ELSE h[a]
      BY <1>2, <2>2, <3>1, <3>2 DEF Heaps
    <3> QED
      BY <1>2, <2>2, <3>1, <3>3 DEF o
  <2> QED
    BY <2>1, <2>2
<1>4. g = IF list = <<>> \/ Fits(h, s, list) THEN written
          ELSE [written EXCEPT ![f] = list]
  BY DEF ArraysAfter
<1>5. t = IF list = <<>> THEN Nil
          ELSE [array |-> IF Fits(h, s, list) THEN s.array ELSE f, len |-> Len(list)]
  BY DEF ListAfter
<1>6. /\ Len(list) \in Nat /\ (list # <<>> => Len(list) >= 1)
      /\ \A a \in Arrays : h[a] \in Seq(Elements) /\ Len(h[a]) \in Nat
                           /\ (h[a] = <<>> <=> Len(h[a]) = 0)
  BY EmptySeq, LenProperties DEF Heaps
<1> HIDE DEF g, t, f, written
<1>7. \A n : Nil # [array |-> n, len |-> Len(list)] \/ n = 0
  BY DEF Nil
<1>8. CASE list = <<>> \/ Fits(h, s, list)
  <2>1. g = written /\ \A a \in Arrays : Len(g[a]) = Len(h[a]) /\ g[a] \in Seq(Elements)
    BY <1>3, <1>4, <1>8 DEF Heaps
  <2>2. \A u : SliceOf(h, u) => SliceOf(g, u)
    BY <2>1 DEF SliceOf
  <2>3. \A a \in Arrays : g[a] # <<>> => h[a] # <<>>
    BY <1>6, <2>1, EmptySeq
  <2>4. CASE list = <<>>
    BY <1>3, <1>5, <2>1, <2>2, <2>3, <2>4 DEF SliceOf, g, t
  <2>5. CASE list # <<>>
    <3>1. /\ Fits(h, s, list) /\ s # Nil /\ Len(list) <= Len(h[s.array])
          /\ t = [array |-> s.array, len |-> Len(list)]
      BY <1>5, <1>8, <2>5 DEF Fits
    <3>2. SliceOf(g, t) /\ t # Nil
      BY <1>2, <1>6, <1>7, <2>1, <2>5, <3>1, ArraysAreNumbers DEF SliceOf
    <3>3. SubSeq(g[s.array], 1, Len(list)) = list
      <4> DEFINE o == g[s.array]
                 z == SubSeq(o, 1, Len(list))
      <4>1. /\ o \in Seq(Elements) /\ Len(o) = Len(h[s.array])
            /\ \A i \in 1..Len(o) : i <= Len(list) => o[i] = list[i]
        BY <1>2, <1>3, <2>1, <3>1, OverwriteFacts
      <4> HIDE DEF o
      <4>2. /\ z \in Seq(Elements) /\ Len(z) = Len(list)
            /\ \A i \in 1..Len(list) : z[i] = o[i]
        BY <1>2, <1>6, <3>1, <4>1, Beginning
      <4> HIDE DEF z
      <4>3. \A i \in 1..Len(z) : z[i] = list[i]
        BY <1>2, <1>6, <3>1, <4>1, <4>2
      <4>4. z = list
        BY <4>2, <4>3, SeqEqual
      <4> QED
        BY <4>4 DEF z, o
    <3>4. t.array = s.array /\ t.len = Len(list)
      BY <3>1
    <3> QED
      BY <1>3, <2>1, <2>2, <2>3, <2>5, <3>2, <3>3, <3>4 DEF g, t
  <2> QED
    BY <2>4, <2>5
<1>9. CASE list # <<>> /\ ~Fits(h, s, list)
  <2>1. /\ t = [array |-> f, len |-> Len(list)] /\ t.array = f /\ t.len = Len(list)
        /\ g = [written EXCEPT ![f] = list]
    BY <1>4, <1>5, <1>9
  <2>2. /\ g \in Heaps /\ g[f] = list
        /\ \A a \in Arrays : a # f => g[a] = written[a]
    BY <1>1, <1>3, <2>1 DEF Heaps
  <2>3. SliceOf(g, t) /\ t # Nil
    BY <1>1, <1>6, <1>7, <1>9, <2>1, <2>2, ArraysAreNumbers DEF SliceOf
  <2>4. ASSUME NEW u, SliceOf(h, u) PROVE SliceOf(g, u)
    <3>1. CASE u = Nil
      BY <3>1 DEF SliceOf
    <3>2. CASE u # Nil
      <4>1. u.array \in Arrays /\ u.len \in 1..Len(h[u.array])
            /\ u = [array |-> u.array, len |-> u.len]
        BY <2>4, <3>2 DEF SliceOf
      <4>2. u.array # f
        BY <1>1, <1>6, <4>1
      <4>3. Len(g[u.array]) = Len(h[u.array])
        BY <1>3, <2>2, <4>1, <4>2
      <4> QED
        BY <4>1, <4>3 DEF SliceOf
    <3> QED
      BY <3>1, <3>2
  <2>5. ASSUME NEW a \in Arrays, g[a] # <<>>, a # f PROVE h[a] # <<>>
    <3>1. g[a] = written[a] /\ written[a] \in Seq(Elements) /\ Len(written[a]) = Len(h[a])
      BY <1>3, <2>2, <2>5 DEF Heaps
    <3> QED
      BY <1>6, <2>5, <3>1, EmptySeq
  <2>6. SubSeq(g[f], 1, Len(list)) = list
    BY <2>2, SubSeqFull
  <2> QED
    BY <1>9, <2>1, <2>2, <2>3, <2>4, <2>5, <2>6 DEF g, t
<1> QED
  BY <1>8, <1>9

\* What a slice holds is a list.
LEMMA ContentIsList ==
  ASSUME arrays \in Heaps, NEW s, SliceOf(arrays, s)
  PROVE  Content(s) \in Seq(Elements)
<1>1. CASE s = Nil
  BY <1>1, EmptySeq DEF Content
<1>2. CASE s # Nil
  <2>1. /\ arrays[s.array] \in Seq(Elements) /\ s.len \in 1..Len(arrays[s.array])
        /\ s.len \in 0..Len(arrays[s.array])
    BY <1>2, LenProperties DEF SliceOf, Heaps
  <2> QED
    BY <1>2, <2>1, Beginning DEF Content
<1> QED
  BY <1>1, <1>2
\* What the finished request alone refers to is collected, the rest is kept.
LEMMA CollectedFacts ==
  ASSUME NEW h \in Heaps, NEW r \in Requests,
         SliceOf(h, cfg.list), SliceOf(h, desired.list),
         \A q \in Requests : q # r => req[q] = Idle
  PROVE  /\ Collected(h, r) \in Heaps
         /\ SliceOf(Collected(h, r), cfg.list)
         /\ SliceOf(Collected(h, r), desired.list)
         /\ \A x \in Arrays : Collected(h, r)[x] # <<>>
                                => x \in {cfg.list.array, desired.list.array}
<1> DEFINE used == {cfg.list.array, desired.list.array}
                     \cup {req[q].next.list.array : q \in Requests \ {r}}
           g    == Collected(h, r)
<1>1. \A q \in Requests \ {r} : req[q].next.list.array = 0
  BY DEF Idle, NoDoc, Nil
<1>2. \A x \in Arrays : x \in used <=> x \in {cfg.list.array, desired.list.array}
  BY <1>1, ArraysAreNumbers
<1>3. g = [a \in Arrays |-> IF a \in used THEN h[a] ELSE <<>>]
  BY DEF Collected
<1> HIDE DEF used, g
<1>4. \A x \in Arrays : h[x] \in Seq(Elements)
  BY DEF Heaps
<1>5. g \in Heaps
  BY <1>3, <1>4, EmptySeq DEF Heaps
<1>6. \A x \in Arrays : g[x] = IF x \in {cfg.list.array, desired.list.array} THEN h[x] ELSE <<>>
  BY <1>2, <1>3
<1>7. ASSUME NEW s, SliceOf(h, s), s.array \in {cfg.list.array, desired.list.array}
      PROVE  SliceOf(g, s)
  BY <1>6, <1>7 DEF SliceOf
<1> QED
  BY <1>5, <1>6, <1>7 DEF g

----------------------------------------------------------------------------
(* The heap                                                                *)

\* config.yaml's list is in array 1, and nothing else is in use.
LEMMA YamlHeap ==
  /\ YamlArrays \in Heaps /\ SliceOf(YamlArrays, YamlSlice)
  /\ YamlArrays[2] = <<>>
  /\ \A x \in Arrays : YamlArrays[x] # <<>> => x = 1
  /\ YamlSlice = Nil <=> Yaml.list = <<>>
  /\ Yaml.list # <<>> => SubSeq(YamlArrays[YamlSlice.array], 1, YamlSlice.len) = Yaml.list
<1>1. Yaml.list \in Seq(Elements)
  BY SettingsAssumption DEF Docs
<1>2. /\ YamlArrays[1] = Yaml.list
      /\ \A x \in Arrays : YamlArrays[x] = IF x = 1 THEN Yaml.list ELSE <<>>
  BY ArraysAreNumbers DEF YamlArrays
<1>3. YamlArrays \in Heaps
  BY <1>1, EmptySeq DEF YamlArrays, Heaps
<1>4. YamlArrays[2] = <<>>
  BY <1>2, ArraysAreNumbers
<1>5. CASE Yaml.list = <<>>
  BY <1>2, <1>3, <1>4, <1>5 DEF YamlSlice, SliceOf
<1>6. CASE Yaml.list # <<>>
  <2>1. YamlSlice = [array |-> 1, len |-> Len(Yaml.list)]
    BY <1>6 DEF YamlSlice
  <2>2. Len(Yaml.list) \in 1..Len(Yaml.list)
    BY <1>1, <1>6, EmptySeq, LenProperties
  <2>3. SubSeq(Yaml.list, 1, Len(Yaml.list)) = Yaml.list
    BY <1>1, SubSeqFull
  <2>4. YamlSlice # Nil /\ SliceOf(YamlArrays, YamlSlice)
    BY <1>2, <2>1, <2>2, ArraysAreNumbers DEF SliceOf, Nil
  <2> QED
    BY <1>2, <1>3, <1>4, <1>6, <2>1, <2>3, <2>4
<1> QED
  BY <1>5, <1>6

RowsAreLists == \A p \in Paths : \A row \in stored[p] : row.list \in Seq(Elements)

\* A start brings back exactly the stored document, or config.yaml.
LEMMA StartBrings ==
  ASSUME TypeOK, RowsAreLists, Start
  PROVE  /\ arrays' \in Heaps /\ SliceOf(arrays', desired'.list)
         /\ \A x \in Arrays : arrays'[x] # <<>> => x \in {1, desired'.list.array}
         /\ Value(desired)' = IF stored[Yaml.path] = {} THEN Yaml ELSE Row
<1>1. /\ arrays' = IF stored[Yaml.path] = {} THEN YamlArrays
                   ELSE ArraysAfter(YamlArrays, YamlSlice, Row.list)
      /\ desired' = BootDoc
  BY StartFacts DEF Start, Boot, Row
<1>2. CASE stored[Yaml.path] = {}
  <2>1. /\ arrays' = YamlArrays
        /\ desired' = [list |-> YamlSlice, level |-> Yaml.level, port |-> Yaml.port,
                       path |-> Yaml.path]
    BY <1>1, <1>2 DEF BootDoc
  <2>2. Value(desired)' = [list |-> Content(YamlSlice)', level |-> Yaml.level,
                           port |-> Yaml.port, path |-> Yaml.path]
    BY <2>1 DEF Value
  <2>3. Content(YamlSlice)' = Yaml.list
    BY <2>1, YamlHeap DEF Content
  <2>4. Yaml = [list |-> Yaml.list, level |-> Yaml.level, port |-> Yaml.port,
                path |-> Yaml.path]
    BY YamlIsDoc DEF IsDoc
  <2> QED
    BY <1>2, <2>1, <2>2, <2>3, <2>4, YamlHeap
<1>3. CASE stored[Yaml.path] # {}
  <2>0. PICK s, g : /\ s = ListAfter(YamlArrays, YamlSlice, Row.list)
                    /\ g = ArraysAfter(YamlArrays, YamlSlice, Row.list)
    OBVIOUS
  <2>1. /\ arrays' = g
        /\ desired' = [list |-> s, level |-> Row.level, port |-> Row.port, path |-> Row.path]
    BY <1>1, <1>3, <2>0 DEF BootDoc
  <2>2. Row.list \in Seq(Elements) /\ IsDoc(Row)
    BY <1>3, OnlyIsMember, YamlIsDoc DEF RowsAreLists, TypeOK, Row, IsDoc
  <2>3. /\ g \in Heaps /\ SliceOf(g, s)
        /\ \A a \in Arrays : g[a] # <<>> => YamlArrays[a] # <<>> \/ a = s.array
        /\ Row.list = <<>> => s = Nil
        /\ Row.list # <<>> => s # Nil /\ SubSeq(g[s.array], 1, s.len) = Row.list
    <3>1. \E a \in Arrays : YamlArrays[a] = <<>>
      BY ArraysAreNumbers, YamlHeap
    <3> QED
      BY <2>0, <2>2, <3>1, DecodingFacts, YamlHeap
  <2>4. desired'.list = s
    BY <2>1
  <2>5. Value(desired)'
          = [desired' EXCEPT !.list = IF s = Nil THEN <<>>
                                      ELSE SubSeq(arrays'[s.array], 1, s.len)]
    BY <2>4 DEF Value, Content
  <2>6. (IF s = Nil THEN <<>> ELSE SubSeq(arrays'[s.array], 1, s.len)) = Row.list
    BY <2>1, <2>3
  <2>7. Value(desired)' = [list |-> Row.list, level |-> Row.level, port |-> Row.port,
                           path |-> Row.path]
    BY <2>1, <2>5, <2>6
  <2> QED
    BY <1>3, <2>1, <2>2, <2>3, <2>7, YamlHeap DEF IsDoc
<1> QED
  BY <1>2, <1>3
\* The arrays that hold something belong to config.yaml or the two documents.
NothingElse == \A x \in Arrays : arrays[x] # <<>> => x \in {1, cfg.list.array, desired.list.array}

(***************************************************************************)
(* Every document has a slice of the heap, and between requests the heap   *)
(* holds nothing else, so that a request always finds a free array.        *)
(***************************************************************************)
Heap ==
  /\ arrays \in Heaps
  /\ SliceOf(arrays, cfg.list) /\ SliceOf(arrays, desired.list)
  /\ \A r \in Requests : Active(r) => SliceOf(arrays, req[r].next.list)
  /\ up /\ (\A r \in Requests : req[r].at \in {"idle", "decode"}) => NothingElse
  /\ RowsAreLists

HeapInv == ~overlapped => Heap

LEMMA ListsAreSequences ==
  ASSUME NEW body \in Bodies, body.list # {}
  PROVE  Only(body.list) \in Seq(Elements)
<1>1. PICK l \in Lists : body.list = {l}
  BY DEF Bodies
<1> QED
  BY <1>1, OnlyIsMember, SettingsAssumption

LEMMA StepHeap == TypeOK /\ Alone /\ HeapInv /\ [Next]_vars => HeapInv'
<1> SUFFICES ASSUME TypeOK, Alone, HeapInv, [Next]_vars, ~overlapped' PROVE Heap'
  BY DEF HeapInv
<1> USE DEF store, process, history
\* A step of the only request.
<1>a. ASSUME OneAtATime, NEW r \in Requests, NEW q, Becomes(r, q),
             Active(r) \/ \A x \in Requests : ~Active(x),
             arrays' \in Heaps, SliceOf(arrays', cfg'.list), SliceOf(arrays', desired'.list),
             q.at # "idle" => SliceOf(arrays', q.next.list),
             q.at \in {"idle", "decode"} => NothingElse',
             RowsAreLists'
      PROVE  Heap'
  <2>1. \A x \in Requests : x # r => req'[x].at = "idle"
    BY <1>a DEF OneAtATime, Active, Becomes
  <2>2. req'[r] = q
    BY <1>a DEF Becomes
  <2> QED
    BY <1>a, <2>1, <2>2 DEF Heap, Active
<1>c. ASSUME NEW r \in Requests, Active(r), UNCHANGED overlapped
      PROVE  OneAtATime /\ Heap /\ \A x \in Requests : x # r => req[x] = Idle
  BY <1>c DEF Alone, HeapInv, OneAtATime, TypeOK, IsRequest, Active
\* A request that ends and leaves the heap h, of which its own is collected.
<1>b. ASSUME NEW r \in Requests, Active(r), UNCHANGED <<overlapped, cfg, desired, stored>>,
             Becomes(r, Idle), NEW h \in Heaps,
             SliceOf(h, cfg.list), SliceOf(h, desired.list), arrays' = Collected(h, r)
      PROVE  Heap'
  <2>1. /\ arrays' \in Heaps /\ SliceOf(arrays', cfg.list) /\ SliceOf(arrays', desired.list)
        /\ \A x \in Arrays : arrays'[x] # <<>> => x \in {cfg.list.array, desired.list.array}
    BY <1>b, <1>c, CollectedFacts
  <2>2. NothingElse'
    BY <1>b, <2>1 DEF NothingElse
  <2>3. RowsAreLists'
    BY <1>b, <1>c DEF Heap, RowsAreLists
  <2>4. Idle.at = "idle"
    BY DEF Idle
  <2>5. SliceOf(arrays', cfg'.list) /\ SliceOf(arrays', desired'.list)
    BY <1>b, <2>1
  <2> QED
    BY <1>a, <1>b, <1>c, <2>1, <2>2, <2>3, <2>4, <2>5
\* The same where nothing was decoded.
<1>d. ASSUME NEW r \in Requests, Active(r), UNCHANGED <<overlapped, cfg, desired, stored>>,
             NEW code, Finish(r, code), CollectFor(r)
      PROVE  Heap'
  BY <1>b, <1>c, <1>d, FinishIdles DEF Heap, CollectFor
<1>1. CASE Start
  <2>1. Heap /\ ~up /\ \A r \in Requests : req[r].at = "idle"
    BY <1>1, StartFacts DEF TypeOK, HeapInv
  <2>2. /\ arrays' \in Heaps /\ SliceOf(arrays', desired'.list) /\ cfg' = desired'
        /\ UNCHANGED <<req, stored>>
        /\ \A x \in Arrays : arrays'[x] # <<>> => x \in {1, desired'.list.array}
    BY <1>1, <2>1, StartFacts, StartBrings DEF Heap
  <2> QED
    BY <2>1, <2>2 DEF Heap, NothingElse, RowsAreLists, Active
<1>2. CASE Stop
  <2>1. /\ UNCHANGED <<arrays, cfg, desired, stored>> /\ ~up' /\ Heap
        /\ \A r \in Requests : req'[r].at = "idle"
    BY <1>2 DEF Stop, HeapInv, Idle
  <2> QED
    BY <2>1 DEF Heap, RowsAreLists, Active
<1>3. ASSUME NEW r \in Requests, Begin(r) PROVE Heap'
  <2>1. PICK body \in Bodies :
          Becomes(r, [at |-> "decode", body |-> body, next |-> desired, restart |-> FALSE])
    BY <1>3, BeginBecomes
  <2>2. /\ OneAtATime /\ Heap /\ up /\ \A x \in Requests : ~Active(x)
        /\ UNCHANGED <<arrays, cfg, desired, stored>>
    BY <1>3 DEF Begin, Alone, Active, HeapInv
  <2>3. NothingElse' /\ RowsAreLists'
    BY <2>2 DEF Heap, Active, NothingElse, RowsAreLists
  <2> QED
    BY <1>a, <2>1, <2>2, <2>3 DEF Heap
<1>4. ASSUME NEW r \in Requests, Decode(r) PROVE Heap'
  <2> DEFINE list == req[r].body.list
             h == IF list = {} THEN arrays
                  ELSE ArraysAfter(arrays, req[r].next.list, Only(list))
             s == IF list = {} THEN req[r].next.list
                  ELSE ListAfter(arrays, req[r].next.list, Only(list))
  <2>1. /\ Active(r) /\ UNCHANGED <<overlapped, cfg, desired, stored>>
        /\ req[r].at = "decode" /\ req[r].body \in Bodies
    BY <1>4 DEF Decode, Active, TypeOK, IsRequest
  <2>2. Heap /\ OneAtATime /\ up /\ NothingElse
    BY <1>c, <2>1 DEF Heap, TypeOK, Idle
  <2>3. \E a \in Arrays : arrays[a] = <<>>
    <3>1. 2 \in Arrays /\ 3 \in Arrays /\ 4 \in Arrays
      BY ArraysAreNumbers
    <3>2. \E a \in {2, 3, 4} : a \notin {1, cfg.list.array, desired.list.array}
      OBVIOUS
    <3> QED
      BY <2>2, <3>1, <3>2 DEF NothingElse
  <2>4. h \in Heaps /\ SliceOf(h, s) /\ SliceOf(h, cfg.list) /\ SliceOf(h, desired.list)
    <3>1. CASE list = {}
      BY <2>1, <2>2, <3>1 DEF Heap
    <3>2. CASE list # {}
      <4>1. Only(list) \in Seq(Elements)
        BY <2>1, <3>2, ListsAreSequences
      <4> QED
        BY <2>1, <2>2, <2>3, <3>2, <4>1, DecodingFacts DEF Heap
    <3> QED
      BY <3>1, <3>2
  <2>5. CASE req[r].body.unknown
    <3>1. Becomes(r, Idle) /\ arrays' = Collected(h, r)
      BY <1>4, <2>5, FinishIdles DEF Decode
    <3> HIDE DEF h
    <3> QED
      BY <1>b, <2>1, <2>4, <3>1
  <2>6. CASE ~req[r].body.unknown
    <3> DEFINE d == Decoded(req[r].next, req[r].body)
    <3>1. /\ Becomes(r, [at |-> "apply", body |-> req[r].body, next |-> d,
                         restart |-> req[r].restart])
          /\ arrays' = h
      BY <1>4, <2>6, DecodeBecomes DEF Decode
    <3>2. d.list = s
      BY DEF Decoded
    <3>3. RowsAreLists'
      BY <2>1, <2>2 DEF Heap, RowsAreLists
    <3>4. SliceOf(arrays', cfg'.list) /\ SliceOf(arrays', desired'.list) /\ arrays' \in Heaps
          /\ SliceOf(arrays', d.list)
      BY <2>1, <2>4, <3>1, <3>2
    <3> HIDE DEF d, h, s
    <3> QED
      BY <1>a, <2>1, <2>2, <3>1, <3>3, <3>4
  <2> QED
    BY <2>5, <2>6
<1>5. ASSUME NEW r \in Requests, Apply(r) PROVE Heap'
  <2>1. Active(r) /\ UNCHANGED <<overlapped, stored>> /\ req[r].at = "apply"
    BY <1>5 DEF Apply, Active
  <2>2. CASE ~Valid(req[r].next)
    BY <1>5, <1>d, <2>1, <2>2 DEF Apply
  <2>3. CASE Valid(req[r].next)
    <3> DEFINE b == RestartOnly(cfg, req[r].next)
    <3>1. /\ Becomes(r, [at |-> "reread", body |-> req[r].body, next |-> req[r].next,
                         restart |-> b])
          /\ desired' = req[r].next /\ arrays' = arrays
          /\ cfg' = [list |-> desired'.list, level |-> desired'.level,
                     port |-> cfg.port, path |-> cfg.path]
      BY <1>5, <2>3, ApplyBecomes
    <3>2. cfg'.list = desired'.list
      BY <3>1
    <3>3. RowsAreLists' /\ OneAtATime /\ Heap
      BY <1>c, <2>1 DEF Heap, RowsAreLists
    <3>4. /\ SliceOf(arrays', cfg'.list) /\ SliceOf(arrays', desired'.list)
          /\ SliceOf(arrays', req[r].next.list) /\ arrays' \in Heaps
      BY <2>1, <3>1, <3>2, <3>3 DEF Heap
    <3> HIDE DEF b
    <3> QED
      BY <1>a, <2>1, <3>1, <3>3, <3>4
  <2> QED
    BY <2>2, <2>3
<1>6. ASSUME NEW r \in Requests, Reread(r) PROVE Heap'
  <2>1. Active(r) /\ UNCHANGED <<overlapped, arrays, cfg, desired, stored>>
    BY <1>6 DEF Reread, Active
  <2>2. RowsAreLists' /\ OneAtATime /\ Heap
    BY <1>c, <2>1 DEF Heap, RowsAreLists
  <2>3. Becomes(r, [at |-> "save", body |-> req[r].body, next |-> desired,
                    restart |-> req[r].restart])
    BY <1>6, RereadBecomes
  <2> QED
    BY <1>a, <2>1, <2>2, <2>3 DEF Heap
<1>7. ASSUME NEW r \in Requests, Save(r) PROVE Heap'
  <2>1. Active(r) /\ UNCHANGED <<overlapped, cfg, desired>> /\ req[r].at = "save"
    BY <1>7 DEF Save, Active
  <2>2. CASE /\ stored' = [stored EXCEPT ![open] = {Value(req[r].next)}]
             /\ Goto(r, "answer") /\ UNCHANGED <<arrays, answer>>
    <3>1. Becomes(r, [at |-> "answer", body |-> req[r].body, next |-> req[r].next,
                      restart |-> req[r].restart])
      BY <2>2, GotoMoves
    <3>2. Heap /\ OneAtATime /\ IsDoc(req[r].next)
      BY <1>c, <2>1 DEF TypeOK, IsRequest
    <3>3. Value(req[r].next).list \in Seq(Elements)
      BY <2>1, <3>2, ValueOfDoc, ContentIsList DEF Heap
    <3>4. \A p \in Paths : stored'[p] = stored[p] \/ stored'[p] = {Value(req[r].next)}
      BY <2>2 DEF TypeOK
    <3>5. RowsAreLists'
      BY <3>2, <3>3, <3>4 DEF Heap, RowsAreLists
    <3> QED
      BY <1>a, <2>1, <2>2, <3>1, <3>2, <3>5 DEF Heap
  <2>3. CASE Finish(r, "500") /\ CollectFor(r) /\ UNCHANGED stored
    BY <1>d, <2>1, <2>3
  <2> QED
    BY <1>7, <2>2, <2>3 DEF Save
<1>8. ASSUME NEW r \in Requests, Answer(r) PROVE Heap'
  BY <1>8, <1>d DEF Answer, Active
<1>9. CASE UNCHANGED vars
  BY <1>9 DEF vars, HeapInv, Heap, NothingElse, RowsAreLists, Active
<1> QED
  BY <1>1, <1>2, <1>3, <1>4, <1>5, <1>6, <1>7, <1>8, <1>9 DEF Next

----------------------------------------------------------------------------
(* What a restart brings back                                              *)

(***************************************************************************)
(* The row a start reads, or config.yaml in its absence, is a document     *)
(* that is owed.                                                           *)
(***************************************************************************)
RowIsOwed ==
  \/ stored[Yaml.path] = {} /\ Yaml \in owed
  \/ \E row \in owed : stored[Yaml.path] = {row}

OwedInv == ~overlapped => RowIsOwed

LEMMA StepOwed ==
  TypeOK /\ Alone /\ Asked /\ HeapInv /\ OwedInv /\ [Next]_vars /\ [AtHome]_vars => OwedInv'
<1> SUFFICES ASSUME TypeOK, Alone, Asked, HeapInv, OwedInv, [Next]_vars, [AtHome]_vars,
                    ~overlapped'
             PROVE  RowIsOwed'
  BY DEF OwedInv
<1> USE DEF store, process, history
\* The row and what is owed stay.
<1>a. ASSUME UNCHANGED <<stored, owed>>, ~overlapped PROVE RowIsOwed'
  BY <1>a DEF OwedInv, RowIsOwed
<1>1. CASE Start
  <2>1. /\ ~overlapped /\ RowsAreLists /\ stored' = stored
        /\ owed' = {Value(desired)'}
    BY <1>1 DEF Start, HeapInv, Heap
  <2>2. PICK d : d = Value(desired)' /\ owed' = {d}
    BY <2>1
  <2>3. d = IF stored[Yaml.path] = {} THEN Yaml ELSE Row
    BY <1>1, <2>1, <2>2, StartBrings
  <2>4. CASE stored[Yaml.path] = {}
    BY <2>1, <2>2, <2>3, <2>4 DEF RowIsOwed
  <2>5. CASE stored[Yaml.path] # {}
    <3>1. PICK row : stored[Yaml.path] = {row}
      BY <2>1, <2>5 DEF OwedInv, RowIsOwed
    <3>2. d = row
      BY <2>3, <2>5, <3>1, OnlyIsMember DEF Row
    <3> QED
      BY <2>1, <2>2, <3>1, <3>2 DEF RowIsOwed
  <2> QED
    BY <2>4, <2>5
<1>2. CASE Stop
  BY <1>2, <1>a DEF Stop
<1>3. ASSUME NEW r \in Requests, Begin(r) \/ Decode(r) \/ Apply(r) \/ Reread(r)
      PROVE  RowIsOwed'
  <2>1. CASE Begin(r)
    BY <1>a, <2>1 DEF Begin
  <2>2. CASE Decode(r)
    BY <1>a, <2>2 DEF Decode
  <2>3. CASE Apply(r) \/ Reread(r)
    BY <1>a, <2>3 DEF Apply, Reread
  <2> QED
    BY <1>3, <2>1, <2>2, <2>3
<1>7. ASSUME NEW r \in Requests, Save(r), AtHome PROVE RowIsOwed'
  <2>1. UNCHANGED <<overlapped, cfg, desired>> /\ req[r].at = "save" /\ OneAtATime
    BY <1>7 DEF Save, Alone
  <2>2. CASE /\ stored' = [stored EXCEPT ![open] = {Value(req[r].next)}]
             /\ owed' = owed \cup {Value(desired)}
    <3>1. req[r].next = desired /\ open = Yaml.path /\ Yaml.path \in Paths
      BY <1>7, <2>1, YamlIsDoc DEF OneAtATime, AtHome, IsDoc
    <3>2. stored'[Yaml.path] = {Value(desired)}
      BY <2>2, <3>1 DEF TypeOK
    <3> QED
      BY <2>2, <3>2 DEF RowIsOwed
  <2>3. CASE UNCHANGED <<stored, owed>>
    BY <1>a, <2>1, <2>3
  <2> QED
    BY <1>7, <2>2, <2>3 DEF Save
<1>8. ASSUME NEW r \in Requests, Answer(r) PROVE RowIsOwed'
  <2>1. /\ owed' = {Value(desired)} /\ UNCHANGED <<stored, overlapped>>
        /\ req[r].at = "answer"
    BY <1>8 DEF Answer
  <2>2. stored[Yaml.path] = {Value(desired)}
    BY <2>1 DEF Asked, AsAsked
  <2> QED
    BY <2>1, <2>2 DEF RowIsOwed
<1>9. CASE UNCHANGED vars
  BY <1>9, <1>a DEF vars
<1> QED
  BY <1>1, <1>2, <1>3, <1>7, <1>8, <1>9 DEF Next

(***************************************************************************)
(* The snapshot "survives restarts" (settings_handler.go): a start brings  *)
(* back the document of the last request answered 200, or one saved after  *)
(* it whose answer a crash prevented, if requests save to the database     *)
(* config.yaml names and no two of them overlapped.                        *)
(***************************************************************************)
THEOREM RestartBringsBack == Spec /\ SavedAtHome => RestartDelivers
<1>1. Init => HeapInv /\ OwedInv
  <2> SUFFICES ASSUME Init PROVE HeapInv /\ OwedInv
    OBVIOUS
  <2>1. /\ cfg.list = YamlSlice /\ desired.list = YamlSlice /\ arrays = YamlArrays
    BY YamlIsDoc DEF Init, IsDoc
  <2>2. stored[Yaml.path] = {} /\ Yaml \in owed /\ \A p \in Paths : stored[p] = {}
    BY YamlIsDoc DEF Init, IsDoc
  <2>3. \A r \in Requests : req[r].at = "idle"
    BY DEF Init, Idle
  <2> QED
    BY <2>1, <2>2, <2>3, YamlHeap
    DEF HeapInv, Heap, NothingElse, RowsAreLists, Active, OwedInv, RowIsOwed
<1>2. TypeOK /\ HeapInv /\ OwedInv /\ [Next]_vars =>
        [~up /\ up' /\ ~overlapped => Value(desired)' \in owed]_vars
  <2> SUFFICES ASSUME TypeOK, HeapInv, OwedInv, [Next]_vars, ~up, up', ~overlapped
               PROVE  Value(desired)' \in owed
    OBVIOUS
  <2>1. Start
    BY OnlyStartStarts
  <2>2. Value(desired)' = IF stored[Yaml.path] = {} THEN Yaml ELSE Row
    BY <2>1, StartBrings DEF HeapInv, Heap
  <2>3. CASE stored[Yaml.path] = {}
    BY <2>2, <2>3 DEF OwedInv, RowIsOwed
  <2>4. CASE stored[Yaml.path] # {}
    <3>1. PICK row \in owed : stored[Yaml.path] = {row}
      BY <2>4 DEF OwedInv, RowIsOwed
    <3>2. Row = row
      BY <3>1, OnlyIsMember DEF Row
    <3> QED
      BY <2>2, <2>4, <3>1, <3>2
  <2> QED
    BY <2>3, <2>4
<1> QED
  BY <1>1, <1>2, StepHeap, StepOwed, TypeCorrect, AloneHolds, AskedHolds, PTL
  DEF Spec, SavedAtHome, RestartDelivers

----------------------------------------------------------------------------
(* One database                                                            *)

\* Without requests that change it, the database path is config.yaml's.
OnePath ==
  /\ cfg.path = Yaml.path /\ desired.path = Yaml.path
  /\ \A r \in Requests : Active(r) => req[r].next.path = Yaml.path
  /\ \A row \in stored[Yaml.path] : row.path = Yaml.path

LEMMA StepOnePath ==
  ASSUME PathChanges = FALSE
  PROVE  TypeOK /\ OnePath /\ [Next]_vars => OnePath'
<1> SUFFICES ASSUME TypeOK, OnePath, [Next]_vars PROVE OnePath'
  OBVIOUS
<1> USE DEF store, process, history
\* A step of one request that leaves the documents and the rows alone.
<1>a. ASSUME NEW r \in Requests, NEW q, Becomes(r, q),
             q.at # "idle" => q.next.path = Yaml.path,
             cfg'.path = Yaml.path, desired'.path = Yaml.path, UNCHANGED stored
      PROVE  OnePath'
  BY <1>a DEF OnePath, Active, Becomes
<1>b. ASSUME NEW r \in Requests, NEW code, Finish(r, code), UNCHANGED <<cfg, desired, stored>>
      PROVE  OnePath'
  BY <1>a, <1>b, FinishIdles DEF OnePath, Idle
<1>1. CASE Start
  <2>1. BootDoc.path = Yaml.path
    BY OnlyIsMember DEF BootDoc, OnePath, Row
  <2>2. \A r \in Requests : ~Active(r)
    BY <1>1, StartFacts DEF TypeOK, Active
  <2> HIDE DEF BootDoc
  <2> QED
    BY <1>1, <2>1, <2>2, StartFacts DEF OnePath, Active
<1>2. CASE Stop
  <2>1. \A r \in Requests : req'[r].at = "idle"
    BY <1>2 DEF Stop, Idle
  <2> QED
    BY <1>2, <2>1 DEF Stop, OnePath, Active
<1>3. ASSUME NEW r \in Requests, Begin(r) PROVE OnePath'
  <2>1. PICK body \in Bodies :
          Becomes(r, [at |-> "decode", body |-> body, next |-> desired, restart |-> FALSE])
    BY <1>3, BeginBecomes
  <2> QED
    BY <1>3, <1>a, <2>1 DEF Begin, OnePath
<1>4. ASSUME NEW r \in Requests, Decode(r) PROVE OnePath'
  <2>1. /\ UNCHANGED <<cfg, desired, stored>> /\ req[r].body \in Bodies
        /\ req[r].next.path = Yaml.path
    BY <1>4 DEF Decode, OnePath, Active, TypeOK, IsRequest
  <2>2. CASE req[r].body.unknown
    BY <1>4, <1>b, <2>1, <2>2 DEF Decode
  <2>3. CASE ~req[r].body.unknown
    <3> DEFINE d == Decoded(req[r].next, req[r].body)
    <3>1. Becomes(r, [at |-> "apply", body |-> req[r].body, next |-> d,
                      restart |-> req[r].restart])
      BY <1>4, <2>3, DecodeBecomes
    <3>2. d.path = Yaml.path
      BY <2>1 DEF Decoded, Merge, Bodies
    <3> HIDE DEF d
    <3> QED
      BY <1>a, <2>1, <3>1, <3>2 DEF OnePath
  <2> QED
    BY <2>2, <2>3
<1>5. ASSUME NEW r \in Requests, Apply(r) PROVE OnePath'
  <2>1. UNCHANGED stored /\ req[r].next.path = Yaml.path
    BY <1>5 DEF Apply, OnePath, Active
  <2>2. CASE ~Valid(req[r].next)
    BY <1>5, <1>b, <2>1, <2>2 DEF Apply
  <2>3. CASE Valid(req[r].next)
    <3>1. /\ Becomes(r, [at |-> "reread", body |-> req[r].body, next |-> req[r].next,
                         restart |-> RestartOnly(cfg, req[r].next)])
          /\ desired' = req[r].next
          /\ cfg' = [list |-> desired'.list, level |-> desired'.level,
                     port |-> cfg.port, path |-> cfg.path]
      BY <1>5, <2>3, ApplyBecomes
    <3>2. cfg'.path = Yaml.path /\ desired'.path = Yaml.path
      BY <2>1, <3>1 DEF OnePath
    <3> QED
      BY <1>a, <2>1, <3>1, <3>2
  <2> QED
    BY <2>2, <2>3
<1>6. ASSUME NEW r \in Requests, Reread(r) PROVE OnePath'
  BY <1>6, <1>a, RereadBecomes DEF Reread, OnePath
<1>7. ASSUME NEW r \in Requests, Save(r) PROVE OnePath'
  <2>1. /\ UNCHANGED <<cfg, desired>> /\ req[r].next.path = Yaml.path /\ IsDoc(req[r].next)
    BY <1>7 DEF Save, OnePath, Active, TypeOK, IsRequest
  <2>2. CASE stored' = [stored EXCEPT ![open] = {Value(req[r].next)}] /\ Goto(r, "answer")
    <3>1. Becomes(r, [at |-> "answer", body |-> req[r].body, next |-> req[r].next,
                      restart |-> req[r].restart])
      BY <2>2, GotoMoves
    <3>2. Value(req[r].next).path = Yaml.path
      BY <2>1, ValueOfDoc
    <3>3. stored'[Yaml.path] \in {stored[Yaml.path], {Value(req[r].next)}}
      BY <2>2, YamlIsDoc DEF TypeOK, IsDoc
    <3>4. \A row \in stored'[Yaml.path] : row.path = Yaml.path
      BY <3>2, <3>3 DEF OnePath
    <3> QED
      BY <2>1, <3>1, <3>4 DEF OnePath, Active, Becomes
  <2>3. CASE Finish(r, "500") /\ UNCHANGED stored
    BY <1>b, <2>1, <2>3
  <2> QED
    BY <1>7, <2>2, <2>3 DEF Save
<1>8. ASSUME NEW r \in Requests, Answer(r) PROVE OnePath'
  BY <1>8, <1>b DEF Answer
<1>9. CASE UNCHANGED vars
  BY <1>9 DEF vars, OnePath, Active
<1> QED
  BY <1>1, <1>2, <1>3, <1>4, <1>5, <1>6, <1>7, <1>8, <1>9 DEF Next

(***************************************************************************)
(* Requests that leave the database path alone save to the database        *)
(* config.yaml names.                                                      *)
(***************************************************************************)
LEMMA OnePathIsHome ==
  ASSUME PathChanges = FALSE
  PROVE  Spec => SavedAtHome
<1>1. Init => InUse /\ OnePath
  BY YamlIsDoc DEF Init, InUse, OnePath, Active, Idle, IsDoc
<1>2. TypeOK /\ OnePath /\ [Next]_vars => OnePath'
  BY StepOnePath
<1>3. InUse /\ OnePath => [AtHome]_vars
  BY DEF InUse, OnePath, AtHome
<1> QED
  BY <1>1, <1>2, <1>3, StepInUse, TypeCorrect, PTL DEF Spec, SavedAtHome

(***************************************************************************)
(* Where requests leave the database path alone, a restart brings back     *)
(* what was answered 200, and changes nothing live without being asked for.*)
(***************************************************************************)
THEOREM SettingsReturn ==
  ASSUME PathChanges = FALSE
  PROVE  Spec => RestartDelivers /\ RestartOnlyWhenAsked
BY OnePathIsHome, RestartBringsBack, RestartAskedFor, PTL
=============================================================================
