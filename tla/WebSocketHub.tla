---------------------------- MODULE WebSocketHub ----------------------------
(***************************************************************************)
(* Clients of /api/v1/live: handleWebSocket (api/websocket_handler.go)     *)
(* with its slot counter, the subscriptions of the event bus               *)
(* (engine/events.go) and the goroutine that reads from a connection.      *)
(*                                                                         *)
(* A handler's place is between two statements that touch something        *)
(* shared: the counter, the bus, the connection.  Events are counted, not  *)
(* told apart: a buffer is its length.  What subscribers hear and miss is  *)
(* the subject of module Notifier, which subscribes in the same way.       *)
(***************************************************************************)
EXTENDS Integers, FiniteSets

CONSTANTS
  Clients,   \* browsers, tabs and tools that connect
  Foreign,   \* those whose Origin the server does not allow
  Limits,    \* the values of server.max_websocket_clients
  Buffer     \* capacity of a subscription

ASSUME HubAssumption ==
  /\ IsFiniteSet(Clients) /\ Foreign \subseteq Clients
  /\ Limits \subseteq Nat \ {0} /\ Limits # {}
  /\ Buffer \in Nat \ {0}

VARIABLES
  pc,        \* where the handler of a client's request is, or "idle"
  limit,     \* maxClients as each handler read it
  slots,     \* wsClients
  subs,      \* the clients whose channel is in the bus
  backlog,   \* events waiting in a client's channel
  reader,    \* the goroutine that reads from the connection
  peer,      \* how the client's end behaves
  maxClients,\* server.max_websocket_clients now
  stopping   \* the daemon's context is cancelled

vars == <<pc, limit, slots, subs, backlog, reader, peer, maxClients, stopping>>

Places == {"idle", "admitting", "refusing", "upgrading", "joining", "relaying",
           "leaving", "closing", "releasing"}

At(places)  == {c \in Clients : pc[c] \in places}
Subscribed  == At({"relaying", "leaving"})
Admitted    == At(Places \ {"idle", "admitting", "refusing"})
Holding     == Admitted \cup At({"refusing"})

Goto(c, place) == pc' = [pc EXCEPT ![c] = place]

\* The handler returns; what was read for the request is forgotten.
Finish(c) ==
  /\ Goto(c, "idle")
  /\ peer' = [peer EXCEPT ![c] = "reading"]

Init ==
  /\ pc = [c \in Clients |-> "idle"]
  /\ limit = [c \in Clients |-> 0]
  /\ slots = 0
  /\ subs = {}
  /\ backlog = [c \in Clients |-> 0]
  /\ reader = [c \in Clients |-> "off"]
  /\ peer = [c \in Clients |-> "reading"]
  /\ maxClients \in Limits
  /\ stopping = FALSE

----------------------------------------------------------------------------
(* Asking for a connection                                                 *)

\* originAllowed; the request is answered 403 and forgotten otherwise.
OriginAllowed(c) == c \notin Foreign

\* A request arrives, passes the origin check and reads the limit.
Arrive(c) ==
  /\ pc[c] = "idle"
  /\ ~stopping
  /\ OriginAllowed(c)
  /\ limit' = [limit EXCEPT ![c] = maxClients]
  /\ Goto(c, "admitting")
  /\ UNCHANGED <<slots, subs, backlog, reader, peer, maxClients, stopping>>

\* Mutant: the limit is compared with the counter before the claim.
ClaimAfterCheck(c) ==
  /\ pc[c] = "admitting"
  /\ slots' = slots + 1
  /\ limit' = [limit EXCEPT ![c] = 0]
  /\ Goto(c, IF slots > limit[c] THEN "refusing" ELSE "upgrading")
  /\ UNCHANGED <<subs, backlog, reader, peer, maxClients, stopping>>

\* The slot is claimed first, and the result of the addition is checked.
Claim(c) ==
  /\ pc[c] = "admitting"
  /\ slots' = slots + 1
  /\ limit' = [limit EXCEPT ![c] = 0]
  /\ Goto(c, IF slots + 1 > limit[c] THEN "refusing" ELSE "upgrading")
  /\ UNCHANGED <<subs, backlog, reader, peer, maxClients, stopping>>

\* Over the limit: the claim is taken back and the request answered 503.
Refuse(c) ==
  /\ pc[c] = "refusing"
  /\ slots' = slots - 1
  /\ Finish(c)
  /\ UNCHANGED <<limit, subs, backlog, reader, maxClients, stopping>>

Upgraded(c) == Goto(c, "joining") /\ UNCHANGED <<slots, peer>>

\* Mutant: a failed upgrade returns without giving the slot back.
UpgradeLeaks(c) ==
  /\ pc[c] = "upgrading"
  /\ Upgraded(c) \/ (Finish(c) /\ UNCHANGED slots)
  /\ UNCHANGED <<limit, subs, backlog, reader, maxClients, stopping>>

\* The upgrade hijacks the connection, or fails and gives the slot back.
Upgrade(c) ==
  /\ pc[c] = "upgrading"
  /\ Upgraded(c) \/ (Finish(c) /\ slots' = slots - 1)
  /\ UNCHANGED <<limit, subs, backlog, reader, maxClients, stopping>>

\* Bus.Subscribe and the reader goroutine.
Join(c) ==
  /\ pc[c] = "joining"
  /\ subs' = subs \cup {c}
  /\ backlog' = [backlog EXCEPT ![c] = 0]
  /\ reader' = [reader EXCEPT ![c] = "reading"]
  /\ Goto(c, "relaying")
  /\ UNCHANGED <<limit, slots, peer, maxClients, stopping>>

----------------------------------------------------------------------------
(* The select loop                                                         *)

\* Whether a write to the client can succeed, and whether it can fail.
WriteCanFail(c) == peer[c] # "reading"

\* case ev := <-events: a write that misses its deadline ends the handler.
Relay(c) ==
  /\ pc[c] = "relaying"
  /\ backlog[c] > 0
  /\ backlog' = [backlog EXCEPT ![c] = @ - 1]
  /\ UNCHANGED pc \/ (WriteCanFail(c) /\ Goto(c, "leaving"))
  /\ UNCHANGED <<limit, slots, subs, reader, peer, maxClients, stopping>>

\* case <-ping.C: a ping that succeeds changes nothing.
PingFails(c) ==
  /\ pc[c] = "relaying"
  /\ WriteCanFail(c)
  /\ Goto(c, "leaving")
  /\ UNCHANGED <<limit, slots, subs, backlog, reader, peer, maxClients, stopping>>

\* The reader meets the end of the connection and closes done.
ReaderEnds(c) ==
  /\ reader[c] = "reading"
  /\ peer[c] = "gone"
  /\ reader' = [reader EXCEPT ![c] = "done"]
  /\ UNCHANGED <<pc, limit, slots, subs, backlog, peer, maxClients, stopping>>

\* case <-done.
ReaderDone(c) ==
  /\ pc[c] = "relaying"
  /\ reader[c] = "done"
  /\ Goto(c, "leaving")
  /\ UNCHANGED <<limit, slots, subs, backlog, reader, peer, maxClients, stopping>>

\* Mutant: events that wait are relayed before the shutdown is looked at.
SayGoodbyeWhenIdle(c) ==
  /\ pc[c] = "relaying"
  /\ stopping /\ backlog[c] = 0
  /\ Goto(c, "leaving")
  /\ UNCHANGED <<limit, slots, subs, backlog, reader, peer, maxClients, stopping>>

\* case <-shutdown: the close frame is sent if it can be.
SayGoodbye(c) ==
  /\ pc[c] = "relaying"
  /\ stopping
  /\ Goto(c, "leaving")
  /\ UNCHANGED <<limit, slots, subs, backlog, reader, peer, maxClients, stopping>>

----------------------------------------------------------------------------
(* The deferred function                                                   *)

\* Bus.Unsubscribe: out of the map, then drained.
LeaveBus(c) ==
  /\ pc[c] = "leaving"
  /\ subs' = subs \ {c}
  /\ backlog' = [backlog EXCEPT ![c] = 0]
  /\ Goto(c, "closing")
  /\ UNCHANGED <<limit, slots, reader, peer, maxClients, stopping>>

\* conn.Close, which also ends the reader.
CloseConn(c) ==
  /\ pc[c] = "closing"
  /\ reader' = [reader EXCEPT ![c] = "off"]
  /\ Goto(c, "releasing")
  /\ UNCHANGED <<limit, slots, subs, backlog, peer, maxClients, stopping>>

GiveBack(c) ==
  /\ pc[c] = "releasing"
  /\ slots' = slots - 1
  /\ Finish(c)
  /\ UNCHANGED <<limit, subs, backlog, reader, maxClients, stopping>>

----------------------------------------------------------------------------
(* The rest of the daemon, the operator and the clients                    *)

\* Bus.Publish: a subscriber whose buffer is full is skipped.
Publish ==
  /\ backlog' = [c \in Clients |->
       IF c \in subs /\ backlog[c] < Buffer THEN backlog[c] + 1 ELSE backlog[c]]
  /\ UNCHANGED <<pc, limit, slots, subs, reader, peer, maxClients, stopping>>

\* The client hangs up, its network stalls, or it recovers.
ChangePeer(c) ==
  /\ pc[c] # "idle" /\ peer[c] # "gone"
  /\ \E p \in {"reading", "stalled", "gone"} \ {peer[c]} : peer' = [peer EXCEPT ![c] = p]
  /\ UNCHANGED <<pc, limit, slots, subs, backlog, reader, maxClients, stopping>>

\* The setting is hot-reloaded.
ChangeLimit ==
  /\ \E n \in Limits \ {maxClients} : maxClients' = n
  /\ UNCHANGED <<pc, limit, slots, subs, backlog, reader, peer, stopping>>

\* The signal context is cancelled; the listener is closed with it.
Stop ==
  /\ ~stopping
  /\ stopping' = TRUE
  /\ UNCHANGED <<pc, limit, slots, subs, backlog, reader, peer, maxClients>>

Next ==
  \/ \E c \in Clients :
       \/ Arrive(c) \/ Claim(c) \/ Refuse(c) \/ Upgrade(c) \/ Join(c)
       \/ Relay(c) \/ PingFails(c) \/ ReaderEnds(c) \/ ReaderDone(c) \/ SayGoodbye(c)
       \/ LeaveBus(c) \/ CloseConn(c) \/ GiveBack(c)
       \/ ChangePeer(c)
  \/ Publish \/ ChangeLimit \/ Stop

Spec == Init /\ [][Next]_vars

(***************************************************************************)
(* A goroutine that can run does.  Go's select picks at random among its   *)
(* ready branches, so each of them is taken if it stays ready.  Nothing is *)
(* assumed of events, of clients or of the operator.                       *)
(***************************************************************************)
HandlerFairness(c) ==
  /\ WF_vars(Claim(c)) /\ WF_vars(Refuse(c)) /\ WF_vars(Upgrade(c)) /\ WF_vars(Join(c))
  /\ WF_vars(ReaderEnds(c)) /\ WF_vars(ReaderDone(c)) /\ WF_vars(SayGoodbye(c))
  /\ WF_vars(LeaveBus(c)) /\ WF_vars(CloseConn(c)) /\ WF_vars(GiveBack(c))

FairSpec == Spec /\ \A c \in Clients : HandlerFairness(c)

----------------------------------------------------------------------------
(* Properties                                                              *)

\* Every exit of the handler gives back what it took and nothing else: the
\* counter, the bus and the reader goroutines agree with the handlers that are
\* really there, whatever upgrade failed, client vanished or limit changed.
NothingLeaks ==
  /\ slots = Cardinality(Holding)
  /\ subs = Subscribed
  /\ \A c \in Clients : reader[c] = "off" <=> pc[c] \notin {"relaying", "leaving", "closing"}
  /\ \A c \in Clients \ subs : backlog[c] = 0

\* Concurrent upgrades never overrun the limit: whoever is let in finds, with
\* itself, no more clients than the limit it was measured by.
AdmittedWithinLimit ==
  [][\A c \in Clients :
       pc[c] = "admitting" /\ pc'[c] = "upgrading" => Cardinality(Admitted') <= limit[c]]_vars

\* A client that hung up, and every client once the daemon stops, is let go:
\* the handler ends, however many events are still published.
EveryHandlerEnds ==
  \A c \in Clients : pc[c] # "idle" /\ (stopping \/ peer[c] = "gone") ~> pc[c] = "idle"
=============================================================================
