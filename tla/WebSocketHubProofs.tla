------------------------- MODULE WebSocketHubProofs -------------------------
(***************************************************************************)
(* Proofs about WebSocketHub for any number of clients, limits and buffers *)
(* and any moment of a shutdown.                                           *)
(***************************************************************************)
EXTENDS WebSocketHub, FiniteSetTheorems, TLAPS

Unclaimed == {"idle", "admitting"}

TypeOK ==
  /\ pc \in [Clients -> Places]
  /\ limit \in [Clients -> Nat]
  /\ slots \in Int
  /\ subs \subseteq Clients
  /\ backlog \in [Clients -> Nat]
  /\ reader \in [Clients -> {"off", "reading", "done"}]
  /\ peer \in [Clients -> {"reading", "stalled", "gone"}]
  /\ maxClients \in Limits

\* NothingLeaks needs no more than the types to be inductive: each place says
\* what its handler holds, and each step changes the place and what is held.
IInv == TypeOK /\ NothingLeaks

----------------------------------------------------------------------------
(* Lemmas                                                                  *)

\* A slot is held from the claim until it is given back.
LEMMA HoldingFacts ==
  ASSUME TypeOK
  PROVE  /\ Holding = {c \in Clients : pc[c] \notin Unclaimed}
         /\ Admitted \subseteq Holding
         /\ IsFiniteSet(Holding) /\ IsFiniteSet(Admitted)
<1>1. Holding = {c \in Clients : pc[c] \notin Unclaimed}
  <2>1. \A c \in Clients : pc[c] \in Places
    BY DEF TypeOK
  <2> QED
    BY <2>1 DEF Holding, Admitted, At, Places, Unclaimed
<1>2. Admitted \subseteq Holding /\ Holding \subseteq Clients
  BY DEF Holding, Admitted, At
<1>3. IsFiniteSet(Holding) /\ IsFiniteSet(Admitted)
  BY <1>2, HubAssumption, FS_Subset DEF HubAssumption
<1> QED
  BY <1>1, <1>2, <1>3

\* The counter follows a handler that claims a slot.
LEMMA ClaimCounts ==
  ASSUME TypeOK, TypeOK', slots = Cardinality(Holding),
         NEW c \in Clients, NEW place \in Places \ Unclaimed,
         pc[c] \in Unclaimed, pc' = [pc EXCEPT ![c] = place], slots' = slots + 1
  PROVE  slots' = Cardinality(Holding')
<1>1. Holding' = {d \in Clients : pc'[d] \notin Unclaimed}
  BY HoldingFacts DEF Holding, Admitted, At, TypeOK, Unclaimed, Places
<1>2. Holding = {d \in Clients : pc[d] \notin Unclaimed} /\ IsFiniteSet(Holding)
  BY HoldingFacts
<1>3. Holding' = Holding \cup {c} /\ c \notin Holding
  BY <1>1, <1>2 DEF TypeOK
<1> QED
  BY <1>2, <1>3, FS_AddElement

\* It follows one that gives its slot back,
LEMMA ReturnCounts ==
  ASSUME TypeOK, TypeOK', slots = Cardinality(Holding),
         NEW c \in Clients, pc[c] \notin Unclaimed,
         pc' = [pc EXCEPT ![c] = "idle"], slots' = slots - 1
  PROVE  slots' = Cardinality(Holding')
<1>1. Holding' = {d \in Clients : pc'[d] \notin Unclaimed}
  BY HoldingFacts DEF Holding, Admitted, At, TypeOK, Unclaimed, Places
<1>2. Holding = {d \in Clients : pc[d] \notin Unclaimed} /\ IsFiniteSet(Holding)
  BY HoldingFacts
<1>3. Holding' = Holding \ {c} /\ c \in Holding
  BY <1>1, <1>2 DEF TypeOK, Unclaimed
<1> QED
  BY <1>2, <1>3, FS_RemoveElement

\* and it stays when a handler only moves on.
LEMMA MoveCounts ==
  ASSUME TypeOK, TypeOK', slots = Cardinality(Holding), slots' = slots,
         \A c \in Clients : pc[c] \in Unclaimed <=> pc'[c] \in Unclaimed
  PROVE  slots' = Cardinality(Holding')
<1>1. Holding' = {d \in Clients : pc'[d] \notin Unclaimed}
  BY HoldingFacts DEF Holding, Admitted, At, TypeOK, Unclaimed, Places
<1>2. Holding = {d \in Clients : pc[d] \notin Unclaimed}
  BY HoldingFacts
<1> QED
  BY <1>1, <1>2

----------------------------------------------------------------------------
(* Types                                                                   *)

\* One client's part of Next, and the rest.
Step(c) ==
  \/ Arrive(c) \/ Claim(c) \/ Refuse(c) \/ Upgrade(c) \/ Join(c)
  \/ Relay(c) \/ PingFails(c) \/ ReaderEnds(c) \/ ReaderDone(c) \/ SayGoodbye(c)
  \/ LeaveBus(c) \/ CloseConn(c) \/ GiveBack(c)
  \/ ChangePeer(c)

LEMMA InitInv == Init => IInv
<1> SUFFICES ASSUME Init PROVE IInv
  OBVIOUS
<1>1. TypeOK
  BY HubAssumption DEF Init, TypeOK, Places
<1>2. Holding = {} /\ Subscribed = {}
  BY DEF Init, Holding, Admitted, Subscribed, At, Places
<1>3. NothingLeaks
  BY <1>2, FS_EmptySet DEF Init, NothingLeaks
<1> QED
  BY <1>1, <1>3 DEF IInv

LEMMA TypeStep ==
  ASSUME TypeOK, [Next]_vars
  PROVE  TypeOK'
<1> USE DEF TypeOK
<1>1. ASSUME NEW c \in Clients, Step(c) PROVE TypeOK'
  <2>1. CASE Arrive(c)
    BY <2>1, HubAssumption DEF Arrive, Goto, Places, HubAssumption
  <2>2. CASE Claim(c)
    BY <2>2 DEF Claim, Goto, Places
  <2>3. CASE Refuse(c) \/ GiveBack(c)
    BY <2>3 DEF Refuse, GiveBack, Finish, Goto, Places
  <2>4. CASE Upgrade(c)
    BY <2>4 DEF Upgrade, Upgraded, Finish, Goto, Places
  <2>5. CASE Join(c)
    BY <2>5 DEF Join, Goto, Places
  <2>6. CASE Relay(c)
    BY <2>6 DEF Relay, Goto, Places
  <2>7. CASE PingFails(c) \/ ReaderDone(c) \/ SayGoodbye(c)
    BY <2>7 DEF PingFails, ReaderDone, SayGoodbye, Goto, Places
  <2>8. CASE ReaderEnds(c)
    BY <2>8 DEF ReaderEnds
  <2>9. CASE LeaveBus(c)
    BY <2>9 DEF LeaveBus, Goto, Places
  <2>10. CASE CloseConn(c)
    BY <2>10 DEF CloseConn, Goto, Places
  <2>11. CASE ChangePeer(c)
    BY <2>11 DEF ChangePeer
  <2> QED
    BY <1>1, <2>1, <2>2, <2>3, <2>4, <2>5, <2>6, <2>7, <2>8, <2>9, <2>10, <2>11 DEF Step
<1>2. CASE Publish
  BY <1>2 DEF Publish
<1>3. CASE ChangeLimit \/ Stop
  BY <1>3 DEF ChangeLimit, Stop
<1>4. CASE UNCHANGED vars
  BY <1>4 DEF vars
<1> QED
  BY <1>1, <1>2, <1>3, <1>4 DEF Next, Step

----------------------------------------------------------------------------
(* What is held                                                            *)

\* The part of NothingLeaks that is not about the counter.
Attached ==
  /\ subs = Subscribed
  /\ \A c \in Clients : reader[c] = "off" <=> pc[c] \notin {"relaying", "leaving", "closing"}
  /\ \A c \in Clients \ subs : backlog[c] = 0

LEMMA AttachedStep ==
  ASSUME TypeOK, TypeOK', Attached, [Next]_vars
  PROVE  Attached'
<1> USE DEF TypeOK, Attached, Subscribed, At
<1>1. ASSUME NEW c \in Clients, Step(c) PROVE Attached'
  <2>1. CASE Arrive(c)
    BY <1>1, <2>1 DEF Arrive, Goto
  <2>2. CASE Claim(c)
    BY <1>1, <2>2 DEF Claim, Goto
  <2>3. CASE Refuse(c) \/ GiveBack(c)
    BY <1>1, <2>3 DEF Refuse, GiveBack, Finish, Goto
  <2>4. CASE Upgrade(c)
    BY <1>1, <2>4 DEF Upgrade, Upgraded, Finish, Goto
  <2>5. CASE Join(c)
    BY <1>1, <2>5 DEF Join, Goto
  <2>6. CASE Relay(c)
    BY <1>1, <2>6 DEF Relay, Goto
  <2>7. CASE PingFails(c) \/ ReaderDone(c) \/ SayGoodbye(c)
    BY <1>1, <2>7 DEF PingFails, ReaderDone, SayGoodbye, Goto
  <2>8. CASE ReaderEnds(c)
    BY <1>1, <2>8 DEF ReaderEnds
  <2>9. CASE LeaveBus(c)
    BY <1>1, <2>9 DEF LeaveBus, Goto
  <2>10. CASE CloseConn(c)
    BY <1>1, <2>10 DEF CloseConn, Goto
  <2>11. CASE ChangePeer(c)
    BY <1>1, <2>11 DEF ChangePeer
  <2> QED
    BY <1>1, <2>1, <2>2, <2>3, <2>4, <2>5, <2>6, <2>7, <2>8, <2>9, <2>10, <2>11 DEF Step
<1>2. CASE Publish
  BY <1>2 DEF Publish
<1>3. CASE ChangeLimit \/ Stop
  BY <1>3 DEF ChangeLimit, Stop
<1>4. CASE UNCHANGED vars
  BY <1>4 DEF vars
<1> QED
  BY <1>1, <1>2, <1>3, <1>4 DEF Next, Step

LEMMA CounterStep ==
  ASSUME TypeOK, TypeOK', slots = Cardinality(Holding), [Next]_vars
  PROVE  slots' = Cardinality(Holding')
<1>1. ASSUME NEW c \in Clients, Step(c) PROVE slots' = Cardinality(Holding')
  <2>1. CASE Claim(c)
    BY <1>1, <2>1, ClaimCounts DEF Claim, Goto, Places, Unclaimed
  <2>2. CASE Refuse(c) \/ GiveBack(c)
    BY <1>1, <2>2, ReturnCounts DEF Refuse, GiveBack, Finish, Goto, Unclaimed
  <2>3. CASE Upgrade(c)
    <3>1. CASE Upgraded(c)
      BY <1>1, <2>3, <3>1, MoveCounts DEF Upgrade, Upgraded, Goto, Unclaimed, TypeOK
    <3>2. CASE Finish(c) /\ slots' = slots - 1
      BY <1>1, <2>3, <3>2, ReturnCounts DEF Upgrade, Finish, Goto, Unclaimed
    <3> QED
      BY <2>3, <3>1, <3>2 DEF Upgrade
  <2>4. CASE ~(Claim(c) \/ Refuse(c) \/ GiveBack(c) \/ Upgrade(c))
    <3>1. slots' = slots
      BY <1>1, <2>4 DEF Step, Arrive, Join, Relay, PingFails, ReaderEnds, ReaderDone,
                        SayGoodbye, LeaveBus, CloseConn, ChangePeer
    <3>2. \A d \in Clients : pc[d] \in Unclaimed <=> pc'[d] \in Unclaimed
      BY <1>1, <2>4 DEF Step, Arrive, Join, Relay, PingFails, ReaderEnds, ReaderDone,
                        SayGoodbye, LeaveBus, CloseConn, ChangePeer, Goto, TypeOK, Unclaimed
    <3> QED
      BY <3>1, <3>2, MoveCounts
  <2> QED
    BY <1>1, <2>1, <2>2, <2>3, <2>4
<1>2. CASE Publish \/ ChangeLimit \/ Stop \/ UNCHANGED vars
  BY <1>2, MoveCounts DEF Publish, ChangeLimit, Stop, vars
<1> QED
  BY <1>1, <1>2 DEF Next, Step

LEMMA InvStep == IInv /\ [Next]_vars => IInv'
<1> SUFFICES ASSUME IInv, [Next]_vars PROVE IInv'
  OBVIOUS
<1>1. TypeOK'
  BY TypeStep DEF IInv
<1>2. Attached'
  BY <1>1, AttachedStep DEF IInv, NothingLeaks, Attached
<1>3. slots' = Cardinality(Holding')
  BY <1>1, CounterStep DEF IInv, NothingLeaks
<1> QED
  BY <1>1, <1>2, <1>3 DEF IInv, NothingLeaks, Attached

----------------------------------------------------------------------------
(* Theorems                                                                *)

\* Whatever clients, upgrades and the operator do, the slot counter, the bus
\* and the readers agree with the handlers that are there.
THEOREM NothingLeaksHolds == Spec => []NothingLeaks
<1>1. Spec => []IInv
  BY InitInv, InvStep, PTL DEF Spec
<1>2. IInv => NothingLeaks
  BY DEF IInv
<1> QED
  BY <1>1, <1>2, PTL

\* Only the claim lets a handler in, and what it counted includes itself and
\* everyone who is in.
LEMMA AdmissionStep ==
  ASSUME IInv, IInv', [Next]_vars, NEW c \in Clients,
         pc[c] = "admitting", pc'[c] = "upgrading"
  PROVE  Cardinality(Admitted') <= limit[c]
<1>1. Claim(c)
  <2>1. PICK d \in Clients : Step(d)
    BY DEF Next, Step, vars, Publish, ChangeLimit, Stop
  <2>2. d = c
    BY <2>1 DEF IInv, TypeOK, Step, Arrive, Claim, Refuse, Upgrade, Upgraded, Join, Relay, PingFails,
       ReaderEnds, ReaderDone, SayGoodbye, LeaveBus, CloseConn, GiveBack, ChangePeer, Finish, Goto
  <2> QED
    BY <2>1, <2>2 DEF IInv, TypeOK, Step, Arrive, Refuse, Upgrade, Join, Relay, PingFails,
       ReaderEnds, ReaderDone, SayGoodbye, LeaveBus, CloseConn, GiveBack, ChangePeer, Goto
<1>2. slots' = slots + 1 /\ ~(slots + 1 > limit[c])
  BY <1>1 DEF Claim, Goto, IInv, TypeOK
<1>3. Cardinality(Holding') <= limit[c]
  BY <1>2 DEF IInv, NothingLeaks, TypeOK
<1>4. Admitted' \subseteq Holding' /\ IsFiniteSet(Holding') /\ IsFiniteSet(Admitted')
  <2>1. Admitted' \subseteq Holding' /\ Holding' \subseteq Clients
    BY DEF Holding, Admitted, At
  <2> QED
    BY <2>1, HubAssumption, FS_Subset DEF HubAssumption
<1>5. /\ Cardinality(Admitted') <= Cardinality(Holding')
      /\ Cardinality(Admitted') \in Nat /\ Cardinality(Holding') \in Nat
  BY <1>4, FS_Subset, FS_CardinalityType
<1> QED
  BY <1>3, <1>5 DEF IInv, TypeOK

\* However many upgrades race, and however the limit moves meanwhile, whoever
\* is let in is within the limit it read.
THEOREM AdmittedWithinLimitHolds == Spec => AdmittedWithinLimit
<1>1. IInv /\ IInv' /\ [Next]_vars =>
        [\A c \in Clients : pc[c] = "admitting" /\ pc'[c] = "upgrading"
                              => Cardinality(Admitted') <= limit[c]]_vars
  BY AdmissionStep
<1>2. Spec => []IInv
  BY InitInv, InvStep, PTL DEF Spec
<1> QED
  BY <1>1, <1>2, PTL DEF Spec, AdmittedWithinLimit
=============================================================================
