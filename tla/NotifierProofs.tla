-------------------------- MODULE NotifierProofs ---------------------------
(***************************************************************************)
(* Proofs about Notifier for any loops, buffer and queue capacities,       *)
(* number of attempts and moment of a shutdown.                            *)
(***************************************************************************)
EXTENDS Notifier, SequenceTheorems, TLAPS

Events == Transitions \cup {Metric}

TypeOK ==
  /\ stopped \in BOOLEAN
  /\ main \in {"serving", "sched.Wait", "notifier.Wait", "exited"}
  /\ loop \in [Loops -> {"waiting", "publishing", "exited"}]
  /\ raised \in [Loops -> 0..MaxRaised]
  /\ \A l \in Loops : loop[l] = "publishing" => raised[l] # 0
  /\ subscribed \in BOOLEAN
  /\ buffer \in Seq(Events)
  /\ url \in BOOLEAN
  /\ watcher \in {"watching", "unsubscribing", "closing", "exited"}
  /\ draining \in BOOLEAN
  /\ queue \in Seq(Transitions)
  /\ deliverer \in {"receiving", "posting", "backoff", "exited"}
  /\ deliverer \in {"posting", "backoff"} => current \in Transitions
  /\ deliverer \in {"receiving", "exited"} => current = <<>>
  /\ attempts \in 1..Attempts /\ attempt \in 1..attempts
  /\ deliverer = "backoff" => attempt < attempts
  /\ late \in [Transitions -> Nat]
  /\ newest \in [Loops -> 0..MaxRaised]
  /\ fate \in [Transitions -> Fates]
  /\ drainPosts \in Nat

----------------------------------------------------------------------------
(* Lemmas                                                                  *)

\* The transitions of a sequence of events are in each loop's order.
Sorted(s) ==
  \A i, j \in 1..Len(s) :
    i < j /\ s[i] \in Transitions /\ s[j] \in Transitions /\ s[i][1] = s[j][1]
    => s[i][2] < s[j][2]

\* Each loop's transitions in S precede its transitions in T.
Ahead(S, T) ==
  \A a \in S \cap Transitions, b \in T \cap Transitions :
    a[1] = b[1] => a[2] < b[2]

LEMMA MetricIsNone == Metric \notin Transitions /\ <<>> \notin Transitions
BY DEF Metric, Transitions

LEMMA TransitionParts ==
  \A t \in Transitions : t[1] \in Loops /\ t[2] \in 1..MaxRaised /\ t = <<t[1], t[2]>>
BY DEF Transitions

LEMMA QueueOfEvents ==
  ASSUME NEW s \in Seq(Transitions)
  PROVE  s \in Seq(Events)
BY SeqMonotonic DEF Events

LEMMA SequenceAppended ==
  ASSUME NEW s \in Seq(Events), NEW e \in Events
  PROVE  /\ ToSet(Append(s, e)) = ToSet(s) \cup {e}
         /\ Len(Append(s, e)) = Len(s) + 1
         /\ Sorted(s) /\ Ahead(ToSet(s), {e}) => Sorted(Append(s, e))
<1> DEFINE t == Append(s, e)
<1>1. /\ t \in Seq(Events) /\ Len(t) = Len(s) + 1
      /\ \A i \in 1..Len(s) : t[i] = s[i]
      /\ t[Len(s) + 1] = e
  BY AppendProperties
<1>2. /\ Len(s) \in Nat /\ DOMAIN s = 1..Len(s) /\ DOMAIN t = 1..(Len(s) + 1)
  BY <1>1, LenProperties
<1> HIDE DEF t
<1>3. ToSet(t) = ToSet(s) \cup {e}
  <2>1. DOMAIN t = DOMAIN s \cup {Len(s) + 1}
    BY <1>2
  <2> QED
    BY <1>1, <1>2, <2>1 DEF ToSet
<1>4. ASSUME Sorted(s), Ahead(ToSet(s), {e}) PROVE Sorted(t)
  <2> SUFFICES ASSUME NEW i \in 1..Len(t), NEW j \in 1..Len(t), i < j,
                      t[i] \in Transitions, t[j] \in Transitions, t[i][1] = t[j][1]
               PROVE  t[i][2] < t[j][2]
    BY DEF Sorted
  <2>1. i \in 1..Len(s) /\ t[i] = s[i] /\ s[i] \in ToSet(s)
    BY <1>1, <1>2 DEF ToSet
  <2>2. CASE j \in 1..Len(s)
    BY <1>1, <1>4, <2>1, <2>2 DEF Sorted
  <2>3. CASE j = Len(s) + 1
    BY <1>1, <1>4, <2>1, <2>3 DEF Ahead
  <2> QED
    BY <1>1, <1>2, <2>2, <2>3
<1> QED
  BY <1>1, <1>3, <1>4 DEF t

LEMMA HeadTaken ==
  ASSUME NEW s \in Seq(Events), s # <<>>
  PROVE  /\ Head(s) \in ToSet(s)
         /\ ToSet(s) = {Head(s)} \cup ToSet(Tail(s))
         /\ Len(Tail(s)) = Len(s) - 1 /\ Len(s) \in Nat \ {0}
         /\ Sorted(s) => Sorted(Tail(s)) /\ Ahead({Head(s)}, ToSet(Tail(s)))
<1> DEFINE t == Tail(s)
<1>1. /\ t \in Seq(Events) /\ Len(t) = Len(s) - 1
      /\ \A i \in 1..Len(t) : t[i] = s[i + 1]
  BY HeadTailProperties
<1>2. Len(s) \in Nat \ {0} /\ DOMAIN s = 1..Len(s) /\ DOMAIN t = 1..(Len(s) - 1)
  BY <1>1, EmptySeq, LenProperties
<1>3. Head(s) = s[1]
  OBVIOUS
<1> HIDE DEF t
<1>4. ToSet(s) = {Head(s)} \cup ToSet(t)
  <2>1. ASSUME NEW i \in DOMAIN s PROVE s[i] \in {Head(s)} \cup ToSet(t)
    <3>1. CASE i = 1
      BY <1>3, <3>1
    <3>2. CASE i # 1
      <4>1. i - 1 \in DOMAIN t /\ t[i - 1] = s[i]
        BY <1>1, <1>2, <3>2
      <4> QED
        BY <4>1 DEF ToSet
    <3> QED
      BY <3>1, <3>2
  <2>2. ASSUME NEW i \in DOMAIN t PROVE t[i] \in ToSet(s)
    <3>1. i + 1 \in DOMAIN s /\ t[i] = s[i + 1]
      BY <1>1, <1>2
    <3> QED
      BY <3>1 DEF ToSet
  <2>3. Head(s) \in ToSet(s)
    BY <1>2, <1>3 DEF ToSet
  <2> QED
    BY <2>1, <2>2, <2>3 DEF ToSet
<1>5. ASSUME Sorted(s) PROVE Sorted(t)
  BY <1>1, <1>2, <1>5 DEF Sorted
<1>6. ASSUME Sorted(s) PROVE Ahead({Head(s)}, ToSet(t))
  <2> SUFFICES ASSUME NEW i \in DOMAIN t, s[1] \in Transitions, t[i] \in Transitions,
                      s[1][1] = t[i][1]
               PROVE  s[1][2] < t[i][2]
    BY <1>3 DEF Ahead, ToSet
  <2>1. i + 1 \in 1..Len(s) /\ 1 \in 1..Len(s) /\ 1 < i + 1 /\ t[i] = s[i + 1]
    BY <1>1, <1>2
  <2> QED
    BY <1>6, <2>1 DEF Sorted
<1> QED
  BY <1>1, <1>2, <1>4, <1>5, <1>6 DEF t

----------------------------------------------------------------------------
(* Types                                                                   *)

LEMMA InitType == Init => TypeOK
<1> SUFFICES ASSUME Init PROVE TypeOK
  OBVIOUS
<1>1. <<>> \in Seq(Events) /\ <<>> \in Seq(Transitions)
  BY EmptySeq
<1>2. /\ loop \in [Loops -> {"waiting", "publishing", "exited"}]
      /\ raised \in [Loops -> 0..MaxRaised] /\ newest \in [Loops -> 0..MaxRaised]
      /\ fate \in [Transitions -> Fates] /\ late \in [Transitions -> Nat]
      /\ \A l \in Loops : loop[l] # "publishing"
  BY NotifierAssumption DEF Init, Fates
<1>3. attempts \in 1..Attempts /\ attempt \in 1..attempts
  BY NotifierAssumption DEF Init
<1>4. buffer \in Seq(Events) /\ queue \in Seq(Transitions)
  BY <1>1 DEF Init
<1> QED
  BY <1>2, <1>3, <1>4 DEF Init, TypeOK

LEMMA PublishType ==
  ASSUME TypeOK, NEW e \in Events, Publish(e)
  PROVE  buffer' \in Seq(Events)
BY AppendProperties DEF TypeOK, Publish

LEMMA StepType == TypeOK /\ [Next]_vars => TypeOK'
<1> SUFFICES ASSUME TypeOK, [Next]_vars PROVE TypeOK'
  OBVIOUS
<1> USE DEF TypeOK, busVars, delivery, history, endpoint
<1>0. Metric \in Events /\ Transitions \subseteq Events
  BY DEF Events
<1>1. ASSUME NEW l \in Loops, Raise(l) PROVE TypeOK'
  BY <1>1, NotifierAssumption DEF Raise
<1>2. ASSUME NEW l \in Loops, PublishAlert(l) PROVE TypeOK'
  <2> DEFINE t == <<l, raised[l]>>
  <2>1. t \in Transitions
    BY <1>2, NotifierAssumption DEF PublishAlert, Transitions
  <2>2. buffer' \in Seq(Events)
    BY <1>0, <1>2, <2>1, PublishType DEF PublishAlert
  <2>3. fate' \in [Transitions -> Fates]
    BY <1>2, <2>1 DEF PublishAlert, Fates
  <2> QED
    BY <1>2, <2>2, <2>3 DEF PublishAlert
<1>3. ASSUME NEW l \in Loops, PublishMetric(l) PROVE TypeOK'
  <2>1. buffer' \in Seq(Events)
    BY <1>0, <1>3, PublishType DEF PublishMetric
  <2> QED
    BY <1>3, <2>1 DEF PublishMetric
<1>4. ASSUME NEW l \in Loops, ExitLoop(l) PROVE TypeOK'
  BY <1>4 DEF ExitLoop
<1>5. ASSUME Receive PROVE TypeOK'
  <2> DEFINE e == Head(buffer)
  <2>1. buffer' \in Seq(Events) /\ e \in Events
    BY <1>5, HeadTailProperties DEF Receive
  <2>2. e # Metric => e \in Transitions
    BY <2>1 DEF Events
  <2>3. queue' \in Seq(Transitions) /\ fate' \in [Transitions -> Fates]
    <3>1. CASE e = Metric
      BY <1>5, <3>1 DEF Receive
    <3>2. CASE e # Metric
      <4>1. Append(queue, e) \in Seq(Transitions)
        BY <2>2, <3>2, AppendProperties
      <4>2. queue' \in {queue, Append(queue, e)}
        BY <1>5, <3>2 DEF Receive
      <4>3. \E f \in {"disabled", "queued", "overflow"} : fate' = [fate EXCEPT ![e] = f]
        BY <1>5, <3>2 DEF Receive
      <4>4. fate' \in [Transitions -> Fates]
        BY <4>3 DEF Fates
      <4> QED
        BY <4>1, <4>2, <4>4
    <3> QED
      BY <3>1, <3>2
  <2> QED
    BY <1>5, <2>1, <2>3 DEF Receive
<1>6. ASSUME StartDraining \/ CloseQueue \/ Stop \/ LoopsDone \/ NotifierDone \/ ChangeUrl
      PROVE  TypeOK'
  <2>1. CASE StartDraining
    BY <2>1 DEF StartDraining
  <2>2. CASE CloseQueue
    BY <2>2 DEF CloseQueue
  <2>3. CASE Stop
    BY <2>3 DEF Stop
  <2>4. CASE LoopsDone
    BY <2>4 DEF LoopsDone
  <2>5. CASE NotifierDone
    BY <2>5 DEF NotifierDone
  <2>6. CASE ChangeUrl
    BY <2>6 DEF ChangeUrl
  <2> QED
    BY <1>6, <2>1, <2>2, <2>3, <2>4, <2>5, <2>6
<1>7. ASSUME WatcherUnsubscribe PROVE TypeOK'
  BY <1>7, EmptySeq DEF WatcherUnsubscribe, Unsubscribe
<1>8. ASSUME Take PROVE TypeOK'
  <2>1. queue' \in Seq(Transitions) /\ Head(queue) \in Transitions
    BY <1>8, HeadTailProperties DEF Take
  <2>2. CASE url
    BY <1>8, <2>1, <2>2, NotifierAssumption DEF Take
  <2>3. CASE ~url
    BY <1>8, <2>1, <2>3 DEF Take, Fates
  <2> QED
    BY <2>2, <2>3
<1>9. ASSUME Post PROVE TypeOK'
  <2>1. current \in Transitions /\ current[1] \in Loops /\ current[2] \in 0..MaxRaised
    BY <1>9, TransitionParts, NotifierAssumption DEF Post
  <2>2. newest' \in [Loops -> 0..MaxRaised] /\ late' \in [Transitions -> Nat]
    <3>1. CASE Reached
      BY <2>1, <3>1 DEF Reached
    <3>2. CASE GivenUp
      BY <2>1, <3>2 DEF GivenUp
    <3> QED
      BY <1>9, <3>1, <3>2 DEF Post
  <2>3. fate' \in [Transitions -> Fates] /\ drainPosts' \in Nat
    BY <1>9, <2>1 DEF Post, Fates
  <2>4. \/ deliverer' = "receiving" /\ current' = <<>>
        \/ deliverer' = "backoff" /\ current' = current /\ attempt < attempts
    BY <1>9 DEF Post
  <2> QED
    BY <1>9, <2>1, <2>2, <2>3, <2>4 DEF Post
<1>10. ASSUME Retry PROVE TypeOK'
  BY <1>10, NotifierAssumption DEF Retry
<1>11. ASSUME ExitDeliverer PROVE TypeOK'
  BY <1>11 DEF ExitDeliverer
<1>12. ASSUME UNCHANGED vars PROVE TypeOK'
  BY <1>12 DEF vars
<1>13. ASSUME NEW t \in Transitions, Arrive(t) PROVE TypeOK'
  <2>1. t[1] \in Loops /\ t[2] \in 0..MaxRaised
    BY TransitionParts, NotifierAssumption
  <2>2. newest' \in [Loops -> 0..MaxRaised] /\ late' \in [Transitions -> Nat]
    BY <1>13, <2>1 DEF Arrive
  <2> QED
    BY <1>13, <2>2 DEF Arrive
<1> QED
  BY <1>1, <1>2, <1>3, <1>4, <1>5, <1>6, <1>7, <1>8, <1>9, <1>10, <1>11, <1>12, <1>13
  DEF Next, Exited

(***************************************************************************)
(* Every variable has its type; what the deliverer works on is a           *)
(* transition, and it never exceeds the attempts it was granted.           *)
(***************************************************************************)
THEOREM TypeCorrect == Spec => []TypeOK
BY InitType, StepType, PTL DEF Spec

----------------------------------------------------------------------------
(* The order of delivery                                                   *)

\* The last transition of the loop that Publish has seen.
Passed(l) == IF loop[l] = "publishing" THEN raised[l] - 1 ELSE raised[l]

\* What has still to reach the deliverer.
Waiting == ToSet(queue) \cup ToSet(buffer)

(***************************************************************************)
(* From the loop to the endpoint, a loop's transitions stand in one line:  *)
(* those that reached the endpoint or may do so late, the one being        *)
(* delivered, the queue, the buffer and the one to be published.           *)
(***************************************************************************)
InLine ==
  /\ Sorted(queue) /\ Sorted(buffer)
  /\ Ahead(ToSet(queue), ToSet(buffer))
  /\ Ahead({current}, Waiting)

Between ==
  /\ \A t \in Waiting \cap Transitions : newest[t[1]] < t[2] /\ t[2] <= Passed(t[1])
  /\ current \in Transitions =>
       newest[current[1]] <= current[2] /\ current[2] <= Passed(current[1])
  /\ \A l \in Loops : newest[l] <= Passed(l)

\* What may still arrive was posted before what waits, and not after current.
Outstanding == {t \in Transitions : late[t] > 0}

LateBehind ==
  /\ Ahead(Outstanding, Waiting)
  /\ \A t \in Outstanding :
       /\ t[2] <= Passed(t[1])
       /\ current \in Transitions /\ current[1] = t[1] => t[2] <= current[2]

OrderInv == InLine /\ Between /\ LateBehind

LEMMA EmptySorted == Sorted(<<>>) /\ ToSet(<<>>) = {}
BY DEF Sorted, ToSet

\* A step after which nothing waits that did not, and nothing was raised.
LEMMA FewerWait ==
  ASSUME OrderInv, Sorted(queue'), Sorted(buffer'),
         ToSet(queue') \subseteq ToSet(queue), ToSet(buffer') \subseteq ToSet(buffer),
         UNCHANGED endpoint, current' = current \/ current' \notin Transitions,
         \A l \in Loops : Passed(l)' = Passed(l)
  PROVE  OrderInv'
<1>1. Waiting' \subseteq Waiting
  BY DEF Waiting
<1>2. InLine'
  BY <1>1 DEF OrderInv, InLine, Ahead
<1>3. Between'
  BY <1>1, TransitionParts DEF OrderInv, Between, endpoint
<1>4. LateBehind'
  BY <1>1, TransitionParts DEF OrderInv, LateBehind, Outstanding, Ahead, endpoint
<1> QED
  BY <1>2, <1>3, <1>4 DEF OrderInv

LEMMA StepOrder == TypeOK /\ OrderInv /\ [Next]_vars => OrderInv'
<1> SUFFICES ASSUME TypeOK, OrderInv, [Next]_vars PROVE OrderInv'
  OBVIOUS
<1> USE DEF busVars, delivery, history, endpoint
<1>0. /\ loop \in [Loops -> {"waiting", "publishing", "exited"}]
      /\ raised \in [Loops -> Nat] /\ newest \in [Loops -> Nat]
      /\ \A l \in Loops : Passed(l) \in Nat
      /\ buffer \in Seq(Events) /\ queue \in Seq(Events)
      /\ Metric \in Events /\ Transitions \subseteq Events
      /\ \A t \in Transitions : t[1] \in Loops /\ t[2] \in Nat
      /\ Metric \notin Transitions /\ <<>> \notin Transitions
  <2>1. raised \in [Loops -> Nat] /\ newest \in [Loops -> Nat]
    BY NotifierAssumption DEF TypeOK
  <2>2. \A t \in Transitions : t[1] \in Loops /\ t[2] \in Nat
    BY TransitionParts, NotifierAssumption
  <2> QED
    BY <2>1, <2>2, QueueOfEvents, MetricIsNone DEF TypeOK, Events, Passed
<1>a. ASSUME UNCHANGED <<buffer, queue, current, endpoint>>,
             \A l \in Loops : Passed(l)' = Passed(l)
      PROVE  OrderInv'
  BY <1>a, FewerWait DEF OrderInv, InLine
<1>1. ASSUME NEW l \in Loops, Raise(l) PROVE OrderInv'
  <2>1. \A m \in Loops : Passed(m)' = Passed(m)
    BY <1>0, <1>1 DEF Raise, Passed
  <2> QED
    BY <1>1, <1>a, <2>1 DEF Raise
<1>2. ASSUME NEW l \in Loops, PublishAlert(l) PROVE OrderInv'
  <2> DEFINE e == <<l, raised[l]>>
  <2>0. UNCHANGED <<queue, current, late, newest, raised>> /\ loop[l] = "publishing"
    BY <1>2 DEF PublishAlert
  <2>1. e \in Transitions /\ e[1] = l /\ e[2] = raised[l]
    BY <1>2, NotifierAssumption DEF PublishAlert, TypeOK, Transitions
  <2>2. /\ Passed(l) = e[2] - 1 /\ Passed(l)' = e[2]
        /\ \A m \in Loops : m # l => Passed(m)' = Passed(m)
    BY <1>0, <1>2, <2>1 DEF PublishAlert, Passed
  <2>3. buffer' \in {buffer, Append(buffer, e)}
    BY <1>2 DEF PublishAlert, Publish
  <2> HIDE DEF e
  <2>4. /\ Ahead(ToSet(buffer), {e}) /\ Ahead(ToSet(queue), {e}) /\ Ahead({current}, {e})
        /\ newest[l] < e[2]
    BY <1>0, <2>1, <2>2 DEF OrderInv, Between, Ahead, Waiting
  <2>x. Ahead(Outstanding, {e})
    BY <1>0, <2>1, <2>2 DEF OrderInv, LateBehind, Ahead, Outstanding
  <2>5. /\ Sorted(buffer') /\ ToSet(buffer') \subseteq ToSet(buffer) \cup {e}
    BY <1>0, <2>1, <2>3, <2>4, SequenceAppended DEF OrderInv, InLine
  <2>6. Waiting' \subseteq Waiting \cup {e}
    BY <2>0, <2>5 DEF Waiting
  <2>7. InLine'
    BY <2>0, <2>4, <2>5, <2>6 DEF OrderInv, InLine, Ahead
  <2>8. \A m \in Loops : Passed(m) <= Passed(m)' /\ Passed(m)' \in Nat
    BY <1>0, <1>2, <2>1 DEF PublishAlert, Passed
  <2>9. Between'
    <3>1. \A t \in Waiting \cap Transitions : newest[t[1]] < t[2] /\ t[2] <= Passed(t[1])'
      BY <1>0, <2>8 DEF OrderInv, Between
    <3>2. \A t : t = e => newest[t[1]] < t[2] /\ t[2] <= Passed(t[1])'
      BY <1>0, <1>2, <2>1, <2>4 DEF PublishAlert, Passed
    <3>3. \A t \in Waiting' \cap Transitions : newest[t[1]] < t[2] /\ t[2] <= Passed(t[1])'
      BY <2>6, <3>1, <3>2
    <3>4. /\ current \in Transitions =>
               newest[current[1]] <= current[2] /\ current[2] <= Passed(current[1])'
          /\ \A m \in Loops : newest[m] <= Passed(m)'
      <4>1. \A m \in Loops, n \in Nat : n <= Passed(m) => n <= Passed(m)'
        BY <1>0, <2>8
      <4>2. \A m \in Loops : newest[m] <= Passed(m)'
        BY <1>0, <4>1 DEF OrderInv, Between
      <4>3. \A t \in Transitions : t[2] <= Passed(t[1]) => t[2] <= Passed(t[1])'
        BY <1>0, <4>1
      <4>4. current \in Transitions =>
               newest[current[1]] <= current[2] /\ current[2] <= Passed(current[1])
        BY DEF OrderInv, Between
      <4>5. \A t : t = current /\ t \in Transitions =>
              newest[t[1]] <= t[2] /\ t[2] <= Passed(t[1])'
        BY <4>3, <4>4
      <4> QED
        BY <2>0, <4>2, <4>5
    <3> QED
      BY <2>0, <3>3, <3>4 DEF Between
  <2>10. LateBehind'
    <3>1. Outstanding' = Outstanding
      BY <2>0 DEF Outstanding
    <3>2. Ahead(Outstanding, Waiting')
      BY <2>6, <2>x DEF OrderInv, LateBehind, Ahead
    <3>3. \A t \in Outstanding : t[2] <= Passed(t[1])'
      BY <1>0, <2>8 DEF OrderInv, LateBehind, Outstanding
    <3> QED
      BY <2>0, <3>1, <3>2, <3>3 DEF OrderInv, LateBehind
  <2> QED
    BY <2>7, <2>9, <2>10 DEF OrderInv
<1>3. ASSUME NEW l \in Loops, PublishMetric(l) PROVE OrderInv'
  <2>0. /\ UNCHANGED <<queue, current, late, newest, raised, loop>>
        /\ buffer' \in {buffer, Append(buffer, Metric)}
    BY <1>3 DEF PublishMetric, Publish
  <2>1. Ahead(ToSet(buffer), {Metric})
    BY <1>0 DEF Ahead
  <2>2. Sorted(buffer') /\ ToSet(buffer') \subseteq ToSet(buffer) \cup {Metric}
    BY <1>0, <2>0, <2>1, SequenceAppended DEF OrderInv, InLine
  <2>3. Waiting' \subseteq Waiting \cup {Metric} /\ \A m : Passed(m)' = Passed(m)
    BY <2>0, <2>2 DEF Waiting, Passed
  <2>4. InLine'
    BY <1>0, <2>0, <2>2, <2>3 DEF OrderInv, InLine, Ahead
  <2>5. Between'
    BY <1>0, <2>0, <2>3 DEF OrderInv, Between
  <2>6. LateBehind'
    <3>1. Outstanding' = Outstanding
      BY <2>0 DEF Outstanding
    <3> QED
      BY <1>0, <2>0, <2>3, <3>1 DEF OrderInv, LateBehind, Ahead
  <2> QED
    BY <2>4, <2>5, <2>6 DEF OrderInv
<1>4. ASSUME NEW l \in Loops, ExitLoop(l) PROVE OrderInv'
  <2>1. \A m \in Loops : Passed(m)' = Passed(m)
    BY <1>0, <1>4 DEF ExitLoop, Passed
  <2> QED
    BY <1>4, <1>a, <2>1 DEF ExitLoop
<1>5. ASSUME Receive PROVE OrderInv'
  <2> DEFINE e == Head(buffer)
  <2>0. /\ UNCHANGED <<current, late, newest, raised, loop>> /\ buffer # <<>>
        /\ buffer' = Tail(buffer)
        /\ queue' = queue \/ (queue' = Append(queue, e) /\ e # Metric)
    BY <1>5 DEF Receive
  <2>1. /\ e \in Events /\ e \in ToSet(buffer)
        /\ ToSet(buffer) = {e} \cup ToSet(buffer')
        /\ Sorted(buffer') /\ Ahead({e}, ToSet(buffer'))
    BY <1>0, <2>0, HeadTaken, HeadTailProperties DEF OrderInv, InLine
  <2>2. \A m : Passed(m)' = Passed(m)
    BY <2>0 DEF Passed
  <2>3. CASE queue' = queue
    BY <2>0, <2>1, <2>2, <2>3, FewerWait DEF OrderInv, InLine
  <2>4. CASE queue' = Append(queue, e)
    <3>1. Ahead(ToSet(queue), {e})
      BY <2>1 DEF OrderInv, InLine, Ahead
    <3>2. Sorted(queue') /\ ToSet(queue') = ToSet(queue) \cup {e}
      BY <1>0, <2>1, <2>4, <3>1, SequenceAppended DEF OrderInv, InLine
    <3>3. Waiting' = Waiting
      BY <2>1, <3>2 DEF Waiting
    <3>4. Ahead(ToSet(queue'), ToSet(buffer'))
      BY <2>1, <3>2 DEF OrderInv, InLine, Ahead
    <3>5. InLine' /\ Between'
      BY <2>0, <2>1, <2>2, <3>2, <3>3, <3>4 DEF OrderInv, InLine, Between
    <3>6. LateBehind'
      BY <2>0, <2>2, <3>3 DEF OrderInv, LateBehind, Outstanding
    <3> QED
      BY <3>5, <3>6 DEF OrderInv
  <2> QED
    BY <2>0, <2>3, <2>4
<1>6. ASSUME StartDraining \/ CloseQueue \/ Retry \/ ExitDeliverer \/ Stop
             \/ LoopsDone \/ NotifierDone \/ ChangeUrl
      PROVE  OrderInv'
  <2>1. UNCHANGED <<buffer, queue, current, endpoint, raised, loop>>
    BY <1>6 DEF StartDraining, CloseQueue, Retry, ExitDeliverer, Stop, LoopsDone,
                NotifierDone, ChangeUrl
  <2> QED
    BY <1>a, <2>1 DEF Passed
<1>7. ASSUME WatcherUnsubscribe PROVE OrderInv'
  <2>1. UNCHANGED <<queue, current, endpoint, raised, loop>> /\ buffer' = <<>>
    BY <1>7 DEF WatcherUnsubscribe, Unsubscribe
  <2> QED
    BY <2>1, EmptySorted, FewerWait DEF Passed, OrderInv, InLine
<1>8. ASSUME Take PROVE OrderInv'
  <2> DEFINE e == Head(queue)
  <2>0. /\ UNCHANGED <<buffer, late, newest, raised, loop>> /\ queue # <<>>
        /\ queue' = Tail(queue)
        /\ current' = current \/ current' = e
    BY <1>8 DEF Take
  <2>1. /\ e \in ToSet(queue) /\ e \in Transitions
        /\ ToSet(queue) = {e} \cup ToSet(queue')
        /\ Sorted(queue') /\ Ahead({e}, ToSet(queue'))
    BY <1>0, <2>0, HeadTaken, HeadTailProperties DEF OrderInv, InLine, TypeOK
  <2>2. \A m : Passed(m)' = Passed(m)
    BY <2>0 DEF Passed
  <2>3. CASE current' = current
    BY <2>0, <2>1, <2>2, <2>3, FewerWait DEF OrderInv, InLine
  <2>4. CASE current' = e
    <3>1. Waiting' \subseteq Waiting /\ e \in Waiting
      BY <2>0, <2>1 DEF Waiting
    <3>2. InLine'
      BY <2>0, <2>1, <2>4, <3>1 DEF OrderInv, InLine, Ahead, Waiting
    <3>3. newest[e[1]] <= e[2] /\ e[2] <= Passed(e[1])
      BY <1>0, <2>1, <3>1 DEF OrderInv, Between
    <3>4. Between'
      BY <1>0, <2>0, <2>2, <2>4, <3>1, <3>3 DEF OrderInv, Between
    <3>5. LateBehind'
      <4>1. Outstanding' = Outstanding
        BY <2>0 DEF Outstanding
      <4>2. \A t \in Outstanding : e[1] = t[1] => t[2] < e[2]
        BY <2>1, <3>1 DEF OrderInv, LateBehind, Ahead, Outstanding
      <4>3. \A t \in Outstanding : e[1] = t[1] => t[2] <= e[2]
        BY <1>0, <2>1, <4>2 DEF Outstanding
      <4> QED
        BY <2>2, <2>4, <3>1, <4>1, <4>3 DEF OrderInv, LateBehind, Ahead
    <3> QED
      BY <3>2, <3>4, <3>5 DEF OrderInv
  <2> QED
    BY <2>0, <2>3, <2>4
<1>9. ASSUME Post PROVE OrderInv'
  <2>0. /\ UNCHANGED <<buffer, queue, raised, loop>> /\ current \in Transitions
        /\ current' = current \/ current' = <<>>
        /\ newest' = newest \/ newest' = [newest EXCEPT ![current[1]] = current[2]]
        /\ late' = late \/ late' = [late EXCEPT ![current] = @ + 1]
    BY <1>9 DEF Post, Reached, GivenUp, TypeOK
  <2>1. /\ \A m : Passed(m)' = Passed(m)
        /\ Waiting' = Waiting
    BY <2>0 DEF Passed, Waiting
  <2>2. InLine'
    BY <1>0, <2>0, <2>1 DEF OrderInv, InLine, Ahead
  <2>l. LateBehind'
    <3>1. Outstanding' \subseteq Outstanding \cup {current}
      BY <2>0 DEF Outstanding, TypeOK
    <3>2. Ahead({current}, Waiting) /\ current[2] <= Passed(current[1])
      BY <2>0 DEF OrderInv, InLine, Between
    <3>3. Ahead(Outstanding', Waiting')
      BY <2>1, <3>1, <3>2 DEF OrderInv, LateBehind, Ahead
    <3>4. \A t \in Outstanding' : t[2] <= Passed(t[1])'
      BY <1>0, <2>0, <2>1, <3>1, <3>2 DEF OrderInv, LateBehind
    <3>5. \A t \in Outstanding' : current[1] = t[1] => t[2] <= current[2]
      BY <1>0, <2>0, <3>1 DEF OrderInv, LateBehind
    <3> QED
      BY <1>0, <2>0, <3>3, <3>4, <3>5 DEF LateBehind
  <2>3. CASE newest' = newest
    BY <1>0, <2>0, <2>1, <2>2, <2>3, <2>l DEF OrderInv, Between
  <2>4. CASE newest' = [newest EXCEPT ![current[1]] = current[2]]
    <3>1. \A m \in Loops : newest'[m] = IF m = current[1] THEN current[2] ELSE newest[m]
      BY <1>0, <2>4
    <3>2. \A t \in Waiting \cap Transitions : newest'[t[1]] < t[2] /\ t[2] <= Passed(t[1])
      BY <1>0, <2>0, <3>1 DEF OrderInv, InLine, Between, Ahead
    <3>3. \A m \in Loops : newest'[m] <= Passed(m)
      BY <1>0, <2>0, <3>1 DEF OrderInv, Between
    <3>4. newest'[current[1]] <= current[2] /\ current[2] <= Passed(current[1])
      BY <1>0, <2>0, <3>1 DEF OrderInv, Between
    <3>5. Between'
      BY <1>0, <2>0, <2>1, <3>2, <3>3, <3>4 DEF Between
    <3> QED
      BY <2>2, <2>l, <3>5 DEF OrderInv
  <2> QED
    BY <2>0, <2>3, <2>4
<1>10. ASSUME UNCHANGED vars PROVE OrderInv'
  BY <1>10, <1>a DEF vars, Passed
<1>11. ASSUME NEW t \in Transitions, Arrive(t) PROVE OrderInv'
  <2>0. /\ UNCHANGED <<buffer, queue, current, raised, loop>> /\ t \in Outstanding
        /\ newest' = [newest EXCEPT ![t[1]] = t[2]]
        /\ late' = [late EXCEPT ![t] = @ - 1]
    BY <1>11 DEF Arrive, Outstanding
  <2>1. /\ \A m : Passed(m)' = Passed(m)
        /\ Waiting' = Waiting
        /\ \A m \in Loops : newest'[m] = IF m = t[1] THEN t[2] ELSE newest[m]
    BY <1>0, <2>0 DEF Passed, Waiting
  <2>2. Outstanding' \subseteq Outstanding
    BY <2>0 DEF Outstanding, TypeOK
  <2>3. InLine'
    BY <2>0, <2>1 DEF OrderInv, InLine
  <2>4. LateBehind'
    BY <2>0, <2>1, <2>2 DEF OrderInv, LateBehind, Ahead
  <2>5. Between'
    <3>1. \A u \in Waiting \cap Transitions : newest'[u[1]] < u[2] /\ u[2] <= Passed(u[1])
      BY <1>0, <2>0, <2>1 DEF OrderInv, LateBehind, Between, Ahead
    <3>2. \A m \in Loops : newest'[m] <= Passed(m)
      BY <1>0, <2>0, <2>1 DEF OrderInv, LateBehind, Between
    <3>3. current \in Transitions =>
            newest'[current[1]] <= current[2] /\ current[2] <= Passed(current[1])
      BY <1>0, <2>0, <2>1 DEF OrderInv, LateBehind, Between
    <3> QED
      BY <2>0, <2>1, <3>1, <3>2, <3>3 DEF Between
  <2> QED
    BY <2>3, <2>4, <2>5 DEF OrderInv
<1> QED
  BY <1>1, <1>2, <1>3, <1>4, <1>5, <1>6, <1>7, <1>8, <1>9, <1>10, <1>11 DEF Next, Exited

(***************************************************************************)
(* The endpoint hears of a loop's transitions in their order, whatever     *)
(* posts fail or are retried: of an alert's opening after its resolution   *)
(* only through a post that was given up at its timeout while the request  *)
(* was still on its way.                                                   *)
(***************************************************************************)
THEOREM PostedInOrder == Spec => OnlyLateOutOfOrder
<1>1. Init => OrderInv
  <2> SUFFICES ASSUME Init PROVE OrderInv
    OBVIOUS
  <2>1. Waiting = {} /\ Sorted(queue) /\ Sorted(buffer) /\ ToSet(queue) = {}
    BY EmptySorted DEF Init, Waiting
  <2>2. \A l \in Loops : newest[l] = 0 /\ Passed(l) = 0
    BY DEF Init, Passed
  <2>3. current \notin Transitions /\ Outstanding = {}
    BY MetricIsNone DEF Init, Outstanding
  <2> QED
    BY <2>1, <2>2, <2>3 DEF OrderInv, InLine, Between, LateBehind, Ahead
<1>2. TypeOK /\ OrderInv /\ [Next]_vars => OrderInv'
  BY StepOrder
<1>3. TypeOK /\ OrderInv /\ [Next]_vars
        => [\A l \in Loops : newest'[l] < newest[l] => late[<<l, newest'[l]>>] > 0]_vars
  <2> SUFFICES ASSUME TypeOK, OrderInv, Next, NEW l \in Loops, newest'[l] < newest[l]
               PROVE  late[<<l, newest'[l]>>] > 0
    OBVIOUS
  <2> USE DEF busVars, delivery, history, endpoint
  <2>1. newest \in [Loops -> Nat]
    BY NotifierAssumption DEF TypeOK
  <2>2. CASE Post
    <3>1. current \in Transitions /\ newest[current[1]] <= current[2]
      BY <2>2 DEF Post, TypeOK, OrderInv, Between
    <3>2. newest' = newest \/ newest' = [newest EXCEPT ![current[1]] = current[2]]
      BY <2>2 DEF Post, Reached, GivenUp
    <3>3. current[1] \in Loops /\ current[2] \in Nat
      BY <3>1, TransitionParts, NotifierAssumption
    <3> QED
      BY <2>1, <3>1, <3>2, <3>3
  <2>3. CASE UNCHANGED newest
    BY <2>1, <2>3
  <2>4. ASSUME NEW t \in Transitions, Arrive(t) PROVE late[<<l, newest'[l]>>] > 0
    BY <2>1, <2>4, TransitionParts DEF Arrive
  <2> QED
    BY <2>2, <2>3, <2>4 DEF Next, Exited, vars, Raise, PublishAlert, PublishMetric,
       ExitLoop, Receive, StartDraining, WatcherUnsubscribe, CloseQueue, Take,
       Retry, ExitDeliverer, Stop, LoopsDone, NotifierDone, ChangeUrl
<1> QED
  BY <1>1, <1>2, <1>3, TypeCorrect, PTL DEF Spec, OnlyLateOutOfOrder

----------------------------------------------------------------------------
(* Nothing lost, and everything queued attempted                           *)

(***************************************************************************)
(* Where the goroutines are: the subscription lives while the watcher      *)
(* watches, the deliverer leaves an empty queue behind the watcher, and    *)
(* main leaves last.                                                       *)
(***************************************************************************)
Stages ==
  /\ draining <=> watcher # "watching"
  /\ ~draining => subscribed
  /\ deliverer = "exited" => watcher = "exited" /\ queue = <<>>
  /\ main = "exited" => deliverer = "exited"

\* What was put in the queue is still there or being delivered.
QueuedIsUnderway ==
  \A t \in Transitions : fate[t] = "queued" => t \in ToSet(queue) \cup {current}

AccountInv == NothingLostWhileRunning /\ QueuedIsUnderway

LEMMA StepStages == TypeOK /\ Stages /\ [Next]_vars => Stages'
<1> SUFFICES ASSUME TypeOK, Stages, [Next]_vars PROVE Stages'
  OBVIOUS
<1> USE DEF TypeOK, Stages, busVars, delivery, history, endpoint
<1>1. ASSUME NEW l \in Loops, Raise(l) \/ PublishAlert(l) \/ PublishMetric(l) \/ ExitLoop(l)
      PROVE  Stages'
  BY <1>1 DEF Raise, PublishAlert, PublishMetric, ExitLoop
<1>2. CASE Receive \/ StartDraining \/ WatcherUnsubscribe \/ CloseQueue
  BY <1>2 DEF Receive, StartDraining, WatcherUnsubscribe, Unsubscribe, CloseQueue
<1>3. CASE Take \/ Post \/ Retry \/ ExitDeliverer
  BY <1>3 DEF Take, Post, Retry, ExitDeliverer
<1>4. CASE Stop \/ LoopsDone \/ NotifierDone \/ ChangeUrl \/ Exited \/ UNCHANGED vars
  BY <1>4 DEF Stop, LoopsDone, NotifierDone, ChangeUrl, Exited, vars
<1>5. ASSUME NEW t \in Transitions, Arrive(t) PROVE Stages'
  BY <1>5 DEF Arrive
<1> QED
  BY <1>1, <1>2, <1>3, <1>4, <1>5 DEF Next

LEMMA StagesHold == Spec => []Stages
<1>1. Init => Stages
  BY DEF Init, Stages
<1> QED
  BY <1>1, StepStages, TypeCorrect, PTL DEF Spec

(***************************************************************************)
(* A step that raises nothing, publishes nothing and loses nothing of what *)
(* is underway, unless its fate is settled.                                *)
(***************************************************************************)
LEMMA NothingLeaves ==
  ASSUME AccountInv, UNCHANGED <<raised, loop>>, draining => draining',
         \A t \in Transitions :
           /\ fate'[t] = fate[t] \/ fate'[t] \notin {"pending", "queued"}
                \/ t \in ToSet(queue')
           /\ fate'[t] = fate[t] /\ t \in Underway /\ ~draining' => t \in Underway'
           /\ fate'[t] = fate[t] /\ t \in ToSet(queue) \cup {current}
                => t \in ToSet(queue') \cup {current'} \/ fate'[t] # "queued"
  PROVE  AccountInv'
<1>1. Published' = Published /\ Published \subseteq Transitions
  BY DEF Published, Raised
<1>2. NothingLostWhileRunning'
  <2> SUFFICES ASSUME ~draining', NEW t \in Published, fate'[t] \in {"pending", "queued"}
               PROVE  t \in Underway'
    BY <1>1 DEF NothingLostWhileRunning
  <2>1. CASE fate'[t] = fate[t]
    BY <1>1, <2>1 DEF AccountInv, NothingLostWhileRunning
  <2>2. CASE t \in ToSet(queue')
    BY <2>2 DEF Underway
  <2> QED
    BY <1>1, <2>1, <2>2
<1>3. QueuedIsUnderway'
  BY DEF AccountInv, QueuedIsUnderway
<1> QED
  BY <1>2, <1>3 DEF AccountInv

LEMMA StepAccount == TypeOK /\ Stages /\ AccountInv /\ [Next]_vars => AccountInv'
<1> SUFFICES ASSUME TypeOK, Stages, AccountInv, [Next]_vars PROVE AccountInv'
  OBVIOUS
<1> USE DEF busVars, delivery, history, endpoint
<1>0. /\ buffer \in Seq(Events) /\ queue \in Seq(Events)
      /\ Metric \in Events /\ Transitions \subseteq Events
      /\ Metric \notin Transitions /\ <<>> \notin Transitions
      /\ fate \in [Transitions -> Fates]
  BY QueueOfEvents, MetricIsNone DEF TypeOK, Events
<1>1. ASSUME NEW l \in Loops, Raise(l) PROVE AccountInv'
  <2>1. /\ raised' = [raised EXCEPT ![l] = @ + 1] /\ loop[l] = "waiting"
        /\ loop' = [loop EXCEPT ![l] = "publishing"]
        /\ UNCHANGED <<draining, fate, buffer, queue, current>>
    BY <1>1 DEF Raise
  <2>2. \A t \in Transitions :
          t[1] \in Loops /\ t[2] \in Nat /\ raised[t[1]] \in Nat
    BY TransitionParts, NotifierAssumption DEF TypeOK
  <2>3. Published' \subseteq Published
    <3> SUFFICES ASSUME NEW t \in Published' PROVE t \in Published
      OBVIOUS
    <3>1. t \in Transitions /\ t[2] <= raised'[t[1]]
          /\ ~(loop'[t[1]] = "publishing" /\ t[2] = raised'[t[1]])
      BY DEF Published, Raised
    <3> QED
      BY <2>1, <2>2, <3>1 DEF Published, Raised, TypeOK
  <2> QED
    BY <2>1, <2>3 DEF AccountInv, NothingLostWhileRunning, QueuedIsUnderway, Underway
<1>2. ASSUME NEW l \in Loops, PublishAlert(l) PROVE AccountInv'
  <2> DEFINE e == <<l, raised[l]>>
  <2>0. /\ UNCHANGED <<queue, current, raised, draining, subscribed>>
        /\ loop' = [loop EXCEPT ![l] = "waiting"]
        /\ buffer' = IF Fits THEN Append(buffer, e) ELSE buffer
        /\ fate' = [fate EXCEPT ![e] = IF subscribed /\ ~Fits THEN "overflow" ELSE @]
    BY <1>2 DEF PublishAlert, Publish
  <2>1. e \in Transitions /\ e[1] = l /\ e[2] = raised[l]
    BY <1>2, NotifierAssumption DEF PublishAlert, TypeOK, Transitions
  <2>2. Published' \subseteq Published \cup {e}
    <3> SUFFICES ASSUME NEW t \in Published', t # e PROVE t \in Published
      OBVIOUS
    <3>1. t \in Transitions /\ t[2] <= raised[t[1]]
      BY <2>0 DEF Published, Raised
    <3>2. t = <<t[1], t[2]>>
      BY <3>1, TransitionParts
    <3>3. t[1] # l \/ t[2] # raised[t[1]]
      BY <3>2
    <3>4. t[1] # l => ~(loop[t[1]] = "publishing" /\ t[2] = raised[t[1]])
      <4>1. ~(loop'[t[1]] = "publishing" /\ t[2] = raised'[t[1]])
        BY <3>1 DEF Published
      <4>2. t[1] # l => loop'[t[1]] = loop[t[1]]
        BY <2>0, <3>1, TransitionParts DEF TypeOK
      <4> QED
        BY <2>0, <4>1, <4>2
    <3> QED
      BY <3>1, <3>3, <3>4 DEF Published, Raised
  <2> HIDE DEF e
  <2>3. ToSet(buffer) \subseteq ToSet(buffer') /\ (Fits => e \in ToSet(buffer'))
    <3>1. ToSet(Append(buffer, e)) = ToSet(buffer) \cup {e}
      BY <1>0, <2>1, SequenceAppended
    <3>2. CASE Fits
      BY <2>0, <3>1, <3>2
    <3>3. CASE ~Fits
      BY <2>0, <3>3
    <3> QED
      BY <3>2, <3>3
  <2>4. Underway \subseteq Underway'
    BY <2>0, <2>3 DEF Underway
  <2>5. \A t \in Transitions : fate'[t] = fate[t] \/ (t = e /\ fate'[t] = "overflow")
    BY <1>0, <2>0, <2>1
  <2>6. NothingLostWhileRunning'
    <3> SUFFICES ASSUME ~draining', NEW t \in Published', fate'[t] \in {"pending", "queued"}
                 PROVE  t \in Underway'
      BY DEF NothingLostWhileRunning
    <3>1. CASE t = e
      <4>1. Fits
        BY <1>0, <2>0, <2>1, <3>1 DEF Stages
      <4> QED
        BY <2>3, <3>1, <4>1 DEF Underway
    <3>2. CASE t # e
      <4>1. t \in Published /\ t \in Transitions
        BY <2>2, <3>2 DEF Published, Raised
      <4> QED
        BY <2>0, <2>4, <2>5, <3>2, <4>1 DEF AccountInv, NothingLostWhileRunning
    <3> QED
      BY <3>1, <3>2
  <2>7. QueuedIsUnderway'
    BY <2>0, <2>5 DEF AccountInv, QueuedIsUnderway
  <2> QED
    BY <2>6, <2>7 DEF AccountInv
<1>3. ASSUME NEW l \in Loops, PublishMetric(l) PROVE AccountInv'
  <2>1. UNCHANGED <<raised, loop, draining, fate, queue, current>>
        /\ buffer' \in {buffer, Append(buffer, Metric)}
    BY <1>3 DEF PublishMetric, Publish
  <2>2. ToSet(buffer) \subseteq ToSet(buffer')
    BY <1>0, <2>1, SequenceAppended
  <2> QED
    BY <2>1, <2>2, NothingLeaves DEF Underway
<1>4. ASSUME NEW l \in Loops, ExitLoop(l) PROVE AccountInv'
  <2>1. /\ UNCHANGED <<raised, draining, fate, buffer, queue, current>>
        /\ loop' = [loop EXCEPT ![l] = "exited"] /\ loop[l] = "waiting"
    BY <1>4 DEF ExitLoop
  <2>2. Published' = Published
    BY <2>1, TransitionParts DEF Published, Raised, TypeOK
  <2> QED
    BY <2>1, <2>2 DEF AccountInv, NothingLostWhileRunning, QueuedIsUnderway, Underway
<1>5. ASSUME Receive PROVE AccountInv'
  <2> DEFINE e == Head(buffer)
  <2>0. /\ UNCHANGED <<raised, loop, draining, current>> /\ buffer # <<>>
        /\ buffer' = Tail(buffer)
    BY <1>5 DEF Receive
  <2>1. e \in Events /\ ToSet(buffer) = {e} \cup ToSet(buffer')
    BY <1>0, <2>0, HeadTaken, HeadTailProperties
  <2>2. CASE e = Metric
    <3>1. UNCHANGED <<queue, fate>>
      BY <1>5, <2>2 DEF Receive
    <3> QED
      BY <1>0, <2>0, <2>1, <2>2, <3>1, NothingLeaves DEF Underway
  <2>3. CASE e # Metric
    <3>1. e \in Transitions
      BY <2>1, <2>3 DEF Events
    <3>2. \/ queue' = Append(queue, e) /\ fate' = [fate EXCEPT ![e] = "queued"]
          \/ queue' = queue /\ fate' = [fate EXCEPT ![e] = "disabled"]
          \/ queue' = queue /\ fate' = [fate EXCEPT ![e] = "overflow"]
      BY <1>5, <2>3 DEF Receive
    <3> HIDE DEF e
    <3>3. /\ ToSet(queue) \subseteq ToSet(queue')
          /\ fate'[e] = "queued" => e \in ToSet(queue')
          /\ fate'[e] \in {"queued", "disabled", "overflow"}
          /\ \A t \in Transitions : t # e => fate'[t] = fate[t]
      <4>1. /\ queue \in Seq(Events) /\ fate \in [Transitions -> Fates]
            /\ ToSet(Append(queue, e)) = ToSet(queue) \cup {e}
        BY <1>0, <3>1, SequenceAppended
      <4>2. CASE queue' = Append(queue, e) /\ fate' = [fate EXCEPT ![e] = "queued"]
        BY <3>1, <4>1, <4>2
      <4>3. CASE queue' = queue /\ fate' = [fate EXCEPT ![e] = "disabled"]
        BY <3>1, <4>1, <4>3
      <4>4. CASE queue' = queue /\ fate' = [fate EXCEPT ![e] = "overflow"]
        BY <3>1, <4>1, <4>4
      <4> QED
        BY <3>2, <4>2, <4>3, <4>4
    <3>4. \A t \in Transitions : t # e /\ t \in Underway => t \in Underway'
      BY <2>0, <2>1, <3>3 DEF Underway
    <3>5. NothingLostWhileRunning'
      <4>1. Published' = Published /\ Published \subseteq Transitions
        BY <2>0 DEF Published, Raised
      <4> SUFFICES ASSUME ~draining', NEW t \in Published, fate'[t] \in {"pending", "queued"}
                   PROVE  t \in Underway'
        BY <4>1 DEF NothingLostWhileRunning
      <4>2. CASE t = e
        BY <3>3, <4>2 DEF Underway
      <4>3. CASE t # e
        <5>1. fate[t] \in {"pending", "queued"} /\ ~draining
          BY <2>0, <3>3, <4>1, <4>3
        <5>2. t \in Underway
          BY <5>1 DEF AccountInv, NothingLostWhileRunning
        <5> QED
          BY <3>4, <4>1, <4>3, <5>2
      <4> QED
        BY <4>2, <4>3
    <3>6. QueuedIsUnderway'
      BY <2>0, <3>3 DEF AccountInv, QueuedIsUnderway
    <3> QED
      BY <3>5, <3>6 DEF AccountInv
  <2> QED
    BY <2>2, <2>3
<1>6. ASSUME CloseQueue \/ Retry \/ ExitDeliverer \/ Stop \/ LoopsDone
             \/ NotifierDone \/ ChangeUrl \/ UNCHANGED vars
             \/ (\E t \in Transitions : Arrive(t))
      PROVE  AccountInv'
  <2>1. UNCHANGED <<raised, loop, draining, fate, buffer, queue, current>>
    BY <1>6 DEF CloseQueue, Retry, ExitDeliverer, Stop, LoopsDone, NotifierDone,
                ChangeUrl, vars, Arrive
  <2> QED
    BY <2>1, NothingLeaves DEF Underway
<1>7. ASSUME StartDraining \/ WatcherUnsubscribe PROVE AccountInv'
  <2>1. UNCHANGED <<raised, loop, fate, queue, current>> /\ draining'
    BY <1>7 DEF StartDraining, WatcherUnsubscribe, Stages, Unsubscribe
  <2> QED
    BY <2>1, NothingLeaves DEF Underway
<1>8. ASSUME Take PROVE AccountInv'
  <2> DEFINE e == Head(queue)
  <2>0. /\ UNCHANGED <<raised, loop, draining, buffer>> /\ queue # <<>>
        /\ queue' = Tail(queue) /\ current = <<>>
        /\ \/ current' = e /\ UNCHANGED fate
           \/ current' = current /\ fate' = [fate EXCEPT ![e] = "disabled"]
    BY <1>8 DEF Take, TypeOK
  <2>1. e \in Transitions /\ ToSet(queue) = {e} \cup ToSet(queue')
    BY <1>0, <2>0, HeadTaken, HeadTailProperties DEF TypeOK
  <2> HIDE DEF e
  <2>2. CASE current' = e /\ UNCHANGED fate
    BY <1>0, <2>0, <2>1, <2>2, NothingLeaves DEF Underway
  <2>3. CASE current' = current /\ fate' = [fate EXCEPT ![e] = "disabled"]
    <3>1. fate'[e] = "disabled" /\ \A t \in Transitions : t # e => fate'[t] = fate[t]
      BY <1>0, <2>1, <2>3
    <3>2. \A t \in Transitions :
            /\ fate'[t] = fate[t] \/ fate'[t] \notin {"pending", "queued"}
            /\ t # e /\ t \in Underway => t \in Underway'
            /\ t # e /\ t \in ToSet(queue) \cup {current} => t \in ToSet(queue') \cup {current'}
      BY <2>0, <2>1, <2>3, <3>1 DEF Underway
    <3>3. Published' = Published /\ Published \subseteq Transitions
      BY <2>0 DEF Published, Raised
    <3>4. NothingLostWhileRunning'
      BY <2>0, <3>1, <3>2, <3>3 DEF AccountInv, NothingLostWhileRunning
    <3>5. QueuedIsUnderway'
      BY <3>1, <3>2 DEF AccountInv, QueuedIsUnderway
    <3> QED
      BY <3>4, <3>5 DEF AccountInv
  <2> QED
    BY <2>0, <2>2, <2>3
<1>9. ASSUME Post PROVE AccountInv'
  <2>0. /\ UNCHANGED <<raised, loop, draining, buffer, queue>> /\ current \in Transitions
        /\ fate' = [fate EXCEPT ![current] = "attempted"]
    BY <1>9 DEF Post, TypeOK
  <2>1. /\ fate'[current] = "attempted"
        /\ \A t \in Transitions : t # current => fate'[t] = fate[t]
    BY <1>0, <2>0
  <2>2. \A t \in Transitions : t # current /\ t \in Underway => t \in Underway'
    BY <2>0 DEF Underway
  <2>3. Published' = Published /\ Published \subseteq Transitions
    BY <2>0 DEF Published, Raised
  <2>4. NothingLostWhileRunning'
    BY <2>0, <2>1, <2>2, <2>3 DEF AccountInv, NothingLostWhileRunning
  <2>5. QueuedIsUnderway'
    BY <2>0, <2>1 DEF AccountInv, QueuedIsUnderway
  <2> QED
    BY <2>4, <2>5 DEF AccountInv
<1> QED
  BY <1>1, <1>2, <1>3, <1>4, <1>5, <1>6, <1>7, <1>8, <1>9 DEF Next, Exited

LEMMA AccountHolds == Spec => []AccountInv
<1>1. Init => AccountInv
  BY NotifierAssumption, TransitionParts
  DEF Init, AccountInv, NothingLostWhileRunning, QueuedIsUnderway, Published, Raised
<1> QED
  BY <1>1, StepAccount, TypeCorrect, StagesHold, PTL DEF Spec

(***************************************************************************)
(* While the daemon runs no notification gets lost unaccounted: a          *)
(* published transition is in the buffer, in the queue, being delivered or *)
(* was posted at least once, unless the buffer or the queue was full, or   *)
(* no URL was set, when it passed.                                         *)
(***************************************************************************)
THEOREM NothingLost == Spec => []NothingLostWhileRunning
<1>1. AccountInv => NothingLostWhileRunning
  BY DEF AccountInv
<1> QED
  BY <1>1, AccountHolds, PTL

(***************************************************************************)
(* "Wait blocks until the bus watcher has stopped and every queued         *)
(* delivery has been attempted" (notify.go): at exit every payload that    *)
(* ever entered the queue was posted at least once, or met a URL that had  *)
(* been cleared.                                                           *)
(***************************************************************************)
THEOREM WaitCoversTheQueue == Spec => []QueuedIsAttempted
<1>1. TypeOK /\ Stages /\ AccountInv => QueuedIsAttempted
  <2> SUFFICES ASSUME TypeOK, Stages, AccountInv, main = "exited",
                      NEW t \in Transitions, fate[t] = "queued"
               PROVE  FALSE
    BY DEF QueuedIsAttempted, Raised
  <2>1. queue = <<>> /\ current = <<>>
    BY DEF Stages, TypeOK
  <2> QED
    BY <2>1, EmptySorted, MetricIsNone DEF AccountInv, QueuedIsUnderway
<1> QED
  BY <1>1, TypeCorrect, StagesHold, AccountHolds, PTL

----------------------------------------------------------------------------
(* The bound on the shutdown                                               *)

\* Posts the delivery in progress may still make.
Remaining ==
  IF deliverer = "posting" THEN attempts - attempt + 1
  ELSE IF deliverer = "backoff" THEN attempts - attempt ELSE 0

(***************************************************************************)
(* Once draining is set the posts made, those the delivery in progress has *)
(* left and one for each queued payload stay within the bound: a payload   *)
(* taken then is granted one attempt, and the watcher adds none.           *)
(***************************************************************************)
DrainInv ==
  /\ ~draining => drainPosts = 0
  /\ Len(queue) <= QueueCap
  /\ draining => drainPosts + Len(queue) + Remaining <= QueueCap + Attempts

LEMMA StepDrain == TypeOK /\ Stages /\ DrainInv /\ [Next]_vars => DrainInv'
<1> SUFFICES ASSUME TypeOK, Stages, DrainInv, [Next]_vars PROVE DrainInv'
  OBVIOUS
<1> USE DEF busVars, delivery, history, endpoint
<1>0. /\ Len(queue) \in Nat /\ QueueCap \in Nat \ {0} /\ Attempts \in Nat \ {0}
      /\ attempts \in 1..Attempts /\ attempt \in 1..attempts /\ drainPosts \in Nat
      /\ queue \in Seq(Transitions) /\ queue \in Seq(Events)
      /\ deliverer = "backoff" => attempt < attempts
      /\ draining \in BOOLEAN
  BY LenProperties, QueueOfEvents, NotifierAssumption DEF TypeOK
<1>1. ASSUME UNCHANGED <<draining, queue, deliverer, attempt, attempts, drainPosts>>
      PROVE  DrainInv'
  BY <1>1 DEF DrainInv, Remaining
<1>2. ASSUME NEW l \in Loops, Raise(l) \/ PublishAlert(l) \/ PublishMetric(l) \/ ExitLoop(l)
      PROVE  DrainInv'
  BY <1>1, <1>2 DEF Raise, PublishAlert, PublishMetric, ExitLoop
<1>3. CASE WatcherUnsubscribe \/ CloseQueue \/ Stop \/ LoopsDone \/ NotifierDone
           \/ ChangeUrl \/ Exited \/ UNCHANGED vars \/ (\E t \in Transitions : Arrive(t))
  BY <1>1, <1>3 DEF WatcherUnsubscribe, CloseQueue, Stop, LoopsDone, NotifierDone,
                    ChangeUrl, Exited, vars, Arrive
<1>4. CASE Receive
  <2>1. /\ ~draining /\ UNCHANGED <<draining, deliverer, attempt, attempts, drainPosts>>
        /\ queue' = queue \/ (Len(queue) < QueueCap /\ queue' = Append(queue, Head(buffer)))
    BY <1>4 DEF Receive, Stages
  <2>2. buffer # <<>> => Head(buffer) \in Events
    BY HeadTailProperties DEF TypeOK
  <2>3. Len(queue') <= QueueCap
    BY <1>0, <1>4, <2>1, <2>2, SequenceAppended DEF Receive, DrainInv
  <2> QED
    BY <2>1, <2>3 DEF DrainInv
<1>5. CASE StartDraining
  BY <1>0, <1>5 DEF StartDraining, Stages, DrainInv, Remaining
<1>6. CASE Take
  <2>1. Len(queue') = Len(queue) - 1
    BY <1>0, <1>6, HeadTaken DEF Take
  <2>2. /\ UNCHANGED <<draining, drainPosts>> /\ deliverer = "receiving"
        /\ \/ UNCHANGED <<deliverer, attempt, attempts>>
           \/ deliverer' = "posting" /\ attempt' = 1 /\ (draining => attempts' = 1)
    BY <1>6 DEF Take
  <2> QED
    BY <1>0, <2>1, <2>2 DEF DrainInv, Remaining
<1>7. CASE Post
  <2>1. /\ UNCHANGED <<draining, queue, attempt, attempts>> /\ deliverer = "posting"
        /\ drainPosts' = IF draining THEN drainPosts + 1 ELSE 0
        /\ deliverer' \in {"backoff", "receiving"}
    BY <1>7 DEF Post
  <2>2. /\ Remaining = attempts - attempt + 1
        /\ Remaining' <= attempts - attempt /\ Remaining' \in Int
    BY <1>0, <2>1 DEF Remaining
  <2>3. CASE draining
    BY <1>0, <2>1, <2>2, <2>3 DEF DrainInv
  <2>4. CASE ~draining
    BY <2>1, <2>4 DEF DrainInv
  <2> QED
    BY <2>3, <2>4
<1>8. CASE Retry
  BY <1>0, <1>8 DEF Retry, DrainInv, Remaining
<1>9. CASE ExitDeliverer
  BY <1>0, <1>9 DEF ExitDeliverer, DrainInv, Remaining
<1> QED
  BY <1>2, <1>3, <1>4, <1>5, <1>6, <1>7, <1>8, <1>9 DEF Next

(***************************************************************************)
(* "Shutdown stays bounded by the queue length rather than length x        *)
(* attempts x timeout" (notify.go): from the moment draining is set, the   *)
(* delivery in progress may use up its attempts and every queued payload   *)
(* gets one, whatever the capacities and the attempts configured.          *)
(***************************************************************************)
THEOREM ShutdownPostsBounded == Spec => []DrainBounded
<1>1. Init => DrainInv
  BY NotifierAssumption, EmptySeq DEF Init, DrainInv
<1>2. TypeOK /\ Stages /\ DrainInv /\ [Next]_vars => DrainInv'
  BY StepDrain
<1>3. TypeOK /\ DrainInv => DrainBounded
  <2> SUFFICES ASSUME TypeOK, DrainInv PROVE DrainBounded
    OBVIOUS
  <2>1. Len(queue) \in Nat /\ Remaining \in Nat
    BY LenProperties, NotifierAssumption DEF TypeOK, Remaining
  <2> QED
    BY <2>1, NotifierAssumption DEF DrainInv, DrainBounded, TypeOK
<1> QED
  BY <1>1, <1>2, <1>3, TypeCorrect, StagesHold, PTL DEF Spec
=============================================================================
