----------------------------- MODULE Notifier ------------------------------
(***************************************************************************)
(* The webhook notifier of internal/engine/notify.go, the event bus that   *)
(* feeds it (internal/engine/events.go), the loops that publish on the bus *)
(* and the shutdown sequence of cmd/routeviewnetd/main.go.                 *)
(*                                                                         *)
(* A loop's n-th alert transition is committed to the database (module     *)
(* AlertEngine) and then published.  The watcher moves it from its bounded *)
(* subscription buffer into a bounded queue, never waiting for room; the   *)
(* deliverer posts it, retrying after a failure.  A post that fails may    *)
(* have reached the endpoint all the same, and one given up at its timeout *)
(* may reach it at any time after.  Other events share the buffer.         *)
(***************************************************************************)
EXTENDS Naturals, Sequences, SequencesExt

CONSTANTS
  Loops,        \* loops that raise alerts
  MaxRaised,    \* bound on the alert transitions of a loop
  BufferCap,    \* capacity of a subscription (64 in the code)
  QueueCap,     \* notifyQueue
  Attempts,     \* Notifier.Attempts
  UrlChanges,   \* whether settings may set and clear the webhook URL
  Metrics       \* whether other events are published too

ASSUME NotifierAssumption ==
  /\ {MaxRaised, BufferCap, QueueCap, Attempts} \subseteq Nat \ {0}
  /\ {UrlChanges, Metrics} \subseteq BOOLEAN

VARIABLES
  stopped,     \* whether the daemon's context is cancelled
  main,        \* what run() waits for
  loop,        \* where each loop is
  raised,      \* how many transitions each loop has committed
  subscribed,  \* whether the bus still knows the notifier's subscription
  buffer,      \* the events in it
  url,         \* whether a webhook URL is configured
  watcher,     \* where the watcher goroutine is
  draining,    \* Notifier.draining
  queue,       \* Notifier.queue; closed when the watcher has exited
  deliverer,   \* where the deliverer goroutine is
  current,     \* the transition it delivers
  attempt,     \* number of the post to come
  attempts,    \* how many posts it was granted
  late,        \* by transition, posts given up while still on their way
  newest,      \* history: by loop, the last transition to reach the endpoint
  fate,        \* history: what became of each transition
  drainPosts   \* history: posts started since draining was set

busVars     == <<subscribed, buffer>>
delivery    == <<deliverer, current, attempt, attempts>>
endpoint    == <<late, newest>>
history     == <<endpoint, fate, drainPosts>>
vars == <<stopped, main, loop, raised, busVars, url, watcher, draining, queue,
          delivery, history>>

Transitions == Loops \X (1..MaxRaised)
Metric      == <<"metric">>
Fates       == {"pending", "queued", "overflow", "disabled", "attempted"}

Init ==
  /\ stopped = FALSE
  /\ main = "serving"
  /\ loop = [l \in Loops |-> "waiting"]
  /\ raised = [l \in Loops |-> 0]
  /\ subscribed = TRUE
  /\ buffer = <<>>
  /\ url = TRUE
  /\ watcher = "watching"
  /\ draining = FALSE
  /\ queue = <<>>
  /\ deliverer = "receiving"
  /\ current = <<>>
  /\ attempt = 1
  /\ attempts = 1
  /\ late = [t \in Transitions |-> 0]
  /\ newest = [l \in Loops |-> 0]
  /\ fate = [t \in Transitions |-> "pending"]
  /\ drainPosts = 0

----------------------------------------------------------------------------
(* The bus                                                                 *)

(***************************************************************************)
(* Publish never blocks: it skips a subscription that is full or gone.     *)
(***************************************************************************)
Fits == subscribed /\ Len(buffer) < BufferCap

Publish(event) == buffer' = IF Fits THEN Append(buffer, event) ELSE buffer

\* Unsubscribe: forget the subscription, then drain it.
Unsubscribe == subscribed' = FALSE /\ buffer' = <<>>

----------------------------------------------------------------------------
(* The loops                                                               *)

(***************************************************************************)
(* The next transition is committed.  A cancelled context fails every      *)
(* database call, so none is committed after the shutdown begins.          *)
(***************************************************************************)
Raise(l) ==
  /\ loop[l] = "waiting"
  /\ ~stopped
  /\ raised[l] < MaxRaised
  /\ raised' = [raised EXCEPT ![l] = @ + 1]
  /\ loop' = [loop EXCEPT ![l] = "publishing"]
  /\ UNCHANGED <<stopped, main, busVars, url, watcher, draining, queue,
                 delivery, history>>

PublishAlert(l) ==
  /\ loop[l] = "publishing"
  /\ Publish(<<l, raised[l]>>)
  /\ fate' = [fate EXCEPT ![<<l, raised[l]>>] =
                IF subscribed /\ ~Fits THEN "overflow" ELSE @]
  /\ loop' = [loop EXCEPT ![l] = "waiting"]
  /\ UNCHANGED <<stopped, main, raised, subscribed, url, watcher, draining,
                 queue, delivery, endpoint, drainPosts>>

\* Interface samples, checks, memory and load, published at every cycle.
PublishMetric(l) ==
  /\ Metrics
  /\ loop[l] = "waiting"
  /\ Publish(Metric)
  /\ UNCHANGED <<stopped, main, loop, raised, subscribed, url, watcher,
                 draining, queue, delivery, history>>

\* The select finds the context cancelled (it may pick its timer first).
ExitLoop(l) ==
  /\ stopped
  /\ loop[l] = "waiting"
  /\ loop' = [loop EXCEPT ![l] = "exited"]
  /\ UNCHANGED <<stopped, main, raised, busVars, url, watcher, draining,
                 queue, delivery, history>>

----------------------------------------------------------------------------
(* The watcher                                                             *)

\* Mutant: a full queue makes room by letting its oldest payload go.
ReceiveDropsOldest ==
  LET event == Head(buffer) IN
  /\ watcher = "watching"
  /\ buffer # <<>>
  /\ buffer' = Tail(buffer)
  /\ IF event = Metric
       THEN UNCHANGED <<queue, fate>>
       ELSE /\ queue' = IF Len(queue) < QueueCap THEN Append(queue, event)
                        ELSE Append(Tail(queue), event)
            /\ fate' = [fate EXCEPT ![event] = "queued"]
  /\ UNCHANGED <<stopped, main, loop, raised, subscribed, url, watcher,
                 draining, delivery, endpoint, drainPosts>>

(***************************************************************************)
(* An event arrives.  Alert transitions are queued if there is somewhere   *)
(* to send them and room; everything else is let go.                       *)
(***************************************************************************)
Receive ==
  LET event == Head(buffer)
      room  == Len(queue) < QueueCap IN
  /\ watcher = "watching"
  /\ buffer # <<>>
  /\ buffer' = Tail(buffer)
  /\ IF event = Metric
       THEN UNCHANGED <<queue, fate>>
       ELSE /\ queue' = IF url /\ room THEN Append(queue, event) ELSE queue
            /\ fate' = [fate EXCEPT ![event] =
                 IF ~url THEN "disabled" ELSE IF room THEN "queued" ELSE "overflow"]
  /\ UNCHANGED <<stopped, main, loop, raised, subscribed, url, watcher,
                 draining, delivery, endpoint, drainPosts>>

(***************************************************************************)
(* The context is cancelled: the select takes this branch now or, if       *)
(* events are waiting, after some of them.  Then the deferred calls run:   *)
(* Unsubscribe, close(queue).                                              *)
(***************************************************************************)
StartDraining ==
  /\ watcher = "watching"
  /\ stopped
  /\ draining' = TRUE
  /\ watcher' = "unsubscribing"
  /\ UNCHANGED <<stopped, main, loop, raised, busVars, url, queue, delivery,
                 history>>

WatcherUnsubscribe ==
  /\ watcher = "unsubscribing"
  /\ Unsubscribe
  /\ watcher' = "closing"
  /\ UNCHANGED <<stopped, main, loop, raised, url, draining, queue, delivery,
                 history>>

\* Mutant: the queue is closed only if it happens to be empty.
CloseEmptyQueue ==
  /\ watcher = "closing"
  /\ queue = <<>> /\ deliverer = "posting"
  /\ watcher' = "exited"
  /\ UNCHANGED <<stopped, main, loop, raised, busVars, url, draining, queue,
                 delivery, history>>

CloseQueue ==
  /\ watcher = "closing"
  /\ watcher' = "exited"
  /\ UNCHANGED <<stopped, main, loop, raised, busVars, url, draining, queue,
                 delivery, history>>

----------------------------------------------------------------------------
(* The deliverer                                                           *)

\* Mutant: a payload taken while draining is retried like any other.
TakeWithRetries ==
  /\ deliverer = "receiving"
  /\ queue # <<>>
  /\ queue' = Tail(queue)
  /\ deliverer' = "posting"
  /\ current' = Head(queue)
  /\ attempt' = 1
  /\ attempts' = Attempts
  /\ UNCHANGED <<stopped, main, loop, raised, busVars, url, watcher, draining,
                 history>>

(***************************************************************************)
(* The next payload, with the number of attempts decided once, here.       *)
(* Without a URL it is done with at once.                                  *)
(***************************************************************************)
Take ==
  /\ deliverer = "receiving"
  /\ queue # <<>>
  /\ queue' = Tail(queue)
  /\ \/ /\ url
        /\ deliverer' = "posting"
        /\ current' = Head(queue)
        /\ attempt' = 1
        /\ attempts' = IF draining THEN 1 ELSE Attempts
        /\ UNCHANGED fate
     \/ /\ ~url
        /\ fate' = [fate EXCEPT ![Head(queue)] = "disabled"]
        /\ UNCHANGED delivery
  /\ UNCHANGED <<stopped, main, loop, raised, busVars, url, watcher, draining,
                 endpoint, drainPosts>>

\* The endpoint has the post.
Reached == newest' = [newest EXCEPT ![current[1]] = current[2]] /\ UNCHANGED late

\* The timeout is over and the request still on its way.
GivenUp == late' = [late EXCEPT ![current] = @ + 1] /\ UNCHANGED newest

\* It arrives after all, whatever has been posted since, or the daemon gone.
Arrive(t) ==
  /\ late[t] > 0
  /\ late' = [late EXCEPT ![t] = @ - 1]
  /\ newest' = [newest EXCEPT ![t[1]] = t[2]]
  /\ UNCHANGED <<stopped, main, loop, raised, busVars, url, watcher, draining,
                 queue, delivery, fate, drainPosts>>

\* Mutant: a failed payload goes back to the end of the queue.
PostRequeueing ==
  /\ deliverer = "posting"
  /\ fate' = [fate EXCEPT ![current] = "attempted"]
  /\ drainPosts' = IF draining THEN drainPosts + 1 ELSE 0
  /\ deliverer' = "receiving"
  /\ current' = <<>>
  /\ \/ Reached /\ UNCHANGED queue
     \/ /\ UNCHANGED endpoint
        /\ queue' = IF Len(queue) < QueueCap THEN Append(queue, current)
                    ELSE queue
  /\ UNCHANGED <<stopped, main, loop, raised, busVars, url, watcher, draining,
                 attempt, attempts>>

(***************************************************************************)
(* One post.  It succeeds; or it fails: the endpoint has it (a bad answer, *)
(* or a late one), never will, or may get it yet.                          *)
(***************************************************************************)
Post ==
  /\ deliverer = "posting"
  /\ fate' = [fate EXCEPT ![current] = "attempted"]
  /\ drainPosts' = IF draining THEN drainPosts + 1 ELSE 0
  /\ \/ /\ Reached
        /\ deliverer' = "receiving" /\ current' = <<>>
     \/ /\ Reached \/ GivenUp \/ UNCHANGED endpoint
        /\ IF attempt < attempts
             THEN deliverer' = "backoff" /\ UNCHANGED current
             ELSE deliverer' = "receiving" /\ current' = <<>>
  /\ UNCHANGED <<stopped, main, loop, raised, busVars, url, watcher, draining,
                 queue, attempt, attempts>>

\* The pause after a failed post is over.
Retry ==
  /\ deliverer = "backoff"
  /\ deliverer' = "posting"
  /\ attempt' = attempt + 1
  /\ UNCHANGED <<stopped, main, loop, raised, busVars, url, watcher, draining,
                 queue, current, attempts, history>>

\* Mutant: the deliverer leaves as soon as the watcher has.
ExitAtClose ==
  /\ deliverer = "receiving"
  /\ watcher = "exited"
  /\ deliverer' = "exited"
  /\ UNCHANGED <<stopped, main, loop, raised, busVars, url, watcher, draining,
                 queue, current, attempt, attempts, history>>

\* The queue is closed and empty: the range loop ends.
ExitDeliverer ==
  /\ deliverer = "receiving"
  /\ watcher = "exited"
  /\ queue = <<>>
  /\ deliverer' = "exited"
  /\ UNCHANGED <<stopped, main, loop, raised, busVars, url, watcher, draining,
                 queue, current, attempt, attempts, history>>

----------------------------------------------------------------------------
(* run() and the operator                                                  *)

\* SIGTERM, SIGINT or a failed listener; then the HTTP server is shut down.
Stop ==
  /\ main = "serving"
  /\ stopped' = TRUE
  /\ main' = "sched.Wait"
  /\ UNCHANGED <<loop, raised, busVars, url, watcher, draining, queue,
                 delivery, history>>

LoopsDone ==
  /\ main = "sched.Wait"
  /\ \A l \in Loops : loop[l] = "exited"
  /\ main' = "notifier.Wait"
  /\ UNCHANGED <<stopped, loop, raised, busVars, url, watcher, draining,
                 queue, delivery, history>>

NotifierDone ==
  /\ main = "notifier.Wait"
  /\ watcher = "exited"
  /\ deliverer = "exited"
  /\ main' = "exited"
  /\ UNCHANGED <<stopped, loop, raised, busVars, url, watcher, draining,
                 queue, delivery, history>>

\* The webhook URL is set or cleared on the Settings page.
ChangeUrl ==
  /\ UrlChanges
  /\ main = "serving"
  /\ url' = ~url
  /\ UNCHANGED <<stopped, main, loop, raised, busVars, watcher, draining,
                 queue, delivery, history>>

Exited == main = "exited" /\ UNCHANGED vars

Watcher   == Receive \/ StartDraining \/ WatcherUnsubscribe \/ CloseQueue
Deliverer == Take \/ Post \/ Retry \/ ExitDeliverer
Main      == LoopsDone \/ NotifierDone

Next ==
  \/ \E l \in Loops : Raise(l)
  \/ \E l \in Loops : PublishAlert(l)
  \/ \E l \in Loops : PublishMetric(l)
  \/ \E l \in Loops : ExitLoop(l)
  \/ Receive
  \/ StartDraining
  \/ WatcherUnsubscribe
  \/ CloseQueue
  \/ Take
  \/ Post
  \/ \E t \in Transitions : Arrive(t)
  \/ Retry
  \/ ExitDeliverer
  \/ Stop
  \/ LoopsDone
  \/ NotifierDone
  \/ ChangeUrl
  \/ Exited

Spec == Init /\ [][Next]_vars

(***************************************************************************)
(* Every goroutine that can run does.  A select with several ready         *)
(* branches picks one at random, so neither the watcher nor a loop         *)
(* overlooks the cancelled context forever.  Nothing forces the operator   *)
(* to stop the daemon, the endpoint to answer, or a request given up to    *)
(* arrive.                                                                 *)
(***************************************************************************)
FairSpec ==
  /\ Spec
  /\ WF_vars(Watcher) /\ WF_vars(StartDraining) /\ WF_vars(Deliverer)
  /\ WF_vars(Main)
  /\ \A l \in Loops : WF_vars(PublishAlert(l)) /\ WF_vars(ExitLoop(l))

----------------------------------------------------------------------------
(* Properties                                                              *)

Raised == {t \in Transitions : t[2] <= raised[t[1]]}
Published == Raised \ {t \in Transitions : loop[t[1]] = "publishing"
                                            /\ t[2] = raised[t[1]]}
Underway == ToSet(buffer) \cup ToSet(queue) \cup {current}

(***************************************************************************)
(* The endpoint hears of a loop's transitions in their order, whatever     *)
(* posts fail or are retried: of an alert's opening after its resolution   *)
(* only through a post that was given up at its timeout while the request  *)
(* was still on its way, which no retry and no later post waits for.       *)
(***************************************************************************)
OnlyLateOutOfOrder ==
  [][\A l \in Loops : newest'[l] < newest[l] => late[<<l, newest'[l]>>] > 0]_vars

(***************************************************************************)
(* While the daemon runs no notification gets lost unaccounted: a          *)
(* published transition is in the buffer, in the queue, being delivered or *)
(* was posted at least once, unless the buffer or the queue was full, or   *)
(* no URL was set, when it passed.                                         *)
(***************************************************************************)
NothingLostWhileRunning ==
  ~draining => \A t \in Published : fate[t] \in {"pending", "queued"} => t \in Underway

(***************************************************************************)
(* "Shutdown stays bounded by the queue length rather than length x        *)
(* attempts x timeout" (notify.go): from the moment draining is set, the   *)
(* delivery in progress may use up its attempts and every queued payload   *)
(* gets one.                                                               *)
(***************************************************************************)
DrainBounded == drainPosts <= QueueCap + Attempts

(***************************************************************************)
(* "Wait blocks until the bus watcher has stopped and every queued         *)
(* delivery has been attempted" (notify.go): at exit every payload that    *)
(* ever entered the queue was posted at least once, or met a URL that had  *)
(* been cleared.                                                           *)
(***************************************************************************)
QueuedIsAttempted ==
  main = "exited" => \A t \in Raised : fate[t] # "queued"

(***************************************************************************)
(* Every shutdown ends, also with an endpoint that never answers, loops    *)
(* that are still publishing, and full buffers: no goroutine waits for one *)
(* that has left.                                                          *)
(***************************************************************************)
ShutdownEnds == stopped ~> main = "exited"

(***************************************************************************)
(* "After the collectors stop, so any alert their last cycle raised is     *)
(* still delivered" (main.go): with a URL set and room in the buffers,     *)
(* every transition committed before the exit was posted at least once.    *)
(***************************************************************************)
LastCycleDelivered ==
  main = "exited" => \A t \in Raised : fate[t] = "attempted"
=============================================================================
