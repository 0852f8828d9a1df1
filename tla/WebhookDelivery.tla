-------------------------- MODULE WebhookDelivery ---------------------------
(***************************************************************************)
(* Outbound webhooks: the dispatcher (domain/webhooks/service/dispatcher.go) *)
(* creates one delivery per matching subscription and enqueues a task for   *)
(* it; a task makes one attempt (delivery_service.go, Deliver) and enqueues  *)
(* the next one itself.  Asynq's own retries are off (MaxRetry 0 in          *)
(* infra/webhooks/enqueuer.go): a task that ends in an error, or whose       *)
(* process dies, is not run again.  But a worker server that is shut down    *)
(* (app/start_routines/bootstrap_workers.go) waits for its tasks only so     *)
(* long, and puts those still running back into the queue.                   *)
(*                                                                          *)
(* Delays are left out: a task that is scheduled for later is in the queue.  *)
(* The endpoint may take a request and its answer be lost on the way.        *)
(***************************************************************************)
EXTENDS Naturals, FiniteSets

CONSTANTS Subs,          \* webhook subscriptions
          Occurrences,   \* events that occur, each at most once
          TypeOf,        \* the event type of an occurrence
          SectorAt,      \* the sector of an occurrence, or NoSector
          NoSector,
          Wants,         \* events[] of a subscription
          Scopes,        \* scopes of a subscription, {} is every sector
          Workers,       \* Asynq workers
          MaxAttempts,   \* maxAttempts, 6 in the code
          MaxShutdowns   \* bound: shutdowns that cut off a delivery's task

ASSUME WebhookAssumption ==
    /\ DOMAIN TypeOf = Occurrences
    /\ DOMAIN SectorAt = Occurrences
    /\ DOMAIN Wants = Subs
    /\ DOMAIN Scopes = Subs
    /\ MaxAttempts \in Nat \ {0}
    /\ MaxShutdowns \in Nat

VARIABLES sub,       \* the state of each subscription
          emitted,   \* the occurrences dispatched
          delivery,  \* webhook_deliveries
          queue,     \* how many tasks wait for each delivery
          pc, task,  \* where each worker is, and on which delivery
          copy,      \* the delivery a worker loaded, and whether to retry it
          posts,     \* requests sent for each delivery, as far as one too many
          heard,     \* deliveries for which a 2xx answer arrived
          cut,       \* deliveries whose subscription was found unusable
          lost,      \* deliveries whose task was lost
          again      \* how often a delivery's task was put back

vars == <<sub, emitted, delivery, queue, pc, task, copy, posts, heard, cut, lost, again>>

Deliveries == Occurrences \X Subs

Terminal == {"delivered", "dead"}

NoDelivery == [status |-> "none", attempts |-> 0, retry |-> FALSE]

Init ==
    /\ sub = [s \in Subs |-> "enabled"]
    /\ emitted = {}
    /\ delivery = [d \in Deliveries |-> NoDelivery]
    /\ queue = [d \in Deliveries |-> 0]
    /\ pc = [w \in Workers |-> "idle"]
    /\ task = [w \in Workers |-> {}]
    /\ copy = [w \in Workers |-> NoDelivery]
    /\ posts = [d \in Deliveries |-> 0]
    /\ heard = {}
    /\ cut = {}
    /\ lost = {}
    /\ again = [d \in Deliveries |-> 0]
-----------------------------------------------------------------------------
(* The dispatcher.                                                         *)

\* scopeAllows
ScopeAllows(s, sector) ==
    Scopes[s] = {} \/ sector \in Scopes[s] \ {NoSector}

\* The deliveries in `created' are stored, those in `queued' enqueued too: a
\* subscription whose record or task cannot be stored is passed over.
Dispatch(o, targets) ==
    /\ o \notin emitted
    /\ emitted' = emitted \cup {o}
    /\ \E created \in SUBSET targets : \E queued \in SUBSET created :
          /\ delivery' = [d \in Deliveries |->
                             IF d \in created
                             THEN [NoDelivery EXCEPT !.status = "pending"]
                             ELSE delivery[d]]
          /\ queue' = [d \in Deliveries |->
                          IF d \in queued THEN queue[d] + 1 ELSE queue[d]]
          /\ lost' = lost \cup (targets \ queued)
    /\ UNCHANGED <<sub, pc, task, copy, posts, heard, cut, again>>

\* emit: to every enabled subscription that wants the event, within its scope.
Emit(o) ==
    Dispatch(o, {o} \X {s \in Subs : /\ sub[s] = "enabled"
                                     /\ TypeOf[o] \in Wants[s]
                                     /\ ScopeAllows(s, SectorAt[o])})

\* EmitTo, EmitToChannel: to one enabled subscription, whatever it wants.
EmitTo(o, s) == sub[s] = "enabled" /\ Dispatch(o, {<<o, s>>})

\* The owner enables, disables or deletes a subscription.
Configure(s) ==
    /\ sub[s] # "gone"
    /\ \E state \in {"enabled", "disabled", "gone"} \ {sub[s]} :
          sub' = [sub EXCEPT ![s] = state]
    /\ UNCHANGED <<emitted, delivery, queue, pc, task, copy, posts, heard,
                   cut, lost, again>>
-----------------------------------------------------------------------------
(* One attempt, step by step.                                              *)

Goto(w, label) == pc' = [pc EXCEPT ![w] = label]

\* Asynq hands a task to a worker, once.
Take(w, d) ==
    /\ pc[w] = "idle"
    /\ queue[d] > 0
    /\ queue' = [queue EXCEPT ![d] = @ - 1]
    /\ task' = [task EXCEPT ![w] = {d}]
    /\ Goto(w, "load")
    /\ UNCHANGED <<sub, emitted, delivery, copy, posts, heard, cut, lost, again>>

\* The delivery a worker is on.
On(w) == CHOOSE d \in Deliveries : d \in task[w]

Done(w) ==
    /\ Goto(w, "idle")
    /\ task' = [task EXCEPT ![w] = {}]
    /\ copy' = [copy EXCEPT ![w] = NoDelivery]

\* A delivery that is settled is left alone.
LoadDelivery(w) ==
    /\ pc[w] = "load"
    /\ IF delivery[On(w)].status \in Terminal
       THEN Done(w)
       ELSE /\ copy' = [copy EXCEPT ![w] = delivery[On(w)]]
            /\ Goto(w, "check")
            /\ UNCHANGED task
    /\ UNCHANGED <<sub, emitted, delivery, queue, posts, heard, cut, lost, again>>

\* The copy takes its next state, to be saved.
Settle(w, status, attempts) ==
    /\ copy' = [copy EXCEPT ![w] = [status |-> status, attempts |-> attempts,
                                    retry |-> status = "retrying"]]
    /\ Goto(w, "save")

\* The subscription is gone or disabled: dead.
GiveUp(w) ==
    /\ pc[w] = "check"
    /\ sub[On(w)[2]] # "enabled"
    /\ Settle(w, "dead", copy[w].attempts)
    /\ cut' = cut \cup {On(w)}
    /\ UNCHANGED <<sub, emitted, delivery, queue, task, posts, heard, lost, again>>

\* Mutation of Reschedule: the postponement counts as an attempt.
RescheduleCounts(w) ==
    /\ pc[w] = "check"
    /\ sub[On(w)[2]] = "enabled"
    /\ copy[w].attempts < MaxAttempts
    /\ Settle(w, IF copy[w].attempts + 1 >= MaxAttempts
                 THEN "dead" ELSE "retrying", copy[w].attempts + 1)
    /\ UNCHANGED <<sub, emitted, delivery, queue, task, posts, heard, cut, lost, again>>

\* Over the rate limit: later, without counting an attempt.
Reschedule(w) ==
    /\ pc[w] = "check"
    /\ sub[On(w)[2]] = "enabled"
    /\ Settle(w, "retrying", copy[w].attempts)
    /\ UNCHANGED <<sub, emitted, delivery, queue, task, posts, heard, cut, lost, again>>

\* Within the rate limit, or the limiter failed.
Allowed(w) ==
    /\ pc[w] = "check"
    /\ sub[On(w)[2]] = "enabled"
    /\ Goto(w, "send")
    /\ UNCHANGED <<sub, emitted, delivery, queue, task, copy, posts, heard, cut,
                   lost, again>>

\* Mutation of Exhausted: one attempt too many.
ExhaustedLate(attempts) == attempts > MaxAttempts

\* retryOrDead
Exhausted(attempts) == attempts >= MaxAttempts

Send(w) ==
    /\ pc[w] = "send"
    /\ posts' = [posts EXCEPT ![On(w)] = IF @ > MaxAttempts THEN @ ELSE @ + 1]
    /\ LET n == copy[w].attempts + 1
       IN  \/ /\ heard' = heard \cup {On(w)}
              /\ Settle(w, "delivered", n)
           \/ /\ Settle(w, IF Exhausted(n) THEN "dead" ELSE "retrying", n)
              /\ UNCHANGED heard
    /\ UNCHANGED <<sub, emitted, delivery, queue, task, cut, lost, again>>

\* Mutation of Save: the retry is enqueued here and once more in Requeue.
SaveEnqueues(w) ==
    /\ pc[w] = "save"
    /\ delivery' = [delivery EXCEPT ![On(w)] = [copy[w] EXCEPT !.retry = FALSE]]
    /\ queue' = IF copy[w].retry THEN [queue EXCEPT ![On(w)] = @ + 1] ELSE queue
    /\ Goto(w, IF copy[w].retry THEN "enqueue" ELSE "ack")
    /\ UNCHANGED <<sub, emitted, task, copy, posts, heard, cut, lost, again>>

\* deliveries.Update: status and attempts of the copy, whatever is stored now.
Save(w) ==
    /\ pc[w] = "save"
    /\ delivery' = [delivery EXCEPT ![On(w)] = [copy[w] EXCEPT !.retry = FALSE]]
    /\ Goto(w, IF copy[w].retry THEN "enqueue" ELSE "ack")
    /\ UNCHANGED <<sub, emitted, queue, task, copy, posts, heard, cut, lost,
                   again>>

\* Mutation of Requeue: the retry is left to someone else.
RequeueForgets(w) ==
    /\ pc[w] = "enqueue"
    /\ Goto(w, "ack")
    /\ UNCHANGED <<sub, emitted, delivery, queue, task, copy, posts, heard, cut,
                   lost, again>>

\* EnqueueRetry
Requeue(w) ==
    /\ pc[w] = "enqueue"
    /\ queue' = [queue EXCEPT ![On(w)] = @ + 1]
    /\ Goto(w, "ack")
    /\ UNCHANGED <<sub, emitted, delivery, task, copy, posts, heard, cut, lost,
                   again>>

\* Asynq is done with the task.
Ack(w) ==
    /\ pc[w] = "ack"
    /\ Done(w)
    /\ UNCHANGED <<sub, emitted, delivery, queue, posts, heard, cut, lost, again>>

\* Mutation of TaskFails: Asynq runs the task again (MaxRetry > 0).
TaskRunsAgain(w) ==
    /\ pc[w] \notin {"idle", "ack"}
    /\ queue' = [queue EXCEPT ![On(w)] = @ + 1]
    /\ Done(w)
    /\ UNCHANGED <<sub, emitted, delivery, posts, heard, cut, lost, again>>

\* A database call fails and ends the task, the error of EnqueueRetry is
\* ignored, or the process dies: there is no task for the delivery any more.
TaskFails(w) ==
    /\ pc[w] \notin {"idle", "ack"}
    /\ lost' = lost \cup {On(w)}
    /\ Done(w)
    /\ UNCHANGED <<sub, emitted, delivery, queue, posts, heard, cut, again>>

\* srv.Shutdown, and the grace period ends before the task does.
CutOff(w) ==
    /\ pc[w] # "idle"
    /\ again[On(w)] < MaxShutdowns
    /\ again' = [again EXCEPT ![On(w)] = @ + 1]
    /\ queue' = [queue EXCEPT ![On(w)] = @ + 1]
    /\ Done(w)
    /\ UNCHANGED <<sub, emitted, delivery, posts, heard, cut, lost>>

Step(w) ==
    \/ LoadDelivery(w) \/ GiveUp(w) \/ Reschedule(w) \/ Allowed(w) \/ Send(w)
    \/ Save(w) \/ Requeue(w) \/ Ack(w)

Next ==
    \/ \E o \in Occurrences : Emit(o) \/ \E s \in Subs : EmitTo(o, s)
    \/ \E s \in Subs : Configure(s)
    \/ \E w \in Workers : \/ \E d \in Deliveries : Take(w, d)
                          \/ Step(w)
                          \/ TaskFails(w)
                          \/ CutOff(w)

Spec == Init /\ [][Next]_vars

\* Workers run on and take every task in the end; a delivery is not over the
\* rate limit for ever (30 seconds pass between two tries).
FairSpec ==
    /\ Spec
    /\ \A w \in Workers : WF_vars(Step(w)) /\ SF_vars(Allowed(w))
    /\ \A d \in Deliveries : SF_vars(\E w \in Workers : Take(w, d))
-----------------------------------------------------------------------------
(* Properties.                                                             *)

Record == [status : {"none", "pending", "retrying"} \cup Terminal,
           attempts : 0..MaxAttempts, retry : BOOLEAN]

\* The variables have the types the code gives them; a worker that is running
\* is on one delivery.
TypeOK ==
    /\ sub \in [Subs -> {"enabled", "disabled", "gone"}]
    /\ emitted \subseteq Occurrences
    /\ delivery \in [Deliveries -> Record]
    /\ queue \in [Deliveries -> Nat]
    /\ pc \in [Workers -> {"idle", "load", "check", "send", "save", "enqueue",
                        "ack"}]
    /\ task \in [Workers -> SUBSET Deliveries]
    /\ copy \in [Workers -> Record]
    /\ posts \in [Deliveries -> 0..MaxAttempts + 1]
    /\ heard \subseteq Deliveries
    /\ cut \subseteq Deliveries
    /\ lost \subseteq Deliveries
    /\ again \in [Deliveries -> 0..MaxShutdowns]
    /\ \A w \in Workers : IF pc[w] = "idle" THEN task[w] = {}
                          ELSE \E d \in Deliveries : task[w] = {d}

\* Deliveries whose task no shutdown put back.
Undisturbed == {d \in Deliveries : again[d] = 0}

\* The tasks of a delivery that will still act on it: in the queue, or running
\* and not merely waiting to be acknowledged.
Pending(d) == queue[d] + Cardinality({w \in Workers : d \in task[w] /\ pc[w] # "ack"})

\* A delivery is in the hands of one task at a time, so that Deliver, which
\* reads the record, posts and then overwrites it, does not run against itself;
\* each shutdown that cuts a task off adds one at most.
OneTask == \A d \in Deliveries : Pending(d) <= 1 + again[d]

\* A delivery is dead only when its subscription was unusable or every attempt
\* was made, and never more requests than that are sent (retryOrDead): a
\* postponement by the rate limiter costs no attempt, a crash adds none.
AttemptsAreExact ==
    \A d \in Undisturbed :
        /\ posts[d] <= MaxAttempts
        /\ delivery[d].status = "dead" /\ d \notin cut => posts[d] = MaxAttempts

\* A delivery that is not settled has its next attempt under way or in the
\* queue, unless a task was lost; even when two tasks overwrite each other's
\* record after a shutdown.
AttemptPending ==
    \A d \in Deliveries :
        delivery[d].status \in {"pending", "retrying"} /\ d \notin lost
        => Pending(d) > 0

\* Once the endpoint has answered 2xx nothing is posted again and the delivery
\* becomes nothing but delivered, also when saving that fails.
SilentAfterSuccess ==
    [][\A d \in heard \cap Undisturbed :
          /\ posts'[d] = posts[d]
          /\ delivery'[d] # delivery[d] => delivery'[d].status = "delivered"]_vars

\* Every delivery is settled in the end, unless its task was lost or a shutdown
\* put it back: of two tasks one may save the count of attempts it loaded before
\* the other's attempt (reschedule), and this can go on for ever.
Settles ==
    \A d \in Deliveries :
        delivery[d].status # "none"
        ~> \/ delivery[d].status \in Terminal
           \/ d \in lost \/ d \notin Undisturbed
=============================================================================
