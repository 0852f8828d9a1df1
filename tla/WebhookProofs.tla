--------------------------- MODULE WebhookProofs ----------------------------
(***************************************************************************)
(* Theorems about WebhookDelivery for any subscriptions, events, workers,    *)
(* number of attempts and number of shutdowns.                              *)
(***************************************************************************)
EXTENDS WebhookDelivery, FiniteSetTheorems, TLAPS

USE WebhookAssumption
-----------------------------------------------------------------------------
(* Types.                                                                  *)

\* A record that is not settled has an attempt left; the copy a worker decides
\* on is not settled; the copy it saves is settled or to be retried.
Sane ==
    /\ \A d \in Deliveries : delivery[d].status \notin Terminal
                               => delivery[d].attempts < MaxAttempts
    /\ \A w \in Workers :
          /\ pc[w] \in {"check", "send"} => /\ copy[w].status \notin Terminal
                                            /\ copy[w].attempts < MaxAttempts
          /\ pc[w] = "save" =>
                /\ copy[w].status \in Terminal \cup {"retrying"}
                /\ copy[w].retry <=> copy[w].status = "retrying"
                /\ copy[w].status = "retrying" => copy[w].attempts < MaxAttempts

\* A worker that is running is on a delivery, and On names it.
LEMMA OnIs ==
    ASSUME TypeOK, NEW w \in Workers, pc[w] # "idle"
    PROVE  /\ On(w) \in Deliveries /\ task[w] = {On(w)}
           /\ On(w)[1] \in Occurrences /\ On(w)[2] \in Subs
<1>1. PICK d \in Deliveries : task[w] = {d}
  BY DEF TypeOK
<1>2. On(w) = d
  BY <1>1 DEF On
<1> QED BY <1>1, <1>2 DEF Deliveries

\* What the types say of the copy a worker holds and of a stored record.
LEMMA RecordTypes ==
    ASSUME NEW r \in Record
    PROVE  /\ r.attempts \in 0..MaxAttempts /\ r.retry \in BOOLEAN
           /\ r.status \in {"none", "pending", "retrying"} \cup Terminal
           /\ [r EXCEPT !.retry = FALSE] \in Record
           /\ [r EXCEPT !.retry = FALSE].status = r.status
           /\ [r EXCEPT !.retry = FALSE].attempts = r.attempts
BY DEF Record

\* The records that are created have the record's type.
LEMMA NewRecords ==
    /\ NoDelivery \in Record /\ NoDelivery.status = "none"
    /\ NoDelivery.attempts = 0
    /\ [NoDelivery EXCEPT !.status = "pending"] \in Record
    /\ [NoDelivery EXCEPT !.status = "pending"].status = "pending"
    /\ [NoDelivery EXCEPT !.status = "pending"].attempts = 0
<1>1. 0 \in 0..MaxAttempts
  OBVIOUS
<1>2. NoDelivery \in Record
  BY <1>1 DEF NoDelivery, Record
<1>3. [NoDelivery EXCEPT !.status = "pending"] \in Record
  BY <1>2 DEF Record
<1> QED BY <1>2, <1>3 DEF NoDelivery

\* A worker that is done keeps the types.
LEMMA DoneType ==
    ASSUME TypeOK, Sane, NEW w \in Workers, Done(w),
           UNCHANGED <<sub, emitted, delivery, posts, heard, cut>>,
           queue' \in [Deliveries -> Nat],
           lost' \subseteq Deliveries,
           again' \in [Deliveries -> 0..MaxShutdowns]
    PROVE  TypeOK' /\ Sane'
<1>1. /\ pc' = [pc EXCEPT ![w] = "idle"]
      /\ task' = [task EXCEPT ![w] = {}]
      /\ copy' = [copy EXCEPT ![w] = NoDelivery]
  BY DEF Done, Goto
<1>2. TypeOK'
  BY <1>1, NewRecords DEF TypeOK
<1>3. Sane'
  BY <1>1 DEF TypeOK, Sane
<1> QED BY <1>2, <1>3

\* Settling the copy keeps the types.
LEMMA SettleType ==
    ASSUME TypeOK, Sane, NEW w \in Workers, pc[w] # "idle",
           NEW status \in Terminal \cup {"retrying"},
           NEW n \in 0..MaxAttempts, status = "retrying" => n < MaxAttempts,
           Settle(w, status, n),
           UNCHANGED <<sub, emitted, delivery, queue, task, lost, again>>,
           posts' \in [Deliveries -> 0..MaxAttempts + 1],
           heard' \subseteq Deliveries, cut' \subseteq Deliveries
    PROVE  TypeOK' /\ Sane'
<1> DEFINE r == [status |-> status, attempts |-> n, retry |-> status = "retrying"]
<1>1. /\ r \in Record
      /\ r.status = status /\ r.attempts = n /\ r.retry = (status = "retrying")
  BY DEF Record
<1>2. copy' = [copy EXCEPT ![w] = r] /\ pc' = [pc EXCEPT ![w] = "save"]
  BY DEF Settle, Goto
<1> HIDE DEF r
<1>3. TypeOK'
  BY <1>1, <1>2 DEF TypeOK
<1>4. copy'[w] = r /\ pc'[w] = "save"
  BY <1>2 DEF TypeOK
<1>5. \A v \in Workers \ {w} : pc'[v] = pc[v] /\ copy'[v] = copy[v]
  BY <1>2 DEF TypeOK
<1>6. Sane'
  BY <1>1, <1>4, <1>5 DEF Sane
<1> QED BY <1>3, <1>6

\* An event is dispatched to deliveries of its own.
LEMMA EmitTargets ==
    ASSUME NEW o \in Occurrences, Emit(o) \/ \E s \in Subs : EmitTo(o, s)
    PROVE  \E targets \in SUBSET Deliveries :
              Dispatch(o, targets) /\ \A d \in targets : d[1] = o
<1>1. CASE Emit(o)
  <2> DEFINE S == {s \in Subs : /\ sub[s] = "enabled"
                                /\ TypeOf[o] \in Wants[s]
                                /\ ScopeAllows(s, SectorAt[o])}
  <2>1. {o} \X S \subseteq Deliveries /\ \A d \in {o} \X S : d[1] = o
    BY DEF Deliveries
  <2> QED BY <1>1, <2>1 DEF Emit
<1>2. ASSUME NEW s \in Subs, EmitTo(o, s)
      PROVE  \E targets \in SUBSET Deliveries :
                Dispatch(o, targets) /\ \A d \in targets : d[1] = o
  <2>1. {<<o, s>>} \subseteq Deliveries /\ \A d \in {<<o, s>>} : d[1] = o
    BY DEF Deliveries
  <2> QED BY <1>2, <2>1 DEF EmitTo
<1> QED BY <1>1, <1>2

\* The dispatcher keeps the types.
LEMMA DispatchType ==
    ASSUME TypeOK, Sane, NEW o \in Occurrences, NEW targets \in SUBSET Deliveries,
           Dispatch(o, targets)
    PROVE  TypeOK' /\ Sane'
<1>1. PICK created \in SUBSET targets : \E queued \in SUBSET created :
          /\ delivery' = [d \in Deliveries |->
                             IF d \in created
                             THEN [NoDelivery EXCEPT !.status = "pending"]
                             ELSE delivery[d]]
          /\ queue' = [d \in Deliveries |->
                          IF d \in queued THEN queue[d] + 1 ELSE queue[d]]
          /\ lost' = lost \cup (targets \ queued)
  BY DEF Dispatch
<1>2. PICK queued \in SUBSET created :
          /\ queue' = [d \in Deliveries |->
                          IF d \in queued THEN queue[d] + 1 ELSE queue[d]]
          /\ lost' = lost \cup (targets \ queued)
  BY <1>1
<1>3. emitted' = emitted \cup {o}
      /\ UNCHANGED <<sub, pc, task, copy, posts, heard, cut, again>>
  BY DEF Dispatch
<1>4. delivery' \in [Deliveries -> Record]
  BY <1>1, NewRecords DEF TypeOK
<1>5. queue' \in [Deliveries -> Nat] /\ lost' \subseteq Deliveries
  BY <1>2 DEF TypeOK
<1>6. \A d \in Deliveries : delivery'[d].status \notin Terminal
                              => delivery'[d].attempts < MaxAttempts
  BY <1>1, NewRecords DEF Sane
<1>7. TypeOK'
  BY <1>3, <1>4, <1>5 DEF TypeOK
<1>8. Sane'
  BY <1>3, <1>6 DEF Sane
<1> QED BY <1>7, <1>8

\* Every step keeps the types.
LEMMA NextType == TypeOK /\ Sane /\ [Next]_vars => TypeOK' /\ Sane'
<1> SUFFICES ASSUME TypeOK, Sane, [Next]_vars PROVE TypeOK' /\ Sane'
  OBVIOUS
<1>1. ASSUME NEW o \in Occurrences, Emit(o) \/ \E s \in Subs : EmitTo(o, s)
      PROVE  TypeOK' /\ Sane'
  BY <1>1, EmitTargets, DispatchType
<1>2. ASSUME NEW s \in Subs, Configure(s) PROVE TypeOK' /\ Sane'
  <2>1. /\ sub' \in [Subs -> {"enabled", "disabled", "gone"}]
        /\ UNCHANGED <<emitted, delivery, queue, pc, task, copy, posts, heard,
                       cut, lost, again>>
    BY <1>2 DEF Configure, TypeOK
  <2> QED BY <2>1 DEF TypeOK, Sane
<1>3. ASSUME NEW w \in Workers, NEW d \in Deliveries, Take(w, d)
      PROVE  TypeOK' /\ Sane'
  <2>1. /\ queue' \in [Deliveries -> Nat]
        /\ task' = [task EXCEPT ![w] = {d}] /\ pc' = [pc EXCEPT ![w] = "load"]
        /\ UNCHANGED <<sub, emitted, delivery, copy, posts, heard, cut, lost,
                       again>>
    BY <1>3 DEF Take, Goto, TypeOK
  <2>2. TypeOK'
    BY <2>1 DEF TypeOK
  <2>3. Sane'
    BY <2>1 DEF Sane, TypeOK
  <2> QED BY <2>2, <2>3
<1>4. ASSUME NEW w \in Workers,
             Step(w) \/ TaskFails(w) \/ CutOff(w)
      PROVE  TypeOK' /\ Sane'
  <2>1. pc[w] # "idle"
    BY <1>4 DEF Step, LoadDelivery, GiveUp, Reschedule, Allowed, Send, Save,
                Requeue, Ack, TaskFails, CutOff
  <2>2. /\ On(w) \in Deliveries /\ copy[w] \in Record
        /\ delivery[On(w)] \in Record
        /\ copy[w].attempts \in 0..MaxAttempts
    BY <2>1, OnIs, RecordTypes DEF TypeOK
  <2>3. CASE LoadDelivery(w)
    <3>1. CASE delivery[On(w)].status \in Terminal
      BY <2>3, <3>1, DoneType DEF LoadDelivery, TypeOK
    <3>2. CASE delivery[On(w)].status \notin Terminal
      <4>1. /\ copy' = [copy EXCEPT ![w] = delivery[On(w)]]
            /\ pc' = [pc EXCEPT ![w] = "check"]
            /\ UNCHANGED <<task, sub, emitted, delivery, queue, posts, heard, cut, lost, again>>
        BY <2>3, <3>2 DEF LoadDelivery, Goto
      <4>2. TypeOK'
        BY <2>1, <2>2, <4>1 DEF TypeOK
      <4>3. Sane'
        BY <2>2, <3>2, <4>1 DEF Sane, TypeOK
      <4> QED BY <4>2, <4>3
    <3> QED BY <3>1, <3>2
  <2>4. CASE GiveUp(w)
    BY <2>1, <2>2, <2>4, SettleType DEF GiveUp, TypeOK, Terminal
  <2>5. CASE Reschedule(w)
    <3>1. copy[w].attempts < MaxAttempts
      BY <2>5 DEF Reschedule, Sane
    <3> QED BY <2>1, <2>2, <2>5, <3>1, SettleType DEF Reschedule, TypeOK
  <2>6. CASE Allowed(w)
    <3>1. pc[w] = "check" /\ pc' = [pc EXCEPT ![w] = "send"]
          /\ UNCHANGED <<task, copy, sub, emitted, delivery, queue, posts, heard, cut, lost, again>>
      BY <2>6 DEF Allowed, Goto
    <3>2. TypeOK'
      BY <3>1 DEF TypeOK
    <3>3. Sane'
      BY <3>1 DEF Sane, TypeOK
    <3> QED BY <3>2, <3>3
  <2>7. CASE Send(w)
    <3>1. copy[w].attempts < MaxAttempts
      BY <2>7 DEF Send, Sane
    <3>2. posts' \in [Deliveries -> 0..MaxAttempts + 1]
      BY <2>2, <2>7 DEF Send, TypeOK
    <3> DEFINE n == copy[w].attempts + 1
    <3>3. n \in 0..MaxAttempts
      BY <2>2, <3>1
    <3>4. PICK status \in Terminal \cup {"retrying"} :
             /\ Settle(w, status, n)
             /\ status = "retrying" => ~(n >= MaxAttempts)
      BY <2>7 DEF Send, Exhausted, Terminal
    <3>5. heard' \subseteq Deliveries
      BY <2>2, <2>7 DEF Send, TypeOK
    <3> HIDE DEF n
    <3> QED
      BY <2>1, <2>7, <3>2, <3>3, <3>4, <3>5, SettleType DEF Send, TypeOK
  <2>8. CASE Save(w)
    <3> DEFINE r == [copy[w] EXCEPT !.retry = FALSE]
    <3>1. r \in Record /\ r.status = copy[w].status /\ r.attempts = copy[w].attempts
      BY <2>2, RecordTypes
    <3>2. delivery' = [delivery EXCEPT ![On(w)] = r]
      BY <2>8 DEF Save
    <3> HIDE DEF r
    <3>3. PICK l \in {"enqueue", "ack"} : pc' = [pc EXCEPT ![w] = l]
      BY <2>8 DEF Save, Goto
    <3>4. TypeOK'
      <4>1. UNCHANGED <<sub, emitted, queue, task, copy, posts, heard, cut,
                        lost, again>>
        BY <2>8 DEF Save
      <4>2. pc' \in [Workers -> {"idle", "load", "check", "send", "save",
                                 "enqueue", "ack"}]
        BY <3>3 DEF TypeOK
      <4>3. delivery' \in [Deliveries -> Record]
        BY <2>2, <3>1, <3>2 DEF TypeOK
      <4>4. \A v \in Workers : pc'[v] = "idle" <=> pc[v] = "idle"
        BY <2>1, <3>3 DEF TypeOK
      <4> QED BY <4>1, <4>2, <4>3, <4>4 DEF TypeOK
    <3>5. r.status \notin Terminal => r.attempts < MaxAttempts
      BY <2>8, <3>1 DEF Sane, Save
    <3>6. Sane'
      BY <2>2, <2>8, <3>2, <3>3, <3>5 DEF Sane, TypeOK, Save
    <3> QED BY <3>4, <3>6
  <2>9. CASE Requeue(w)
    <3>1. queue' \in [Deliveries -> Nat]
      BY <2>2, <2>9 DEF Requeue, TypeOK
    <3>2. pc' = [pc EXCEPT ![w] = "ack"]
          /\ UNCHANGED <<task, copy, sub, emitted, delivery, posts, heard, cut, lost, again>>
      BY <2>9 DEF Requeue, Goto
    <3>3. TypeOK'
      BY <2>1, <3>1, <3>2 DEF TypeOK
    <3>4. Sane'
      BY <3>2 DEF Sane, TypeOK
    <3> QED BY <3>3, <3>4
  <2>10. CASE Ack(w)
    BY <2>10, DoneType DEF Ack, TypeOK
  <2>11. CASE TaskFails(w)
    BY <2>2, <2>11, DoneType DEF TaskFails, TypeOK
  <2>12. CASE CutOff(w)
    <3>1. /\ queue' \in [Deliveries -> Nat]
          /\ again' \in [Deliveries -> 0..MaxShutdowns]
      BY <2>2, <2>12 DEF CutOff, TypeOK
    <3> QED BY <2>12, <3>1, DoneType DEF CutOff, TypeOK
  <2> QED
    BY <1>4, <2>3, <2>4, <2>5, <2>6, <2>7, <2>8, <2>9, <2>10, <2>11, <2>12
       DEF Step
<1>5. CASE UNCHANGED vars
  BY <1>5 DEF vars, TypeOK, Sane
<1> QED BY <1>1, <1>2, <1>3, <1>4, <1>5 DEF Next

\* Types hold, and a record or a copy that is not settled has an attempt left,
\* in every reachable state.
LEMMA TypesHold == Spec => [](TypeOK /\ Sane)
<1>1. Init => TypeOK /\ Sane
  BY NewRecords DEF Init, TypeOK, Sane
<1> QED BY <1>1, NextType, PTL DEF Spec

\* Every reachable state of the webhook deliveries is well typed: no record
\* counts more than MaxAttempts attempts, also when two tasks that a shutdown
\* made overwrite each other's record.
THEOREM TypeCorrect == Spec => []TypeOK
BY TypesHold, PTL

-----------------------------------------------------------------------------
(* Tasks.                                                                  *)

\* The workers that will still act on a delivery.
Active(d) == {w \in Workers : d \in task[w] /\ pc[w] # "ack"}

\* Nothing exists for an event that was not dispatched.
Born ==
    /\ \A w \in Workers : \A d \in task[w] : d[1] \in emitted
    /\ \A d \in Deliveries : d[1] \notin emitted =>
          queue[d] = 0 /\ posts[d] = 0 /\ d \notin heard

\* A step of a worker on its delivery: nobody else moves, and it touches the
\* queue, the requests and the record of no other delivery.
LEMMA WorkerSteps ==
    ASSUME TypeOK, NEW w \in Workers, Step(w) \/ TaskFails(w) \/ CutOff(w)
    PROVE  /\ pc[w] # "idle" /\ emitted' = emitted
           /\ \A v \in Workers \ {w} : /\ pc'[v] = pc[v]
                                       /\ task'[v] = task[v]
                                       /\ copy'[v] = copy[v]
           /\ \A d \in Deliveries \ {On(w)} :
                 /\ queue'[d] = queue[d] /\ posts'[d] = posts[d]
                 /\ again'[d] = again[d] /\ delivery'[d] = delivery[d]
                 /\ d \in heard' <=> d \in heard
                 /\ d \in lost' <=> d \in lost
                 /\ d \in cut' <=> d \in cut
           /\ task'[w] \subseteq task[w]
<1>1. pc[w] # "idle" /\ emitted' = emitted
  BY DEF Step, LoadDelivery, GiveUp, Reschedule, Allowed, Send, Save,
         Requeue, Ack, TaskFails, CutOff
<1>2. On(w) \in Deliveries
  BY <1>1, OnIs
<1>3. \A v \in Workers \ {w} : /\ pc'[v] = pc[v]
                               /\ task'[v] = task[v]
                               /\ copy'[v] = copy[v]
  BY DEF TypeOK, Step, LoadDelivery, GiveUp, Reschedule, Allowed, Send, Save,
         Requeue, Ack, TaskFails, CutOff, Done, Settle, Goto
<1>4. task'[w] \subseteq task[w]
  BY DEF TypeOK, Step, LoadDelivery, GiveUp, Reschedule, Allowed, Send, Save,
         Requeue, Ack, TaskFails, CutOff, Done
<1>5. \A d \in Deliveries \ {On(w)} :
         queue'[d] = queue[d] /\ again'[d] = again[d]
  BY <1>2 DEF TypeOK, Step, LoadDelivery, GiveUp, Reschedule, Allowed, Send,
              Save, Requeue, Ack, TaskFails, CutOff
<1>6. \A d \in Deliveries \ {On(w)} :
         posts'[d] = posts[d] /\ delivery'[d] = delivery[d]
  BY <1>2 DEF TypeOK, Step, LoadDelivery, GiveUp, Reschedule, Allowed, Send,
              Save, Requeue, Ack, TaskFails, CutOff
<1>7. \A d \in Deliveries \ {On(w)} : /\ d \in heard' <=> d \in heard
                                      /\ d \in lost' <=> d \in lost
                                      /\ d \in cut' <=> d \in cut
  BY <1>2 DEF Step, LoadDelivery, GiveUp, Reschedule, Allowed, Send,
              Save, Requeue, Ack, TaskFails, CutOff
<1> QED BY <1>1, <1>3, <1>4, <1>5, <1>6, <1>7

\* Dispatching touches only deliveries of an event not dispatched before: they
\* are created, and those that get no task are counted as lost.
LEMMA DispatchSteps ==
    ASSUME TypeOK, NEW o \in Occurrences,
           Emit(o) \/ \E s \in Subs : EmitTo(o, s)
    PROVE  /\ o \notin emitted /\ emitted' = emitted \cup {o}
           /\ UNCHANGED <<sub, pc, task, copy, posts, heard, cut, again>>
           /\ \A d \in Deliveries :
                 \/ /\ d[1] = o
                    /\ \/ queue'[d] = queue[d] + 1
                       \/ queue'[d] = queue[d] /\ d \in lost'
                    /\ \/ delivery'[d] = [NoDelivery EXCEPT !.status = "pending"]
                       \/ queue'[d] = queue[d] /\ delivery'[d] = delivery[d]
                    /\ d \in lost => d \in lost'
                 \/ /\ queue'[d] = queue[d] /\ delivery'[d] = delivery[d]
                    /\ d \in lost' <=> d \in lost
<1>1. PICK targets \in SUBSET Deliveries :
         Dispatch(o, targets) /\ \A d \in targets : d[1] = o
  BY EmitTargets
<1>2. PICK created \in SUBSET targets : \E queued \in SUBSET created :
          /\ delivery' = [d \in Deliveries |->
                             IF d \in created
                             THEN [NoDelivery EXCEPT !.status = "pending"]
                             ELSE delivery[d]]
          /\ queue' = [d \in Deliveries |->
                          IF d \in queued THEN queue[d] + 1 ELSE queue[d]]
          /\ lost' = lost \cup (targets \ queued)
  BY <1>1 DEF Dispatch
<1>3. PICK queued \in SUBSET created :
          /\ queue' = [d \in Deliveries |->
                          IF d \in queued THEN queue[d] + 1 ELSE queue[d]]
          /\ lost' = lost \cup (targets \ queued)
  BY <1>2
<1>4. ASSUME NEW d \in Deliveries
      PROVE  \/ /\ d[1] = o
                /\ \/ queue'[d] = queue[d] + 1
                   \/ queue'[d] = queue[d] /\ d \in lost'
                /\ \/ delivery'[d] = [NoDelivery EXCEPT !.status = "pending"]
                   \/ queue'[d] = queue[d] /\ delivery'[d] = delivery[d]
                /\ d \in lost => d \in lost'
             \/ /\ queue'[d] = queue[d] /\ delivery'[d] = delivery[d]
                /\ d \in lost' <=> d \in lost
  <2>1. CASE d \in targets
    BY <1>1, <1>2, <1>3, <2>1
  <2>2. CASE d \notin targets
    BY <1>2, <1>3, <2>2
  <2> QED BY <2>1, <2>2
<1> QED BY <1>1, <1>4 DEF Dispatch

\* Born is kept by every step.
LEMMA BornSteps == TypeOK /\ Born /\ [Next]_vars => Born'
<1> SUFFICES ASSUME TypeOK, Born, [Next]_vars PROVE Born'
  OBVIOUS
<1>1. ASSUME NEW o \in Occurrences, Emit(o) \/ \E s \in Subs : EmitTo(o, s)
      PROVE  Born'
  <2>1. /\ emitted' = emitted \cup {o}
        /\ UNCHANGED <<pc, task, posts, heard>>
        /\ \A d \in Deliveries : d[1] = o \/ queue'[d] = queue[d]
    BY <1>1, DispatchSteps
  <2> QED BY <2>1 DEF Born
<1>2. ASSUME NEW s \in Subs, Configure(s) PROVE Born'
  BY <1>2 DEF Configure, Born
<1>3. ASSUME NEW w \in Workers, NEW d \in Deliveries, Take(w, d) PROVE Born'
  <2>1. /\ queue[d] > 0 /\ queue' = [queue EXCEPT ![d] = @ - 1]
        /\ task' = [task EXCEPT ![w] = {d}]
        /\ UNCHANGED <<emitted, posts, heard>>
    BY <1>3 DEF Take
  <2>2. d[1] \in emitted
    BY <2>1 DEF Born
  <2> QED BY <2>1, <2>2 DEF Born, TypeOK
<1>4. ASSUME NEW w \in Workers, Step(w) \/ TaskFails(w) \/ CutOff(w)
      PROVE  Born'
  <2>1. On(w) \in task[w] /\ On(w) \in Deliveries
    BY <1>4, WorkerSteps, OnIs
  <2>2. On(w)[1] \in emitted
    BY <2>1 DEF Born
  <2>3. /\ emitted' = emitted
        /\ \A v \in Workers : task'[v] \subseteq task[v]
        /\ \A d \in Deliveries \ {On(w)} :
              /\ queue'[d] = queue[d] /\ posts'[d] = posts[d]
              /\ d \in heard' <=> d \in heard
    BY <1>4, WorkerSteps
  <2> QED BY <2>2, <2>3 DEF Born
<1>5. CASE UNCHANGED vars
  BY <1>5 DEF vars, Born
<1> QED BY <1>1, <1>2, <1>3, <1>4, <1>5 DEF Next

\* Workers come and go one at a time, so that those on a delivery are always
\* finitely many and can be counted.
Counted ==
    /\ \A d \in Deliveries : IsFiniteSet(Active(d))
    /\ OneTask

\* When only w moves, the number of active workers changes with w alone.
LEMMA ActiveMoves ==
    ASSUME NEW w \in Workers, NEW d, IsFiniteSet(Active(d)),
           \A v \in Workers \ {w} : pc'[v] = pc[v] /\ task'[v] = task[v]
    PROVE  /\ IsFiniteSet(Active(d)')
           /\ Cardinality(Active(d)) \in Nat /\ Cardinality(Active(d)') \in Nat
           /\ (w \in Active(d)' <=> w \in Active(d)) => Active(d)' = Active(d)
           /\ w \in Active(d)' /\ w \notin Active(d)
              => Cardinality(Active(d)') = Cardinality(Active(d)) + 1
           /\ w \notin Active(d)' /\ w \in Active(d)
              => Cardinality(Active(d)') = Cardinality(Active(d)) - 1
<1>1. CASE w \in Active(d)' <=> w \in Active(d)
  <2>1. Active(d)' = Active(d)
    BY <1>1 DEF Active
  <2> QED BY <1>1, <2>1, FS_CardinalityType
<1>2. CASE w \in Active(d)' /\ w \notin Active(d)
  <2>1. Active(d)' = Active(d) \cup {w}
    BY <1>2 DEF Active
  <2> QED BY <1>2, <2>1, FS_CardinalityType, FS_AddElement
<1>3. CASE w \notin Active(d)' /\ w \in Active(d)
  <2>1. Active(d)' = Active(d) \ {w}
    BY <1>3 DEF Active
  <2> QED BY <1>3, <2>1, FS_CardinalityType, FS_RemoveElement
<1> QED BY <1>1, <1>2, <1>3

\* What a worker's own step does to the tasks of its delivery: it moves on, it
\* hands its turn over to the queue, it ends, or a shutdown puts it back.
LEMMA TurnSteps ==
    ASSUME TypeOK, Sane, NEW w \in Workers, NEW d, d = On(w),
           Step(w) \/ TaskFails(w) \/ CutOff(w)
    PROVE  /\ d \in Deliveries /\ lost \subseteq lost'
           /\ \/ /\ w \in Active(d) /\ w \in Active(d)'
                 /\ queue'[d] = queue[d] /\ again'[d] = again[d]
              \/ /\ w \in Active(d) /\ w \notin Active(d)'
                 /\ queue'[d] = queue[d] + 1 /\ again'[d] = again[d]
              \/ /\ w \notin Active(d)'
                 /\ queue'[d] = queue[d] /\ again'[d] = again[d]
                 /\ \/ delivery'[d].status \in Terminal
                    \/ d \in lost'
                    \/ w \notin Active(d) /\ delivery' = delivery
              \/ /\ w \notin Active(d)' /\ queue'[d] = queue[d] + 1
                 /\ again'[d] = again[d] + 1
<1>1. /\ pc[w] # "idle" /\ d \in Deliveries /\ task[w] = {d}
      /\ copy[w] \in Record
  BY WorkerSteps, OnIs DEF TypeOK
<1>2. w \in Active(d) <=> pc[w] # "ack"
  BY <1>1 DEF Active
<1>3. ASSUME Done(w) PROVE w \notin Active(d)'
  BY <1>3 DEF Done, TypeOK, Active
<1>4. ASSUME task' = task, NEW l, Goto(w, l)
      PROVE  w \in Active(d)' <=> l # "ack"
  BY <1>1, <1>4 DEF Goto, TypeOK, Active
<1>5. CASE LoadDelivery(w)
  <2>1. CASE delivery[d].status \in Terminal
    BY <1>1, <1>3, <1>5, <2>1 DEF LoadDelivery
  <2>2. CASE delivery[d].status \notin Terminal
    BY <1>1, <1>2, <1>4, <1>5, <2>2 DEF LoadDelivery
  <2> QED BY <2>1, <2>2
<1>6. CASE GiveUp(w) \/ Reschedule(w) \/ Allowed(w) \/ Send(w)
  <2>1. PICK l \in {"send", "save"} : Goto(w, l)
    BY <1>6 DEF GiveUp, Reschedule, Allowed, Send, Settle
  <2>2. task' = task /\ queue' = queue /\ again' = again /\ lost' = lost
        /\ pc[w] # "ack"
    BY <1>6 DEF GiveUp, Reschedule, Allowed, Send
  <2> QED BY <1>1, <1>2, <1>4, <2>1, <2>2
<1>7. CASE Save(w)
  <2>1. /\ task' = task /\ queue' = queue /\ again' = again /\ lost' = lost
        /\ pc[w] = "save"
        /\ Goto(w, IF copy[w].retry THEN "enqueue" ELSE "ack")
        /\ delivery' = [delivery EXCEPT ![d] = [copy[w] EXCEPT !.retry = FALSE]]
    BY <1>7 DEF Save
  <2>2. CASE copy[w].retry
    BY <1>1, <1>2, <1>4, <2>1, <2>2
  <2>3. CASE ~copy[w].retry
    <3>1. copy[w].status \in Terminal
      BY <2>1, <2>3 DEF Sane
    <3>2. delivery'[d].status = copy[w].status
      BY <1>1, <2>1, RecordTypes DEF TypeOK
    <3> QED BY <1>1, <1>4, <2>1, <2>3, <3>1, <3>2
  <2> QED BY <2>2, <2>3
<1>8. CASE Requeue(w)
  <2>1. /\ pc[w] = "enqueue" /\ Goto(w, "ack") /\ UNCHANGED <<task, lost, again>>
        /\ queue' = [queue EXCEPT ![d] = @ + 1]
    BY <1>8 DEF Requeue
  <2>2. w \in Active(d) /\ w \notin Active(d)'
    BY <1>2, <1>4, <2>1
  <2>3. queue'[d] = queue[d] + 1
    BY <1>1, <2>1 DEF TypeOK
  <2> QED BY <1>1, <2>1, <2>2, <2>3
<1>9. CASE Ack(w)
  BY <1>1, <1>2, <1>3, <1>9 DEF Ack
<1>10. CASE TaskFails(w)
  BY <1>1, <1>3, <1>10 DEF TaskFails
<1>11. CASE CutOff(w)
  BY <1>1, <1>3, <1>11 DEF CutOff, TypeOK
<1> QED BY <1>5, <1>6, <1>7, <1>8, <1>9, <1>10, <1>11 DEF Step

\* Every step keeps the count of a delivery's tasks within its bound.
LEMMA CountedSteps ==
    TypeOK /\ Sane /\ Born /\ Counted /\ [Next]_vars => Counted'
<1> SUFFICES ASSUME TypeOK, Sane, Born, Counted, [Next]_vars,
                    NEW d \in Deliveries
             PROVE  /\ IsFiniteSet(Active(d)')
                    /\ queue'[d] + Cardinality(Active(d)') <= 1 + again'[d]
  BY DEF Counted, OneTask, Pending, Active
<1>1. /\ IsFiniteSet(Active(d)) /\ Cardinality(Active(d)) \in Nat
      /\ queue[d] + Cardinality(Active(d)) <= 1 + again[d]
      /\ queue[d] \in Nat /\ again[d] \in Nat
  BY FS_CardinalityType DEF Counted, OneTask, Pending, Active, TypeOK
<1>2. ASSUME UNCHANGED <<pc, task>>, queue'[d] = queue[d], again'[d] = again[d]
      PROVE  /\ IsFiniteSet(Active(d)')
             /\ queue'[d] + Cardinality(Active(d)') <= 1 + again'[d]
  <2>1. Active(d)' = Active(d)
    BY <1>2 DEF Active
  <2> QED BY <1>1, <1>2, <2>1
<1>3. ASSUME NEW o \in Occurrences, Emit(o) \/ \E s \in Subs : EmitTo(o, s)
      PROVE  /\ IsFiniteSet(Active(d)')
             /\ queue'[d] + Cardinality(Active(d)') <= 1 + again'[d]
  <2>1. /\ UNCHANGED <<pc, task, again>> /\ o \notin emitted
        /\ \/ queue'[d] = queue[d]
           \/ d[1] = o /\ queue'[d] = queue[d] + 1
    BY <1>3, DispatchSteps
  <2>2. CASE queue'[d] = queue[d]
    BY <1>2, <2>1, <2>2
  <2>3. CASE d[1] = o /\ queue'[d] = queue[d] + 1
    <3>1. Active(d)' = {} /\ queue[d] = 0
      BY <2>1, <2>3 DEF Born, Active
    <3> QED BY <1>1, <2>1, <2>3, <3>1, FS_EmptySet
  <2> QED BY <2>1, <2>2, <2>3
<1>4. ASSUME NEW s \in Subs, Configure(s)
      PROVE  /\ IsFiniteSet(Active(d)')
             /\ queue'[d] + Cardinality(Active(d)') <= 1 + again'[d]
  BY <1>2, <1>4 DEF Configure
<1>5. ASSUME NEW w \in Workers, NEW e \in Deliveries, Take(w, e)
      PROVE  /\ IsFiniteSet(Active(d)')
             /\ queue'[d] + Cardinality(Active(d)') <= 1 + again'[d]
  <2>1. /\ pc[w] = "idle" /\ again' = again /\ queue[e] > 0
        /\ queue' = [queue EXCEPT ![e] = @ - 1]
        /\ pc' = [pc EXCEPT ![w] = "load"] /\ task' = [task EXCEPT ![w] = {e}]
    BY <1>5 DEF Take, Goto
  <2>2. /\ \A v \in Workers \ {w} : pc'[v] = pc[v] /\ task'[v] = task[v]
        /\ w \notin Active(d)
        /\ w \in Active(d)' <=> d = e
    BY <2>1 DEF TypeOK, Active
  <2>3. queue'[d] = IF d = e THEN queue[d] - 1 ELSE queue[d]
    BY <2>1 DEF TypeOK
  <2> QED BY <1>1, <2>1, <2>2, <2>3, ActiveMoves
<1>6. ASSUME NEW w \in Workers, Step(w) \/ TaskFails(w) \/ CutOff(w)
      PROVE  /\ IsFiniteSet(Active(d)')
             /\ queue'[d] + Cardinality(Active(d)') <= 1 + again'[d]
  <2>1. /\ \A v \in Workers \ {w} : pc'[v] = pc[v] /\ task'[v] = task[v]
        /\ pc[w] # "idle"
    BY <1>6, WorkerSteps
  <2>2. CASE d = On(w)
    BY <1>1, <1>6, <2>1, <2>2, TurnSteps, ActiveMoves
  <2>3. CASE d # On(w)
    <3>1. d \notin task[w] /\ d \notin task'[w]
      BY <1>6, <2>1, <2>3, WorkerSteps, OnIs
    <3>2. w \notin Active(d) /\ w \notin Active(d)'
      BY <3>1 DEF Active
    <3>3. queue'[d] = queue[d] /\ again'[d] = again[d]
      BY <1>6, <2>3, WorkerSteps
    <3> QED BY <1>1, <2>1, <3>2, <3>3, ActiveMoves
  <2> QED BY <2>2, <2>3
<1>7. CASE UNCHANGED vars
  BY <1>2, <1>7 DEF vars
<1> QED BY <1>3, <1>4, <1>5, <1>6, <1>7 DEF Next

\* Born and Counted hold in every reachable state.
LEMMA CountedHolds == Spec => [](Born /\ Counted)
<1>1. Init => Born /\ Counted
  <2> SUFFICES ASSUME Init PROVE Born /\ Counted
    OBVIOUS
  <2>1. \A d \in Deliveries : Active(d) = {} /\ queue[d] = 0 /\ again[d] = 0
    BY DEF Init, Active
  <2>2. \A d \in Deliveries : IsFiniteSet(Active(d)) /\ Cardinality(Active(d)) = 0
    BY <2>1, FS_EmptySet
  <2>3. OneTask
    <3> SUFFICES ASSUME NEW d \in Deliveries PROVE Pending(d) <= 1 + again[d]
      BY DEF OneTask
    <3>1. Pending(d) = queue[d] + Cardinality(Active(d))
      BY DEF Pending, Active
    <3> QED BY <2>1, <2>2, <3>1
  <2> QED BY <2>2, <2>3 DEF Init, Born, Counted
<1> QED BY <1>1, BornSteps, CountedSteps, TypesHold, PTL DEF Spec

\* A delivery is in the hands of one task at a time; each shutdown that cuts a
\* task off adds one at most.
THEOREM TasksAreSingle == Spec => []OneTask
<1>1. Counted => OneTask
  BY DEF Counted
<1> QED BY <1>1, CountedHolds, PTL

\* A task that will still act on the delivery exists.
Waiting(d) == queue[d] > 0 \/ Active(d) # {}

\* A delivery that is not settled has a task, unless one was lost.
Served ==
    \A d \in Deliveries :
        delivery[d].status \in {"pending", "retrying"} /\ d \notin lost
        => Waiting(d)

\* Every step keeps Served: a task leaves a delivery only when it is settled,
\* passes its turn on, or is lost.
LEMMA ServedSteps ==
    TypeOK /\ Sane /\ Served /\ [Next]_vars => Served'
<1> SUFFICES ASSUME TypeOK, Sane, Served, [Next]_vars, NEW d \in Deliveries,
                    delivery'[d].status \in {"pending", "retrying"},
                    d \notin lost'
             PROVE  queue'[d] > 0 \/ Active(d)' # {}
  BY DEF Served, Waiting
<1>0. /\ queue[d] \in Nat
      /\ delivery[d].status \in {"pending", "retrying"} /\ d \notin lost
         => queue[d] > 0 \/ Active(d) # {}
  BY DEF TypeOK, Served, Waiting
<1>1. ASSUME UNCHANGED <<pc, task>>, queue'[d] = queue[d],
             delivery'[d] = delivery[d], d \notin lost
      PROVE  queue'[d] > 0 \/ Active(d)' # {}
  BY <1>0, <1>1 DEF Active
<1>2. ASSUME NEW o \in Occurrences, Emit(o) \/ \E s \in Subs : EmitTo(o, s)
      PROVE  queue'[d] > 0 \/ Active(d)' # {}
  <2>1. /\ UNCHANGED <<pc, task>>
        /\ \/ queue'[d] = queue[d] + 1
           \/ /\ queue'[d] = queue[d] /\ delivery'[d] = delivery[d]
              /\ d \in lost' <=> d \in lost
    BY <1>2, DispatchSteps
  <2> QED BY <1>0, <1>1, <2>1
<1>3. ASSUME NEW s \in Subs, Configure(s)
      PROVE  queue'[d] > 0 \/ Active(d)' # {}
  BY <1>1, <1>3 DEF Configure
<1>4. ASSUME NEW w \in Workers, NEW e \in Deliveries, Take(w, e)
      PROVE  queue'[d] > 0 \/ Active(d)' # {}
  <2>1. /\ pc' = [pc EXCEPT ![w] = "load"] /\ task' = [task EXCEPT ![w] = {e}]
        /\ queue' = [queue EXCEPT ![e] = @ - 1] /\ pc[w] = "idle"
        /\ delivery' = delivery /\ lost' = lost
    BY <1>4 DEF Take, Goto
  <2>2. CASE d = e
    BY <2>1, <2>2 DEF TypeOK, Active
  <2>3. CASE d # e
    <3>1. queue'[d] = queue[d]
      BY <2>1, <2>3 DEF TypeOK
    <3>2. Active(d) \subseteq Active(d)'
      BY <2>1 DEF TypeOK, Active
    <3> QED BY <1>0, <2>1, <3>1, <3>2
  <2> QED BY <2>2, <2>3
<1>5. ASSUME NEW w \in Workers, Step(w) \/ TaskFails(w) \/ CutOff(w)
      PROVE  queue'[d] > 0 \/ Active(d)' # {}
  <2>1. \A v \in Workers \ {w} : pc'[v] = pc[v] /\ task'[v] = task[v]
    BY <1>5, WorkerSteps
  <2>2. Active(d) \ {w} \subseteq Active(d)'
    BY <2>1 DEF Active
  <2>3. CASE d = On(w)
    <3>1. \/ w \in Active(d)'
          \/ queue'[d] = queue[d] + 1
          \/ /\ queue'[d] = queue[d] /\ w \notin Active(d)
             /\ delivery' = delivery
          \/ delivery'[d].status \in Terminal
      BY <1>5, <2>3, TurnSteps
    <3>2. d \notin lost
      BY <1>5, <2>3, TurnSteps
    <3> QED BY <1>0, <2>2, <3>1, <3>2 DEF Terminal
  <2>4. CASE d # On(w)
    <3>1. d \notin task[w]
      BY <1>5, <2>4, WorkerSteps, OnIs
    <3>2. w \notin Active(d)
      BY <3>1 DEF Active
    <3>3. /\ queue'[d] = queue[d] /\ delivery'[d] = delivery[d]
          /\ d \in lost' <=> d \in lost
      BY <1>5, <2>4, WorkerSteps
    <3> QED BY <1>0, <2>2, <3>2, <3>3
  <2> QED BY <2>3, <2>4
<1>6. CASE UNCHANGED vars
  BY <1>1, <1>6 DEF vars
<1> QED BY <1>2, <1>3, <1>4, <1>5, <1>6 DEF Next

\* A delivery that is not settled has its next attempt under way or in the
\* queue, unless a task was lost; even when two tasks overwrite each other's
\* record after a shutdown.
THEOREM AttemptsArePending == Spec => []AttemptPending
<1>1. Init => Served
  BY NewRecords DEF Init, Served
<1>2. Counted /\ TypeOK /\ Served => AttemptPending
  <2> SUFFICES ASSUME Counted, TypeOK, NEW d \in Deliveries, Waiting(d)
               PROVE  Pending(d) > 0
    BY DEF Served, AttemptPending
  <2>1. Pending(d) = queue[d] + Cardinality(Active(d))
    BY DEF Pending, Active
  <2>2. /\ IsFiniteSet(Active(d)) /\ Cardinality(Active(d)) \in Nat
        /\ queue[d] \in Nat
    BY FS_CardinalityType DEF Counted, TypeOK
  <2>3. Active(d) # {} => Cardinality(Active(d)) # 0
    BY <2>2, FS_EmptySet
  <2> QED BY <2>1, <2>2, <2>3 DEF Waiting
<1> QED BY <1>1, <1>2, ServedSteps, CountedHolds, TypesHold, PTL DEF Spec

-----------------------------------------------------------------------------
(* Attempts, as long as no shutdown put a task of the delivery back.        *)

\* What is known of a worker that is on the delivery d: at every place the
\* requests sent are the attempts it knows of, and after a 2xx answer only the
\* saving of it is left to do.
OnTrack(w, d) ==
    /\ delivery[d].status \notin Terminal
    /\ pc[w] \in {"load", "enqueue"} => posts[d] = delivery[d].attempts
    /\ pc[w] \in {"check", "send", "save"} => posts[d] = copy[w].attempts
    /\ d \in heard => pc[w] = "save" /\ copy[w].status = "delivered"
    /\ pc[w] = "save" /\ copy[w].status = "dead"
       => d \in cut \/ posts[d] = MaxAttempts

\* A task that waits in the queue finds the requests sent counted in the record
\* and no 2xx answer; a dead delivery was cut or had every attempt.
Exact(d) ==
    /\ posts[d] <= MaxAttempts
    /\ delivery[d].status = "dead" /\ d \notin cut => posts[d] = MaxAttempts
    /\ queue[d] > 0 => /\ delivery[d].status \notin Terminal
                       /\ posts[d] = delivery[d].attempts
                       /\ d \notin heard
    /\ \A w \in Active(d) : OnTrack(w, d)

\* Exact, for the deliveries no shutdown disturbed.
Tracked == \A d \in Undisturbed : Exact(d)

\* An undisturbed delivery has one task at most.
LEMMA Solo ==
    ASSUME TypeOK, Counted, NEW d \in Undisturbed
    PROVE  /\ queue[d] \in {0, 1}
           /\ \A v, w \in Active(d) : v = w
           /\ Active(d) # {} => queue[d] = 0
<1>1. /\ d \in Deliveries /\ again[d] = 0 /\ queue[d] \in Nat
      /\ IsFiniteSet(Active(d)) /\ Cardinality(Active(d)) \in Nat
      /\ queue[d] + Cardinality(Active(d)) <= 1
  <2>1. d \in Deliveries /\ again[d] = 0
    BY DEF Undisturbed
  <2>2. /\ queue[d] \in Nat /\ IsFiniteSet(Active(d))
        /\ Pending(d) <= 1 + again[d]
    BY <2>1 DEF TypeOK, Counted, OneTask
  <2>3. Pending(d) = queue[d] + Cardinality(Active(d))
    BY DEF Pending, Active
  <2>4. Cardinality(Active(d)) \in Nat
    BY <2>2, FS_CardinalityType
  <2> QED BY <2>1, <2>2, <2>3, <2>4
<1>2. ASSUME NEW v \in Active(d), NEW w \in Active(d), v # w PROVE FALSE
  <2>1. IsFiniteSet({v}) /\ Cardinality({v}) = 1
    BY FS_Singleton
  <2>2. Cardinality({v} \cup {w}) = 2
    BY <1>2, <2>1, FS_AddElement
  <2>3. {v} \cup {w} \subseteq Active(d)
    OBVIOUS
  <2>4. Cardinality({v} \cup {w}) <= Cardinality(Active(d))
    BY <1>1, <2>3, FS_Subset
  <2>5. 2 <= Cardinality(Active(d))
    BY <2>2, <2>4, Zenon
  <2>6. Cardinality(Active(d)) <= 1
    BY <1>1
  <2>7. ASSUME NEW n \in Nat, 2 <= n, n <= 1 PROVE FALSE
    BY <2>7
  <2> QED BY <1>1, <2>5, <2>6, <2>7, Zenon
<1>3. Active(d) # {} => Cardinality(Active(d)) # 0
  BY <1>1, FS_EmptySet
<1> QED BY <1>1, <1>2, <1>3

\* A step that changes nothing about a delivery and the workers on it keeps
\* Exact for it.
LEMMA ExactSame ==
    ASSUME NEW d, Exact(d), delivery'[d] = delivery[d], queue'[d] = queue[d],
           posts'[d] = posts[d], d \in heard' <=> d \in heard,
           d \in cut' <=> d \in cut, Active(d)' \subseteq Active(d),
           \A w \in Active(d)' : pc'[w] = pc[w] /\ copy'[w] = copy[w]
    PROVE  Exact(d)'
<1>1. ASSUME NEW w \in Active(d)' PROVE OnTrack(w, d)'
  BY <1>1 DEF Exact, OnTrack
<1> QED BY <1>1 DEF Exact

\* The step of the one worker on an undisturbed delivery keeps Exact for it.
LEMMA TurnExact ==
    ASSUME TypeOK, Sane, NEW w \in Workers, NEW d \in Undisturbed, d = On(w),
           Exact(d), queue[d] = 0, Active(d) = {w}, again'[d] = 0,
           Step(w) \/ TaskFails(w) \/ CutOff(w)
    PROVE  Exact(d)'
<1>1. /\ d \in Deliveries /\ pc[w] \notin {"idle", "ack"} /\ task[w] = {d}
      /\ again[d] = 0
      /\ copy[w] \in Record /\ copy[w].attempts \in 0..MaxAttempts
      /\ delivery[d] \in Record /\ delivery[d].attempts \in 0..MaxAttempts
      /\ posts[d] \in Nat
  <2>1. d \in Deliveries /\ again[d] = 0
    BY DEF Undisturbed
  <2>2. w \in Active(d)
    OBVIOUS
  <2>3. pc[w] \notin {"idle", "ack"} /\ task[w] = {d}
    BY <2>2, WorkerSteps, OnIs DEF Active
  <2>4. copy[w] \in Record /\ delivery[d] \in Record /\ posts[d] \in Nat
    BY <2>1, WebhookAssumption DEF TypeOK
  <2> QED BY <2>1, <2>3, <2>4, RecordTypes
<1>2. /\ OnTrack(w, d) /\ delivery[d].status \notin Terminal
      /\ posts[d] <= MaxAttempts
  BY DEF Exact, OnTrack
<1>3. \A v \in Workers \ {w} : v \notin Active(d)'
  BY WorkerSteps DEF Active
<1>4. ASSUME Done(w), UNCHANGED <<delivery, queue, posts, heard, cut>>
      PROVE  Exact(d)'
  <2>1. w \notin Active(d)'
    BY <1>4 DEF Done, TypeOK, Active
  <2> QED BY <1>3, <1>4, <2>1, ExactSame DEF Active
<1>5. ASSUME UNCHANGED <<delivery, queue>>, posts'[d] \in Nat,
             posts'[d] <= MaxAttempts, OnTrack(w, d)'
      PROVE  Exact(d)'
  BY <1>2, <1>3, <1>5 DEF Exact, Active, Terminal
<1>6. CASE LoadDelivery(w)
  <2>1. /\ pc[w] = "load" /\ pc'[w] = "check" /\ copy'[w] = delivery[d]
        /\ UNCHANGED <<delivery, queue, posts, heard, cut>>
    BY <1>2, <1>6 DEF LoadDelivery, Goto, TypeOK
  <2>2. OnTrack(w, d)'
    BY <1>2, <2>1 DEF OnTrack
  <2> QED BY <1>1, <1>2, <1>5, <2>1, <2>2
<1>7. ASSUME NEW status, NEW n, Settle(w, status, n)
      PROVE  /\ pc'[w] = "save"
             /\ copy'[w].status = status /\ copy'[w].attempts = n
  BY <1>7 DEF Settle, Goto, TypeOK
<1>8. CASE GiveUp(w)
  <2>1. /\ pc[w] = "check" /\ pc'[w] = "save" /\ copy'[w].status = "dead"
        /\ copy'[w].attempts = copy[w].attempts /\ d \in cut'
        /\ UNCHANGED <<delivery, queue, posts, heard>>
    BY <1>7, <1>8 DEF GiveUp
  <2>2. OnTrack(w, d)'
    BY <1>2, <2>1 DEF OnTrack
  <2> QED BY <1>1, <1>2, <1>5, <2>1, <2>2
<1>9. CASE Reschedule(w)
  <2>1. /\ pc[w] = "check" /\ pc'[w] = "save" /\ copy'[w].status = "retrying"
        /\ copy'[w].attempts = copy[w].attempts
        /\ UNCHANGED <<delivery, queue, posts, heard, cut>>
    BY <1>7, <1>9 DEF Reschedule
  <2>2. OnTrack(w, d)'
    BY <1>2, <2>1 DEF OnTrack
  <2> QED BY <1>1, <1>2, <1>5, <2>1, <2>2
<1>10. CASE Allowed(w)
  <2>1. /\ pc[w] = "check" /\ pc'[w] = "send" /\ copy'[w] = copy[w]
        /\ UNCHANGED <<delivery, queue, posts, heard, cut>>
    BY <1>10 DEF Allowed, Goto, TypeOK
  <2>2. OnTrack(w, d)'
    BY <1>2, <2>1 DEF OnTrack
  <2> QED BY <1>1, <1>2, <1>5, <2>1, <2>2
<1>11. CASE Send(w)
  <2>1. /\ pc[w] = "send" /\ copy[w].attempts < MaxAttempts
        /\ posts[d] = copy[w].attempts /\ d \notin heard
    BY <1>2, <1>11 DEF Send, Sane, OnTrack
  <2>2. posts'[d] = copy[w].attempts + 1 /\ posts'[d] <= MaxAttempts
    BY <1>1, <1>11, <2>1 DEF Send, TypeOK
  <2>3. UNCHANGED <<delivery, queue, cut>>
    BY <1>11 DEF Send
  <2>4. CASE heard' = heard \cup {d} /\ Settle(w, "delivered", copy[w].attempts + 1)
    <3>1. OnTrack(w, d)'
      BY <1>2, <1>7, <2>2, <2>3, <2>4 DEF OnTrack
    <3> QED BY <1>1, <1>5, <2>2, <2>3, <3>1
  <2>5. CASE /\ Settle(w, IF Exhausted(copy[w].attempts + 1) THEN "dead"
                          ELSE "retrying", copy[w].attempts + 1)
             /\ heard' = heard
    <3>1. /\ pc'[w] = "save" /\ copy'[w].attempts = copy[w].attempts + 1
          /\ copy'[w].status = "dead" => copy[w].attempts + 1 >= MaxAttempts
      BY <1>7, <2>5 DEF Exhausted
    <3>2. copy'[w].status = "dead" => posts'[d] = MaxAttempts
      BY <1>1, <2>1, <2>2, <3>1
    <3>3. OnTrack(w, d)'
      BY <1>2, <2>1, <2>2, <2>3, <2>5, <3>1, <3>2 DEF OnTrack
    <3> QED BY <1>1, <1>5, <2>2, <2>3, <3>3
  <2> QED BY <1>11, <2>4, <2>5 DEF Send
<1>12. CASE Save(w)
  <2>1. /\ pc[w] = "save"
        /\ pc'[w] = IF copy[w].retry THEN "enqueue" ELSE "ack"
        /\ delivery'[d] = [copy[w] EXCEPT !.retry = FALSE]
        /\ UNCHANGED <<queue, task, copy, posts, heard, cut>>
    BY <1>1, <1>12 DEF Save, Goto, TypeOK
  <2>2. /\ delivery'[d].status = copy[w].status
        /\ delivery'[d].attempts = copy[w].attempts
    BY <1>1, <2>1, RecordTypes
  <2>3. /\ posts[d] = copy[w].attempts
        /\ copy[w].status = "dead" => d \in cut \/ posts[d] = MaxAttempts
        /\ copy[w].retry <=> copy[w].status = "retrying"
        /\ d \in heard => copy[w].status = "delivered"
    BY <1>2, <2>1 DEF OnTrack, Sane
  <2>4. CASE copy[w].retry
    <3>1. OnTrack(w, d)'
      BY <2>1, <2>2, <2>3, <2>4 DEF OnTrack, Terminal
    <3> QED
      BY <1>2, <1>3, <2>1, <2>2, <2>3, <2>4, <3>1 DEF Exact, Active, Terminal
  <2>5. CASE ~copy[w].retry
    <3>1. Active(d)' = {}
      BY <1>3, <2>1, <2>5 DEF Active
    <3> QED BY <1>2, <2>1, <2>2, <2>3, <3>1 DEF Exact
  <2> QED BY <2>4, <2>5
<1>13. CASE Requeue(w)
  <2>1. /\ pc[w] = "enqueue" /\ pc'[w] = "ack"
        /\ UNCHANGED <<delivery, posts, heard, cut>>
    BY <1>13 DEF Requeue, Goto, TypeOK
  <2>2. Active(d)' = {}
    BY <1>3, <2>1 DEF Active
  <2>3. posts[d] = delivery[d].attempts /\ d \notin heard
    BY <1>2, <2>1 DEF OnTrack
  <2> QED BY <1>2, <2>1, <2>2, <2>3 DEF Exact, Terminal
<1>14. CASE Ack(w) \/ TaskFails(w)
  BY <1>4, <1>14 DEF Ack, TaskFails
<1>15. CASE CutOff(w)
  <2>1. again'[d] = again[d] + 1
    BY <1>1, <1>15 DEF CutOff, TypeOK
  <2> QED BY <1>1, <2>1
<1> QED
  BY <1>6, <1>8, <1>9, <1>10, <1>11, <1>12, <1>13, <1>14, <1>15 DEF Step

\* Every step keeps Tracked.
LEMMA TrackedSteps ==
    TypeOK /\ Sane /\ Born /\ Counted /\ Tracked /\ [Next]_vars => Tracked'
<1> SUFFICES ASSUME TypeOK, Sane, Born, Counted, Tracked, [Next]_vars,
                    NEW d \in Deliveries, again'[d] = 0
             PROVE  Exact(d)'
  BY DEF Tracked, Undisturbed
<1>1. ASSUME again[d] = 0
      PROVE  d \in Undisturbed /\ Exact(d)
  BY <1>1 DEF Tracked, Undisturbed
<1>2. ASSUME UNCHANGED <<delivery, queue, pc, task, copy, posts, heard, cut, again>>
      PROVE  Exact(d)'
  BY <1>1, <1>2, ExactSame DEF Active
<1>3. ASSUME NEW o \in Occurrences, Emit(o) \/ \E s \in Subs : EmitTo(o, s)
      PROVE  Exact(d)'
  <2>1. /\ UNCHANGED <<pc, task, copy, posts, heard, cut, again>>
        /\ o \notin emitted
        /\ \/ /\ d[1] = o
              /\ \/ delivery'[d] = [NoDelivery EXCEPT !.status = "pending"]
                 \/ queue'[d] = queue[d] /\ delivery'[d] = delivery[d]
           \/ queue'[d] = queue[d] /\ delivery'[d] = delivery[d]
    BY <1>3, DispatchSteps
  <2>2. CASE queue'[d] = queue[d] /\ delivery'[d] = delivery[d]
    BY <1>1, <2>1, <2>2, ExactSame DEF Active
  <2>3. CASE /\ d[1] = o
             /\ delivery'[d] = [NoDelivery EXCEPT !.status = "pending"]
    <3>1. Active(d)' = {} /\ posts[d] = 0 /\ d \notin heard
      BY <2>1, <2>3 DEF Born, Active
    <3>2. delivery'[d].status = "pending" /\ delivery'[d].attempts = 0
      BY <2>3, NewRecords
    <3> QED BY <2>1, <3>1, <3>2 DEF Exact, Terminal
  <2> QED BY <2>1, <2>2, <2>3
<1>4. ASSUME NEW s \in Subs, Configure(s) PROVE Exact(d)'
  BY <1>2, <1>4 DEF Configure
<1>5. ASSUME NEW w \in Workers, NEW e \in Deliveries, Take(w, e)
      PROVE  Exact(d)'
  <2>1. /\ pc[w] = "idle" /\ queue[e] > 0
        /\ queue' = [queue EXCEPT ![e] = @ - 1]
        /\ pc' = [pc EXCEPT ![w] = "load"] /\ task' = [task EXCEPT ![w] = {e}]
        /\ UNCHANGED <<delivery, copy, posts, heard, cut, again>>
    BY <1>5 DEF Take, Goto
  <2>2. \A v \in Workers \ {w} : pc'[v] = pc[v] /\ task'[v] = task[v]
    BY <2>1 DEF TypeOK
  <2>3. pc'[w] = "load" /\ task'[w] = {e} /\ d \in Undisturbed /\ Exact(d)
    BY <1>1, <2>1 DEF TypeOK
  <2>4. CASE d # e
    <3>1. /\ queue'[d] = queue[d]
          /\ Active(d)' \subseteq Active(d) /\ w \notin Active(d)'
      BY <2>1, <2>2, <2>3, <2>4 DEF TypeOK, Active
    <3>2. \A v \in Active(d)' : pc'[v] = pc[v]
      BY <2>2, <3>1 DEF Active
    <3> QED BY <2>1, <2>3, <3>1, <3>2, ExactSame
  <2>5. CASE d = e
    <3>1. Active(d) = {} /\ queue[d] = 1
      BY <2>1, <2>3, <2>5, Solo
    <3>2. queue'[d] = 0
      BY <2>1, <2>5, <3>1 DEF TypeOK
    <3>3. \A v \in Active(d)' : v = w
      BY <2>2, <3>1 DEF Active
    <3>4. OnTrack(w, d)'
      BY <2>1, <2>3, <2>5 DEF Exact, OnTrack
    <3> QED BY <2>1, <2>3, <3>2, <3>3, <3>4 DEF Exact
  <2> QED BY <2>4, <2>5
<1>6. ASSUME NEW w \in Workers, Step(w) \/ TaskFails(w) \/ CutOff(w)
      PROVE  Exact(d)'
  <2>1. /\ pc[w] # "idle"
        /\ \A v \in Workers \ {w} : /\ pc'[v] = pc[v]
                                    /\ task'[v] = task[v]
                                    /\ copy'[v] = copy[v]
    BY <1>6, WorkerSteps
  <2>2. CASE d # On(w)
    <3>1. /\ queue'[d] = queue[d] /\ posts'[d] = posts[d]
          /\ again'[d] = again[d] /\ delivery'[d] = delivery[d]
          /\ d \in heard' <=> d \in heard
          /\ d \in cut' <=> d \in cut
      BY <1>6, <2>2, WorkerSteps
    <3>2. d \notin task[w] /\ d \notin task'[w]
      BY <1>6, <2>1, <2>2, WorkerSteps, OnIs
    <3>3. w \notin Active(d)' /\ Active(d)' \subseteq Active(d)
      BY <2>1, <3>2 DEF Active
    <3>4. \A v \in Active(d)' : pc'[v] = pc[v] /\ copy'[v] = copy[v]
      BY <2>1, <3>3 DEF Active
    <3> QED BY <1>1, <3>1, <3>3, <3>4, ExactSame
  <2>3. CASE d = On(w) /\ pc[w] # "ack"
    <3>1. w \in Active(d)
      BY <2>1, <2>3, OnIs DEF Active
    <3>2. again[d] = 0
      <4>1. again'[d] = again[d] \/ again'[d] = again[d] + 1
        BY <1>6, <2>3, TurnSteps
      <4>2. again[d] \in Nat
        BY DEF TypeOK
      <4> QED BY <4>1, <4>2
    <3>3. Active(d) = {w} /\ queue[d] = 0
      BY <1>1, <3>1, <3>2, Solo
    <3> QED BY <1>1, <1>6, <2>3, <3>2, <3>3, TurnExact
  <2>4. CASE d = On(w) /\ pc[w] = "ack"
    <3>1. again[d] \in Nat
      BY DEF TypeOK
    <3>2. CASE CutOff(w)
      <4>1. again'[d] = again[d] + 1
        BY <2>4, <3>2 DEF CutOff, TypeOK
      <4> QED BY <3>1, <4>1
    <3>3. CASE Ack(w)
      <4>1. /\ task'[w] = {}
            /\ UNCHANGED <<delivery, queue, posts, heard, cut, again>>
        BY <3>3 DEF Ack, Done, TypeOK
      <4>2. w \notin Active(d)' /\ Active(d)' \subseteq Active(d)
        BY <2>1, <4>1 DEF Active
      <4>3. \A v \in Active(d)' : pc'[v] = pc[v] /\ copy'[v] = copy[v]
        BY <2>1, <4>2 DEF Active
      <4> QED BY <1>1, <4>1, <4>2, <4>3, ExactSame
    <3> QED
      BY <1>6, <2>4, <3>2, <3>3
         DEF Step, LoadDelivery, GiveUp, Reschedule, Allowed, Send, Save,
             Requeue, TaskFails
  <2> QED BY <2>2, <2>3, <2>4
<1>7. CASE UNCHANGED vars
  BY <1>2, <1>7 DEF vars
<1> QED BY <1>3, <1>4, <1>5, <1>6, <1>7 DEF Next

\* Tracked holds in every reachable state.
LEMMA TrackedHolds == Spec => []Tracked
<1>1. Init => Tracked
  <2> SUFFICES ASSUME Init, NEW d \in Deliveries PROVE Exact(d)
    BY DEF Tracked, Undisturbed
  <2>1. Active(d) = {} /\ queue[d] = 0 /\ posts[d] = 0
        /\ delivery[d].status = "none"
    BY NewRecords DEF Init, Active
  <2> QED BY <2>1 DEF Exact
<1> QED BY <1>1, TrackedSteps, CountedHolds, TypesHold, PTL DEF Spec

\* Unless a shutdown put its task back, a delivery is dead only when its
\* subscription was unusable or every attempt was made, and never more than
\* MaxAttempts requests are sent for it, whatever tasks fail or die.
THEOREM AttemptsAreCounted == Spec => []AttemptsAreExact
<1>1. Tracked => AttemptsAreExact
  BY DEF Tracked, Exact, AttemptsAreExact
<1> QED BY <1>1, TrackedHolds, PTL

\* Once the endpoint has answered 2xx nothing is posted again and the delivery
\* becomes nothing but delivered, unless a shutdown put its task back.
THEOREM SuccessIsFinal == Spec => SilentAfterSuccess
<1>1. TypeOK /\ Sane /\ Born /\ Counted /\ Tracked /\ [Next]_vars
      => [\A d \in heard \cap Undisturbed :
             /\ posts'[d] = posts[d]
             /\ delivery'[d] # delivery[d]
                => delivery'[d].status = "delivered"]_vars
  <2> SUFFICES ASSUME TypeOK, Sane, Born, Counted, Tracked, [Next]_vars,
                      NEW d \in heard \cap Undisturbed
               PROVE  /\ posts'[d] = posts[d]
                      /\ delivery'[d] # delivery[d]
                         => delivery'[d].status = "delivered"
    OBVIOUS
  <2>1. d \in Deliveries /\ d[1] \in emitted /\ Exact(d)
    BY DEF Undisturbed, Tracked, Born
  <2>2. ASSUME NEW o \in Occurrences, Emit(o) \/ \E s \in Subs : EmitTo(o, s)
        PROVE  posts' = posts /\ delivery'[d] = delivery[d]
    BY <2>1, <2>2, DispatchSteps
  <2>3. ASSUME NEW s \in Subs, Configure(s)
        PROVE  posts' = posts /\ delivery' = delivery
    BY <2>3 DEF Configure
  <2>4. ASSUME NEW w \in Workers, NEW e \in Deliveries, Take(w, e)
        PROVE  posts' = posts /\ delivery' = delivery
    BY <2>4 DEF Take
  <2>5. ASSUME NEW w \in Workers, Step(w) \/ TaskFails(w) \/ CutOff(w)
        PROVE  /\ posts'[d] = posts[d]
               /\ delivery'[d] # delivery[d]
                  => delivery'[d].status = "delivered"
    <3>1. CASE d # On(w)
      BY <2>1, <2>5, <3>1, WorkerSteps
    <3>2. CASE d = On(w) /\ ~Save(w) /\ ~Send(w)
      BY <2>5, <3>2 DEF Step, LoadDelivery, GiveUp, Reschedule, Allowed,
                        Requeue, Ack, TaskFails, CutOff
    <3>3. CASE d = On(w) /\ (Save(w) \/ Send(w))
      <4>1. pc[w] \in {"save", "send"} /\ w \in Active(d)
        BY <3>3, OnIs DEF Save, Send, Active
      <4>2. pc[w] = "save" /\ copy[w].status = "delivered"
        BY <2>1, <4>1 DEF Exact, OnTrack
      <4>3. /\ posts' = posts
            /\ delivery'[d] = [copy[w] EXCEPT !.retry = FALSE]
        BY <2>1, <3>3, <4>2 DEF Save, Send, TypeOK
      <4>4. copy[w] \in Record
        BY DEF TypeOK
      <4> QED BY <4>2, <4>3, <4>4, RecordTypes
    <3> QED BY <3>1, <3>2, <3>3
  <2>6. CASE UNCHANGED vars
    BY <2>6 DEF vars
  <2> QED BY <2>2, <2>3, <2>4, <2>5, <2>6 DEF Next
<1> QED
  BY <1>1, TrackedHolds, CountedHolds, TypesHold, PTL
     DEF Spec, SilentAfterSuccess
=============================================================================
