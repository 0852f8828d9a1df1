--------------------------- MODULE RoutingProofs ----------------------------
(***************************************************************************)
(* Theorems about Routing for any sets of conversations, agents, workers,   *)
(* sectors and queues.                                                      *)
(***************************************************************************)
EXTENDS Routing, FiniteSetTheorems, TLAPS

USE EntityAssumption, RoutingAssumption
-----------------------------------------------------------------------------
(* What the operations write is a document.                                *)

\* The documents conversations start from have the document's type.
LEMMA OpenedType ==
    ASSUME NEW s \in Sectors \cup {None}, NEW q \in Queues \cup {None}
    PROVE  Opened(s, q) \in Document /\ OpenedByInbound \in Document
BY DEF Opened, OpenedByInbound, Document, Statuses, ClosedStatuses

\* So does one that is created with an assignee.
LEMMA CreatedType ==
    ASSUME NEW s \in Sectors \cup {None}, NEW q \in Queues \cup {None},
           NEW a \in Agents \cup {None}
    PROVE  /\ Created(s, q, a) \in Document
           /\ Created(s, q, a).agent = a
<1>1. Opened(s, q) \in Document /\ Opened(s, q).agent = None
  BY OpenedType DEF Opened
<1>2. CASE a = None
  BY <1>1, <1>2 DEF Created
<1>3. CASE a # None
  <2>1. Created(s, q, a) = [Opened(s, q) EXCEPT !.status = "assigned", !.agent = a]
    BY <1>3 DEF Created
  <2> QED BY <1>1, <2>1 DEF Document, Statuses
<1> QED BY <1>2, <1>3

\* Assigning changes a document into a document.
LEMMA AssignedType ==
    ASSUME NEW d \in Document, NEW a \in Agents \cup {None}
    PROVE  Assigned(d, a) \in Document
BY DEF Assigned, Document, Statuses, ClosedStatuses

\* Transferring changes a document into a document.
LEMMA TransferredType ==
    ASSUME NEW d \in Document, NEW s \in Sectors \cup {None},
           NEW a \in Agents \cup {None}
    PROVE  Transferred(d, s, a) \in Document
<1> DEFINE moved == [d EXCEPT !.sector = IF s # None THEN s ELSE @]
<1>1. moved \in Document
  BY DEF Document
<1>2. CASE a # None
  BY <1>1, <1>2, AssignedType DEF Transferred
<1>3. CASE a = None
  <2>1. Transferred(d, s, a)
          = [moved EXCEPT !.agent = None, !.status = "transferred"]
    BY <1>3 DEF Transferred
  <2> HIDE DEF moved
  <2> QED BY <1>1, <2>1 DEF Document, Statuses
<1> QED BY <1>2, <1>3

\* Enqueueing changes a document into a document.
LEMMA EnqueuedType ==
    ASSUME NEW d \in Document, NEW q \in Queues
    PROVE  Enqueued(d, q) \in Document
BY DEF Enqueued, Document, Statuses, ClosedStatuses

\* PATCH changes a document into a document.
LEMMA UpdateType ==
    ASSUME NEW d \in Document, NEW p \in Patch
    PROVE  Update(d, p) \in Document
<1> DEFINE Set(old, new) == IF new = Keep THEN old ELSE new
<1>1. /\ Set(d.sector, p.sector) \in Sectors \cup {None}
      /\ Set(d.queue, p.queue) \in Queues \cup {None}
      /\ Set(d.agent, p.agent) \in Agents \cup {None}
      /\ Set(d.status, p.status) \in Statuses
  BY DEF Document, Patch
<1>2. Update(d, p) = [d EXCEPT !.sector = Set(d.sector, p.sector), !.queue = Set(d.queue, p.queue),
                              !.agent = Set(d.agent, p.agent), !.status = Set(d.status, p.status)]
  BY DEF Update, Document
<1> HIDE DEF Set
<1> QED BY <1>1, <1>2 DEF Document

\* So does reopening, by hand or by a rule.
LEMMA ReopenedType ==
    ASSUME NEW d \in Document
    PROVE  Reopened(d) \in Document /\ AutomationOpened(d) \in Document
<1>1. ASSUME NEW st \in {"assigned", "queued", "new"}
      PROVE  [d EXCEPT !.status = st, !.closedAt = FALSE] \in Document
  BY DEF Document, Statuses
<1>2. /\ (IF d.agent # None THEN "assigned"
          ELSE IF d.queue # None THEN "queued" ELSE "new") \in {"assigned", "queued", "new"}
      /\ (IF d.agent # None THEN "assigned"
          ELSE IF d.sector # None THEN "queued" ELSE "new") \in {"assigned", "queued", "new"}
  OBVIOUS
<1> QED BY <1>1, <1>2 DEF Reopened, AutomationOpened

\* So does every other writer without the lock.
LEMMA EditedType ==
    ASSUME NEW d \in Document, NEW k \in Manual \cup System
    PROVE  Edited(k, d) \subseteq Document
<1> SUFFICES ASSUME NEW e \in Edited(k, d) PROVE e \in Document
  OBVIOUS
<1>1. CASE k = "patch"
  BY <1>1, UpdateType DEF Edited
<1>2. CASE k = "close"
  BY <1>2 DEF Edited, Closed, Document, Statuses, ClosedStatuses
<1>3. CASE k = "reopen"
  <2>1. Edited(k, d) = IF IsClosed(d) THEN {Reopened(d)} ELSE {}
    BY <1>3 DEF Edited
  <2>2. Reopened(d) \in Document
    BY ReopenedType
  <2> QED BY <2>1, <2>2
<1>4. CASE k = "read"
  BY <1>4 DEF Edited, Document, Statuses, ClosedStatuses
<1>5. CASE k = "unread"
  BY <1>5 DEF Edited, Document, Statuses, ClosedStatuses
<1>6. CASE k = "assign_agent"
  <2>1. PICK a \in Agents : e = [d EXCEPT !.agent = a, !.status = "assigned"]
    BY <1>6 DEF Edited
  <2> QED BY <2>1 DEF Document, Statuses
<1>7. CASE k = "assign_team"
  <2>1. PICK x \in Sectors :
           e = [d EXCEPT !.sector = x, !.status = IF d.agent = None THEN "queued" ELSE @]
    BY <1>7 DEF Edited
  <2>2. CASE d.agent = None
    <3>1. e = [d EXCEPT !.sector = x, !.status = "queued"]
      BY <2>1, <2>2
    <3> QED BY <3>1 DEF Document, Statuses
  <2>3. CASE d.agent # None
    <3>1. e = [d EXCEPT !.sector = x, !.status = @]
      BY <2>1, <2>3
    <3> QED BY <3>1 DEF Document, Statuses
  <2> QED BY <2>2, <2>3
<1>8. CASE k = "remove_agent"
  BY <1>8 DEF Edited, Document, Statuses, ClosedStatuses
<1>9. CASE k = "remove_team"
  BY <1>9 DEF Edited, Document, Statuses, ClosedStatuses
<1>10. CASE k = "resolve"
  BY <1>10 DEF Edited, Document, Statuses, ClosedStatuses
<1>11. CASE k = "open"
  <2>1. Edited(k, d) = IF IsClosed(d) THEN {AutomationOpened(d)} ELSE {}
    BY <1>11 DEF Edited
  <2>2. AutomationOpened(d) \in Document
    BY ReopenedType
  <2> QED BY <2>1, <2>2
<1>12. CASE k = "mark_pending"
  BY <1>12 DEF Edited, Document, Statuses, ClosedStatuses
<1>13. CASE k = "inbound"
  <2>1. Edited(k, d) = IF IsClosed(d) THEN {Reopened(d)}
                       ELSE IF d.unread < MaxUnread THEN {[d EXCEPT !.unread = @ + 1]}
                       ELSE {}
    BY <1>13 DEF Edited
  <2>2. Reopened(d) \in Document /\ [d EXCEPT !.unread = @ + 1] \in Document
    BY ReopenedType DEF Document
  <2> QED BY <2>1, <2>2
<1>14. CASE k = "route_new"
  BY <1>14 DEF Edited, Document, Statuses, ClosedStatuses
<1>15. CASE k = "touch"
  BY <1>15 DEF Edited, Document, Statuses, ClosedStatuses
<1> QED
  BY <1>1, <1>2, <1>3, <1>4, <1>5, <1>6, <1>7, <1>8, <1>9, <1>10, <1>11, <1>12, <1>13, <1>14, <1>15
     DEF Manual, System

\* A request is an operation on some conversation, of one of five kinds.
LEMMA OperationFields ==
    ASSUME NEW t \in Operations
    PROVE  /\ t.conv \in Convs
           /\ t.kind \in {"assign", "auto", "transfer", "enqueue", "edit"}
           /\ t.agent \in Agents \cup {None}
           /\ t.sector \in Sectors \cup {None}
           /\ t.queue \in Queues \cup {None}
           /\ t.kind = "enqueue" => t.queue \in Queues
BY DEF Operations

\* The document an operation stores is a document.
LEMMA RoutedType ==
    ASSUME TypeOK, NEW w \in Workers, pc[w] = "write"
    PROVE  Routed(w) \in Document
<1>1. /\ task[w] \in Operations
      /\ doc[w] \in Document
      /\ pick[w] \in Agents \cup {None}
      /\ task[w].kind # "edit"
  BY DEF TypeOK, Section
<1>2. CASE task[w].kind \in {"assign", "auto"}
  BY <1>1, <1>2, AssignedType DEF Routed
<1>3. CASE task[w].kind = "transfer"
  BY <1>1, <1>3, OperationFields, TransferredType DEF Routed
<1>4. CASE task[w].kind = "enqueue"
  BY <1>1, <1>4, OperationFields, EnqueuedType DEF Routed
<1> QED BY <1>1, <1>2, <1>3, <1>4, OperationFields
-----------------------------------------------------------------------------
(* Types.                                                                  *)

\* The requests a client can make are operations.
LEMMA RequestType ==
    ASSUME NEW c \in Convs, NEW a \in Agents \cup {None},
           NEW s \in Sectors \cup {None}
    PROVE  /\ AutoTask(c) \in Operations /\ EditTask(c) \in Operations
           /\ a \in Agents => [kind |-> "assign", conv |-> c, agent |-> a,
                              sector |-> None, queue |-> None] \in Operations
           /\ [kind |-> "transfer", conv |-> c, agent |-> a,
               sector |-> s, queue |-> None] \in Operations
           /\ \A q \in Queues :
                 [kind |-> "enqueue", conv |-> c, agent |-> None,
                  sector |-> None, queue |-> q] \in Operations
BY DEF AutoTask, EditTask, Operations

\* An operation that starts leaves every variable but batch well typed.
LEMMA StartType ==
    ASSUME TypeOK, NEW w \in Workers, NEW x, NEW t \in Operations,
           Start(w, x, t),
           t.kind # "edit",
           batch' \in [Workers -> [phase : {"off", "queued", "new"},
                                  left : SUBSET Convs,
                                  by : Actors \cup {None}]]
    PROVE  TypeOK'
BY DEF TypeOK, Start, Goto, Labels, Section, ghosts

\* Ending an operation leaves its worker's variables well typed.
LEMMA FinishType ==
    ASSUME TypeOK, NEW w \in Workers, Finish(w), UNCHANGED online,
           conv' \in [Convs -> Document],
           undercut' \subseteq Workers, unchecked' \subseteq Convs,
           lock' \in [Convs -> Workers \cup {Free}],
           batch' \in [Workers -> [phase : {"off", "queued", "new"},
                                  left : SUBSET Convs,
                                  by : Actors \cup {None}]]
    PROVE  TypeOK'
BY DEF TypeOK, Finish, Labels, Section

\* Giving up or completing an operation inside the lock, on its way to the
\* release, leaves its worker's variables well typed.
LEMMA LeaveType ==
    ASSUME TypeOK, NEW w \in Workers, Leave(w), pc[w] # "idle",
           UNCHANGED <<lock, online, task, batch, lapsed>>,
           task[w].kind # "edit",
           conv' \in [Convs -> Document],
           undercut' \subseteq Workers, unchecked' \subseteq Convs
    PROVE  TypeOK'
BY DEF TypeOK, Leave, Goto, Labels, Section

\* The initial states are well typed: every conversation is one the inbound
\* flow or the API opened, no lock is held and no worker is running.
LEMMA InitType == Init => TypeOK
<1> SUFFICES ASSUME Init PROVE TypeOK
  OBVIOUS
<1>1. conv \in [Convs -> Document]
  <2>1. {OpenedByInbound}
          \cup {Created(s, q, a) : s \in Sectors \cup {None}, q \in Queues \cup {None},
                                  a \in Agents \cup {None}} \subseteq Document
    BY OpenedType, CreatedType
  <2> QED BY <2>1 DEF Init
<1>2. batch \in [Workers -> [phase : {"off", "queued", "new"},
                            left : SUBSET Convs, by : Actors \cup {None}]]
  BY DEF Init, NoBatch
<1> QED BY <1>1, <1>2 DEF Init, TypeOK, Labels, Section, NoTask, NoDoc

\* Listing the conversations of a batch changes only the batch.
LEMMA BatchListType ==
    ASSUME TypeOK, NEW w \in Workers, NEW x \in Actors \cup {None}, NEW from,
           NEW to \in {"queued", "new"}, BatchList(w, x, from, to)
    PROVE  TypeOK'
BY DEF TypeOK, BatchList, Listed, ghosts

\* A step of the batch loop keeps the types.
LEMMA BatchStepType ==
    ASSUME TypeOK, NEW w \in Workers,
           BatchNext(w) \/ BatchTurn(w) \/ BatchDone(w)
    PROVE  TypeOK'
<1> DEFINE Batches == [phase : {"off", "queued", "new"},
                       left : SUBSET Convs, by : Actors \cup {None}]
<1>1. batch \in [Workers -> Batches]
  BY DEF TypeOK
<1>2. CASE BatchNext(w)
  <2>1. PICK c \in batch[w].left :
           /\ batch' = [batch EXCEPT ![w].left = @ \ {c}]
           /\ IF Access(batch[w].by, conv[c])
              THEN Start(w, batch[w].by, AutoTask(c))
              ELSE UNCHANGED <<conv, lock, online, pc, task, doc, pick, lapsed,
                               ghosts>>
    BY <1>2 DEF BatchNext
  <2>2. c \in Convs /\ batch' \in [Workers -> Batches]
    BY <1>1, <2>1
  <2>3. CASE Access(batch[w].by, conv[c])
    BY <2>1, <2>2, <2>3, StartType, RequestType DEF AutoTask
  <2>4. CASE ~Access(batch[w].by, conv[c])
    BY <2>1, <2>2, <2>4 DEF TypeOK, ghosts
  <2> QED BY <2>3, <2>4
<1>3. CASE BatchTurn(w)
  BY <1>1, <1>3, BatchListType DEF BatchTurn
<1>4. CASE BatchDone(w)
  BY <1>4 DEF BatchDone, TypeOK, NoBatch, ghosts
<1> QED BY <1>2, <1>3, <1>4

\* A request, accepted or refused, keeps the types.
LEMMA RequestStepType ==
    ASSUME TypeOK, NEW w \in Workers, Request(w)
    PROVE  TypeOK'
<1>1. PICK x \in Actors :
         \/ \E c \in Convs :
               \/ \E a \in Agents : Assign(w, c, x, a)
               \/ AutoAssign(w, c, x)
               \/ \E s \in Sectors \cup {None}, a \in Agents \cup {None} :
                     Transfer(w, c, x, s, a)
               \/ \E q \in Queues : Enqueue(w, c, x, q)
               \/ LoadCopy(w, c)
         \/ RunBatch(w, x)
  BY DEF Request
<1> USE StartType, RequestType DEF TypeOK
<1>2. ASSUME NEW c \in Convs, NEW a \in Agents, Assign(w, c, x, a)
      PROVE  TypeOK'
  BY <1>2 DEF Assign
<1>3. ASSUME NEW c \in Convs, AutoAssign(w, c, x)
      PROVE  TypeOK'
  BY <1>3 DEF AutoAssign, AutoTask
<1>4. ASSUME NEW c \in Convs, NEW s \in Sectors \cup {None},
             NEW a \in Agents \cup {None}, Transfer(w, c, x, s, a)
      PROVE  TypeOK'
  BY <1>4 DEF Transfer
<1>5. ASSUME NEW c \in Convs, NEW q \in Queues, Enqueue(w, c, x, q)
      PROVE  TypeOK'
  BY <1>5 DEF Enqueue
<1>6. CASE RunBatch(w, x)
  BY <1>6, BatchListType DEF RunBatch
<1>7. ASSUME NEW c \in Convs, LoadCopy(w, c)
      PROVE  TypeOK'
  <2>1. EditTask(c) \in Operations /\ conv[c] \in Document
    OBVIOUS
  <2> QED BY <1>7, <2>1 DEF LoadCopy, Goto, Labels, Section, ghosts
<1> QED BY <1>1, <1>2, <1>3, <1>4, <1>5, <1>6, <1>7

\* Every step of the specification keeps the types.
LEMMA NextType == TypeOK /\ [Next]_vars => TypeOK'
<1> SUFFICES ASSUME TypeOK, [Next]_vars PROVE TypeOK'
  OBVIOUS
<1>1. ASSUME NEW w \in Workers, Request(w) PROVE TypeOK'
  BY <1>1, RequestStepType
<1>2. ASSUME NEW w \in Workers, Acquire(w) PROVE TypeOK'
  <2>1. task[w] \in Operations /\ task[w].conv \in Convs
    BY <1>2, OperationFields DEF Acquire, TypeOK
  <2>2. CASE CanAcquire(lock, task[w].conv)
    <3>1. /\ lock' = [lock EXCEPT ![task[w].conv] = w]
          /\ pc' = [pc EXCEPT ![w] = "reload"]
          /\ UNCHANGED <<conv, online, task, doc, pick, batch, lapsed, undercut, unchecked>>
      BY <1>2, <2>2 DEF ghosts, Acquire, Acquired, Goto
    <3>2. lock' \in [Convs -> Workers \cup {Free}]
      BY <2>1, <3>1 DEF TypeOK
    <3>3. pc' \in [Workers -> Labels] /\ pc'[w] = "reload"
      BY <3>1 DEF TypeOK, Labels, Section
    <3>4. \A v \in Workers :
             /\ pc'[v] # "idle" => task'[v] \in Operations
             /\ pc'[v] \in {"decide", "write", "edit"} => doc'[v] \in Document
             /\ pc'[v] \in {"acquire"} \cup Section => task'[v].kind # "edit"
      BY <1>2, <2>1, <3>1, <3>3 DEF TypeOK, Acquire
    <3> QED BY <3>1, <3>2, <3>3, <3>4 DEF TypeOK
  <2>3. CASE ~CanAcquire(lock, task[w].conv)
    BY <1>2, <2>3, FinishType DEF Acquire, TypeOK, ghosts
  <2> QED BY <2>2, <2>3
<1>3. ASSUME NEW w \in Workers, AcquireError(w) PROVE TypeOK'
  <2>1. task[w] \in Operations /\ task[w].conv \in Convs
    BY <1>3, OperationFields DEF AcquireError, TypeOK
  <2>2. lock' \in [Convs -> Workers \cup {Free}]
    BY <1>3, <2>1 DEF AcquireError, Acquired, TypeOK
  <2> QED BY <1>3, <2>2, FinishType DEF AcquireError, TypeOK, ghosts
<1>4. ASSUME NEW w \in Workers, Reload(w) PROVE TypeOK'
  <2>1. task[w] \in Operations /\ task[w].conv \in Convs
    BY <1>4, OperationFields DEF Reload, TypeOK
  <2> QED BY <1>4, <2>1 DEF Reload, Goto, TypeOK, Labels, Section, ghosts
<1>5. ASSUME NEW w \in Workers, Decide(w) PROVE TypeOK'
  <2>1. CASE \E a \in Agents \cup {None} :
                /\ Accepts(w, a)
                /\ pick' = [pick EXCEPT ![w] = a]
                /\ Goto(w, "write")
                /\ UNCHANGED <<doc, undercut>>
    BY <1>5, <2>1 DEF Decide, Goto, TypeOK, Labels, Section
  <2>2. CASE Leave(w)
    BY <1>5, <2>2, LeaveType DEF Decide, TypeOK, Section
  <2> QED BY <1>5, <2>1, <2>2 DEF Decide
<1>6. ASSUME NEW w \in Workers, Write(w) PROVE TypeOK'
  <2>1. conv' \in [Convs -> Document]
    BY <1>6, RoutedType DEF Write, TypeOK
  <2>2. undercut' \subseteq Workers /\ unchecked' \subseteq Convs
    BY <1>6 DEF Write, Holding, TypeOK
  <2>3. task[w].kind # "edit"
    BY <1>6 DEF Write, TypeOK, Section
  <2> QED BY <1>6, <2>1, <2>2, <2>3, LeaveType DEF Write
<1>7. ASSUME NEW w \in Workers, Fail(w) PROVE TypeOK'
  BY <1>7, LeaveType DEF Fail, TypeOK, Section
<1>8. ASSUME NEW w \in Workers, Release(w) PROVE TypeOK'
  <2>1. lock' \in [Convs -> Workers \cup {Free}]
    BY <1>8 DEF Release, Released, TypeOK
  <2> QED BY <1>8, <2>1, FinishType DEF Release, TypeOK, ghosts
<1>9. ASSUME NEW w \in Workers, Crash(w) PROVE TypeOK'
  <2>1. batch' \in [Workers -> [phase : {"off", "queued", "new"},
                               left : SUBSET Convs,
                               by : Actors \cup {None}]]
    BY <1>9 DEF Crash, NoBatch, TypeOK
  <2> QED BY <1>9, <2>1, FinishType DEF Crash, TypeOK
<1>10. ASSUME NEW w \in Workers,
              BatchNext(w) \/ BatchTurn(w) \/ BatchDone(w)
       PROVE  TypeOK'
  BY <1>10, BatchStepType
<1>11. ASSUME NEW c \in Convs, Expire(c) PROVE TypeOK'
  BY <1>11 DEF Expire, Expired, TypeOK, ghosts
<1>12. ASSUME NEW a \in Agents, PresenceChanges(a) PROVE TypeOK'
  BY <1>12 DEF PresenceChanges, TypeOK, ghosts
<1>13. CASE UNCHANGED vars
  BY <1>13 DEF vars, TypeOK
<1>14. ASSUME NEW w \in Workers, Store(w) PROVE TypeOK'
  <2>1. task[w].conv \in Convs /\ doc[w] \in Document
    BY <1>14, OperationFields DEF Store, TypeOK
  <2>2. PICK k \in Kinds[w] \cap (Manual \cup System) :
           \E d \in Edited(k, doc[w]) :
              /\ conv' = [conv EXCEPT ![task[w].conv] = d]
              /\ undercut' = undercut \cup Holding(w, task[w].conv)
              /\ unchecked' \in {unchecked, unchecked \cup {task[w].conv}}
    BY <1>14 DEF Store
  <2>3. conv' \in [Convs -> Document]
    BY <2>1, <2>2, EditedType DEF TypeOK
  <2>4. undercut' \subseteq Workers /\ unchecked' \subseteq Convs
    BY <2>1, <2>2 DEF TypeOK, Holding
  <2> QED BY <1>14, <2>3, <2>4, FinishType DEF Store, TypeOK
<1>15. ASSUME NEW w \in Workers, Refuse(w) PROVE TypeOK'
  BY <1>15, FinishType DEF Refuse, TypeOK, ghosts
<1> QED
  BY <1>1, <1>2, <1>3, <1>4, <1>5, <1>6, <1>7, <1>8, <1>9, <1>10, <1>11,
     <1>12, <1>13, <1>14, <1>15 DEF Next, Step, Trouble

\* Every reachable state of the routing service is well typed.
THEOREM TypeCorrect == Spec => []TypeOK
BY InitType, NextType, PTL DEF Spec
-----------------------------------------------------------------------------
(* The lock.                                                               *)

\* What one step may do to the lock and to who is inside it, w being the
\* worker or c the key concerned: a worker enters with a free key, moves on
\* inside, or leaves deleting at most its own token; a key expires.
LEMMA LockSteps ==
    ASSUME TypeOK, [Next]_vars
    PROVE  \/ \E w \in Workers :
                 /\ \A v \in Workers \ {w} : pc'[v] = pc[v] /\ task'[v] = task[v]
                 /\ \A v \in Workers \ {w} : v \in lapsed' <=> v \in lapsed
                 /\ \/ /\ pc'[w] \notin Section
                       /\ \/ lock' = lock
                          \/ \E c \in Convs :
                                /\ lock[c] \in {Free, w}
                                /\ \A k \in Convs \ {c} : lock'[k] = lock[k]
                    \/ /\ pc[w] = "acquire" /\ task'[w] = task[w]
                       /\ task[w].conv \in Convs
                       /\ lock[task[w].conv] = Free
                       /\ lock' = [lock EXCEPT ![task[w].conv] = w]
                       /\ lapsed' = lapsed
                    \/ /\ pc[w] \in Section /\ task'[w] = task[w]
                       /\ lock' = lock
                       /\ lapsed' = lapsed
           \/ \E c \in Convs : Expire(c)
           \/ UNCHANGED <<pc, task, lock, lapsed>>
<1> DEFINE Outside(w) ==
      /\ \A v \in Workers \ {w} : pc'[v] = pc[v] /\ task'[v] = task[v]
      /\ \A v \in Workers \ {w} : v \in lapsed' <=> v \in lapsed
<1> DEFINE Away(w) ==
      /\ pc'[w] \notin Section
      /\ \/ lock' = lock
         \/ \E c \in Convs : /\ lock[c] \in {Free, w}
                            /\ \A k \in Convs \ {c} : lock'[k] = lock[k]
<1> DEFINE Enters(w) ==
      /\ pc[w] = "acquire" /\ task'[w] = task[w]
      /\ task[w].conv \in Convs
      /\ lock[task[w].conv] = Free
      /\ lock' = [lock EXCEPT ![task[w].conv] = w]
      /\ lapsed' = lapsed
<1> DEFINE Moves(w) ==
      /\ pc[w] \in Section /\ task'[w] = task[w]
      /\ lock' = lock
      /\ lapsed' = lapsed
<1>1. ASSUME NEW w \in Workers, NEW x, NEW t, Start(w, x, t)
      PROVE  Outside(w) /\ Away(w)
  BY <1>1 DEF Start, Goto, TypeOK, Section
<1>2. ASSUME NEW w \in Workers, Request(w)
      PROVE  (Outside(w) /\ Away(w)) \/ UNCHANGED <<pc, task, lock, lapsed>>
  <2>1. ASSUME NEW c \in Convs, LoadCopy(w, c) PROVE Outside(w) /\ Away(w)
    BY <2>1 DEF LoadCopy, Goto, TypeOK, Section
  <2> QED BY <1>1, <1>2, <2>1 DEF Request, Assign, AutoAssign, Transfer, Enqueue,
                                  RunBatch, BatchList
<1>3. ASSUME NEW w \in Workers, Finish(w)
      PROVE  Outside(w) /\ pc'[w] \notin Section
  BY <1>3 DEF Finish, TypeOK, Section
<1>4. ASSUME NEW w \in Workers, pc[w] # "idle"
      PROVE  task[w].conv \in Convs
  BY <1>4, OperationFields DEF TypeOK
<1>5. ASSUME NEW w \in Workers, Acquire(w)
      PROVE  Outside(w) /\ (Away(w) \/ Enters(w))
  <2>1. CASE CanAcquire(lock, task[w].conv)
    BY <1>4, <1>5, <2>1 DEF Acquire, Acquired, CanAcquire, Goto, TypeOK
  <2>2. CASE ~CanAcquire(lock, task[w].conv)
    BY <1>3, <1>5, <2>2 DEF Acquire
  <2> QED BY <2>1, <2>2
<1>6. ASSUME NEW w \in Workers, AcquireError(w)
      PROVE  Outside(w) /\ Away(w)
  <2>1. task[w].conv \in Convs
    BY <1>4, <1>6 DEF AcquireError
  <2>2. \/ lock' = lock
        \/ /\ lock[task[w].conv] = Free
           /\ lock' = [lock EXCEPT ![task[w].conv] = w]
    <3>1. \/ lock' = lock
          \/ /\ CanAcquire(lock, task[w].conv)
             /\ lock' = Acquired(lock, task[w].conv, w)
      BY <1>6 DEF AcquireError
    <3> QED BY <3>1 DEF Acquired, CanAcquire
  <2> QED BY <1>3, <1>6, <2>1, <2>2 DEF AcquireError, TypeOK
<1>7. ASSUME NEW w \in Workers, Release(w)
      PROVE  Outside(w) /\ Away(w)
  <2>1. task[w].conv \in Convs
    BY <1>4, <1>7 DEF Release
  <2>2. \/ lock' = lock
        \/ /\ lock[task[w].conv] = w
           /\ lock' = [lock EXCEPT ![task[w].conv] = Free]
    <3>1. lock' = lock \/ lock' = Released(lock, task[w].conv, w)
      BY <1>7 DEF Release
    <3> QED BY <3>1 DEF Released
  <2> QED BY <1>3, <1>7, <2>1, <2>2 DEF Release, TypeOK
<1>8. ASSUME NEW w \in Workers, Crash(w)
      PROVE  Outside(w) /\ Away(w)
  BY <1>3, <1>8 DEF Crash
<1>9. ASSUME NEW w \in Workers, Reload(w) \/ Decide(w) \/ Write(w) \/ Fail(w)
      PROVE  Outside(w) /\ Moves(w)
  BY <1>9 DEF Reload, Decide, Write, Fail, Leave, Goto, TypeOK, Section
<1>10. ASSUME NEW w \in Workers, BatchNext(w) \/ BatchTurn(w) \/ BatchDone(w)
       PROVE  \/ Outside(w) /\ Away(w)
              \/ UNCHANGED <<pc, task, lock, lapsed>>
  BY <1>1, <1>10 DEF BatchNext, BatchTurn, BatchList, BatchDone
<1>11. ASSUME NEW a \in Agents, PresenceChanges(a)
       PROVE  UNCHANGED <<pc, task, lock, lapsed>>
  BY <1>11 DEF PresenceChanges
<1>12. CASE UNCHANGED vars
  BY <1>12 DEF vars
<1>14. ASSUME NEW w \in Workers, Store(w) \/ Refuse(w)
       PROVE  Outside(w) /\ Away(w)
  BY <1>3, <1>14 DEF Store, Refuse
<1>13. \/ \E w \in Workers : Outside(w) /\ (Away(w) \/ Enters(w) \/ Moves(w))
       \/ \E c \in Convs : Expire(c)
       \/ UNCHANGED <<pc, task, lock, lapsed>>
  BY <1>2, <1>5, <1>6, <1>7, <1>8, <1>9, <1>10, <1>11, <1>12, <1>14 DEF Next, Step, Trouble
<1> QED BY <1>13

\* The lock stays with the operation that took it until it is released or its
\* TTL has run out, whatever the other workers, crashes and errors do.
THEOREM LockIsKept == Spec => []HolderKeepsLock
<1>1. Init => HolderKeepsLock
  BY DEF Init, HolderKeepsLock, InSection, Section
<1>2. TypeOK /\ HolderKeepsLock /\ [Next]_vars => HolderKeepsLock'
  <2> SUFFICES ASSUME TypeOK, HolderKeepsLock, [Next]_vars,
                      NEW v \in Workers, NEW k \in Convs,
                      pc'[v] \in Section, task'[v].conv = k, v \notin lapsed'
               PROVE  lock'[k] = v
    BY DEF HolderKeepsLock, InSection
  <2>1. ASSUME pc[v] \in Section, task[v].conv = k, v \notin lapsed
        PROVE  lock[k] = v
    BY <2>1 DEF HolderKeepsLock, InSection
  <2>2. Free \notin Workers /\ lock \in [Convs -> Workers \cup {Free}]
    BY RoutingAssumption DEF TypeOK
  <2>3. CASE UNCHANGED <<pc, task, lock, lapsed>>
    BY <2>1, <2>3
  <2>4. ASSUME NEW c \in Convs, Expire(c)
        PROVE  lock'[k] = v
    <3>1. lock[k] = v
      BY <2>1, <2>4 DEF Expire
    <3>2. k # c
      BY <2>4, <3>1 DEF Expire, InSection
    <3> QED BY <2>2, <2>4, <3>1, <3>2 DEF Expire, Expired
  <2>5. ASSUME NEW w \in Workers,
               \A u \in Workers \ {w} : pc'[u] = pc[u] /\ task'[u] = task[u],
               \A u \in Workers \ {w} : u \in lapsed' <=> u \in lapsed,
               \/ /\ pc'[w] \notin Section
                  /\ \/ lock' = lock
                     \/ \E c \in Convs :
                           /\ lock[c] \in {Free, w}
                           /\ \A j \in Convs \ {c} : lock'[j] = lock[j]
               \/ /\ pc[w] = "acquire" /\ task'[w] = task[w]
                  /\ task[w].conv \in Convs
                  /\ lock[task[w].conv] = Free
                  /\ lock' = [lock EXCEPT ![task[w].conv] = w]
                  /\ lapsed' = lapsed
               \/ /\ pc[w] \in Section /\ task'[w] = task[w]
                  /\ lock' = lock
                  /\ lapsed' = lapsed
        PROVE  lock'[k] = v
    <3>1. CASE v = w
      BY <2>1, <2>2, <2>5, <3>1
    <3>2. CASE v # w
      BY <2>1, <2>2, <2>5, <3>2
    <3> QED BY <3>1, <3>2
  <2> QED BY <2>3, <2>4, <2>5, LockSteps
<1> QED BY <1>1, <1>2, TypeCorrect, PTL DEF Spec
-----------------------------------------------------------------------------
(* Mutual exclusion of the operations that still have their lock, and the   *)
(* copies they decide on.                                                   *)

\* The copy an operation decides on and writes is the stored document, and an
\* automatic assignment that was accepted is of a conversation without an
\* assignee.
Current ==
    /\ DecisionsFresh
    /\ \A w \in Workers : pc[w] = "write" /\ task[w].kind = "auto"
                            => doc[w].agent = None

\* Two workers are never inside the lock of the same conversation, unless it
\* expired under one of them.
LEMMA MutualExclusion ==
    ASSUME HolderKeepsLock, NEW v \in Workers \ lapsed,
           NEW w \in Workers \ lapsed,
           NEW c \in Convs, InSection(v, c), InSection(w, c)
    PROVE  v = w
BY DEF HolderKeepsLock

\* Only Reload gives a worker a new copy, of the stored document, only Decide
\* sends it on to write, and only Write and Store change a conversation.  While
\* a worker has a copy it stays marked as one whose lock expired, or as one
\* under whom somebody without the lock stored.
LEMMA CopySteps ==
    ASSUME TypeOK, [Next]_vars, NEW v \in Workers, pc'[v] \in {"decide", "write"}
    PROVE  /\ task'[v] = task[v]
           /\ \/ /\ pc'[v] = "decide" /\ doc'[v] = conv[task[v].conv]
                 /\ conv' = conv
              \/ /\ pc[v] \in {"decide", "write"} /\ doc'[v] = doc[v]
                 /\ v \in lapsed => v \in lapsed'
                 /\ v \in undercut => v \in undercut'
                 /\ \/ conv' = conv
                    \/ \E w \in Workers \ {v} : Write(w) \/ Store(w)
           /\ \/ pc'[v] = "decide"
              \/ pc[v] = "write"
              \/ \E a \in Agents \cup {None} : Accepts(v, a)
<1> DEFINE Marked == /\ v \in lapsed => v \in lapsed'
                     /\ v \in undercut => v \in undercut'
<1> DEFINE Goal ==
      /\ task'[v] = task[v]
      /\ \/ /\ pc'[v] = "decide" /\ doc'[v] = conv[task[v].conv]
            /\ conv' = conv
         \/ /\ pc[v] \in {"decide", "write"} /\ doc'[v] = doc[v]
            /\ Marked
            /\ \/ conv' = conv
               \/ \E w \in Workers \ {v} : Write(w) \/ Store(w)
      /\ \/ pc'[v] = "decide"
         \/ pc[v] = "write"
         \/ \E a \in Agents \cup {None} : Accepts(v, a)
<1>0. /\ pc \in [Workers -> Labels]
      /\ task \in [Workers -> Operations \cup {NoTask}]
      /\ doc \in [Workers -> Document \cup {NoDoc}]
  BY DEF TypeOK
<1>1. ASSUME NEW w \in Workers, NEW x, NEW t, Start(w, x, t) PROVE Goal
  BY <1>0, <1>1 DEF Start, Goto, ghosts
<1>2. ASSUME NEW w \in Workers, Request(w) PROVE Goal
  <2>1. ASSUME NEW c \in Convs, LoadCopy(w, c) PROVE Goal
    BY <1>0, <2>1 DEF LoadCopy, Goto, ghosts
  <2> QED BY <1>1, <1>2, <2>1 DEF Request, Assign, AutoAssign, Transfer, Enqueue,
                                  RunBatch, BatchList, ghosts
<1>3. ASSUME NEW w \in Workers, Finish(w),
             conv' = conv \/ Store(w),
             undercut \ {w} \subseteq undercut'
      PROVE  Goal
  <2>1. v # w
    BY <1>0, <1>3 DEF Finish
  <2> QED BY <1>0, <1>3, <2>1 DEF Finish
<1>4. ASSUME NEW w \in Workers, Leave(w), task' = task, lapsed' = lapsed,
             undercut \ {w} \subseteq undercut',
             conv' = conv \/ Write(w)
      PROVE  Goal
  <2>1. v # w
    BY <1>0, <1>4 DEF Leave, Goto
  <2> QED BY <1>0, <1>4, <2>1 DEF Leave, Goto
<1>5. ASSUME NEW w \in Workers, Acquire(w) PROVE Goal
  BY <1>0, <1>3, <1>5 DEF Acquire, Goto, ghosts
<1>6. ASSUME NEW w \in Workers,
             AcquireError(w) \/ Release(w) \/ Crash(w) \/ Store(w) \/ Refuse(w)
      PROVE  Goal
  BY <1>3, <1>6 DEF AcquireError, Release, Crash, Store, Refuse, ghosts
<1>7. ASSUME NEW w \in Workers, Reload(w) PROVE Goal
  BY <1>0, <1>7 DEF Reload, Goto, ghosts
<1>8. ASSUME NEW w \in Workers, Decide(w) PROVE Goal
  BY <1>0, <1>4, <1>8 DEF Decide, Goto
<1>9. ASSUME NEW w \in Workers, Write(w) \/ Fail(w) PROVE Goal
  BY <1>4, <1>9 DEF Write, Fail
<1>10. ASSUME NEW w \in Workers, BatchNext(w) \/ BatchTurn(w) \/ BatchDone(w)
       PROVE  Goal
  BY <1>1, <1>10 DEF BatchNext, BatchTurn, BatchList, BatchDone, ghosts
<1>11. ASSUME NEW c \in Convs, Expire(c) PROVE Goal
  BY <1>11 DEF Expire, ghosts
<1>12. ASSUME NEW a \in Agents, PresenceChanges(a) PROVE Goal
  BY <1>12 DEF PresenceChanges, ghosts
<1>13. CASE UNCHANGED vars
  BY <1>13 DEF vars
<1> QED
  BY <1>2, <1>5, <1>6, <1>7, <1>8, <1>9, <1>10, <1>11, <1>12, <1>13
     DEF Next, Step, Trouble

\* A step that changes the conversation of which v has a copy marks v, unless v
\* is marked already: the writer has no lock, or v has lost its own.
LEMMA ChangesAreMarked ==
    ASSUME TypeOK, HolderKeepsLock, NEW v \in Workers, NEW w \in Workers \ {v},
           Write(w) \/ Store(w), pc[v] \in {"decide", "write"}
    PROVE  \/ conv'[task[v].conv] = conv[task[v].conv]
           \/ v \in lapsed
           \/ v \in undercut'
<1>1. task[v].conv \in Convs /\ task[w].conv \in Convs
  BY OperationFields DEF TypeOK, Write, Store
<1>2. conv'[task[v].conv] = conv[task[v].conv] \/ task[w].conv = task[v].conv
  BY <1>1 DEF Write, Store, TypeOK
<1>3. CASE Store(w) /\ task[w].conv = task[v].conv
  <2>1. undercut' = undercut \cup Holding(w, task[w].conv)
    BY <1>3 DEF Store
  <2> QED BY <1>3, <2>1 DEF Holding
<1>4. CASE Write(w) /\ task[w].conv = task[v].conv
  <2>1. CASE w \in lapsed
    BY <1>4, <2>1 DEF Write, Holding
  <2>2. CASE w \notin lapsed
    <3>1. InSection(v, task[v].conv) /\ InSection(w, task[v].conv)
      BY <1>4 DEF InSection, Section, Write
    <3> QED BY <1>1, <2>2, <3>1, MutualExclusion
  <2> QED BY <2>1, <2>2
<1> QED BY <1>2, <1>3, <1>4

\* Current is inductive: what changes a conversation between the reload and the
\* write is a writer without the lock, and marks whoever has a copy.
LEMMA CurrentHolds == Spec => []Current
<1>1. Init => Current
  BY DEF Init, Current, DecisionsFresh
<1>2. TypeOK /\ HolderKeepsLock /\ Current /\ [Next]_vars => Current'
  <2> SUFFICES ASSUME TypeOK, HolderKeepsLock, Current, [Next]_vars
               PROVE  Current'
    OBVIOUS
  <2>1. ASSUME NEW v \in Workers, v \notin lapsed', v \notin undercut',
               pc'[v] \in {"decide", "write"}
        PROVE  doc'[v] = conv'[task'[v].conv]
    <3>1. task'[v] = task[v]
      BY <2>1, CopySteps
    <3>2. CASE doc'[v] = conv[task[v].conv] /\ conv' = conv
      BY <3>1, <3>2
    <3>3. CASE /\ pc[v] \in {"decide", "write"} /\ doc'[v] = doc[v]
               /\ v \in lapsed => v \in lapsed'
               /\ v \in undercut => v \in undercut'
               /\ \/ conv' = conv
                  \/ \E w \in Workers \ {v} : Write(w) \/ Store(w)
      <4>1. doc'[v] = conv[task[v].conv]
        BY <2>1, <3>3 DEF Current, DecisionsFresh
      <4>2. ASSUME NEW w \in Workers \ {v}, Write(w) \/ Store(w)
            PROVE  conv'[task[v].conv] = conv[task[v].conv]
        BY <2>1, <3>3, <4>2, ChangesAreMarked
      <4>3. conv'[task[v].conv] = conv[task[v].conv]
        BY <3>3, <4>2
      <4> QED BY <3>1, <4>1, <4>3
    <3> QED BY <2>1, <3>2, <3>3, CopySteps
  <2>2. ASSUME NEW v \in Workers, pc'[v] = "write", task'[v].kind = "auto"
        PROVE  doc'[v].agent = None
    <3>1. /\ task'[v] = task[v]
          /\ doc'[v] = doc[v]
          /\ pc[v] = "write" \/ \E a \in Agents \cup {None} : Accepts(v, a)
      BY <2>2, CopySteps
    <3>2. CASE pc[v] = "write"
      BY <2>2, <3>1, <3>2 DEF Current
    <3>3. CASE \E a \in Agents \cup {None} : Accepts(v, a)
      BY <2>2, <3>1, <3>3 DEF Accepts
    <3> QED BY <3>1, <3>2, <3>3
  <2> QED BY <2>1, <2>2 DEF Current, DecisionsFresh
<1> QED BY <1>1, <1>2, TypeCorrect, LockIsKept, PTL DEF Spec

\* Every routing decision is taken on, and written over, the latest document,
\* however long operations run and whatever fails, unless the operation's lock
\* expired or a writer without the lock stored the conversation in between
\* (withLock reloads inside the lock).
THEOREM DecisionsAreFresh == Spec => []DecisionsFresh
<1>1. Current => DecisionsFresh
  BY DEF Current
<1> QED BY <1>1, CurrentHolds, PTL

\* With the same exceptions no automatic assignment takes a conversation away
\* from an agent, however many nodes route it at once.
THEOREM NoDoubleAssignments == Spec => []NoDoubleAssignment
<1>1. Current => NoDoubleAssignment
  BY DEF Current, DecisionsFresh, NoDoubleAssignment
<1> QED BY <1>1, CurrentHolds, PTL
-----------------------------------------------------------------------------
(* The agent limit.  Load(a) alone is not inductive: a worker that has       *)
(* decided still has its conversation to store.  Counted together, the       *)
(* conversations of an agent and the decisions for it never exceed the limit *)
(* by as much as there are workers: the last decision saw a free place.      *)

\* The conversations routing gave a, of those CountOpenAssigned counts for it.
Counted(a) == {c \in Convs \ unchecked : CountsFor(conv[c], a)}

\* The workers that have settled on a and have yet to store it.
Deciding(a) == {w \in Workers : pc[w] = "write" /\ pick[w] = a}

\* Routed conversations and pending decisions of an agent, against its limit.
PlacesBounded ==
    \A a \in Agents :
        MaxChats[a] # 0 =>
            Cardinality(Counted(a)) + Cardinality(Deciding(a))
                < MaxChats[a] + Cardinality(Workers)

\* What is counted is finite.
LEMMA CountsAreFinite ==
    ASSUME NEW a
    PROVE  /\ IsFiniteSet(Counted(a)) /\ Cardinality(Counted(a)) \in Nat
           /\ IsFiniteSet(Deciding(a)) /\ Cardinality(Deciding(a)) \in Nat
           /\ Cardinality(Deciding(a)) <= Cardinality(Workers)
           /\ Cardinality(Workers) \in Nat
<1>1. Counted(a) \in SUBSET Convs /\ Deciding(a) \in SUBSET Workers
  BY DEF Counted, Deciding
<1>2. IsFiniteSet(Counted(a))
  BY <1>1, FS_Subset, FinitenessAssumption
<1>3. IsFiniteSet(Deciding(a)) /\ Cardinality(Deciding(a)) <= Cardinality(Workers)
  BY <1>1, FS_Subset, FinitenessAssumption
<1> QED BY <1>2, <1>3, FS_CardinalityType, FinitenessAssumption

\* A larger finite set counts at least as much.
LEMMA CountMonotone ==
    ASSUME NEW S, NEW T, IsFiniteSet(T), S \subseteq T
    PROVE  IsFiniteSet(S) /\ Cardinality(S) <= Cardinality(T)
BY FS_Subset

\* A settled assignment found a free place: EvaluateAgent and eligibleAgents
\* both check the capacity.
LEMMA AcceptedHasRoom ==
    ASSUME TypeOK, NEW w \in Workers, pc[w] = "decide", NEW a \in Agents, Accepts(w, a)
    PROVE  HasRoom(a)
<1>1. task[w] \in Operations /\ task[w].kind # "edit"
  BY DEF TypeOK, Section
<1>2. a # None
  BY EntityAssumption
<1>3. CASE task[w].kind = "assign"
  BY <1>3 DEF Accepts, EvaluateAgent
<1>4. CASE task[w].kind = "auto"
  BY <1>4 DEF Accepts, Eligible
<1>5. CASE task[w].kind = "transfer"
  BY <1>2, <1>5 DEF Accepts, EvaluateAgent
<1>6. CASE task[w].kind = "enqueue"
  BY <1>2, <1>6 DEF Accepts
<1> QED BY <1>1, <1>3, <1>4, <1>5, <1>6, OperationFields

\* The document a worker stores is of the agent it settled on.
LEMMA RoutedAgent ==
    ASSUME TypeOK, NEW w \in Workers, pc[w] = "write", NEW a \in Agents,
           Routed(w).agent = a
    PROVE  pick[w] = a
<1>1. /\ task[w] \in Operations
      /\ doc[w] \in Document
      /\ pick[w] \in Agents \cup {None}
      /\ task[w].kind # "edit"
  BY DEF TypeOK, Section
<1>2. a # None
  BY EntityAssumption
<1>3. CASE task[w].kind \in {"assign", "auto"}
  BY <1>1, <1>3 DEF Routed, Assigned, Document
<1>4. CASE task[w].kind = "transfer"
  <2> DEFINE moved == [doc[w] EXCEPT !.sector = IF task[w].sector # None THEN task[w].sector ELSE @]
  <2>1. moved \in [status : Statuses, sector : {moved.sector}, queue : Queues \cup {None},
                   agent : Agents \cup {None}, closedAt : BOOLEAN, unread : Nat]
    BY <1>1 DEF Document
  <2>2. Routed(w) = IF pick[w] # None THEN Assigned(moved, pick[w])
                    ELSE [moved EXCEPT !.agent = None, !.status = "transferred"]
    BY <1>4 DEF Routed, Transferred
  <2> HIDE DEF moved
  <2> QED BY <1>2, <2>1, <2>2 DEF Assigned
<1>5. CASE task[w].kind = "enqueue"
  BY <1>1, <1>2, <1>5 DEF Routed, Enqueued, Document
<1> QED BY <1>1, <1>3, <1>4, <1>5, OperationFields

\* Only a write adds to the conversations routing gave an agent, and only a
\* decision to the workers that have settled on it: what a store without the
\* lock gives an agent is marked unchecked.
LEMMA PlaceSteps ==
    ASSUME TypeOK, [Next]_vars, NEW a \in Agents
    PROVE  \/ /\ Counted(a)' \subseteq Counted(a)
              /\ Deciding(a)' \subseteq Deciding(a)
           \/ Counted(a)' = Counted(a) /\ HasRoom(a)
           \/ \E w \in Workers : Write(w)
<1> DEFINE Same == conv' = conv /\ unchecked' = unchecked
<1> DEFINE Kept == /\ Counted(a)' \subseteq Counted(a)
                   /\ Deciding(a)' \subseteq Deciding(a)
<1>a. ASSUME Same PROVE Counted(a)' = Counted(a)
  BY <1>a DEF Counted, CountsFor
<1>0. ASSUME Same,
             \A v \in Workers : \/ pc'[v] = pc[v] /\ pick'[v] = pick[v]
                               \/ pc'[v] # "write"
      PROVE  Kept
  BY <1>a, <1>0 DEF Deciding
<1> HIDE DEF Kept
<1>1. ASSUME NEW w \in Workers, Request(w)
      PROVE  Kept
  BY <1>0, <1>1 DEF Request, Assign, AutoAssign, Transfer, Enqueue, RunBatch, BatchList, Start, LoadCopy, Goto, TypeOK, ghosts
<1>2. ASSUME NEW w \in Workers, Step(w)
      PROVE  Kept \/ (HasRoom(a) /\ Counted(a)' = Counted(a)) \/ Write(w)
  <2>1. CASE Acquire(w)
    BY <1>0, <2>1 DEF Acquire, Goto, Finish, TypeOK, ghosts
  <2>2. CASE Reload(w)
    BY <1>0, <2>2 DEF Reload, Goto, TypeOK, ghosts
  <2>3. CASE Decide(w)
    <3>1. CASE Leave(w)
      BY <1>0, <2>3, <3>1 DEF Decide, Leave, Goto, TypeOK
    <3>2. ASSUME NEW b \in Agents \cup {None}, Accepts(w, b), pick' = [pick EXCEPT ![w] = b],
                 Goto(w, "write")
          PROVE  Kept \/ (HasRoom(a) /\ Counted(a)' = Counted(a))
      <4>1. CASE b = a
        BY <1>a, <2>3, <3>2, <4>1, AcceptedHasRoom DEF Decide
      <4>2. CASE b # a
        <5>1. Deciding(a)' \subseteq Deciding(a)
          BY <3>2, <4>2 DEF Deciding, Goto, TypeOK
        <5> QED BY <1>a, <2>3, <5>1 DEF Decide, Kept
      <4> QED BY <4>1, <4>2
    <3> QED BY <2>3, <3>1, <3>2 DEF Decide
  <2>4. CASE Release(w)
    BY <1>0, <2>4 DEF Release, Finish, TypeOK, ghosts
  <2>5. CASE BatchNext(w)
    BY <1>0, <2>5 DEF BatchNext, Start, Goto, TypeOK, ghosts
  <2>6. CASE BatchTurn(w) \/ BatchDone(w)
    BY <1>0, <2>6 DEF BatchTurn, BatchDone, BatchList, TypeOK, ghosts
  <2>7. CASE Store(w)
    <3>1. PICK k \in Kinds[w] \cap (Manual \cup System) :
             \E d \in Edited(k, doc[w]) :
                LET c == task[w].conv
                    gains == \E b \in Agents : CountsFor(d, b) /\ ~CountsFor(conv[c], b)
                IN  /\ conv' = [conv EXCEPT ![c] = d]
                    /\ unchecked' = IF gains THEN unchecked \cup {c} ELSE unchecked
      BY <2>7 DEF Store
    <3>2. PICK d \in Edited(k, doc[w]) :
             /\ conv' = [conv EXCEPT ![task[w].conv] = d]
             /\ unchecked' = IF \E b \in Agents : CountsFor(d, b) /\ ~CountsFor(conv[task[w].conv], b)
                             THEN unchecked \cup {task[w].conv} ELSE unchecked
      BY <3>1
    <3>3. ASSUME NEW c \in Convs \ unchecked', CountsFor(conv'[c], a)
          PROVE  c \in Counted(a)
      <4>1. CASE c = task[w].conv
        BY <3>2, <3>3, <4>1 DEF Counted, TypeOK
      <4>2. CASE c # task[w].conv
        BY <3>2, <3>3, <4>2 DEF Counted, TypeOK
      <4> QED BY <4>1, <4>2
    <3>4. Counted(a)' \subseteq Counted(a)
      BY <3>3 DEF Counted, CountsFor
    <3>5. Deciding(a)' \subseteq Deciding(a)
      BY <2>7 DEF Store, Finish, Deciding, TypeOK
    <3> QED BY <3>4, <3>5 DEF Kept
  <2>8. CASE Refuse(w)
    BY <1>0, <2>8 DEF Refuse, Finish, TypeOK, ghosts
  <2> QED BY <1>2, <2>1, <2>2, <2>3, <2>4, <2>5, <2>6, <2>7, <2>8 DEF Step
<1>3. ASSUME NEW w \in Workers, Trouble(w)
      PROVE  Kept
  BY <1>0, <1>3 DEF Trouble, AcquireError, Fail, Crash, Leave, Finish, Goto, TypeOK, ghosts
<1>4. ASSUME NEW c \in Convs, Expire(c)
      PROVE  Kept
  BY <1>0, <1>4 DEF Expire, ghosts
<1>5. ASSUME NEW b \in Agents, PresenceChanges(b)
      PROVE  Kept
  BY <1>0, <1>5 DEF PresenceChanges, ghosts
<1>6. CASE UNCHANGED vars
  <2>1. Same /\ pc' = pc /\ pick' = pick
    BY <1>6 DEF vars
  <2> QED BY <1>a, <2>1 DEF Kept, Deciding
<1> QED BY <1>1, <1>2, <1>3, <1>4, <1>5, <1>6 DEF Next, Kept

\* A write moves at most one conversation to an agent, and then the worker no
\* longer counts as deciding for it.
LEMMA WriteKeepsPlaces ==
    ASSUME TypeOK, NEW w \in Workers, Write(w), NEW a \in Agents
    PROVE  Cardinality(Counted(a)') + Cardinality(Deciding(a)')
             <= Cardinality(Counted(a)) + Cardinality(Deciding(a))
<1> DEFINE c == task[w].conv
<1>1. /\ pc[w] = "write" /\ c \in Convs
      /\ conv' = [conv EXCEPT ![c] = Routed(w)]
      /\ unchecked' \in {unchecked, unchecked \ {c}}
      /\ pc' = [pc EXCEPT ![w] = "release"] /\ pick' = [pick EXCEPT ![w] = None]
  BY OperationFields DEF Write, Leave, Goto, TypeOK
<1>2. \A d \in Convs \ {c} : conv'[d] = conv[d]
  BY <1>1 DEF TypeOK
<1>3. conv'[c] = Routed(w)
  BY <1>1 DEF TypeOK
<1>4. Deciding(a)' = Deciding(a) \ {w}
  BY <1>1 DEF Deciding, TypeOK
<1>5. CASE pick[w] = a
  <2>1. Counted(a)' \subseteq Counted(a) \cup {c}
    BY <1>1, <1>2 DEF Counted, CountsFor
  <2>2. /\ IsFiniteSet(Counted(a) \cup {c})
        /\ Cardinality(Counted(a) \cup {c}) \in Nat
        /\ Cardinality(Counted(a) \cup {c}) <= Cardinality(Counted(a)) + 1
    <3>1. /\ IsFiniteSet(Counted(a) \cup {c})
          /\ Cardinality(Counted(a) \cup {c})
               = IF c \in Counted(a) THEN Cardinality(Counted(a)) ELSE Cardinality(Counted(a)) + 1
      BY FS_AddElement, CountsAreFinite
    <3> QED BY <3>1, CountsAreFinite
  <2>3. /\ IsFiniteSet(Counted(a)')
        /\ Cardinality(Counted(a)') <= Cardinality(Counted(a) \cup {c})
    BY <2>1, <2>2, CountMonotone
  <2>4. Cardinality(Counted(a)') \in Nat
    BY <2>3, FS_CardinalityType
  <2>5. w \in Deciding(a)
    BY <1>1, <1>5 DEF Deciding
  <2>6. Cardinality(Deciding(a)') = Cardinality(Deciding(a)) - 1
    BY <1>4, <2>5, FS_RemoveElement, CountsAreFinite
  <2> HIDE DEF c
  <2> QED BY <2>2, <2>3, <2>4, <2>6, CountsAreFinite
<1>6. CASE pick[w] # a
  <2>1. Routed(w).agent # a
    BY <1>1, <1>6, RoutedAgent
  <2>2. Counted(a)' \subseteq Counted(a)
    BY <1>1, <1>2, <1>3, <2>1 DEF Counted, CountsFor
  <2>3. Cardinality(Counted(a)') <= Cardinality(Counted(a)) /\ IsFiniteSet(Counted(a)')
    BY <2>2, CountMonotone, CountsAreFinite
  <2>4. Cardinality(Counted(a)') \in Nat
    BY <2>3, FS_CardinalityType
  <2>5. Cardinality(Deciding(a)') = Cardinality(Deciding(a))
    <3>1. w \notin Deciding(a)
      BY <1>6 DEF Deciding
    <3> QED BY <1>4, <3>1, FS_RemoveElement, CountsAreFinite
  <2> QED BY <2>3, <2>4, <2>5, CountsAreFinite
<1> QED BY <1>5, <1>6

\* However many operations see the same free place at once, the conversations
\* routing gave an agent never exceed max_concurrent_chats by as many as there
\* are workers: what the check of evaluateAgent and eligibleAgents under a lock
\* per conversation gives, beside writers that check nothing.
THEOREM OvershootIsBounded == Spec => []OvershootBounded
<1>1. Init => PlacesBounded
  <2> SUFFICES ASSUME Init, NEW a \in Agents, MaxChats[a] # 0
               PROVE  Cardinality(Counted(a)) + Cardinality(Deciding(a))
                        < MaxChats[a] + Cardinality(Workers)
    BY DEF PlacesBounded
  <2>1. \A c \in Convs \ unchecked : conv[c].agent = None
    BY DEF Init
  <2>2. Counted(a) = {}
    BY <2>1, EntityAssumption DEF Counted, CountsFor
  <2>3. Deciding(a) = {}
    BY DEF Deciding, Init
  <2>4. MaxChats[a] \in Nat
    BY RoutingAssumption
  <2> QED BY <2>2, <2>3, <2>4, FS_EmptySet, CountsAreFinite
<1>2. TypeOK /\ PlacesBounded /\ [Next]_vars => PlacesBounded'
  <2> SUFFICES ASSUME TypeOK, PlacesBounded, [Next]_vars, NEW a \in Agents, MaxChats[a] # 0
               PROVE  Cardinality(Counted(a)') + Cardinality(Deciding(a)')
                        < MaxChats[a] + Cardinality(Workers)
    BY DEF PlacesBounded
  <2>0. /\ MaxChats[a] \in Nat /\ Cardinality(Workers) \in Nat
        /\ Cardinality(Counted(a)) \in Nat /\ Cardinality(Deciding(a)) \in Nat
        /\ Cardinality(Counted(a)) + Cardinality(Deciding(a)) < MaxChats[a] + Cardinality(Workers)
    BY RoutingAssumption, CountsAreFinite DEF PlacesBounded
  <2>1. /\ IsFiniteSet(Counted(a)') /\ Cardinality(Counted(a)') \in Nat
        /\ IsFiniteSet(Deciding(a)') /\ Cardinality(Deciding(a)') \in Nat
        /\ Cardinality(Deciding(a)') <= Cardinality(Workers)
    <3>1. Counted(a)' \in SUBSET Convs /\ Deciding(a)' \in SUBSET Workers
      BY DEF Counted, Deciding
    <3>2. IsFiniteSet(Counted(a)')
      BY <3>1, FS_Subset, FinitenessAssumption
    <3>3. IsFiniteSet(Deciding(a)') /\ Cardinality(Deciding(a)') <= Cardinality(Workers)
      BY <3>1, FS_Subset, FinitenessAssumption
    <3> QED BY <3>2, <3>3, FS_CardinalityType
  <2>3. CASE /\ Counted(a)' \subseteq Counted(a)
             /\ Deciding(a)' \subseteq Deciding(a)
    <3>1. /\ Cardinality(Deciding(a)') <= Cardinality(Deciding(a))
          /\ Cardinality(Counted(a)') <= Cardinality(Counted(a))
      BY <2>3, CountMonotone, CountsAreFinite
    <3> QED BY <2>0, <2>1, <3>1
  <2>4. CASE Counted(a)' = Counted(a) /\ HasRoom(a)
    <3> DEFINE All == {c \in Convs : CountsFor(conv[c], a)}
    <3>1. All \in SUBSET Convs /\ Counted(a) \subseteq All
      BY DEF Counted
    <3>2. IsFiniteSet(All) /\ Cardinality(All) \in Nat
      BY <3>1, FS_Subset, FS_CardinalityType, FinitenessAssumption
    <3>3. Cardinality(Counted(a)) <= Cardinality(All)
      BY <3>1, <3>2, CountMonotone
    <3>4. Cardinality(All) < MaxChats[a]
      BY <2>4 DEF HasRoom, Load
    <3> QED BY <2>0, <2>1, <2>4, <3>2, <3>3, <3>4
  <2>5. ASSUME NEW w \in Workers, Write(w)
        PROVE  Cardinality(Counted(a)') + Cardinality(Deciding(a)')
                 < MaxChats[a] + Cardinality(Workers)
    BY <2>0, <2>1, <2>5, WriteKeepsPlaces
  <2> QED BY <2>3, <2>4, <2>5, PlaceSteps
<1>3. PlacesBounded => OvershootBounded
  <2> SUFFICES ASSUME PlacesBounded, NEW a \in Agents, MaxChats[a] # 0
               PROVE  Cardinality(Counted(a)) < MaxChats[a] + Cardinality(Workers)
    BY DEF OvershootBounded, Counted
  <2>2. MaxChats[a] \in Nat
    BY RoutingAssumption
  <2> QED BY <2>2, CountsAreFinite DEF PlacesBounded
<1> QED BY <1>1, <1>2, <1>3, TypeCorrect, PTL DEF Spec
=============================================================================
