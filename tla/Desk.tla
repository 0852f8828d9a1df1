-------------------------------- MODULE Desk --------------------------------
(***************************************************************************)
(* The conversation service (domain/conversations/service) over one          *)
(* conversation and its messages, with the SLA and CSAT services it calls    *)
(* as hooks, the jobs sla.check, csat.send, csat.expire and                  *)
(* chat.close_inactive_conversations, and the customer who answers.          *)
(*                                                                          *)
(* No operation of this service takes a lock.  Each one loads a document,    *)
(* changes the copy and later stores the whole copy; `Plan' gives the calls  *)
(* an operation makes after its first read, in the order of the code.  A     *)
(* worker is a request or a job; any two of them interleave between calls.   *)
(*                                                                          *)
(* A store from a copy that is no longer current undoes somebody's change,   *)
(* and a process may die between two calls.  Both really happen, and what    *)
(* they spoil is recorded: the properties say what holds of every document   *)
(* that neither of the two has touched.                                      *)
(***************************************************************************)
EXTENDS Conversation, Sla, Csat, Sequences, FiniteSets

CONSTANTS Workers,      \* requests and jobs running at the same time
          Workloads,    \* operations run against each other, each with its bounds:
                        \* messages, the clock, failures
          PatchTo,      \* statuses a PATCH sets
          Receipts,     \* statuses the integrator reports
          MaxRetry      \* retries of a csat task, 5 in the code

ASSUME DeskAssumption ==
    /\ PatchTo \subseteq Statuses
    /\ Receipts \subseteq {"delivered", "read", "failed"}
    /\ \A l \in Workloads : l.maxMessages \in Nat /\ l.maxClock \in Nat /\ l.maxFaults \in Nat
    /\ Agents # {} /\ MaxRetry \in Nat

VARIABLES conv,      \* the conversation
          msgs,      \* its messages, in order of creation
          track,     \* its SLA tracking
          resps,     \* its CSAT responses
          tasks,     \* csat tasks in the queue, and in its archive those that
                     \* failed more than MaxRetry times
          clock,
          workload,  \* the operations of this behaviour and its bounds
          run,       \* the operation each worker runs: the calls it still has
                     \* to make, the copies it loaded, and which of them were
                     \* stored by somebody else since
          spoiled,   \* documents a stale store or a failure has damaged
          fired,     \* how often each alert was fired, up to two
          answered,  \* responses whose answer was accepted
          unseen,    \* customer messages since the conversation was last read
          faults

vars == <<conv, msgs, track, resps, tasks, clock, workload, run,
          spoiled, fired, answered, unseen, faults>>

store == <<conv, msgs, track, resps, tasks>>
history == <<spoiled, fired, answered, unseen>>
env == <<clock, workload, faults>>

Kinds == {"warning", "breached"}

\* The calls of each operation.  FindTrack, StoreTrack, FindResp, CreateResp
\* and EnqueueSend are the hooks of a close, CreateMsg and StoreConv those of
\* persisting a message.
Plan == [Patch         |-> <<"StoreConv">>,
         Tags          |-> <<"StoreConv">>,
         MarkRead      |-> <<"StoreConv">>,
         MarkUnread    |-> <<"StoreConv">>,
         Reopen        |-> <<"StoreConv">>,
         Send          |-> <<"CreateMsg", "StoreConv", "FindTrack", "StoreTrack">>,
         Note          |-> <<"CreateMsg", "StoreConv">>,
         Inbound       |-> <<"CreateMsg", "StoreConv">>,
         Close         |-> <<"StoreConv", "FindTrack", "StoreTrack", "FindResp",
                             "CreateResp", "EnqueueSend">>,
         CloseNoting   |-> <<"StoreConv", "LoadConv", "CreateMsg", "StoreConv", "FindTrack",
                             "StoreTrack", "FindResp", "CreateResp", "EnqueueSend">>,
         CloseInactive |-> <<"StoreConv", "FindTrack", "StoreTrack", "FindResp",
                             "CreateResp", "EnqueueSend">>,
         Edit          |-> <<"FindMsg", "StoreMsg", "Refresh", "StoreConv">>,
         Delete        |-> <<"FindMsg", "StoreMsg", "Refresh", "StoreConv">>,
         Receipt       |-> <<"StoreMsg">>,
         Check         |-> <<"LoadConv", "Fire", "StoreTrack">>,
         SendSurvey    |-> <<"FindSurvey", "LoadConv", "CreateMsg", "StoreConv", "StoreResp",
                             "EnqueueExpire">>,
         Expire        |-> <<"StoreResp">>,
         Submit        |-> <<"FindSurvey", "StoreResp">>]

Operations == DOMAIN Plan

\* The denormalised last message of the inbox row.
NoSnapshot == [id |-> 0, edited |-> FALSE]
Snapshot(i, m) == [id |-> i, edited |-> m.edited]

Messages == [by : {"customer", "agent", "system"},
             delivery : {"none", "pending", "delivered", "read", "failed"},
             at : Nat,               \* CreatedAt
             edited : BOOLEAN, deleted : BOOLEAN]

\* The messages the timeline shows, and those LatestByConversation may return:
\* messages of one instant have no order.
Shown(ms) == {i \in DOMAIN ms : ~ms[i].deleted}
Latest(ms) == {i \in Shown(ms) : \A j \in Shown(ms) : ms[j].at <= ms[i].at}

Row == [status : Statuses, sector : Sectors \cup {None}, queue : Queues \cup {None},
        agent : Agents \cup {None}, closedAt : BOOLEAN, unread : Nat, read : BOOLEAN,
        last : [id : Nat, edited : BOOLEAN], lastAt : Nat]

\* None is no operation and no document.
ASSUME NoneAssumption ==
    None \notin Operations \cup Row \cup Messages \cup Tracking \cup Response

Docs == {"conv", "msg", "timeline", "track", "resp"}

NoRun == [op |-> None, todo |-> <<>>, conv |-> None, id |-> 0, msg |-> None,
          track |-> None, resp |-> None, at |-> 0, behind |-> {}, tries |-> 0]

\* Create with an assignee, whose hook starts the tracking.
Init ==
    /\ conv = [status |-> "assigned", sector |-> None, queue |-> None,
               agent |-> CHOOSE a \in Agents : TRUE, closedAt |-> FALSE,
               unread |-> 0, read |-> FALSE, last |-> NoSnapshot, lastAt |-> 0]
    /\ msgs = <<>>
    /\ track = Started
    /\ resps = <<>>
    /\ tasks = {}
    /\ clock = 0
    /\ workload \in Workloads
    /\ run = [w \in Workers |-> NoRun]
    /\ spoiled = {}
    /\ fired = [a \in Legs \X Kinds |-> 0]
    /\ answered = {}
    /\ unseen = 0
    /\ faults = 0

Room == Len(msgs) + Cardinality({w \in Workers : \E i \in DOMAIN run[w].todo :
                                     run[w].todo[i] = "CreateMsg"}) < workload.maxMessages

Idle(w) == run[w] = NoRun
Quiet == \A w \in Workers : Idle(w)

-----------------------------------------------------------------------------
(* How an operation begins: its first reads, and the early returns that      *)
(* leave nothing behind as its guard.                                        *)

Begin(w, o, copies) ==
    /\ Idle(w)
    /\ o \in workload.ops
    /\ run' = [run EXCEPT ![w] = [copies EXCEPT !.op = o, !.todo = Plan[o], !.at = clock]]
    /\ UNCHANGED <<env, history>>

\* An operation on the conversation, whose copy is changed to c.
OnConv(w, o, c) == Begin(w, o, [NoRun EXCEPT !.conv = c]) /\ UNCHANGED store

\* Update sets any status, and closed_at is left alone.
Patch(w) == \E s \in PatchTo : OnConv(w, "Patch", [conv EXCEPT !.status = s])

\* ApplyTags and the fields of Update that are not kept here.
Tags(w) == OnConv(w, "Tags", conv)

MarkRead(w) ==
    /\ conv.unread # 0 \/ ~conv.read
    /\ OnConv(w, "MarkRead", [conv EXCEPT !.unread = 0, !.read = TRUE])

\* Mutation of MarkUnread: a conversation with unread messages is marked too.
MarkUnreadAlways(w) == OnConv(w, "MarkUnread", [conv EXCEPT !.unread = 1])

MarkUnread(w) ==
    /\ conv.unread = 0
    /\ OnConv(w, "MarkUnread", [conv EXCEPT !.unread = 1])

Reopen(w) == IsClosed(conv) /\ OnConv(w, "Reopen", Reopened(conv))

Close(w) ==
    /\ conv.status \notin {"closed", "archived"}
    /\ \E o \in {"Close", "CloseNoting"} :
          (o = "CloseNoting" => Room) /\ OnConv(w, o, Closed(conv))

\* ListInactiveOpen
Inactive == ~IsClosed(conv) /\ conv.lastAt < clock

\* The turn of this conversation in the list.
CloseInactive(w) == Inactive /\ OnConv(w, "CloseInactive", Closed(conv))

SendMessage(w) == Room /\ ~IsClosed(conv) /\ OnConv(w, "Send", conv)

AddInternalNote(w) == Room /\ OnConv(w, "Note", conv)

\* The inbound service appends to the open conversation it found.
Inbound(w) == Room /\ ~IsClosed(conv) /\ OnConv(w, "Inbound", conv)

\* Edit and delete load the conversation first, the message with the next call.
EditMessage(w) ==
    \E i \in DOMAIN msgs :
        Begin(w, "Edit", [NoRun EXCEPT !.conv = conv, !.id = i]) /\ UNCHANGED store

DeleteMessage(w) ==
    \E i \in DOMAIN msgs :
        Begin(w, "Delete", [NoRun EXCEPT !.conv = conv, !.id = i]) /\ UNCHANGED store

Rank == [none |-> 0, pending |-> 1, delivered |-> 3, read |-> 4]

DeliveryAdvances(from, to) ==
    IF to = "failed" THEN from \notin {"read", "failed"}
    ELSE from # "failed" /\ Rank[to] > Rank[from]

\* The integrator reports on messages it was given to deliver.
ApplyDeliveryReceipt(w) ==
    \E i \in DOMAIN msgs, to \in Receipts :
        /\ msgs[i].delivery # "none"
        /\ DeliveryAdvances(msgs[i].delivery, to)
        /\ Begin(w, "Receipt", [NoRun EXCEPT !.id = i,
                                             !.msg = [msgs[i] EXCEPT !.delivery = to]])
        /\ UNCHANGED store

\* RunCheck lists the running trackings and takes the time.
RunCheck(w) ==
    /\ track.status = "running"
    /\ Begin(w, "Check", [NoRun EXCEPT !.track = track])
    /\ UNCHANGED store

\* A worker takes the csat task t for o; one that finds nothing to do is over.
TakeTask(w, t, o, applies, changed) ==
    /\ t.tries <= MaxRetry
    /\ tasks' = tasks \ {t}
    /\ UNCHANGED <<conv, msgs, track, resps>>
    /\ \/ /\ applies
          /\ Begin(w, o, [NoRun EXCEPT !.id = t.id, !.resp = changed, !.tries = t.tries])
       \/ /\ ~applies
          /\ Idle(w) /\ o \in workload.ops
          /\ UNCHANGED <<run, env, history>>

SendSurvey(w) ==
    \E t \in tasks :
        /\ t.kind = "send"
        /\ TakeTask(w, t, "SendSurvey", Sendable(resps[t.id]), Sent(resps[t.id]))

Expire(w) ==
    \E t \in tasks :
        /\ t.kind = "expire"
        /\ TakeTask(w, t, "Expire", Expirable(resps[t.id]), Expired(resps[t.id]))

\* The customer follows the link of a survey message.
SubmitByToken(w) ==
    \E i \in DOMAIN resps :
        /\ \E j \in DOMAIN msgs : msgs[j].by = "system"
        /\ Answerable(resps[i])
        /\ Begin(w, "Submit", [NoRun EXCEPT !.id = i, !.resp = Answered(resps[i])])
        /\ UNCHANGED store

-----------------------------------------------------------------------------
(* The calls.                                                                *)

At(w, call) == ~Idle(w) /\ Head(run[w].todo) = call

\* r after the next call of its plan; after the last one the worker is free.
After(r) == IF Len(r.todo) = 1 THEN NoRun ELSE [r EXCEPT !.todo = Tail(@)]

Advance(w, r) == run' = [run EXCEPT ![w] = After(r)]
Return(w) == run' = [run EXCEPT ![w] = NoRun]

\* w has stored doc: what others hold of it, in the field copy, is out of date.
Stored(w, r, doc, copy) ==
    run' = [v \in Workers |->
              IF v = w THEN After(r)
              ELSE IF run[v][copy] # None THEN [run[v] EXCEPT !.behind = @ \cup {doc}]
              ELSE run[v]]

\* w stores a document, or decides to leave it, from copies of which some are
\* out of date.
Spoil(w, doc, copies) ==
    spoiled' = IF run[w].behind \cap copies # {} THEN spoiled \cup {doc} ELSE spoiled

LoadConv(w) ==
    /\ At(w, "LoadConv")
    /\ Advance(w, [run[w] EXCEPT !.conv = conv, !.behind = @ \ {"conv"}])
    /\ UNCHANGED <<store, env, history>>

NewMessage(o, at) ==
    [by |-> CASE o = "Inbound" -> "customer" [] o = "SendSurvey" -> "system"
              [] OTHER -> "agent",
     delivery |-> IF o \in {"Send", "SendSurvey"} THEN "pending" ELSE "none",
     at |-> at, edited |-> FALSE, deleted |-> FALSE]

\* A message of the service is of now, one of the gateway of when it says.
Instants(o) == IF o = "Inbound" THEN 0..clock ELSE {clock}

\* messages.Create, and the copy of the conversation that will show it.
CreateMsg(w) ==
    \E at \in Instants(run[w].op) :
    LET m == NewMessage(run[w].op, at)
    IN  /\ At(w, "CreateMsg")
        /\ msgs' = Append(msgs, m)
        /\ Stored(w, [run[w] EXCEPT !.msg = m,
                                    !.id = IF run[w].resp = None THEN Len(msgs) + 1 ELSE @,
                                    !.conv.last = Snapshot(Len(msgs) + 1, m),
                                    !.conv.lastAt = at,
                                    !.conv.unread = IF run[w].op = "Inbound" THEN @ + 1 ELSE @],
                  "timeline", "msg")
        /\ UNCHANGED <<conv, track, resps, tasks, env, history>>

\* conversations.Update
StoreConv(w) ==
    /\ At(w, "StoreConv")
    /\ conv' = run[w].conv
    /\ Spoil(w, "conv", {"conv", "msg", "timeline"})
    /\ Stored(w, run[w], "conv", "conv")
    /\ unseen' = CASE run[w].op = "Inbound" -> unseen + 1
                   [] run[w].op = "MarkRead" -> 0
                   [] OTHER -> unseen
    /\ UNCHANGED <<msgs, track, resps, tasks, env, fired, answered>>

\* loadMessage: a deleted message ends the operation, and only an agent's
\* message is edited.
FindMsg(w) ==
    LET m == msgs[run[w].id]
    IN  /\ At(w, "FindMsg")
        /\ \/ /\ m.deleted \/ (run[w].op = "Edit" /\ m.by # "agent")
              /\ Return(w)
           \/ /\ ~m.deleted /\ run[w].op = "Edit" /\ m.by = "agent"
              /\ Advance(w, [run[w] EXCEPT !.msg = [m EXCEPT !.edited = TRUE]])
           \/ /\ ~m.deleted /\ run[w].op = "Delete"
              /\ Advance(w, [run[w] EXCEPT !.msg = [m EXCEPT !.deleted = TRUE]])
        /\ UNCHANGED <<store, env, history>>

\* messages.Update: text, delivery and deletion are stored together.
StoreMsg(w) ==
    /\ At(w, "StoreMsg")
    /\ msgs' = [msgs EXCEPT ![run[w].id] = run[w].msg]
    /\ Spoil(w, "msg", {"msg"})
    /\ run' = [v \in Workers |->
                 IF v = w THEN After(run[w])
                 ELSE IF run[v].msg = None THEN run[v]
                 ELSE [run[v] EXCEPT !.behind = @ \cup
                         {IF run[v].id = run[w].id THEN "msg" ELSE "timeline"}]]
    /\ UNCHANGED <<conv, track, resps, tasks, env, fired, answered, unseen>>

\* Mutation of Refresh: the snapshot of a deleted message is not replaced.
RefreshEditsOnly(w) ==
    /\ At(w, "Refresh")
    /\ Spoil(w, "conv", {"conv"})
    /\ IF run[w].op = "Edit" /\ run[w].conv.last.id = run[w].id
       THEN Advance(w, [run[w] EXCEPT !.conv.last = Snapshot(run[w].id, run[w].msg)])
       ELSE Return(w)
    /\ UNCHANGED <<store, env, fired, answered, unseen>>

\* refreshLastMessageSnapshot: only when the copy of the conversation shows the
\* message; a deleted one gives way to the latest that is left.
Refresh(w) ==
    /\ At(w, "Refresh")
    /\ Spoil(w, "conv", {"conv"})
    /\ \/ /\ run[w].conv.last.id # run[w].id
          /\ Return(w)
       \/ /\ run[w].conv.last.id = run[w].id /\ run[w].op = "Edit"
          /\ Advance(w, [run[w] EXCEPT !.conv.last = Snapshot(run[w].id, run[w].msg)])
       \/ /\ run[w].conv.last.id = run[w].id /\ run[w].op = "Delete"
          /\ IF Latest(msgs) = {}
             THEN Advance(w, [run[w] EXCEPT !.conv.last = NoSnapshot])
             ELSE \E i \in Latest(msgs) :
                     Advance(w, [run[w] EXCEPT !.conv.last = Snapshot(i, msgs[i]),
                                               !.conv.lastAt = msgs[i].at])
    /\ UNCHANGED <<store, env, fired, answered, unseen>>

\* The hooks OnFirstResponse and OnResolved load the tracking; what was
\* recorded before is not recorded again.
FindTrack(w) ==
    LET first == run[w].op = "Send"
        t == IF first THEN FirstResponse(track, run[w].at) ELSE Resolution(track, run[w].at)
    IN  /\ At(w, "FindTrack")
        /\ IF IF first THEN track.responded ELSE track.resolved
           THEN Advance(w, After(run[w]))
           ELSE Advance(w, [run[w] EXCEPT !.track = t])
        /\ UNCHANGED <<store, env, history>>

\* evaluate, up to its store: nothing while the conversation waits for the
\* customer, else an alert for every new warning and breach.
Fire(w) ==
    LET t == run[w].track
        now == run[w].at
        alerts == (NewWarnings(t, now) \X {"warning"}) \cup (NewBreaches(t, now) \X {"breached"})
    IN  /\ At(w, "Fire")
        /\ IF alerts = {} \/ (Pauses /\ run[w].conv.status = "waiting_customer")
           THEN Return(w) /\ UNCHANGED fired
           ELSE /\ Advance(w, [run[w] EXCEPT !.track = Evaluated(t, now)])
                /\ fired' = [a \in Legs \X Kinds |->
                               IF a \in alerts /\ fired[a] < 2 THEN fired[a] + 1 ELSE fired[a]]
        /\ UNCHANGED <<store, env, spoiled, answered, unseen>>

\* tracking.Update
StoreTrack(w) ==
    /\ At(w, "StoreTrack")
    /\ track' = run[w].track
    /\ Spoil(w, "track", {"track"})
    /\ Stored(w, run[w], "track", "track")
    /\ UNCHANGED <<conv, msgs, resps, tasks, env, fired, answered, unseen>>

\* OnConversationClosed: no second response, and none without a survey that
\* matches the sector.
FindResp(w) ==
    /\ At(w, "FindResp")
    /\ \/ resps = <<>> /\ Advance(w, run[w])
       \/ Return(w)
    /\ UNCHANGED <<store, env, history>>

\* Mutation of CreateResp: the id of the new response is not kept.
CreateRespNoId(w) ==
    /\ At(w, "CreateResp")
    /\ IF resps = <<>>
       THEN /\ resps' = <<NewResponse>>
            /\ Advance(w, run[w])
       ELSE Return(w) /\ UNCHANGED resps
    /\ UNCHANGED <<conv, msgs, track, tasks, env, history>>

\* Mutation of CreateResp: no unique index on the conversation id.
CreateRespAnyway(w) ==
    /\ At(w, "CreateResp")
    /\ resps' = Append(resps, NewResponse)
    /\ Advance(w, [run[w] EXCEPT !.id = Len(resps) + 1])
    /\ UNCHANGED <<conv, msgs, track, tasks, env, history>>

\* responses.Create, under the unique index on the conversation id.
CreateResp(w) ==
    /\ At(w, "CreateResp")
    /\ IF resps = <<>>
       THEN /\ resps' = <<NewResponse>>
            /\ Advance(w, [run[w] EXCEPT !.id = 1])
       ELSE Return(w) /\ UNCHANGED resps
    /\ UNCHANGED <<conv, msgs, track, tasks, env, history>>

Enqueue(w, call, kind) ==
    /\ At(w, call)
    /\ tasks' = tasks \cup {[kind |-> kind, id |-> run[w].id, tries |-> 0]}
    /\ Advance(w, run[w])
    /\ UNCHANGED <<conv, msgs, track, resps, env, history>>

\* A csat task that did not end well is run again, until it has used up its
\* retries and is archived; one a shutdown interrupts is put back uncounted.
Retry(w, counts) ==
    \E n \in counts :
        tasks' = tasks \cup
            {t \in [kind : {"send", "expire"}, id : {run[w].id}, tries : {n}] :
               run[w].op = IF t.kind = "send" THEN "SendSurvey" ELSE "Expire"}

\* surveys.FindByID: the survey of the response, unless it is not found.
FindSurvey(w) ==
    /\ At(w, "FindSurvey")
    /\ \/ Advance(w, run[w]) /\ UNCHANGED tasks
       \/ Return(w) /\ Retry(w, {run[w].tries + 1})
    /\ UNCHANGED <<conv, msgs, track, resps, env, history>>

EnqueueSend(w) == Enqueue(w, "EnqueueSend", "send")

\* Mutation of EnqueueExpire: a sent survey is not scheduled to expire.
EnqueueExpireNever(w) ==
    /\ At(w, "EnqueueExpire")
    /\ Return(w)
    /\ UNCHANGED <<store, env, history>>

EnqueueExpire(w) == Enqueue(w, "EnqueueExpire", "expire")

\* responses.Update
StoreResp(w) ==
    /\ At(w, "StoreResp")
    /\ resps' = [resps EXCEPT ![run[w].id] = run[w].resp]
    /\ answered' = IF run[w].op = "Submit" THEN answered \cup {run[w].id} ELSE answered
    /\ Spoil(w, "resp", {"resp"})
    /\ Stored(w, run[w], "resp", "resp")
    /\ UNCHANGED <<conv, msgs, track, tasks, env, fired, unseen>>

-----------------------------------------------------------------------------
Tick ==
    /\ clock < workload.maxClock
    /\ clock' = clock + 1
    /\ UNCHANGED <<store, workload, faults, run, history>>

\* What is damaged when w goes no further or on without its next call: a message
\* the inbox row does not show, an alert without its flag, a survey that was sent
\* without a trace, a task that is not in the queue.
Torn(w) ==
    LET next == Head(run[w].todo)
    IN  {d \in {"conv", "track", "resp", "queue"} :
          CASE d = "conv" -> next \in {"StoreConv", "Refresh"} /\ run[w].msg # None
            [] d = "track" -> next = "StoreTrack" /\ run[w].op = "Check"
            [] d = "resp" -> run[w].op = "SendSurvey" /\ next \in {"StoreConv", "StoreResp"}
            [] d = "queue" -> next \in {"EnqueueSend", "EnqueueExpire"}}

\* A call fails or the process dies: the operation ends.
Fail(w) ==
    /\ ~Idle(w)
    /\ faults < workload.maxFaults
    /\ faults' = faults + 1
    /\ spoiled' = spoiled \cup Torn(w)
    /\ Retry(w, {run[w].tries, run[w].tries + 1})
    /\ Return(w)
    /\ UNCHANGED <<conv, msgs, track, resps, clock, workload, fired, answered, unseen>>

\* A call fails and its error is ignored: the operation goes on without it.
Ignore(w) ==
    /\ ~Idle(w)
    /\ faults < workload.maxFaults
    /\ faults' = faults + 1
    /\ spoiled' = spoiled \cup Torn(w)
    /\ \/ At(w, "FindTrack") /\ Advance(w, After(run[w]))
       \/ \E call \in {"StoreTrack", "FindResp", "EnqueueSend", "EnqueueExpire"} :
             At(w, call) /\ Advance(w, run[w])
    /\ UNCHANGED <<store, clock, workload, fired, answered, unseen>>

Step(w) ==
    \/ Patch(w) \/ Tags(w) \/ MarkRead(w) \/ MarkUnread(w) \/ Reopen(w)
    \/ Close(w) \/ CloseInactive(w)
    \/ SendMessage(w) \/ AddInternalNote(w) \/ Inbound(w)
    \/ EditMessage(w) \/ DeleteMessage(w) \/ ApplyDeliveryReceipt(w)
    \/ RunCheck(w) \/ SendSurvey(w) \/ Expire(w) \/ SubmitByToken(w)
    \/ LoadConv(w) \/ CreateMsg(w) \/ StoreConv(w)
    \/ FindMsg(w) \/ StoreMsg(w) \/ Refresh(w)
    \/ FindTrack(w) \/ Fire(w) \/ StoreTrack(w)
    \/ FindResp(w) \/ CreateResp(w) \/ EnqueueSend(w)
    \/ FindSurvey(w) \/ StoreResp(w) \/ EnqueueExpire(w)
    \/ Fail(w) \/ Ignore(w)

Next == Tick \/ \E w \in Workers : Step(w)

Spec == Init /\ [][Next]_vars

-----------------------------------------------------------------------------
\* Every document a worker has loaded or the service has stored is well
\* formed, and every worker is somewhere in the plan of its operation.
TypeOK ==
    /\ conv \in Row
    /\ \A i \in DOMAIN msgs : msgs[i] \in Messages
    /\ track \in Tracking
    /\ \A i \in DOMAIN resps : resps[i] \in Response
    /\ \A t \in tasks : t.id \in DOMAIN resps /\ t.tries \in 0..(MaxRetry + 1)
    /\ \A w \in Workers :
          LET r == run[w]
          IN  /\ r.op \in Operations \cup {None}
              /\ r.conv \in Row \cup {None}
              /\ r.msg \in Messages \cup {None}
              /\ r.track \in Tracking \cup {None}
              /\ r.resp \in Response \cup {None}
              /\ r.behind \subseteq Docs

\* The inbox row shows a message that is there, with its text: whatever was
\* sent, edited and deleted, when nobody is at it and no store or failure
\* spoiled the row, LastMessage is the snapshot of the latest message that is
\* left, by its timestamp or by its arrival, and none only when none is left.
SnapshotCurrent ==
    Quiet /\ spoiled \cap {"conv", "msg"} = {} =>
        \/ Shown(msgs) = {} /\ conv.last = NoSnapshot
        \/ \E i \in Shown(msgs) :
              /\ conv.last = Snapshot(i, msgs[i])
              /\ i \in Latest(msgs) \/ \A j \in Shown(msgs) : j <= i

\* MarkUnread "must never lower a true count to 1": the badge never shows less
\* than the customer messages that came since the conversation was last read.
UnreadKept == "conv" \notin spoiled => conv.unread >= unseen

\* What the agents were told agrees with the verdict: no alert is fired twice,
\* and a conversation whose breach was announced is not finalised as met.
AlertsAgree ==
    "track" \notin spoiled /\ (\A w \in Workers : run[w].op # "Check") =>
        /\ \A a \in Legs \X Kinds : fired[a] <= 1
        /\ track.status = "met" => \A l \in Legs : fired[<<l, "breached">>] = 0

\* "It never re-sends to the same conversation": however often a conversation
\* is closed, by whom and at the same time, one survey is sent.
OneSurvey ==
    "resp" \notin spoiled =>
        Cardinality({i \in DOMAIN msgs : msgs[i].by = "system"}) <= 1

\* An answer that was accepted stays: neither the task that sent the survey
\* nor its expiry takes the response back.
AnswerKept ==
    "resp" \notin spoiled => \A i \in answered : resps[i].status = "responded"

\* A response that waits never waits for nothing, whatever failed and whoever
\* stored it: there is a task that will send or expire it, or that was archived
\* after its last retry, or somebody is about to enqueue one, unless a task could
\* not be put into the queue, whose error is ignored.
SurveyMovesOn ==
    \A i \in DOMAIN resps :
        resps[i].status = "sent" /\ "queue" \notin spoiled =>
            \/ \E t \in tasks : t.id = i
            \/ \E w \in Workers :
                  /\ run[w].id = i
                  /\ At(w, "EnqueueSend") \/ run[w].op \in {"SendSurvey", "Expire"}
=============================================================================
