------------------------------ MODULE Routing -------------------------------
(***************************************************************************)
(* The routing service, domain/routing/service/routing_service.go: Assign,  *)
(* AutoAssign, Transfer, Enqueue and the batch Run, each executed by a      *)
(* request or job ("worker") under the per-conversation Redis lock.         *)
(*                                                                          *)
(* withLock splits an operation into steps between which every other worker *)
(* may run: load and check access; take the lock; reload; decide (users,    *)
(* loads and presence are read here); store the whole document; release.    *)
(* The loads are counted over ALL conversations while the lock covers one.  *)
(*                                                                          *)
(* The other services store the same documents without the lock: the PATCH, *)
(* close, reopen and read handlers, every message, the actions of the       *)
(* automation rules and the inbound flow load a conversation, change their  *)
(* copy and store it whole.                                                 *)
(*                                                                          *)
(* Failures: a worker may die at any point, leaving its lock behind; a      *)
(* Redis error on Acquire may hide a SET that took effect; a release may be *)
(* lost; a database call may fail.  Redis drops a lock when its TTL (5 s)   *)
(* runs out.  Outlive says whether an operation may still be running then.  *)
(***************************************************************************)
EXTENDS Conversation, Locker, FiniteSets

CONSTANTS Convs,          \* conversation ids
          Workers,        \* requests and jobs that may be in flight at once
          Actors,         \* who may ask for an operation
          AllScope,       \* the actors whose sector scope is "all"
          AgentSectors,   \* sector_ids of a user
          Active,         \* the users that are not disabled
          MaxChats,       \* max_concurrent_chats of a user, 0 is no limit
          Rank,           \* the order of user ids
          Kinds,          \* what each worker may be asked to do
          Patches,        \* the bodies clients send to PATCH
          Keep,           \* a field such a body leaves out
          MaxUnread,      \* bound: the unread counter stops here
          Outlive         \* may an operation outlive lockTTL?

\* The routing operations; the writers that hold no routing lock: those a user
\* calls, who must see the conversation, and the rules, the inbound flow and
\* the senders of messages.
Routes == {"assign", "auto", "transfer", "enqueue"}
Manual == {"patch", "close", "reopen", "read", "unread"}
System == {"assign_agent", "assign_team", "remove_agent", "remove_team",
           "resolve", "open", "mark_pending", "inbound", "route_new", "touch"}

\* UpdateConversation: every field is optional.
Patch == [sector : Sectors \cup {None, Keep},
          queue  : Queues \cup {None, Keep},
          agent  : Agents \cup {None, Keep},
          status : Statuses \cup {Keep}]

ASSUME RoutingAssumption ==
    /\ AgentSectors \in [Agents \cup Actors -> SUBSET Sectors]
    /\ Active \subseteq Agents
    /\ AllScope \subseteq Actors
    /\ MaxChats \in [Agents -> Nat]
    /\ Rank \in [Agents -> Nat]
    /\ Outlive \in BOOLEAN
    /\ Kinds \in [Workers -> SUBSET (Routes \cup {"batch"} \cup Manual \cup System)]
    /\ Patches \subseteq Patch
    /\ MaxUnread \in Nat
    /\ Free \notin Workers

\* A tenant has finitely many conversations, and finitely many requests and
\* jobs run at once.
ASSUME FinitenessAssumption == IsFiniteSet(Convs) /\ IsFiniteSet(Workers)

VARIABLES conv,     \* the conversations collection
          lock,     \* routing:lock:<tenant>:<conversation>
          online,   \* the agents whose presence record says they can receive
          pc,       \* where each worker is
          task,     \* the operation each worker executes
          doc,      \* the copy each worker reloaded inside the lock
          pick,     \* the agent each worker chose
          batch,    \* conversations left to a worker's batch run
          lapsed,   \* workers whose lock expired under them
          undercut, \* history: the workers under whom somebody without the
                    \* lock stored the conversation since they reloaded it
          unchecked \* history: the conversations that came to their agent
                    \* without a look at its limit

vars == <<conv, lock, online, pc, task, doc, pick, batch, lapsed, undercut,
          unchecked>>
ghosts == <<undercut, unchecked>>

Operations ==
    [kind : {"assign"}, conv : Convs, agent : Agents,
     sector : {None}, queue : {None}]
    \cup [kind : {"auto"}, conv : Convs, agent : {None},
          sector : {None}, queue : {None}]
    \cup [kind : {"transfer"}, conv : Convs,
          agent : Agents \cup {None}, sector : Sectors \cup {None},
          queue : {None}]
    \cup [kind : {"enqueue"}, conv : Convs, agent : {None},
          sector : {None}, queue : Queues]
    \cup [kind : {"edit"}, conv : Convs, agent : {None},
          sector : {None}, queue : {None}]

NoTask == [kind |-> "none"]
NoDoc == [status |-> "none"]

NoBatch == [phase |-> "off", left |-> {}, by |-> None]

Init ==
    /\ conv \in [Convs -> {OpenedByInbound}
                            \cup {Created(s, q, a) : s \in Sectors \cup {None},
                                                    q \in Queues \cup {None},
                                                    a \in Agents \cup {None}}]
    /\ lock = [c \in Convs |-> Free]
    /\ online \in SUBSET Agents
    /\ pc = [w \in Workers |-> "idle"]
    /\ task = [w \in Workers |-> NoTask]
    /\ doc = [w \in Workers |-> NoDoc]
    /\ pick = [w \in Workers |-> None]
    /\ batch = [w \in Workers |-> NoBatch]
    /\ lapsed = {}
    /\ undercut = {}
    /\ unchecked = {c \in Convs : conv[c].agent # None}
-----------------------------------------------------------------------------
(* Eligibility.                                                            *)

\* The statuses the load counter counts; "open" and "pending" are not statuses
\* of a conversation.
OpenStatuses == {"open", "assigned", "pending"}

\* A conversation the counter counts for a.
CountsFor(d, a) == d.agent = a /\ d.status \in OpenStatuses

\* CountOpenAssigned, OpenAssignedLoads
Load(a) == Cardinality({c \in Convs : CountsFor(conv[c], a)})

\* Mutation of HasRoom: one conversation too many.
HasRoomOffByOne(a) == MaxChats[a] = 0 \/ Load(a) <= MaxChats[a]

HasRoom(a) == MaxChats[a] = 0 \/ Load(a) < MaxChats[a]

\* eligibleAgents
Eligible(s) == {a \in Active : /\ s \in AgentSectors[a]
                               /\ a \in online
                               /\ HasRoom(a)}

\* sortCandidates puts a first.
IsFirst(a, cands) ==
    \A b \in cands \ {a} : \/ Load(a) < Load(b)
                           \/ Load(a) = Load(b) /\ Rank[a] < Rank[b]

\* evaluateAgent; both callers allow an offline agent.
EvaluateAgent(a, s, allowOffline) ==
    /\ a \in Active
    /\ s \in AgentSectors[a]
    /\ allowOffline \/ a \in online
    /\ HasRoom(a)

\* assertAccess
Access(x, d) == \/ x \in AllScope
                \/ d.agent # None /\ d.agent = x
                \/ d.sector # None /\ d.sector \in AgentSectors[x]
-----------------------------------------------------------------------------
(* withLock, step by step.                                                 *)

\* Back to idle, forgetting the operation.
Finish(w) ==
    /\ pc' = [pc EXCEPT ![w] = "idle"]
    /\ task' = [task EXCEPT ![w] = NoTask]
    /\ doc' = [doc EXCEPT ![w] = NoDoc]
    /\ pick' = [pick EXCEPT ![w] = None]
    /\ lapsed' = lapsed \ {w}

Goto(w, label) == pc' = [pc EXCEPT ![w] = label]

\* On to the deferred release; the copy and the choice are of no more use.
Leave(w) ==
    /\ Goto(w, "release")
    /\ doc' = [doc EXCEPT ![w] = NoDoc]
    /\ pick' = [pick EXCEPT ![w] = None]

\* Load the conversation and check access; a hidden one is not found.
Start(w, x, t) ==
    /\ pc[w] = "idle"
    /\ Access(x, conv[t.conv])
    /\ Goto(w, "acquire")
    /\ task' = [task EXCEPT ![w] = t]
    /\ UNCHANGED <<conv, lock, online, doc, pick, lapsed, ghosts>>

AutoTask(c) == [kind |-> "auto", conv |-> c, agent |-> None,
                sector |-> None, queue |-> None]

Assign(w, c, x, a) ==
    /\ batch[w].phase = "off"
    /\ Start(w, x, [kind |-> "assign", conv |-> c, agent |-> a,
                    sector |-> None, queue |-> None])
    /\ UNCHANGED batch

AutoAssign(w, c, x) ==
    /\ batch[w].phase = "off"
    /\ Start(w, x, AutoTask(c))
    /\ UNCHANGED batch

Transfer(w, c, x, s, a) ==
    /\ batch[w].phase = "off"
    /\ Start(w, x, [kind |-> "transfer", conv |-> c, agent |-> a,
                    sector |-> s, queue |-> None])
    /\ UNCHANGED batch

Enqueue(w, c, x, q) ==
    /\ batch[w].phase = "off"
    /\ Start(w, x, [kind |-> "enqueue", conv |-> c, agent |-> None,
                    sector |-> None, queue |-> q])
    /\ UNCHANGED batch

\* Mutation of Acquire: go on without the lock when another operation has it.
AcquireIgnores(w) ==
    /\ pc[w] = "acquire"
    /\ lock' = IF CanAcquire(lock, task[w].conv)
               THEN Acquired(lock, task[w].conv, w) ELSE lock
    /\ Goto(w, "reload")
    /\ UNCHANGED <<conv, online, task, doc, pick, batch, lapsed, ghosts>>

\* Mutation of Acquire: wait until the key is free.
AcquireWaits(w) ==
    /\ pc[w] = "acquire"
    /\ CanAcquire(lock, task[w].conv)
    /\ lock' = Acquired(lock, task[w].conv, w)
    /\ Goto(w, "reload")
    /\ UNCHANGED <<conv, online, task, doc, pick, batch, lapsed, ghosts>>

\* SET NX: another holder is a conflict, reported at once.
Acquire(w) ==
    /\ pc[w] = "acquire"
    /\ IF CanAcquire(lock, task[w].conv)
       THEN /\ lock' = Acquired(lock, task[w].conv, w)
            /\ Goto(w, "reload")
            /\ UNCHANGED <<task, doc, pick, lapsed>>
       ELSE Finish(w) /\ UNCHANGED lock
    /\ UNCHANGED <<conv, online, batch, ghosts>>

\* Redis answered with an error: the operation gives up, though the SET may
\* have taken effect.
AcquireError(w) ==
    /\ pc[w] = "acquire"
    /\ lock' \in {lock} \cup (IF CanAcquire(lock, task[w].conv)
                              THEN {Acquired(lock, task[w].conv, w)}
                              ELSE {})
    /\ Finish(w)
    /\ UNCHANGED <<conv, online, batch, ghosts>>

\* Inside the lock the document is read again.
Reload(w) ==
    /\ pc[w] = "reload"
    /\ doc' = [doc EXCEPT ![w] = conv[task[w].conv]]
    /\ Goto(w, "decide")
    /\ UNCHANGED <<conv, lock, online, task, pick, batch, lapsed, ghosts>>

TransferSector(w) ==
    IF task[w].sector # None THEN task[w].sector ELSE doc[w].sector

\* What each operation checks on its copy and reads from the other
\* collections; a is the agent it settles on, None when it needs none.
Accepts(w, a) ==
    /\ ~IsClosed(doc[w])
    /\ CASE task[w].kind = "assign" ->
              /\ doc[w].sector # None
              /\ a = task[w].agent
              /\ EvaluateAgent(a, doc[w].sector, TRUE)
         [] task[w].kind = "auto" ->
              /\ doc[w].agent = None
              /\ doc[w].sector # None
              /\ a \in Eligible(doc[w].sector)
              /\ IsFirst(a, Eligible(doc[w].sector))
         [] task[w].kind = "transfer" ->
              /\ a = task[w].agent
              /\ a # None => /\ TransferSector(w) # None
                             /\ EvaluateAgent(a, TransferSector(w), TRUE)
         [] task[w].kind = "enqueue" -> a = None

\* Mutation of Decide: nobody is chosen, and the copy is dropped, on acceptance.
DecideForgets(w) ==
    /\ pc[w] = "decide"
    /\ \E a \in Agents \cup {None} : Accepts(w, a)
    /\ Goto(w, "write")
    /\ doc' = [doc EXCEPT ![w] = NoDoc]
    /\ UNCHANGED <<conv, lock, online, task, pick, batch, lapsed, ghosts>>

\* Settle on an agent or give up.
Decide(w) ==
    /\ pc[w] = "decide"
    /\ \/ \E a \in Agents \cup {None} : /\ Accepts(w, a)
                                        /\ pick' = [pick EXCEPT ![w] = a]
                                        /\ Goto(w, "write")
                                        /\ UNCHANGED <<doc, undercut>>
       \/ /\ \A a \in Agents \cup {None} : ~Accepts(w, a)
          /\ Leave(w)
          /\ undercut' = undercut \ {w}
    /\ UNCHANGED <<conv, lock, online, task, batch, lapsed, unchecked>>

\* The document the operation stores.
Routed(w) ==
    CASE task[w].kind \in {"assign", "auto"} -> Assigned(doc[w], pick[w])
      [] task[w].kind = "transfer" ->
            Transferred(doc[w], task[w].sector, pick[w])
      [] task[w].kind = "enqueue" -> Enqueued(doc[w], task[w].queue)

\* The workers other than w that have a copy of c to decide on or to write.
Holding(w, c) == {v \in Workers \ {w} : /\ pc[v] \in {"decide", "write"}
                                        /\ task[v].conv = c}

\* conversations.Update: the whole document, whatever is stored there now.
Write(w) ==
    /\ pc[w] = "write"
    /\ conv' = [conv EXCEPT ![task[w].conv] = Routed(w)]
    /\ Leave(w)
    /\ undercut' = (undercut \ {w})
                      \cup (IF w \in lapsed THEN Holding(w, task[w].conv) ELSE {})
    /\ unchecked' = unchecked \ {task[w].conv}
    /\ UNCHANGED <<lock, online, task, batch, lapsed>>

\* A lookup or the update fails, or a referenced sector or queue is missing:
\* the operation returns the error and the deferred release runs.
Fail(w) ==
    /\ pc[w] \in {"reload", "decide", "write"}
    /\ Leave(w)
    /\ undercut' = undercut \ {w}
    /\ UNCHANGED <<conv, lock, online, task, batch, lapsed, unchecked>>

Release(w) ==
    /\ pc[w] = "release"
    /\ lock' \in {Released(lock, task[w].conv, w), lock}
    /\ Finish(w)
    /\ UNCHANGED <<conv, online, batch, ghosts>>

\* The process dies, in an operation or between two of its batch: nothing is
\* released, the rest of the batch is forgotten.  A batch whose listing fails
\* and an edit whose load or update fails end the same way.
Crash(w) ==
    /\ pc[w] # "idle" \/ batch[w].phase # "off"
    /\ Finish(w)
    /\ batch' = [batch EXCEPT ![w] = NoBatch]
    /\ undercut' = undercut \ {w}
    /\ UNCHANGED <<conv, lock, online, unchecked>>

Section == {"reload", "decide", "write", "release"}

InSection(w, c) == pc[w] \in Section /\ task[w].conv = c

\* The TTL of c's lock runs out.  Unless operations may outlive it, the one
\* that took the lock is gone by then.
Expire(c) ==
    /\ lock[c] # Free
    /\ Outlive \/ ~InSection(lock[c], c)
    /\ lock' = Expired(lock, c)
    /\ lapsed' = IF InSection(lock[c], c) THEN lapsed \cup {lock[c]} ELSE lapsed
    /\ UNCHANGED <<conv, online, pc, task, doc, pick, batch, ghosts>>
-----------------------------------------------------------------------------
(* The batch run: first the queued conversations, then the new ones, those *)
(* the actor sees and that have a sector and no assignee when listed.      *)

Listed(x, st) == {c \in Convs : /\ conv[c].status = st
                                /\ Access(x, conv[c])
                                /\ conv[c].sector # None
                                /\ conv[c].agent = None}

BatchList(w, x, from, to) ==
    /\ pc[w] = "idle"
    /\ batch[w].phase = from
    /\ batch[w].left = {}
    /\ batch' = [batch EXCEPT ![w] =
                    [phase |-> to, left |-> Listed(x, to), by |-> x]]
    /\ UNCHANGED <<conv, lock, online, pc, task, doc, pick, lapsed, ghosts>>

\* Run without a conversation id.
RunBatch(w, x) == BatchList(w, x, "off", "queued")

BatchTurn(w) == BatchList(w, batch[w].by, "queued", "new")

\* Mutation of BatchNext: the conversation stays on the list.
BatchNextAgain(w) ==
    /\ pc[w] = "idle"
    /\ \E c \in batch[w].left : Start(w, batch[w].by, AutoTask(c))
    /\ UNCHANGED batch

\* AutoAssign the next one; one that is no longer visible is skipped.
BatchNext(w) ==
    /\ pc[w] = "idle"
    /\ \E c \in batch[w].left :
          /\ batch' = [batch EXCEPT ![w].left = @ \ {c}]
          /\ IF Access(batch[w].by, conv[c])
             THEN Start(w, batch[w].by, AutoTask(c))
             ELSE UNCHANGED <<conv, lock, online, pc, task, doc, pick, lapsed,
                              ghosts>>

BatchDone(w) ==
    /\ pc[w] = "idle"
    /\ batch[w].phase = "new"
    /\ batch[w].left = {}
    /\ batch' = [batch EXCEPT ![w] = NoBatch]
    /\ UNCHANGED <<conv, lock, online, pc, task, doc, pick, lapsed, ghosts>>
-----------------------------------------------------------------------------
(* The writers without the lock.                                           *)

\* PATCH sets the fields it is given, and nothing relates one to another.
Update(d, p) ==
    LET Set(old, new) == IF new = Keep THEN old ELSE new
    IN  [d EXCEPT !.sector = Set(@, p.sector), !.queue = Set(@, p.queue),
                  !.agent = Set(@, p.agent), !.status = Set(@, p.status)]

\* AutomationOpen goes by the sector where Reopen goes by the queue.
AutomationOpened(d) ==
    [d EXCEPT !.status = IF d.agent # None THEN "assigned"
                         ELSE IF d.sector # None THEN "queued" ELSE "new",
              !.closedAt = FALSE]

\* What a writer of kind k may store when d is the copy it loaded; nothing when
\* it refuses, or when there is nothing to do.
Edited(k, d) ==
    CASE k = "patch" -> {Update(d, p) : p \in Patches}
      [] k = "close" -> IF IsClosed(d) THEN {} ELSE {Closed(d)}
      [] k = "reopen" -> IF IsClosed(d) THEN {Reopened(d)} ELSE {}
      [] k = "read" -> {[d EXCEPT !.unread = 0]}
      [] k = "unread" -> IF d.unread = 0 THEN {[d EXCEPT !.unread = 1]} ELSE {}
      [] k = "assign_agent" ->
            {[d EXCEPT !.agent = a, !.status = "assigned"] : a \in Agents}
      [] k = "assign_team" ->
            {[d EXCEPT !.sector = s,
                       !.status = IF d.agent = None THEN "queued" ELSE @] :
                s \in Sectors}
      [] k = "remove_agent" ->
            {[d EXCEPT !.agent = None,
                       !.status = IF d.sector # None THEN "queued" ELSE @]}
      [] k = "remove_team" -> {[d EXCEPT !.sector = None]}
      [] k = "resolve" ->
            IF IsClosed(d) THEN {}
            ELSE {[d EXCEPT !.status = "resolved", !.closedAt = TRUE]}
      [] k = "open" -> IF IsClosed(d) THEN {AutomationOpened(d)} ELSE {}
      [] k = "mark_pending" -> {[d EXCEPT !.status = "queued"]}
      [] k = "inbound" ->
            IF IsClosed(d) THEN {Reopened(d)}
            ELSE IF d.unread < MaxUnread THEN {[d EXCEPT !.unread = @ + 1]}
            ELSE {}
      [] k = "route_new" -> {[d EXCEPT !.status = "queued"]}
      [] k = "touch" -> {d}

EditTask(c) == [kind |-> "edit", conv |-> c, agent |-> None,
                sector |-> None, queue |-> None]

\* The conversation is loaded, without the lock.
LoadCopy(w, c) ==
    /\ pc[w] = "idle"
    /\ batch[w].phase = "off"
    /\ Goto(w, "edit")
    /\ task' = [task EXCEPT ![w] = EditTask(c)]
    /\ doc' = [doc EXCEPT ![w] = conv[c]]
    /\ UNCHANGED <<conv, lock, online, pick, batch, lapsed, ghosts>>

\* The changed copy is stored whole, over whatever routing stored meanwhile.
Store(w) ==
    /\ pc[w] = "edit"
    /\ \E k \in Kinds[w] \cap (Manual \cup System) : \E d \in Edited(k, doc[w]) :
          LET c == task[w].conv
              gains == \E a \in Agents : /\ CountsFor(d, a)
                                         /\ ~CountsFor(conv[c], a)
          IN  /\ k \in Manual => \E x \in Actors : Access(x, doc[w])
              /\ conv' = [conv EXCEPT ![c] = d]
              /\ undercut' = undercut \cup Holding(w, c)
              /\ unchecked' = IF gains THEN unchecked \cup {c} ELSE unchecked
    /\ Finish(w)
    /\ UNCHANGED <<lock, online, batch>>

\* The handler refuses, or finds nothing to do.
Refuse(w) ==
    /\ pc[w] = "edit"
    /\ Finish(w)
    /\ UNCHANGED <<conv, lock, online, batch, ghosts>>
-----------------------------------------------------------------------------
\* Agents connect and disconnect (the presence service).
PresenceChanges(a) ==
    /\ online' = IF a \in online THEN online \ {a} ELSE online \cup {a}
    /\ UNCHANGED <<conv, lock, pc, task, doc, pick, batch, lapsed, ghosts>>

Request(w) ==
    \E x \in Actors :
       \/ \E c \in Convs :
             \/ "assign" \in Kinds[w] /\ \E a \in Agents : Assign(w, c, x, a)
             \/ "auto" \in Kinds[w] /\ AutoAssign(w, c, x)
             \/ /\ "transfer" \in Kinds[w]
                /\ \E s \in Sectors \cup {None}, a \in Agents \cup {None} :
                      Transfer(w, c, x, s, a)
             \/ "enqueue" \in Kinds[w] /\ \E q \in Queues : Enqueue(w, c, x, q)
             \/ Kinds[w] \cap (Manual \cup System) # {} /\ LoadCopy(w, c)
       \/ "batch" \in Kinds[w] /\ RunBatch(w, x)

\* A worker that has started runs on: every call it makes returns.
Step(w) ==
    \/ Acquire(w) \/ Reload(w) \/ Decide(w) \/ Write(w) \/ Release(w)
    \/ BatchNext(w) \/ BatchTurn(w) \/ BatchDone(w)
    \/ Store(w) \/ Refuse(w)

\* What may go wrong, and need not.
Trouble(w) == AcquireError(w) \/ Fail(w) \/ Crash(w)

Next ==
    \/ \E w \in Workers : Request(w) \/ Step(w) \/ Trouble(w)
    \/ \E c \in Convs : Expire(c)
    \/ \E a \in Agents : PresenceChanges(a)

Spec == Init /\ [][Next]_vars

\* Every started operation runs on unless it dies, and Redis drops an expired
\* key.
FairSpec ==
    /\ Spec
    /\ \A w \in Workers : WF_vars(Step(w))
    /\ \A c \in Convs : WF_vars(Expire(c))
-----------------------------------------------------------------------------
(* Properties.                                                             *)

Labels == {"idle", "acquire", "edit"} \cup Section

\* The variables have the types the code gives them; a worker outside the lock
\* has no copy of a document and has chosen nobody.
TypeOK ==
    /\ conv \in [Convs -> Document]
    /\ lock \in [Convs -> Workers \cup {Free}]
    /\ online \subseteq Agents
    /\ pc \in [Workers -> Labels]
    /\ task \in [Workers -> Operations \cup {NoTask}]
    /\ doc \in [Workers -> Document \cup {NoDoc}]
    /\ pick \in [Workers -> Agents \cup {None}]
    /\ batch \in [Workers -> [phase : {"off", "queued", "new"},
                             left : SUBSET Convs,
                             by : Actors \cup {None}]]
    /\ lapsed \subseteq Workers
    /\ undercut \subseteq Workers
    /\ unchecked \subseteq Convs
    /\ \A w \in Workers :
          /\ pc[w] # "idle" => task[w] \in Operations
          /\ pc[w] \in {"decide", "write", "edit"} => doc[w] \in Document
          /\ pc[w] \in {"acquire"} \cup Section => task[w].kind # "edit"

\* An operation keeps the lock it took until it releases it or the TTL runs
\* out: the late release of an operation that outlived its TTL never deletes
\* the lock of the operation that took the key after it (unlockScript).
HolderKeepsLock ==
    \A w \in Workers, c \in Convs :
        InSection(w, c) /\ w \notin lapsed => lock[c] = w

\* Routing decides on the latest document: from the reload to the write the
\* stored conversation is the copy the decision is taken on, so no routing
\* operation overwrites what another one stored (withLock, "Reload inside the
\* lock so decisions use the latest state").  The exceptions are an operation
\* whose lock expired under it, and one under which a writer without the lock
\* (a PATCH, a rule, a close, a message, a late routing operation) stored the
\* conversation in between: what that writer stored is overwritten.
DecisionsFresh ==
    \A w \in Workers \ (lapsed \cup undercut) :
        pc[w] \in {"decide", "write"} => doc[w] = conv[task[w].conv]

\* Double assignment: when an automatic assignment is stored nobody has the
\* conversation, so none is taken away from an agent (AutoAssign, "conversation
\* is already assigned"; withLock, "preventing double assignment").  It is
\* taken away from an agent whom a writer without the lock put there after the
\* reload, or when the operation outlived its lock.
NoDoubleAssignment ==
    \A w \in Workers \ (lapsed \cup undercut) :
        pc[w] = "write" /\ task[w].kind = "auto"
        => conv[task[w].conv].agent = None

\* No agent ever has more conversations than max_concurrent_chats
\* (evaluateAgent, "capacity [is] ALWAYS enforced"), as long as every
\* conversation came to its agent through routing.
CapacityRespected ==
    unchecked = {} =>
        \A a \in Agents : MaxChats[a] # 0 => Load(a) <= MaxChats[a]

\* What the capacity check does guarantee: the lock is per conversation, so
\* operations in flight together may each see the same free place, and the
\* conversations that routing gave an agent exceed its limit by fewer than there
\* are workers.  Those that a creation with an assignee, a PATCH, a rule or a
\* reopening gave it come on top, unchecked and unbounded.
OvershootBounded ==
    \A a \in Agents :
        MaxChats[a] # 0 =>
            Cardinality({c \in Convs \ unchecked : CountsFor(conv[c], a)})
                < MaxChats[a] + Cardinality(Workers)

\* A batch run comes to an end, though the conversations it listed may be
\* locked, taken, changed or gone from the actor's sight when their turn comes,
\* and may be listed again by its second listing (Run).
BatchesEnd == \A w \in Workers : batch[w].phase # "off" ~> batch[w].phase = "off"

\* Every operation that starts comes to an end: a held lock is refused at once
\* and never waited for.
OperationsEnd == \A w \in Workers : pc[w] # "idle" ~> pc[w] = "idle"
=============================================================================
