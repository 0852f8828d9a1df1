------------------------------ MODULE Inbound -------------------------------
(***************************************************************************)
(* The inbound flow, domain/channels/service/inbound_service.go: Handle and *)
(* what it calls.  A gateway posts a message a customer (or a member of a   *)
(* WhatsApp group) sent; Handle takes a lock on the external message id,    *)
(* looks the id up in a ledger, finds or creates the contact and the        *)
(* conversation, stores the message, bumps the conversation and records the *)
(* id last.  Every call to a store is a step of its own: other messages of  *)
(* the same contact hold other locks, and agents edit the conversation      *)
(* without any.                                                             *)
(*                                                                          *)
(* The gateway repeats a message until it is answered 200 and may repeat it *)
(* afterwards.  A call may fail, a process may die (at most MaxFaults times *)
(* in all), a lock expires after inboundLockTTL (10 s).  Outlive says       *)
(* whether Handle may still be running then.                                *)
(***************************************************************************)
EXTENDS Conversation, Locker, FiniteSets

CONSTANTS Workers,        \* inbound requests that may be in flight at once
          Messages,       \* external message ids, of one channel type
          Peers,          \* channel identities: phone numbers and group JIDs
          Groups,         \* the identities that are groups
          Attended,       \* the groups synced with attend = true
          PeerOf,         \* who a message is from
          Conns,          \* channel connections
          ConnsOf,        \* the connections a message arrives through
          UsesProtocol,   \* the connections in protocol mode
          Noticing,       \* the connections with an out-of-hours message
          Editors,        \* agents at work on conversations
          MaxContacts,    \* bound: contacts
          MaxConvs,       \* bound: conversations
          MaxFaults,      \* bound: failed calls and dead processes
          Outlive         \* may Handle outlive inboundLockTTL?

ASSUME InboundAssumption ==
    /\ Groups \subseteq Peers
    /\ Attended \subseteq Groups
    /\ PeerOf \in [Messages -> Peers]
    /\ ConnsOf \in [Messages -> SUBSET Conns]
    /\ UsesProtocol \subseteq Conns
    /\ Noticing \subseteq Conns
    /\ MaxContacts \in Nat
    /\ MaxConvs \in Nat
    /\ MaxFaults \in Nat
    /\ Outlive \in BOOLEAN
    /\ Free \notin Workers

ContactIds == 1..MaxContacts
ConvIds == 1..MaxConvs

VARIABLES contact,   \* contacts: the identity each one carries
          thread,    \* conversations: contact, connection and protocol number
          conv,      \* conversations: the rest of the document
          stored,    \* messages: how often each is stored in a conversation
          notices,   \* out-of-hours notices sent in a conversation
          ledger,    \* inbound_messages: the conversation recorded for an id
          seq,       \* the protocol counter of the tenant and year
          lock,      \* inbound:lock:<tenant>:<channel>:<message>
          acked,     \* the messages answered 200
          pc, task,  \* where each worker is, and on what
          doc,       \* the conversation each worker holds
          edit,      \* the conversation each agent loaded
          faults,    \* failures so far
          torn,      \* messages of which an attempt failed half way
          lapsed     \* workers whose lock expired under them

stores == <<contact, thread, conv, stored, notices, ledger, seq>>
vars == <<stores, lock, acked, pc, task, doc, edit, faults, torn, lapsed>>

Absent == [status |-> "absent"]
NoTask == [msg |-> None]
NoEdit == [conv |-> 0]

Init ==
    /\ contact = [i \in ContactIds |-> None]
    /\ thread = [c \in ConvIds |-> Absent]
    /\ conv = [c \in ConvIds |-> Absent]
    /\ stored = [m \in Messages |-> [c \in ConvIds |-> 0]]
    /\ notices = [c \in ConvIds |-> 0]
    /\ ledger = [m \in Messages |-> 0]
    /\ seq = 0
    /\ lock = [m \in Messages |-> Free]
    /\ acked = {}
    /\ pc = [w \in Workers |-> "idle"]
    /\ task = [w \in Workers |-> NoTask]
    /\ doc = [w \in Workers |-> Absent]
    /\ edit = [e \in Editors |-> NoEdit]
    /\ faults = 0
    /\ torn = {}
    /\ lapsed = {}
-----------------------------------------------------------------------------
(* Steps of a worker.                                                      *)

\* Only worker variables change from here on unless a step says otherwise.
Idle == UNCHANGED <<edit, faults, torn, lapsed, acked, lock>>

Goto(w, label) == pc' = [pc EXCEPT ![w] = label]

IsGroup(w) == PeerOf[task[w].msg] \in Groups

\* The request is valid: it names its message and its sender or group.
Begin(w, m, k) ==
    /\ pc[w] = "idle"
    /\ Goto(w, "acquire")
    /\ task' = [task EXCEPT ![w] =
                   [msg |-> m, conn |-> k, contact |-> 0, conv |-> 0,
                    protocol |-> 0, new |-> FALSE, ok |-> FALSE]]
    /\ Idle /\ UNCHANGED <<stores, doc>>

Finish(w) ==
    /\ Goto(w, "idle")
    /\ task' = [task EXCEPT ![w] = NoTask]
    /\ doc' = [doc EXCEPT ![w] = Absent]
    /\ lapsed' = lapsed \ {w}

\* A message another request is processing is refused.
Acquire(w) ==
    /\ pc[w] = "acquire"
    /\ IF CanAcquire(lock, task[w].msg)
       THEN /\ lock' = Acquired(lock, task[w].msg, w)
            /\ Goto(w, "lookup")
            /\ UNCHANGED <<task, doc, lapsed>>
       ELSE Finish(w) /\ UNCHANGED lock
    /\ UNCHANGED <<stores, acked, edit, faults, torn>>

\* Redis answered with an error, though the SET may have taken effect.
AcquireError(w) ==
    /\ pc[w] = "acquire"
    /\ faults < MaxFaults
    /\ faults' = faults + 1
    /\ CanAcquire(lock, task[w].msg)
    /\ lock' \in {lock, Acquired(lock, task[w].msg, w)}
    /\ Finish(w)
    /\ UNCHANGED <<stores, acked, edit, torn>>

\* Answer 200, after the deferred release.
Succeed(w) ==
    /\ Goto(w, "release")
    /\ task' = [task EXCEPT ![w].ok = TRUE]

\* Mutation of Lookup: record the id before the message is stored.
LookupClaims(w) ==
    /\ pc[w] = "lookup"
    /\ IF ledger[task[w].msg] # 0
       THEN Succeed(w) /\ UNCHANGED ledger
       ELSE /\ Goto(w, "contact") /\ UNCHANGED task
            /\ ledger' = [ledger EXCEPT ![task[w].msg] = 1]
    /\ Idle /\ UNCHANGED <<contact, thread, conv, stored, notices, seq, doc>>

\* Mutation of Lookup: no idempotency check.
LookupSkips(w) ==
    /\ pc[w] = "lookup"
    /\ Goto(w, "contact")
    /\ Idle /\ UNCHANGED <<stores, task, doc>>

\* FindByExternalID: a message processed before is answered again.
Lookup(w) ==
    /\ pc[w] = "lookup"
    /\ IF ledger[task[w].msg] # 0
       THEN Succeed(w)
       ELSE Goto(w, "contact") /\ UNCHANGED task
    /\ Idle /\ UNCHANGED <<stores, doc>>

\* resolveInboundContact: a message of a group that is not attended is dropped
\* with a 200; else the contact with this identity is looked up.
ResolveContact(w) ==
    LET peer == PeerOf[task[w].msg]
    IN  /\ pc[w] = "contact"
        /\ \/ /\ peer \in Groups \ Attended
              /\ Succeed(w)
           \/ /\ peer \notin Groups \ Attended
              /\ \E i \in ContactIds :
                    /\ contact[i] = peer
                    /\ task' = [task EXCEPT ![w].contact = i]
              /\ Goto(w, "open")
           \/ /\ peer \notin Groups \ Attended
              /\ \A i \in ContactIds : contact[i] # peer
              /\ Goto(w, "newcontact")
              /\ UNCHANGED task
        /\ Idle /\ UNCHANGED <<stores, doc>>

\* The first id that is not in use.
Fresh(i, used) == ~used[i] /\ \A j \in 1..(i - 1) : used[j]

\* UpsertFromInbound, UpsertGroupContact: create it; no index keeps another
\* request from creating a second one.
CreateContact(w) ==
    /\ pc[w] = "newcontact"
    /\ \E i \in ContactIds :
          /\ Fresh(i, [j \in ContactIds |-> contact[j] # None])
          /\ contact' = [contact EXCEPT ![i] = PeerOf[task[w].msg]]
          /\ task' = [task EXCEPT ![w].contact = i]
    /\ Goto(w, "open")
    /\ Idle /\ UNCHANGED <<thread, conv, stored, notices, ledger, seq, doc>>

\* A group's conversations are found by contact, others by contact and
\* connection.
Threads(w) == {c \in ConvIds : /\ thread[c] # Absent
                               /\ thread[c].contact = task[w].contact
                               /\ IsGroup(w) \/ thread[c].conn = task[w].conn}

OpenThreads(w) == {c \in Threads(w) : ~IsClosed(conv[c])}

\* Load c; the most recently updated is taken, by an updated_at the gateway's
\* timestamps go into, so any of several may be.
Load(w, c) ==
    /\ task' = [task EXCEPT ![w].conv = c]
    /\ doc' = [doc EXCEPT ![w] = conv[c]]

\* Mutation of FindOpen: go on without a conversation.
FindOpenForgets(w) ==
    /\ pc[w] = "open"
    /\ \/ /\ \E c \in OpenThreads(w) : Load(w, c)
          /\ Goto(w, "store")
       \/ /\ OpenThreads(w) = {}
          /\ Goto(w, IF task[w].conn \in UsesProtocol THEN "create" ELSE "store")
          /\ UNCHANGED <<task, doc>>
    /\ Idle /\ UNCHANGED stores

\* findOrCreateConversation: reuse the open conversation.
FindOpen(w) ==
    /\ pc[w] = "open"
    /\ \/ /\ \E c \in OpenThreads(w) : Load(w, c)
          /\ Goto(w, "store")
       \/ /\ OpenThreads(w) = {}
          /\ Goto(w, IF task[w].conn \in UsesProtocol /\ ~IsGroup(w)
                     THEN "protocol" ELSE "last")
          /\ UNCHANGED <<task, doc>>
    /\ Idle /\ UNCHANGED stores

\* Without an open one, single mode and groups go back to the last one.
FindLast(w) ==
    /\ pc[w] = "last"
    /\ \/ /\ \E c \in Threads(w) : Load(w, c)
          /\ Goto(w, "reopen")
       \/ /\ Threads(w) = {}
          /\ Goto(w, "create")
          /\ UNCHANGED <<task, doc>>
    /\ Idle /\ UNCHANGED stores

Store(w, d) ==
    /\ conv' = [conv EXCEPT ![task[w].conv] = d]
    /\ doc' = [doc EXCEPT ![w] = d]

\* reopen, unless someone reopened it since it was looked for.
Reopen(w) ==
    /\ pc[w] = "reopen"
    /\ IF IsClosed(doc[w])
       THEN Store(w, Reopened(doc[w]))
       ELSE UNCHANGED <<conv, doc>>
    /\ Goto(w, "store")
    /\ Idle /\ UNCHANGED <<contact, thread, stored, notices, ledger, seq, task>>

\* Mutation of NextProtocol: count the protocols in use instead.
NextProtocolCounts(w) ==
    /\ pc[w] = "protocol"
    /\ seq' = Cardinality({c \in ConvIds : /\ thread[c] # Absent
                                          /\ thread[c].protocol # 0}) + 1
    /\ task' = [task EXCEPT ![w].protocol = seq']
    /\ Goto(w, "create")
    /\ Idle /\ UNCHANGED <<contact, thread, conv, stored, notices, ledger, doc>>

\* nextProtocol: NextSequence increments and returns the counter atomically.
NextProtocol(w) ==
    /\ pc[w] = "protocol"
    /\ seq' = seq + 1
    /\ task' = [task EXCEPT ![w].protocol = seq + 1]
    /\ Goto(w, "create")
    /\ Idle /\ UNCHANGED <<contact, thread, conv, stored, notices, ledger, doc>>

CreateConversation(w) ==
    /\ pc[w] = "create"
    /\ \E c \in ConvIds :
          /\ Fresh(c, [j \in ConvIds |-> conv[j] # Absent])
          /\ thread' = [thread EXCEPT ![c] =
                           [contact |-> task[w].contact, conn |-> task[w].conn,
                            protocol |-> task[w].protocol]]
          /\ conv' = [conv EXCEPT ![c] = Opened(None, None)]
          /\ doc' = [doc EXCEPT ![w] = Opened(None, None)]
          /\ task' = [task EXCEPT ![w].conv = c, ![w].new = TRUE]
    /\ Goto(w, "route")
    /\ Idle /\ UNCHANGED <<contact, stored, notices, ledger, seq>>

RouteNew(w) ==
    /\ pc[w] = "route"
    /\ Store(w, [doc[w] EXCEPT !.status = "queued"])
    /\ Goto(w, "store")
    /\ Idle /\ UNCHANGED <<contact, thread, stored, notices, ledger, seq, task>>

\* appendInboundMessage: messages.Create, then the bumped copy is stored.
StoreMessage(w) ==
    /\ pc[w] = "store"
    /\ stored' = [stored EXCEPT ![task[w].msg][task[w].conv] = @ + 1]
    /\ Goto(w, "bump")
    /\ Idle /\ UNCHANGED <<contact, thread, conv, notices, ledger, seq, task, doc>>

\* Mutation of Bump: the notice is considered for every message.
BumpNotices(w) ==
    /\ pc[w] = "bump"
    /\ Store(w, [doc[w] EXCEPT !.unread = @ + 1])
    /\ Goto(w, "notice")
    /\ Idle /\ UNCHANGED <<contact, thread, stored, notices, ledger, seq, task>>

\* The unread badge goes up by one; only a new conversation may get a notice.
Bump(w) ==
    /\ pc[w] = "bump"
    /\ Store(w, [doc[w] EXCEPT !.unread = @ + 1])
    /\ Goto(w, IF task[w].new THEN "notice" ELSE "record")
    /\ Idle /\ UNCHANGED <<contact, thread, stored, notices, ledger, seq, task>>

\* maybeSendOutOfHours, on a new conversation: no message is configured, the
\* hours are open or the check fails; or SendAutomationMessage loads it anew.
Notice(w) ==
    /\ pc[w] = "notice"
    /\ \/ Goto(w, "record") /\ UNCHANGED doc
       \/ /\ task[w].conn \in Noticing
          /\ doc' = [doc EXCEPT ![w] = conv[task[w].conv]]
          /\ Goto(w, "noticing")
    /\ Idle /\ UNCHANGED <<stores, task>>

\* persistMessage: the message is created and the copy stored; the second may
\* fail, which is ignored.
SendNotice(w) ==
    /\ pc[w] = "noticing"
    /\ notices' = [notices EXCEPT ![task[w].conv] = @ + 1]
    /\ Store(w, doc[w]) \/ UNCHANGED <<conv, doc>>
    /\ Goto(w, "record")
    /\ Idle /\ UNCHANGED <<contact, thread, stored, ledger, seq, task>>

\* inbound.Create: a duplicate key is ignored.
Record(w) ==
    /\ pc[w] = "record"
    /\ ledger' = IF ledger[task[w].msg] = 0
                 THEN [ledger EXCEPT ![task[w].msg] = task[w].conv]
                 ELSE ledger
    /\ Succeed(w)
    /\ Idle /\ UNCHANGED <<contact, thread, conv, stored, notices, seq, doc>>

\* The deferred release, which Redis may lose, and the answer.
Release(w) ==
    /\ pc[w] = "release"
    /\ lock' \in {Released(lock, task[w].msg, w), lock}
    /\ acked' = IF task[w].ok THEN acked \cup {task[w].msg} ELSE acked
    /\ Finish(w)
    /\ UNCHANGED <<stores, edit, faults, torn>>

\* The places where the message is stored and its id not yet recorded.
Half == {"bump", "notice", "noticing", "record"}

\* A call fails (what it did may have taken effect: then it failed just after).
\* The notice's failures are ignored, so they do not end here.
Fail(w) ==
    /\ pc[w] \in {"lookup", "contact", "newcontact", "open", "last", "reopen",
                  "protocol", "create", "route", "store", "bump", "record"}
    /\ faults < MaxFaults
    /\ faults' = faults + 1
    /\ torn' = IF pc[w] \in Half THEN torn \cup {task[w].msg} ELSE torn
    /\ Goto(w, "release")
    /\ UNCHANGED <<stores, lock, acked, task, doc, edit, lapsed>>

\* The process dies; the lock stays behind.
Crash(w) ==
    /\ pc[w] # "idle"
    /\ faults < MaxFaults
    /\ faults' = faults + 1
    /\ torn' = IF pc[w] \in Half THEN torn \cup {task[w].msg} ELSE torn
    /\ Finish(w)
    /\ UNCHANGED <<stores, lock, acked, edit>>

InSection(w, m) == pc[w] \notin {"idle", "acquire"} /\ task[w].msg = m

\* Mutation of Expire: the key has no TTL of its own.
ExpireNever(m) ==
    /\ lock[m] # Free
    /\ InSection(lock[m], m)
    /\ UNCHANGED vars

\* The TTL of a lock runs out.
Expire(m) ==
    /\ lock[m] # Free
    /\ Outlive \/ ~InSection(lock[m], m)
    /\ lock' = Expired(lock, m)
    /\ lapsed' = IF InSection(lock[m], m) THEN lapsed \cup {lock[m]} ELSE lapsed
    /\ UNCHANGED <<stores, acked, pc, task, doc, edit, faults, torn>>
-----------------------------------------------------------------------------
(* Agents: an operation of the conversation or the routing service loads   *)
(* the document and stores a changed copy.                                 *)

EditLoad(e, c) ==
    /\ edit[e] = NoEdit
    /\ conv[c] # Absent
    /\ ~IsClosed(conv[c])
    /\ edit' = [edit EXCEPT ![e] = [conv |-> c, doc |-> conv[c]]]
    /\ UNCHANGED <<stores, lock, acked, pc, task, doc, faults, torn, lapsed>>

\* Close, or take over.
EditStore(e) ==
    /\ edit[e] # NoEdit
    /\ \E d \in {Closed(edit[e].doc)}
                  \cup {Assigned(edit[e].doc, a) : a \in Agents} :
          conv' = [conv EXCEPT ![edit[e].conv] = d]
    /\ edit' = [edit EXCEPT ![e] = NoEdit]
    /\ UNCHANGED <<contact, thread, stored, notices, ledger, seq, lock, acked,
                   pc, task, doc, faults, torn, lapsed>>
-----------------------------------------------------------------------------
Step(w) ==
    \/ Acquire(w) \/ Lookup(w) \/ ResolveContact(w) \/ CreateContact(w)
    \/ FindOpen(w) \/ FindLast(w) \/ Reopen(w)
    \/ NextProtocol(w) \/ CreateConversation(w) \/ RouteNew(w)
    \/ StoreMessage(w) \/ Bump(w) \/ Notice(w) \/ SendNotice(w) \/ Record(w)
    \/ Release(w)

Trouble(w) == AcquireError(w) \/ Fail(w) \/ Crash(w)

\* The gateway posts a message.
Deliver(m) == \E w \in Workers, k \in ConnsOf[m] : Begin(w, m, k)

Next ==
    \/ \E w \in Workers : Step(w) \/ Trouble(w)
    \/ \E m \in Messages : Deliver(m) \/ Expire(m)
    \/ \E e \in Editors : EditStore(e) \/ \E c \in ConvIds : EditLoad(e, c)

Spec == Init /\ [][Next]_vars

\* A request that is running goes on, Redis drops expired keys, and the gateway
\* repeats a message that was not answered 200 (a free worker now and then is
\* enough: requests are served concurrently).
FairSpec ==
    /\ Spec
    /\ \A w \in Workers : WF_vars(Step(w))
    /\ \A m \in Messages : /\ WF_vars(Expire(m))
                           /\ SF_vars(m \notin acked /\ Deliver(m))
-----------------------------------------------------------------------------
(* Properties.                                                             *)

Thread == [contact : ContactIds, conn : Conns, protocol : Nat]

Labels == {"idle", "acquire", "lookup", "contact", "newcontact", "open", "last",
           "reopen", "protocol", "create", "route", "store", "release"} \cup Half

Tasks == [msg : Messages, conn : Conns, contact : ContactIds \cup {0},
          conv : ConvIds \cup {0}, protocol : Nat, new : BOOLEAN, ok : BOOLEAN]

\* The variables have the types the code gives them, and a worker holds a
\* conversation wherever it writes one.
TypeOK ==
    /\ contact \in [ContactIds -> Peers \cup {None}]
    /\ thread \in [ConvIds -> Thread \cup {Absent}]
    /\ conv \in [ConvIds -> Document \cup {Absent}]
    /\ stored \in [Messages -> [ConvIds -> Nat]]
    /\ notices \in [ConvIds -> Nat]
    /\ ledger \in [Messages -> ConvIds \cup {0}]
    /\ seq \in Nat
    /\ lock \in [Messages -> Workers \cup {Free}]
    /\ acked \subseteq Messages
    /\ pc \in [Workers -> Labels]
    /\ task \in [Workers -> Tasks \cup {NoTask}]
    /\ doc \in [Workers -> Document \cup {Absent}]
    /\ edit \in [Editors -> [conv : ConvIds, doc : Document] \cup {NoEdit}]
    /\ faults \in 0..MaxFaults
    /\ torn \subseteq Messages
    /\ lapsed \subseteq Workers
    /\ \A w \in Workers :
          /\ pc[w] # "idle" => task[w] \in Tasks
          /\ pc[w] \in {"reopen", "route", "store"} \cup Half
             => task[w].conv \in ConvIds /\ doc[w] \in Document

\* A message answered 200 is in a conversation, unless it is of a group that is
\* not attended: the gateway stops repeating it, so it would be lost.
AckedIsStored ==
    \A m \in acked : \/ PeerOf[m] \in Groups \ Attended
                     \/ \E c \in ConvIds : stored[m][c] > 0

\* A message is stored at most once, however often the gateway repeats it and
\* however the repetitions interleave, unless an attempt failed between storing
\* it and recording its id.
StoredOnce ==
    \A m \in Messages \ torn, c, d \in ConvIds :
        stored[m][c] > 0 /\ stored[m][d] > 0 => c = d /\ stored[m][c] = 1

\* The ledger names a conversation the message is stored in.
LedgerPointsToMessage ==
    \A m \in Messages : ledger[m] # 0 => stored[m][ledger[m]] > 0

\* No two conversations carry the same protocol number (NextSequence, "two
\* conversations opening at the same instant never get the same number").
ProtocolsUnique ==
    \A c, d \in ConvIds :
        /\ thread[c] # Absent /\ thread[d] # Absent
        /\ thread[c].protocol = thread[d].protocol
        /\ thread[c].protocol # 0
        => c = d

\* The out-of-hours notice goes out at most once in a conversation, whatever
\* is retried.
OneNotice == \A c \in ConvIds : notices[c] <= 1

\* An identity has one open conversation (per connection, unless it is a
\* group): a group maps to one contact and one conversation.
OneThread ==
    \A c, d \in ConvIds :
        /\ thread[c] # Absent /\ thread[d] # Absent
        /\ contact[thread[c].contact] = contact[thread[d].contact]
        /\ \/ contact[thread[c].contact] \in Groups
           \/ thread[c].conn = thread[d].conn
        /\ ~IsClosed(conv[c]) /\ ~IsClosed(conv[d])
        => c = d

\* In protocol mode a closed conversation is never reopened by a message.
ProtocolNotReopened ==
    [][\A c \in ConvIds :
          /\ thread[c] # Absent /\ IsClosed(conv[c])
          /\ thread[c].protocol # 0
          => IsClosed(conv'[c])]_vars

\* Every message the gateway repeats is answered in the end.
EventuallyAcked == \A m \in Messages : <>(m \in acked)
=============================================================================
