--------------------------- MODULE InboundProofs ----------------------------
(***************************************************************************)
(* Theorems about Inbound for any messages, identities, connections,        *)
(* requests in flight and faults.                                           *)
(***************************************************************************)
EXTENDS Inbound, TLAPS

USE EntityAssumption, InboundAssumption
-----------------------------------------------------------------------------
(* Types.                                                                  *)

\* Where a worker has resolved the contact and looks for its conversation.
Searching == {"open", "last", "protocol", "create"}

\* Where a worker holds a conversation.
Holding == {"reopen", "route", "store"} \cup Half

\* The two halves of a conversation document exist together; a worker that
\* looks for a conversation has a contact; the conversation a worker or an
\* agent holds exists.
Linked ==
    /\ \A c \in ConvIds : conv[c] = Absent <=> thread[c] = Absent
    /\ \A w \in Workers :
          /\ pc[w] \in Searching => task[w].contact \in ContactIds
          /\ pc[w] \in Holding => conv[task[w].conv] # Absent
    /\ \A e \in Editors : edit[e] # NoEdit => conv[edit[e].conv] # Absent

\* A stored document, or a thread, is not the absent one.
LEMMA Present ==
    /\ Absent \notin Document
    /\ Absent \notin Thread
<1>1. Absent \notin Document
  BY DEF Absent, Document, Statuses, ClosedStatuses
<1>2. Absent \notin Thread
  <2> SUFFICES ASSUME Absent \in Thread PROVE FALSE
    OBVIOUS
  <2>1. DOMAIN Absent = {"status"}
    BY DEF Absent
  <2>2. DOMAIN Absent = {"contact", "conn", "protocol"}
    BY DEF Thread
  <2> QED BY <2>1, <2>2
<1> QED BY <1>1, <1>2

\* The part of the types that is about the stores.
StoreTypes ==
    /\ contact \in [ContactIds -> Peers \cup {None}]
    /\ thread \in [ConvIds -> Thread \cup {Absent}]
    /\ conv \in [ConvIds -> Document \cup {Absent}]
    /\ stored \in [Messages -> [ConvIds -> Nat]]
    /\ notices \in [ConvIds -> Nat]
    /\ ledger \in [Messages -> ConvIds \cup {0}]
    /\ seq \in Nat
    /\ \A c \in ConvIds : conv[c] = Absent <=> thread[c] = Absent

\* A worker that goes on to l with the task t and the document d keeps the
\* types, if the stores stay typed, no conversation disappears, and t and d are
\* what is expected at l.
LEMMA WorkerType ==
    ASSUME TypeOK, Linked, NEW w \in Workers,
           pc' \in [Workers -> Labels],
           task' \in [Workers -> Tasks \cup {NoTask}],
           doc' \in [Workers -> Document \cup {Absent}],
           \A v \in Workers \ {w} : /\ pc'[v] = pc[v]
                                    /\ task'[v] = task[v]
                                    /\ doc'[v] = doc[v],
           pc'[w] # "idle" => task'[w] \in Tasks,
           pc'[w] \in Searching => task'[w].contact \in ContactIds,
           pc'[w] \in Holding => /\ task'[w].conv \in ConvIds
                                /\ doc'[w] \in Document
                                /\ conv'[task'[w].conv] # Absent,
           StoreTypes',
           \A c \in ConvIds : conv[c] # Absent => conv'[c] # Absent,
           lock' \in [Messages -> Workers \cup {Free}],
           acked' \subseteq Messages,
           faults' \in 0..MaxFaults,
           torn' \subseteq Messages,
           lapsed' \subseteq Workers,
           UNCHANGED edit
    PROVE  TypeOK' /\ Linked'
<1>2. ASSUME NEW v \in Workers
      PROVE  /\ pc'[v] # "idle" => task'[v] \in Tasks
             /\ pc'[v] \in Searching => task'[v].contact \in ContactIds
             /\ pc'[v] \in Holding => /\ task'[v].conv \in ConvIds
                                      /\ doc'[v] \in Document
                                      /\ conv'[task'[v].conv] # Absent
  BY DEF TypeOK, Linked, Holding
<1>3. ASSUME NEW e \in Editors, edit'[e] # NoEdit
      PROVE  conv'[edit'[e].conv] # Absent
  BY <1>3 DEF TypeOK, Linked
<1>4. TypeOK'
  BY <1>2 DEF TypeOK, StoreTypes, Holding
<1>5. Linked'
  BY <1>2, <1>3 DEF Linked, StoreTypes
<1> QED BY <1>4, <1>5

\* What the types say of a worker.
LEMMA WorkerFacts ==
    ASSUME TypeOK, Linked, NEW w \in Workers
    PROVE  /\ doc[w] \in Document \cup {Absent}
           /\ pc[w] # "idle" => task[w] \in Tasks
           /\ pc[w] \in Searching => task[w].contact \in ContactIds
           /\ pc[w] \in Holding => /\ task[w].conv \in ConvIds
                                   /\ doc[w] \in Document
                                   /\ conv[task[w].conv] # Absent
           /\ StoreTypes
BY DEF TypeOK, Linked, StoreTypes, Holding

\* A change of one field leaves a task a task.
LEMMA TaskTypes ==
    ASSUME NEW t \in Tasks
    PROVE  /\ [t EXCEPT !.ok = TRUE] \in Tasks
           /\ \A i \in ContactIds : [t EXCEPT !.contact = i] \in Tasks
           /\ \A c \in ConvIds : [t EXCEPT !.conv = c] \in Tasks
           /\ \A n \in Nat : [t EXCEPT !.protocol = n] \in Tasks
           /\ \A c \in ConvIds : [t EXCEPT !.conv = c, !.new = TRUE] \in Tasks
           /\ t.msg \in Messages /\ t.conn \in Conns /\ t.protocol \in Nat
           /\ t.new \in BOOLEAN /\ t.ok \in BOOLEAN
BY DEF Tasks

\* WorkerType for a step that leaves the lock and the bookkeeping alone.
LEMMA InnerType ==
    ASSUME TypeOK, Linked, NEW w \in Workers, Idle,
           NEW l \in Labels, NEW t \in Tasks, NEW d \in Document \cup {Absent},
           Goto(w, l),
           task' = [task EXCEPT ![w] = t],
           doc' = [doc EXCEPT ![w] = d],
           l \in Searching => t.contact \in ContactIds,
           l \in Holding => /\ t.conv \in ConvIds
                            /\ d \in Document
                            /\ conv'[t.conv] # Absent,
           StoreTypes',
           \A c \in ConvIds : conv[c] # Absent => conv'[c] # Absent
    PROVE  TypeOK' /\ Linked'
<1>1. /\ pc' \in [Workers -> Labels]
      /\ task' \in [Workers -> Tasks \cup {NoTask}]
      /\ doc' \in [Workers -> Document \cup {Absent}]
  BY DEF TypeOK, Goto
<1>2. \A v \in Workers \ {w} : /\ pc'[v] = pc[v]
                               /\ task'[v] = task[v]
                               /\ doc'[v] = doc[v]
  BY DEF TypeOK, Goto
<1>3. pc'[w] = l /\ task'[w] = t /\ doc'[w] = d
  BY DEF TypeOK, Goto
<1> QED BY <1>1, <1>2, <1>3, WorkerType DEF TypeOK, Idle

\* Storing a changed copy of an existing conversation keeps the stores typed.
LEMMA StoreType ==
    ASSUME StoreTypes, NEW w \in Workers, NEW d \in Document,
           task[w].conv \in ConvIds, conv[task[w].conv] # Absent, Store(w, d),
           UNCHANGED <<contact, thread, ledger, seq>>,
           stored' \in [Messages -> [ConvIds -> Nat]],
           notices' \in [ConvIds -> Nat]
    PROVE  /\ StoreTypes'
           /\ \A c \in ConvIds : conv[c] # Absent => conv'[c] # Absent
           /\ doc' = [doc EXCEPT ![w] = d]
BY Present DEF StoreTypes, Store

\* The steps of a worker that read the stores keep the types.
LEMMA ReadType ==
    ASSUME TypeOK, Linked, NEW w \in Workers,
           \/ Lookup(w) \/ ResolveContact(w) \/ FindOpen(w) \/ FindLast(w)
           \/ Notice(w)
    PROVE  TypeOK' /\ Linked'
<1>1. /\ task = [task EXCEPT ![w] = task[w]]
      /\ doc = [doc EXCEPT ![w] = doc[w]]
      /\ pc[w] # "idle" /\ task[w] \in Tasks
      /\ doc[w] \in Document \cup {Absent}
      /\ Idle
  BY WorkerFacts DEF TypeOK, Lookup, ResolveContact, FindOpen, FindLast, Notice
<1>2. /\ StoreTypes' /\ conv' = conv
  BY WorkerFacts DEF StoreTypes, stores, Lookup, ResolveContact, FindOpen,
                     FindLast, Notice
<1>3. ASSUME NEW l \in Labels \ (Searching \cup Holding), Goto(w, l),
             UNCHANGED doc,
             UNCHANGED task \/ task' = [task EXCEPT ![w].ok = TRUE]
      PROVE  TypeOK' /\ Linked'
  <2>1. PICK t \in Tasks : task' = [task EXCEPT ![w] = t]
    <3>1. CASE UNCHANGED task
      BY <1>1, <3>1
    <3>2. CASE task' = [task EXCEPT ![w].ok = TRUE]
      <4>1. [task[w] EXCEPT !.ok = TRUE] \in Tasks
        BY <1>1, TaskTypes
      <4> QED BY <3>2, <4>1
    <3> QED BY <1>3, <3>1, <3>2
  <2> QED BY <1>1, <1>2, <1>3, <2>1, InnerType
<1>4. ASSUME NEW c \in ConvIds, conv[c] \in Document, Load(w, c),
             NEW l \in {"store", "reopen"}, Goto(w, l)
      PROVE  TypeOK' /\ Linked'
  <2>1. PICK t \in Tasks : task' = [task EXCEPT ![w] = t] /\ t.conv = c
    <3>1. [task[w] EXCEPT !.conv = c] \in Tasks
      BY <1>1, TaskTypes
    <3>2. [task[w] EXCEPT !.conv = c].conv = c
      BY <1>1 DEF Tasks
    <3> QED BY <1>4, <3>1, <3>2 DEF Load
  <2>2. doc' = [doc EXCEPT ![w] = conv[c]]
    BY <1>4 DEF Load
  <2> QED
    BY <1>1, <1>2, <1>4, <2>1, <2>2, InnerType, Present
       DEF Labels, Searching, Holding, Half
<1>5. ASSUME NEW c \in Threads(w)
      PROVE  c \in ConvIds /\ conv[c] \in Document
  BY DEF Threads, TypeOK, Linked
<1>6. CASE Lookup(w)
  <2>1. CASE ledger[task[w].msg] # 0
    BY <1>3, <1>6, <2>1 DEF Lookup, Succeed, Labels, Searching, Holding, Half
  <2>2. CASE ledger[task[w].msg] = 0
    BY <1>3, <1>6, <2>2 DEF Lookup, Labels, Searching, Holding, Half
  <2> QED BY <2>1, <2>2
<1>7. CASE ResolveContact(w)
  <2>1. CASE Succeed(w) /\ UNCHANGED doc
    BY <1>3, <2>1 DEF Succeed, Labels, Searching, Holding, Half
  <2>2. CASE Goto(w, "newcontact") /\ UNCHANGED <<task, doc>>
    BY <1>3, <2>2 DEF Labels, Searching, Holding, Half
  <2>3. ASSUME NEW i \in ContactIds, task' = [task EXCEPT ![w].contact = i],
               Goto(w, "open"), UNCHANGED doc
        PROVE  TypeOK' /\ Linked'
    <3>1. PICK t \in Tasks : task' = [task EXCEPT ![w] = t] /\ t.contact = i
      <4>1. [task[w] EXCEPT !.contact = i] \in Tasks
        BY <1>1, TaskTypes
      <4>2. [task[w] EXCEPT !.contact = i].contact = i
        BY <1>1 DEF Tasks
      <4> QED BY <2>3, <4>1, <4>2
    <3> QED
      BY <1>1, <1>2, <2>3, <3>1, InnerType DEF Labels, Searching, Holding, Half
  <2> QED BY <1>7, <2>1, <2>2, <2>3 DEF ResolveContact
<1>8. ASSUME NEW l \in Searching, pc[w] \in Searching, Goto(w, l),
             UNCHANGED <<task, doc>>
      PROVE  TypeOK' /\ Linked'
  BY <1>1, <1>2, <1>8, InnerType, WorkerFacts
     DEF Labels, Searching, Holding, Half
<1>9. CASE FindOpen(w)
  <2>1. ASSUME NEW c \in OpenThreads(w), Load(w, c), Goto(w, "store")
        PROVE  TypeOK' /\ Linked'
    BY <1>4, <1>5, <2>1 DEF OpenThreads
  <2>2. CASE /\ Goto(w, IF task[w].conn \in UsesProtocol /\ ~IsGroup(w)
                        THEN "protocol" ELSE "last")
             /\ UNCHANGED <<task, doc>>
    BY <1>8, <1>9, <2>2 DEF FindOpen, Searching
  <2> QED BY <1>9, <2>1, <2>2 DEF FindOpen
<1>10. CASE FindLast(w)
  <2>1. ASSUME NEW c \in Threads(w), Load(w, c), Goto(w, "reopen")
        PROVE  TypeOK' /\ Linked'
    BY <1>4, <1>5, <2>1
  <2>2. CASE Goto(w, "create") /\ UNCHANGED <<task, doc>>
    BY <1>8, <1>10, <2>2 DEF FindLast, Searching
  <2> QED BY <1>10, <2>1, <2>2 DEF FindLast
<1>11. CASE Notice(w)
  <2>1. /\ task[w].conv \in ConvIds /\ doc[w] \in Document
        /\ conv[task[w].conv] # Absent
        /\ conv[task[w].conv] \in Document
    BY <1>11, WorkerFacts DEF Notice, Holding, Half, TypeOK
  <2>2. PICK l \in {"record", "noticing"}, d \in Document :
           Goto(w, l) /\ doc' = [doc EXCEPT ![w] = d]
    BY <1>1, <1>11, <2>1 DEF Notice
  <2> QED
    BY <1>1, <1>2, <1>11, <2>1, <2>2, InnerType
       DEF Notice, Labels, Searching, Holding, Half
<1> QED BY <1>6, <1>7, <1>9, <1>10, <1>11

\* The steps of a worker that write a store keep the types.
LEMMA WriteType ==
    ASSUME TypeOK, Linked, NEW w \in Workers,
           \/ CreateContact(w) \/ Reopen(w) \/ NextProtocol(w)
           \/ CreateConversation(w) \/ RouteNew(w) \/ StoreMessage(w)
           \/ Bump(w) \/ SendNotice(w) \/ Record(w)
    PROVE  TypeOK' /\ Linked'
<1>1. /\ task = [task EXCEPT ![w] = task[w]]
      /\ doc = [doc EXCEPT ![w] = doc[w]]
      /\ pc[w] # "idle" /\ task[w] \in Tasks
      /\ task[w].msg \in Messages
      /\ doc[w] \in Document \cup {Absent}
      /\ Idle
      /\ StoreTypes
  BY WorkerFacts, TaskTypes
     DEF TypeOK, CreateContact, Reopen, NextProtocol, CreateConversation,
         RouteNew, StoreMessage, Bump, SendNotice, Record
<1>2. ASSUME pc[w] \in Holding
      PROVE  /\ task[w].conv \in ConvIds
             /\ doc[w] \in Document
             /\ conv[task[w].conv] # Absent
  BY <1>2, WorkerFacts
<1>3. CASE CreateContact(w)
  <2>1. PICK i \in ContactIds :
           /\ contact' = [contact EXCEPT ![i] = PeerOf[task[w].msg]]
           /\ task' = [task EXCEPT ![w].contact = i]
    BY <1>3 DEF CreateContact
  <2>2. PICK t \in Tasks : task' = [task EXCEPT ![w] = t] /\ t.contact = i
    <3>1. [task[w] EXCEPT !.contact = i] \in Tasks
      BY <1>1, TaskTypes
    <3>2. [task[w] EXCEPT !.contact = i].contact = i
      BY <1>1 DEF Tasks
    <3> QED BY <2>1, <3>1, <3>2
  <2>3. StoreTypes' /\ conv' = conv
    BY <1>1, <1>3, <2>1 DEF CreateContact, StoreTypes
  <2> QED
    BY <1>1, <1>3, <2>2, <2>3, InnerType
       DEF CreateContact, Labels, Searching, Holding, Half
<1>4. CASE Reopen(w)
  <2>1. pc[w] \in Holding
    BY <1>4 DEF Reopen, Holding
  <2>2. Reopened(doc[w]) \in Document
    BY <1>2, <2>1 DEF Reopened, Document, Statuses
  <2>3. PICK d \in Document :
           /\ doc' = [doc EXCEPT ![w] = d] /\ StoreTypes'
           /\ \A c \in ConvIds : conv[c] # Absent => conv'[c] # Absent
    <3>1. CASE IsClosed(doc[w])
      BY <1>1, <1>2, <1>4, <2>1, <2>2, <3>1, StoreType DEF Reopen, StoreTypes
    <3>2. CASE ~IsClosed(doc[w])
      BY <1>1, <1>2, <1>4, <2>1, <3>2 DEF Reopen, StoreTypes
    <3> QED BY <3>1, <3>2
  <2> QED
    BY <1>1, <1>2, <1>4, <2>1, <2>3, InnerType
       DEF Reopen, Labels, Searching, Holding, Half
<1>5. CASE NextProtocol(w)
  <2>1. seq \in Nat /\ seq + 1 \in Nat
    BY <1>1 DEF StoreTypes
  <2>2. PICK t \in Tasks :
           task' = [task EXCEPT ![w] = t] /\ t.contact = task[w].contact
    <3>1. [task[w] EXCEPT !.protocol = seq + 1] \in Tasks
      BY <1>1, <2>1, TaskTypes
    <3>2. [task[w] EXCEPT !.protocol = seq + 1].contact = task[w].contact
      BY <1>1 DEF Tasks
    <3> QED BY <1>5, <3>1, <3>2 DEF NextProtocol
  <2>3. StoreTypes' /\ conv' = conv
    BY <1>1, <1>5, <2>1 DEF NextProtocol, StoreTypes
  <2>4. task[w].contact \in ContactIds
    BY <1>5, WorkerFacts DEF NextProtocol, Searching
  <2>5. Goto(w, "create") /\ doc' = doc
    BY <1>5 DEF NextProtocol
  <2> QED
    BY <1>1, <2>2, <2>3, <2>4, <2>5, InnerType
       DEF Labels, Searching, Holding, Half
<1>6. CASE CreateConversation(w)
  <2>1. PICK c \in ConvIds :
          /\ thread' = [thread EXCEPT ![c] =
                           [contact |-> task[w].contact, conn |-> task[w].conn,
                            protocol |-> task[w].protocol]]
          /\ conv' = [conv EXCEPT ![c] = Opened(None, None)]
          /\ doc' = [doc EXCEPT ![w] = Opened(None, None)]
          /\ task' = [task EXCEPT ![w].conv = c, ![w].new = TRUE]
    BY <1>6 DEF CreateConversation
  <2>2. PICK t \in Tasks : task' = [task EXCEPT ![w] = t] /\ t.conv = c
    <3>1. [task[w] EXCEPT !.conv = c, !.new = TRUE] \in Tasks
      BY <1>1, TaskTypes
    <3>2. [task[w] EXCEPT !.conv = c, !.new = TRUE].conv = c
      BY <1>1 DEF Tasks
    <3>3. task' = [task EXCEPT ![w] = [task[w] EXCEPT !.conv = c, !.new = TRUE]]
      BY <1>1, <2>1 DEF TypeOK
    <3> QED BY <3>1, <3>2, <3>3
  <2>3. Opened(None, None) \in Document
    BY DEF Opened, Document, Statuses
  <2>4. [contact |-> task[w].contact, conn |-> task[w].conn,
         protocol |-> task[w].protocol] \in Thread
    <3>1. task[w].contact \in ContactIds
      BY <1>6, WorkerFacts DEF CreateConversation, Searching
    <3> QED BY <1>1, <3>1, TaskTypes DEF Thread
  <2>5. /\ StoreTypes' /\ conv'[c] # Absent
        /\ \A k \in ConvIds : conv[k] # Absent => conv'[k] # Absent
    BY <1>1, <1>6, <2>1, <2>3, <2>4, Present DEF CreateConversation, StoreTypes
  <2> QED
    BY <1>1, <1>6, <2>1, <2>2, <2>3, <2>5, InnerType
       DEF CreateConversation, Labels, Searching, Holding, Half
<1>7. CASE RouteNew(w)
  <2>1. pc[w] \in Holding
    BY <1>7 DEF RouteNew, Holding
  <2>2. [doc[w] EXCEPT !.status = "queued"] \in Document
    BY <1>2, <2>1 DEF Document, Statuses
  <2>3. PICK d \in Document :
           /\ doc' = [doc EXCEPT ![w] = d] /\ StoreTypes'
           /\ \A c \in ConvIds : conv[c] # Absent => conv'[c] # Absent
    BY <1>1, <1>2, <1>7, <2>1, <2>2, StoreType DEF RouteNew, StoreTypes
  <2> QED
    BY <1>1, <1>2, <1>7, <2>1, <2>3, InnerType
       DEF RouteNew, Labels, Searching, Holding, Half
<1>8. CASE StoreMessage(w)
  <2>1. pc[w] \in Holding
    BY <1>8 DEF StoreMessage, Holding
  <2>2. stored' \in [Messages -> [ConvIds -> Nat]]
    BY <1>1, <1>2, <1>8, <2>1 DEF StoreMessage, StoreTypes
  <2>3. StoreTypes' /\ conv' = conv
    BY <1>1, <1>8, <2>2 DEF StoreMessage, StoreTypes
  <2> QED
    BY <1>1, <1>2, <1>8, <2>1, <2>3, InnerType
       DEF StoreMessage, Labels, Searching, Holding, Half
<1>9. CASE Bump(w)
  <2>1. pc[w] \in Holding
    BY <1>9 DEF Bump, Holding, Half
  <2>2. [doc[w] EXCEPT !.unread = @ + 1] \in Document
    BY <1>2, <2>1 DEF Document
  <2>3. PICK d \in Document :
           /\ doc' = [doc EXCEPT ![w] = d] /\ StoreTypes'
           /\ \A c \in ConvIds : conv[c] # Absent => conv'[c] # Absent
    BY <1>1, <1>2, <1>9, <2>1, <2>2, StoreType DEF Bump, StoreTypes
  <2>4. PICK l \in {"notice", "record"} : Goto(w, l)
    BY <1>9 DEF Bump
  <2> QED
    BY <1>1, <1>2, <1>9, <2>1, <2>3, <2>4, InnerType
       DEF Bump, Labels, Searching, Holding, Half
<1>10. CASE SendNotice(w)
  <2>1. pc[w] \in Holding
    BY <1>10 DEF SendNotice, Holding, Half
  <2>2. notices' \in [ConvIds -> Nat]
    BY <1>1, <1>2, <1>10, <2>1 DEF SendNotice, StoreTypes
  <2>3. /\ doc' = [doc EXCEPT ![w] = doc[w]] /\ StoreTypes'
        /\ \A c \in ConvIds : conv[c] # Absent => conv'[c] # Absent
    <3>1. CASE Store(w, doc[w])
      BY <1>1, <1>2, <1>10, <2>1, <2>2, <3>1, StoreType
         DEF SendNotice, StoreTypes
    <3>2. CASE UNCHANGED <<conv, doc>>
      BY <1>1, <1>10, <2>2, <3>2 DEF SendNotice, StoreTypes
    <3> QED BY <1>10, <3>1, <3>2 DEF SendNotice
  <2> QED
    BY <1>1, <1>2, <1>10, <2>1, <2>3, InnerType
       DEF SendNotice, Labels, Searching, Holding, Half
<1>11. CASE Record(w)
  <2>1. pc[w] \in Holding
    BY <1>11 DEF Record, Holding, Half
  <2>2. ledger' \in [Messages -> ConvIds \cup {0}]
    BY <1>1, <1>2, <1>11, <2>1 DEF Record, StoreTypes
  <2>3. StoreTypes' /\ conv' = conv
    BY <1>1, <1>11, <2>2 DEF Record, StoreTypes
  <2>4. [task[w] EXCEPT !.ok = TRUE] \in Tasks
    BY <1>1, TaskTypes
  <2>5. /\ task' = [task EXCEPT ![w] = [task[w] EXCEPT !.ok = TRUE]]
        /\ Goto(w, "release")
    BY <1>11 DEF Record, Succeed
  <2> QED
    BY <1>1, <1>11, <2>3, <2>4, <2>5, InnerType
       DEF Record, Labels, Searching, Holding, Half
<1> QED BY <1>3, <1>4, <1>5, <1>6, <1>7, <1>8, <1>9, <1>10, <1>11

\* A worker that is done, or dead, leaves its variables well typed.
LEMMA FinishType ==
    ASSUME TypeOK, Linked, NEW w \in Workers, Finish(w),
           UNCHANGED <<stores, edit>>,
           lock' \in [Messages -> Workers \cup {Free}],
           acked' \subseteq Messages,
           faults' \in 0..MaxFaults,
           torn' \subseteq Messages
    PROVE  TypeOK' /\ Linked'
<1>1. StoreTypes' /\ conv' = conv
  BY WorkerFacts DEF stores, StoreTypes
<1>2. /\ pc' \in [Workers -> Labels]
      /\ task' \in [Workers -> Tasks \cup {NoTask}]
      /\ doc' \in [Workers -> Document \cup {Absent}]
      /\ lapsed' \subseteq Workers
      /\ pc'[w] = "idle"
      /\ \A v \in Workers \ {w} : /\ pc'[v] = pc[v]
                                  /\ task'[v] = task[v]
                                  /\ doc'[v] = doc[v]
  BY DEF TypeOK, Finish, Goto, Labels
<1> QED BY <1>1, <1>2, WorkerType DEF Searching, Holding, Half

\* The steps on the lock, and the failures, keep the types.
LEMMA SectionType ==
    ASSUME TypeOK, Linked, NEW w \in Workers,
           \/ Acquire(w) \/ AcquireError(w) \/ Release(w) \/ Fail(w) \/ Crash(w)
    PROVE  TypeOK' /\ Linked'
<1>1. /\ task[w] \in Tasks /\ task[w].msg \in Messages
      /\ lock \in [Messages -> Workers \cup {Free}]
      /\ acked \subseteq Messages /\ torn \subseteq Messages
      /\ faults \in 0..MaxFaults
  BY WorkerFacts, TaskTypes DEF TypeOK, Acquire, AcquireError, Release, Fail, Crash
<1>2. /\ Acquired(lock, task[w].msg, w) \in [Messages -> Workers \cup {Free}]
      /\ Released(lock, task[w].msg, w) \in [Messages -> Workers \cup {Free}]
  BY <1>1 DEF Acquired, Released
<1>3. faults < MaxFaults => faults + 1 \in 0..MaxFaults
  BY <1>1
<1>4. ASSUME NEW l \in {"lookup", "release"}, Goto(w, l),
             UNCHANGED <<stores, acked, task, doc, edit, lapsed>>,
             lock' \in [Messages -> Workers \cup {Free}],
             faults' \in 0..MaxFaults, torn' \subseteq Messages
      PROVE  TypeOK' /\ Linked'
  <2>1. StoreTypes' /\ conv' = conv
    BY <1>4, WorkerFacts DEF stores, StoreTypes
  <2>2. pc' \in [Workers -> Labels] /\ pc'[w] = l
    BY <1>4 DEF TypeOK, Goto, Labels
  <2>3. \A v \in Workers \ {w} : pc'[v] = pc[v]
    BY <1>4 DEF TypeOK, Goto
  <2> QED
    BY <1>1, <1>4, <2>1, <2>2, <2>3, WorkerType
       DEF TypeOK, Searching, Holding, Half
<1>5. CASE Acquire(w)
  <2>1. CASE CanAcquire(lock, task[w].msg)
    BY <1>1, <1>2, <1>4, <1>5, <2>1 DEF Acquire
  <2>2. CASE ~CanAcquire(lock, task[w].msg)
    BY <1>1, <1>5, <2>2, FinishType DEF Acquire
  <2> QED BY <2>1, <2>2
<1>6. CASE AcquireError(w)
  BY <1>1, <1>2, <1>3, <1>6, FinishType DEF AcquireError
<1>7. CASE Release(w)
  BY <1>1, <1>2, <1>7, FinishType DEF Release
<1>8. CASE Fail(w)
  <2>1. torn' \subseteq Messages /\ faults' \in 0..MaxFaults
    BY <1>1, <1>3, <1>8 DEF Fail
  <2> QED BY <1>1, <1>4, <1>8, <2>1 DEF Fail
<1>9. CASE Crash(w)
  <2>1. torn' \subseteq Messages /\ faults' \in 0..MaxFaults
    BY <1>1, <1>3, <1>9 DEF Crash
  <2> QED BY <1>1, <1>9, <2>1, FinishType DEF Crash
<1> QED BY <1>5, <1>6, <1>7, <1>8, <1>9

\* A request that starts keeps the types.
LEMMA BeginType ==
    ASSUME TypeOK, Linked, NEW w \in Workers, NEW m \in Messages,
           NEW k \in ConnsOf[m], Begin(w, m, k)
    PROVE  TypeOK' /\ Linked'
<1>1. k \in Conns
  OBVIOUS
<1>2. PICK t \in Tasks : task' = [task EXCEPT ![w] = t]
  BY <1>1 DEF Begin, Tasks
<1>3. StoreTypes' /\ conv' = conv /\ doc' = [doc EXCEPT ![w] = doc[w]]
  BY WorkerFacts DEF Begin, stores, StoreTypes, TypeOK
<1>4. doc[w] \in Document \cup {Absent} /\ Goto(w, "acquire") /\ Idle
  BY WorkerFacts DEF Begin
<1> QED
  BY <1>2, <1>3, <1>4, InnerType DEF Labels, Searching, Holding, Half

\* Agents' edits keep the types.
LEMMA EditType ==
    ASSUME TypeOK, Linked, NEW e \in Editors,
           EditStore(e) \/ \E c \in ConvIds : EditLoad(e, c)
    PROVE  TypeOK' /\ Linked'
<1>1. CASE EditStore(e)
  <2>1. /\ edit[e].conv \in ConvIds /\ edit[e].doc \in Document
        /\ conv[edit[e].conv] # Absent
    BY <1>1 DEF TypeOK, Linked, EditStore
  <2>2. PICK d \in Document : conv' = [conv EXCEPT ![edit[e].conv] = d]
    <3>1. Closed(edit[e].doc) \in Document
      BY <2>1 DEF Closed, Document, Statuses, ClosedStatuses
    <3>2. \A a \in Agents : Assigned(edit[e].doc, a) \in Document
      BY <2>1 DEF Assigned, Document, Statuses
    <3> QED BY <1>1, <3>1, <3>2 DEF EditStore
  <2>3. /\ conv' \in [ConvIds -> Document \cup {Absent}]
        /\ \A c \in ConvIds : conv'[c] = Absent <=> conv[c] = Absent
    BY <2>1, <2>2, Present DEF TypeOK
  <2>4. /\ edit' \in [Editors -> [conv : ConvIds, doc : Document] \cup {NoEdit}]
        /\ \A f \in Editors : edit'[f] # NoEdit => edit'[f] = edit[f]
    BY <1>1 DEF EditStore, TypeOK
  <2>5. \A f \in Editors : edit[f] # NoEdit => edit[f].conv \in ConvIds
    BY DEF TypeOK
  <2>6. \A w \in Workers : pc[w] \in Holding => task[w].conv \in ConvIds
    BY WorkerFacts
  <2>7. UNCHANGED <<contact, thread, stored, notices, ledger, seq, lock, acked,
                    pc, task, doc, faults, torn, lapsed>>
    BY <1>1 DEF EditStore
  <2>8. TypeOK'
    BY <2>3, <2>4, <2>7 DEF TypeOK
  <2>9. Linked'
    BY <2>3, <2>4, <2>5, <2>6, <2>7 DEF Linked
  <2> QED BY <2>8, <2>9
<1>2. ASSUME NEW c \in ConvIds, EditLoad(e, c) PROVE TypeOK' /\ Linked'
  <2>1. conv[c] \in Document /\ conv[c] # Absent
    BY <1>2 DEF EditLoad, TypeOK
  <2>2. edit' = [edit EXCEPT ![e] = [conv |-> c, doc |-> conv[c]]]
    BY <1>2 DEF EditLoad
  <2>3. UNCHANGED <<contact, thread, conv, stored, notices, ledger, seq, lock,
                    acked, pc, task, doc, faults, torn, lapsed>>
    BY <1>2 DEF EditLoad, stores
  <2>4. TypeOK'
    BY <2>1, <2>2, <2>3 DEF TypeOK
  <2>5. Linked'
    BY <2>1, <2>2, <2>3 DEF Linked, TypeOK
  <2> QED BY <2>4, <2>5
<1> QED BY <1>1, <1>2

\* The initial states are well typed: nothing is stored and nobody runs.
LEMMA InitType == Init => TypeOK /\ Linked
BY DEF Init, TypeOK, Linked, Labels, Half, Searching, Holding

\* Every step keeps the types.
LEMMA NextType == TypeOK /\ Linked /\ [Next]_vars => TypeOK' /\ Linked'
<1> SUFFICES ASSUME TypeOK, Linked, [Next]_vars PROVE TypeOK' /\ Linked'
  OBVIOUS
<1>1. ASSUME NEW w \in Workers, Step(w) \/ Trouble(w) PROVE TypeOK' /\ Linked'
  BY <1>1, ReadType, WriteType, SectionType DEF Step, Trouble
<1>2. ASSUME NEW m \in Messages, Deliver(m) PROVE TypeOK' /\ Linked'
  BY <1>2, BeginType DEF Deliver
<1>3. ASSUME NEW m \in Messages, Expire(m) PROVE TypeOK' /\ Linked'
  <2>1. /\ lock' \in [Messages -> Workers \cup {Free}]
        /\ lapsed' \subseteq Workers
    BY <1>3 DEF Expire, Expired, TypeOK
  <2>2. UNCHANGED <<contact, thread, conv, stored, notices, ledger, seq, acked,
                    pc, task, doc, edit, faults, torn>>
    BY <1>3 DEF Expire, stores
  <2> QED BY <2>1, <2>2 DEF TypeOK, Linked
<1>4. ASSUME NEW e \in Editors,
             EditStore(e) \/ \E c \in ConvIds : EditLoad(e, c)
      PROVE  TypeOK' /\ Linked'
  BY <1>4, EditType
<1>5. CASE UNCHANGED vars
  BY <1>5 DEF vars, stores, TypeOK, Linked
<1> QED BY <1>1, <1>2, <1>3, <1>4, <1>5 DEF Next

\* The two halves of every conversation document exist together and every
\* conversation a worker or an agent holds exists, in every reachable state.
LEMMA TypesHold == Spec => [](TypeOK /\ Linked)
BY InitType, NextType, PTL DEF Spec

\* Every reachable state of the inbound flow is well typed, and a worker holds
\* a conversation wherever it stores a message or writes a conversation.
THEOREM TypeCorrect == Spec => []TypeOK
BY TypesHold, PTL

-----------------------------------------------------------------------------
(* No message is lost: what is answered 200 is stored.                     *)

\* A dropped message: of a group that is not attended.
Dropped(m) == PeerOf[m] \in Groups \ Attended

\* A message is in a conversation.
Stored(m) == \E c \in ConvIds : stored[m][c] > 0

\* What is known of a worker: past StoreMessage its message is stored where the
\* worker says; ok is only set on the way to the release, and then the message
\* is stored or dropped.
Accounted(w) ==
    /\ pc[w] \in Half => stored[task[w].msg][task[w].conv] > 0
    /\ pc[w] \notin {"idle", "release"} => ~task[w].ok
    /\ pc[w] = "release" /\ task[w].ok
       => Dropped(task[w].msg) \/ Stored(task[w].msg)

\* The ledger and the answers given are backed by stored messages, and so is
\* what the workers still have to do.
Kept ==
    /\ LedgerPointsToMessage
    /\ AckedIsStored
    /\ \A w \in Workers : Accounted(w)

\* A step of a worker leaves the others' place and task alone.
LEMMA OthersStay ==
    ASSUME TypeOK, NEW w \in Workers,
           \/ Step(w) \/ Trouble(w)
           \/ \E m \in Messages : \E k \in ConnsOf[m] : Begin(w, m, k)
    PROVE  \A v \in Workers \ {w} : pc'[v] = pc[v] /\ task'[v] = task[v]
<1>1. /\ pc \in [Workers -> Labels]
      /\ task \in [Workers -> Tasks \cup {NoTask}]
  BY DEF TypeOK
<1>2. ASSUME NEW v \in Workers \ {w}, Finish(w)
      PROVE  pc'[v] = pc[v] /\ task'[v] = task[v]
  BY <1>1, <1>2 DEF Finish, Goto
<1>3. ASSUME NEW v \in Workers \ {w}, Succeed(w)
      PROVE  pc'[v] = pc[v] /\ task'[v] = task[v]
  BY <1>1, <1>3 DEF Succeed, Goto
<1>4. ASSUME NEW v \in Workers \ {w}, Trouble(w) \/ Release(w) \/ Acquire(w)
      PROVE  pc'[v] = pc[v] /\ task'[v] = task[v]
  BY <1>1, <1>2, <1>4 DEF Trouble, AcquireError, Fail, Crash, Release, Acquire, Goto
<1>5. ASSUME NEW v \in Workers \ {w},
             Lookup(w) \/ ResolveContact(w) \/ Record(w)
      PROVE  pc'[v] = pc[v] /\ task'[v] = task[v]
  BY <1>1, <1>3, <1>5 DEF Lookup, ResolveContact, Record, Goto
<1>6. ASSUME NEW v \in Workers \ {w},
             \/ CreateContact(w) \/ FindOpen(w) \/ FindLast(w) \/ Reopen(w)
             \/ NextProtocol(w) \/ CreateConversation(w) \/ RouteNew(w)
      PROVE  pc'[v] = pc[v] /\ task'[v] = task[v]
  BY <1>1, <1>6 DEF CreateContact, FindOpen, FindLast, Reopen, NextProtocol,
                    CreateConversation, RouteNew, Load, Goto
<1>7. ASSUME NEW v \in Workers \ {w},
             \/ StoreMessage(w) \/ Bump(w) \/ Notice(w) \/ SendNotice(w)
      PROVE  pc'[v] = pc[v] /\ task'[v] = task[v]
  BY <1>1, <1>7 DEF StoreMessage, Bump, Notice, SendNotice, Goto
<1>8. ASSUME NEW v \in Workers \ {w}, NEW m \in Messages,
             NEW k \in ConnsOf[m], Begin(w, m, k)
      PROVE  pc'[v] = pc[v] /\ task'[v] = task[v]
  BY <1>1, <1>8 DEF Begin, Goto
<1> QED BY <1>4, <1>5, <1>6, <1>7, <1>8 DEF Step

\* Between the lock and its release only some fields of a task change, each by
\* the steps that are for it.
LEMMA TaskSteps ==
    ASSUME TypeOK, Linked, NEW w \in Workers, Step(w) \/ Fail(w),
           ~Acquire(w), ~Release(w)
    PROVE  /\ task'[w].msg = task[w].msg
           /\ Lookup(w) \/ ResolveContact(w) \/ Record(w)
              \/ task'[w].ok = task[w].ok
           /\ NextProtocol(w) \/ task'[w].protocol = task[w].protocol
           /\ CreateConversation(w) \/ task'[w].new = task[w].new
           /\ FindOpen(w) \/ FindLast(w) \/ CreateConversation(w)
              \/ task'[w].conv = task[w].conv
<1>1. /\ task \in [Workers -> Tasks \cup {NoTask}]
      /\ task[w] \in Tasks
  BY WorkerFacts
     DEF TypeOK, Step, Fail, Lookup, ResolveContact, CreateContact, FindOpen,
         FindLast, Reopen, NextProtocol, CreateConversation, RouteNew,
         StoreMessage, Bump, Notice, SendNotice, Record
<1>2. ASSUME UNCHANGED task \/ task' = [task EXCEPT ![w].ok = TRUE]
                            \/ \E i \in ContactIds :
                                  task' = [task EXCEPT ![w].contact = i]
      PROVE  /\ task'[w].msg = task[w].msg
             /\ task'[w].protocol = task[w].protocol
             /\ task'[w].new = task[w].new
             /\ task'[w].conv = task[w].conv
             /\ task' = [task EXCEPT ![w].ok = TRUE]
                \/ task'[w].ok = task[w].ok
  BY <1>1, <1>2 DEF Tasks
<1>3. ASSUME NEW c \in ConvIds, task' = [task EXCEPT ![w].conv = c]
      PROVE  /\ task'[w].msg = task[w].msg
             /\ task'[w].protocol = task[w].protocol
             /\ task'[w].new = task[w].new
             /\ task'[w].ok = task[w].ok
  BY <1>1, <1>3 DEF Tasks
<1>4. CASE Lookup(w) \/ ResolveContact(w) \/ Record(w) \/ CreateContact(w)
  <2>1. \/ UNCHANGED task
        \/ task' = [task EXCEPT ![w].ok = TRUE]
        \/ \E i \in ContactIds : task' = [task EXCEPT ![w].contact = i]
    BY <1>4 DEF Lookup, ResolveContact, Record, CreateContact, Succeed
  <2>2. CreateContact(w) => task'[w].ok = task[w].ok
    BY <1>1 DEF CreateContact, Tasks
  <2> QED BY <1>2, <1>4, <2>1, <2>2
<1>5. CASE \/ Reopen(w) \/ RouteNew(w) \/ StoreMessage(w) \/ Bump(w)
           \/ Notice(w) \/ SendNotice(w) \/ Fail(w)
  BY <1>5 DEF Reopen, RouteNew, StoreMessage, Bump, Notice, SendNotice, Fail
<1>6. CASE FindOpen(w)
  BY <1>3, <1>6 DEF FindOpen, Load, OpenThreads, Threads
<1>7. CASE FindLast(w)
  BY <1>3, <1>7 DEF FindLast, Load, Threads
<1>8. CASE NextProtocol(w)
  BY <1>1, <1>8 DEF NextProtocol, Tasks
<1>9. CASE CreateConversation(w)
  <2>1. PICK c \in ConvIds : task' = [task EXCEPT ![w].conv = c, ![w].new = TRUE]
    BY <1>9 DEF CreateConversation
  <2> QED BY <1>1, <1>9, <2>1 DEF Tasks
<1> QED BY <1>4, <1>5, <1>6, <1>7, <1>8, <1>9 DEF Step

\* A step of one worker keeps Kept if that worker stays accounted for, stored
\* messages stay, and what it records and answers is backed by a message.
LEMMA KeptStep ==
    ASSUME TypeOK, Linked, Kept, NEW w \in Workers,
           \A v \in Workers \ {w} : pc'[v] = pc[v] /\ task'[v] = task[v],
           Accounted(w)',
           \A m \in Messages, c \in ConvIds : stored'[m][c] >= stored[m][c],
           \A m \in Messages : \/ ledger'[m] = ledger[m]
                                \/ stored'[m][ledger'[m]] > 0,
           \A m \in acked' : m \in acked \/ Dropped(m) \/ Stored(m)',
           TypeOK'
    PROVE  Kept'
<1>0. /\ stored \in [Messages -> [ConvIds -> Nat]]
      /\ stored' \in [Messages -> [ConvIds -> Nat]]
      /\ ledger \in [Messages -> ConvIds \cup {0}]
      /\ acked \subseteq Messages /\ acked' \subseteq Messages
  BY DEF TypeOK
<1>1. ASSUME NEW m \in Messages, NEW c \in ConvIds, stored[m][c] > 0
      PROVE  stored'[m][c] > 0
  BY <1>0, <1>1
<1>2. \A m \in Messages : Stored(m) => Stored(m)'
  BY <1>1 DEF Stored
<1>3. LedgerPointsToMessage'
  BY <1>0, <1>1 DEF Kept, LedgerPointsToMessage
<1>4. AckedIsStored'
  BY <1>0, <1>2 DEF Kept, AckedIsStored, Dropped, Stored
<1>5. ASSUME NEW v \in Workers \ {w} PROVE Accounted(v)'
  <2>1. Accounted(v)
    BY DEF Kept
  <2>2. pc[v] # "idle" => task[v] \in Tasks
    BY DEF TypeOK
  <2>3. pc[v] \in Half => task[v].conv \in ConvIds
    BY WorkerFacts DEF Holding
  <2>4. pc[v] # "idle" => task[v].msg \in Messages
    BY <2>2, TaskTypes
  <2> QED BY <1>1, <1>2, <2>1, <2>3, <2>4 DEF Accounted, Half
<1> QED BY <1>3, <1>4, <1>5 DEF Kept

\* Every step of a worker keeps its message accounted for.
LEMMA KeptWorker ==
    ASSUME TypeOK, Linked, Kept, TypeOK', NEW w \in Workers,
           \/ Step(w) \/ Trouble(w)
           \/ \E m \in Messages : \E k \in ConnsOf[m] : Begin(w, m, k)
    PROVE  Kept'
<1>1. \A v \in Workers \ {w} : pc'[v] = pc[v] /\ task'[v] = task[v]
  BY OthersStay
<1>2. /\ stored \in [Messages -> [ConvIds -> Nat]]
      /\ ledger \in [Messages -> ConvIds \cup {0}]
      /\ pc \in [Workers -> Labels]
      /\ task \in [Workers -> Tasks \cup {NoTask}]
      /\ pc[w] # "idle" => task[w] \in Tasks /\ task[w].msg \in Messages
      /\ pc[w] \in Holding => task[w].conv \in ConvIds
  BY WorkerFacts, TaskTypes DEF TypeOK
<1>3. /\ Accounted(w)
      /\ \A m \in Messages : ledger[m] # 0 => stored[m][ledger[m]] > 0
  BY DEF Kept, LedgerPointsToMessage
<1>4. \A m \in Messages, c \in ConvIds : stored[m][c] >= stored[m][c]
  BY <1>2
<1>5. ASSUME UNCHANGED <<stored, ledger, acked>>, Accounted(w)'
      PROVE  Kept'
  BY <1>1, <1>4, <1>5, KeptStep
<1>6. ASSUME UNCHANGED <<stored, ledger, acked>>, NEW l, Goto(w, l),
             l \notin Half \cup {"release"}, l # "idle" => ~task'[w].ok
      PROVE  Kept'
  <2>1. pc'[w] = l
    BY <1>2, <1>6 DEF Goto
  <2> QED BY <1>5, <1>6, <2>1 DEF Accounted
<1>7. ASSUME UNCHANGED <<stored, ledger, acked, task>>, NEW l \in Half,
             pc[w] \in Half, Goto(w, l)
      PROVE  Kept'
  <2>1. pc'[w] = l
    BY <1>2, <1>7 DEF Goto
  <2> QED BY <1>3, <1>5, <1>7, <2>1 DEF Accounted, Half
<1>8. ASSUME UNCHANGED <<stored, acked>>, Succeed(w), pc[w] # "idle",
             Dropped(task[w].msg) \/ Stored(task[w].msg)
      PROVE  Accounted(w)'
  <2>1. pc'[w] = "release" /\ task'[w].msg = task[w].msg
    BY <1>2, <1>8 DEF Succeed, Goto, Tasks
  <2> QED BY <1>8, <2>1 DEF Accounted, Half, Dropped, Stored
<1>9. CASE \E m \in Messages : \E k \in ConnsOf[m] : Begin(w, m, k)
  <2>1. /\ UNCHANGED <<stored, ledger, acked>> /\ Goto(w, "acquire")
        /\ ~task'[w].ok
    BY <1>2, <1>9 DEF Begin, Idle, stores
  <2> QED BY <1>6, <2>1 DEF Half
<1>10. ASSUME Finish(w), UNCHANGED <<stores, acked>> PROVE Kept'
  BY <1>6, <1>10 DEF Finish, stores, Half
<1>11. CASE Acquire(w)
  <2>1. CASE CanAcquire(lock, task[w].msg)
    <3>1. /\ UNCHANGED <<stored, ledger, acked, task>> /\ Goto(w, "lookup")
          /\ pc[w] = "acquire"
      BY <1>11, <2>1 DEF Acquire, stores
    <3> QED BY <1>3, <1>6, <3>1 DEF Accounted, Half
  <2>2. CASE ~CanAcquire(lock, task[w].msg)
    BY <1>10, <1>11, <2>2 DEF Acquire
  <2> QED BY <2>1, <2>2
<1>12. CASE AcquireError(w) \/ Crash(w)
  BY <1>10, <1>12 DEF AcquireError, Crash
<1>13. CASE Fail(w)
  <2>1. /\ UNCHANGED <<stored, ledger, acked, task>>
        /\ pc'[w] = "release" /\ pc[w] \notin {"idle", "release"}
    BY <1>2, <1>13 DEF Fail, stores, Goto
  <2>2. ~task'[w].ok
    BY <1>3, <2>1 DEF Accounted
  <2> QED BY <1>5, <2>1, <2>2 DEF Accounted, Half
<1>14. CASE Lookup(w)
  <2>1. UNCHANGED <<stored, ledger, acked>> /\ pc[w] = "lookup"
    BY <1>14 DEF Lookup, Idle, stores
  <2>2. CASE ledger[task[w].msg] # 0
    <3>1. Stored(task[w].msg)
      BY <1>2, <1>3, <2>1, <2>2 DEF Stored
    <3>2. Succeed(w)
      BY <1>14, <2>2 DEF Lookup
    <3> QED BY <1>5, <1>8, <2>1, <3>1, <3>2
  <2>3. CASE ledger[task[w].msg] = 0
    BY <1>3, <1>6, <1>14, <2>1, <2>3 DEF Lookup, Accounted, Half
  <2> QED BY <2>2, <2>3
<1>15. CASE ResolveContact(w)
  <2>1. UNCHANGED <<stored, ledger, acked>> /\ pc[w] = "contact"
    BY <1>15 DEF ResolveContact, Idle, stores
  <2>2. ~task[w].ok
    BY <1>3, <2>1 DEF Accounted
  <2>3. CASE PeerOf[task[w].msg] \in Groups \ Attended /\ Succeed(w)
    BY <1>5, <1>8, <2>1, <2>3 DEF Dropped
  <2>4. ASSUME NEW i \in ContactIds, task' = [task EXCEPT ![w].contact = i],
               Goto(w, "open")
        PROVE  Kept'
    <3>1. task'[w].ok = task[w].ok
      BY <1>2, <2>1, <2>4 DEF Tasks
    <3> QED BY <1>6, <2>1, <2>2, <2>4, <3>1 DEF Half
  <2>5. CASE Goto(w, "newcontact") /\ UNCHANGED task
    BY <1>6, <2>1, <2>2, <2>5 DEF Half
  <2> QED BY <1>15, <2>3, <2>4, <2>5 DEF ResolveContact
<1>16. CASE \/ CreateContact(w) \/ FindOpen(w) \/ FindLast(w) \/ Reopen(w)
            \/ NextProtocol(w) \/ CreateConversation(w) \/ RouteNew(w)
  <2>1. UNCHANGED <<stored, ledger, acked>>
    BY <1>16 DEF CreateContact, FindOpen, FindLast, Reopen, NextProtocol,
                 CreateConversation, RouteNew, Idle, stores
  <2>2. pc[w] \notin {"idle", "release"}
    BY <1>16 DEF CreateContact, FindOpen, FindLast, Reopen, NextProtocol,
                 CreateConversation, RouteNew
  <2>3. PICK l \in {"open", "store", "protocol", "last", "reopen", "create",
                    "route"} : Goto(w, l)
    BY <1>16 DEF CreateContact, FindOpen, FindLast, Reopen, NextProtocol,
                 CreateConversation, RouteNew
  <2>4. task'[w].ok = task[w].ok
    BY <1>16, TaskSteps
       DEF Step, Acquire, Release, Lookup, ResolveContact, Record,
           CreateContact, FindOpen, FindLast, Reopen, NextProtocol,
           CreateConversation, RouteNew
  <2> QED BY <1>3, <1>6, <2>1, <2>2, <2>3, <2>4 DEF Accounted, Half
<1>17. CASE StoreMessage(w)
  <2>1. /\ pc[w] = "store" /\ pc'[w] = "bump" /\ task' = task
        /\ UNCHANGED <<ledger, acked>>
        /\ stored' = [stored EXCEPT ![task[w].msg][task[w].conv] = @ + 1]
    BY <1>2, <1>17 DEF StoreMessage, Goto, Idle
  <2>2. task[w].msg \in Messages /\ task[w].conv \in ConvIds
    BY <1>2, <2>1 DEF Holding
  <2>3. /\ stored'[task[w].msg][task[w].conv] > 0
        /\ \A m \in Messages, c \in ConvIds : stored'[m][c] >= stored[m][c]
    BY <1>2, <2>1, <2>2
  <2>4. Accounted(w)'
    BY <1>3, <2>1, <2>3 DEF Accounted
  <2> QED BY <1>1, <2>1, <2>3, <2>4, KeptStep
<1>18. CASE Bump(w) \/ Notice(w) \/ SendNotice(w)
  <2>1. PICK l \in Half : Goto(w, l)
    BY <1>18 DEF Bump, Notice, SendNotice, Half
  <2> QED
    BY <1>7, <1>18, <2>1 DEF Bump, Notice, SendNotice, Half, Idle, stores
<1>19. CASE Record(w)
  <2>1. /\ pc[w] = "record" /\ Succeed(w) /\ UNCHANGED <<stored, acked>>
        /\ ledger' = IF ledger[task[w].msg] = 0
                     THEN [ledger EXCEPT ![task[w].msg] = task[w].conv]
                     ELSE ledger
    BY <1>19 DEF Record, Idle
  <2>2. /\ task[w].msg \in Messages /\ task[w].conv \in ConvIds
        /\ stored[task[w].msg][task[w].conv] > 0
    BY <1>2, <1>3, <2>1 DEF Holding, Half, Accounted
  <2>3. \A m \in Messages : \/ ledger'[m] = ledger[m]
                            \/ stored'[m][ledger'[m]] > 0
    BY <1>2, <2>1, <2>2
  <2>4. Accounted(w)'
    BY <1>8, <2>1, <2>2 DEF Stored
  <2> QED BY <1>1, <1>4, <2>1, <2>3, <2>4, KeptStep
<1>20. CASE Release(w)
  <2>1. /\ pc[w] = "release" /\ pc'[w] = "idle" /\ UNCHANGED <<stored, ledger>>
        /\ acked' = IF task[w].ok THEN acked \cup {task[w].msg} ELSE acked
    BY <1>2, <1>20 DEF Release, Finish, Goto, stores
  <2>2. Accounted(w)'
    BY <2>1 DEF Accounted, Half
  <2>3. \A m \in acked' : m \in acked \/ Dropped(m) \/ Stored(m)'
    BY <1>3, <2>1 DEF Accounted, Stored
  <2> QED BY <1>1, <1>4, <2>1, <2>2, <2>3, KeptStep
<1> QED
  BY <1>9, <1>11, <1>12, <1>13, <1>14, <1>15, <1>16, <1>17, <1>18, <1>19, <1>20
     DEF Step, Trouble

\* Kept holds in every reachable state.
LEMMA KeptHolds == Spec => []Kept
<1>1. Init => Kept
  BY DEF Init, Kept, LedgerPointsToMessage, AckedIsStored, Accounted, Half
<1>2. TypeOK /\ Linked /\ Kept /\ [Next]_vars => Kept'
  <2> SUFFICES ASSUME TypeOK, Linked, Kept, [Next]_vars PROVE Kept'
    OBVIOUS
  <2>1. TypeOK'
    BY NextType
  <2>2. ASSUME NEW w \in Workers, Step(w) \/ Trouble(w) PROVE Kept'
    BY <2>1, <2>2, KeptWorker
  <2>3. ASSUME NEW m \in Messages, Deliver(m) PROVE Kept'
    BY <2>1, <2>3, KeptWorker DEF Deliver
  <2>4. ASSUME UNCHANGED <<stored, ledger, acked, pc, task>> PROVE Kept'
    BY <2>4 DEF Kept, LedgerPointsToMessage, AckedIsStored, Accounted, Dropped,
                Stored
  <2>5. ASSUME NEW m \in Messages, Expire(m) PROVE Kept'
    BY <2>4, <2>5 DEF Expire, stores
  <2>6. ASSUME NEW e \in Editors,
               EditStore(e) \/ \E c \in ConvIds : EditLoad(e, c)
        PROVE  Kept'
    BY <2>4, <2>6 DEF EditStore, EditLoad, stores
  <2>7. CASE UNCHANGED vars
    BY <2>4, <2>7 DEF vars, stores
  <2> QED BY <2>2, <2>3, <2>5, <2>6, <2>7 DEF Next
<1> QED BY <1>1, <1>2, TypesHold, PTL DEF Spec

\* A message answered 200 is in a conversation, unless it is of a group that is
\* not attended, whatever fails or dies and however long Handle runs.
THEOREM AcksAreStored == Spec => []AckedIsStored
<1>1. Kept => AckedIsStored
  BY DEF Kept
<1> QED BY <1>1, KeptHolds, PTL

\* The ledger of inbound_messages never names a conversation its message is not
\* in: the id is recorded after the message is stored.
THEOREM LedgerIsTrue == Spec => []LedgerPointsToMessage
<1>1. Kept => LedgerPointsToMessage
  BY DEF Kept
<1> QED BY <1>1, KeptHolds, PTL

-----------------------------------------------------------------------------
(* Protocol numbers.                                                       *)

\* Where a worker has not drawn a protocol number yet.
Early == {"acquire", "lookup", "contact", "newcontact", "open", "last",
          "protocol"}

\* The number a worker is about to store was drawn from the counter, and is
\* nobody else's.
Reserved(w) ==
    /\ task[w].protocol <= seq
    /\ task[w].protocol # 0 =>
          /\ \A c \in ConvIds : thread[c] # Absent
                => thread[c].protocol # task[w].protocol
          /\ \A v \in Workers \ {w} : pc[v] = "create"
                => task[v].protocol # task[w].protocol

\* Numbers in use were drawn from the counter, and one that is drawn and not
\* yet stored is nobody else's.
Numbered ==
    /\ ProtocolsUnique
    /\ \A c \in ConvIds : thread[c] # Absent => thread[c].protocol <= seq
    /\ \A w \in Workers : /\ pc[w] = "create" => Reserved(w)
                          /\ pc[w] \in Early => task[w].protocol = 0

\* Apart from the two steps that draw and use a number, a worker that arrives
\* where a conversation is created has none.
LEMMA NumberSteps ==
    ASSUME TypeOK, Linked, Numbered, NEW w \in Workers,
           ~NextProtocol(w), ~CreateConversation(w),
           \/ Step(w) \/ Trouble(w)
           \/ \E m \in Messages : \E k \in ConnsOf[m] : Begin(w, m, k)
    PROVE  /\ UNCHANGED <<thread, seq>>
           /\ pc'[w] \in Early \cup {"create"} => task'[w].protocol = 0
<1>1. /\ pc \in [Workers -> Labels]
      /\ task \in [Workers -> Tasks \cup {NoTask}]
      /\ pc[w] \in Early => task[w].protocol = 0
  BY DEF TypeOK, Numbered
<1>2. UNCHANGED <<thread, seq>>
  BY DEF Step, Trouble, Begin, Acquire, AcquireError, Lookup, ResolveContact,
         CreateContact, FindOpen, FindLast, Reopen, RouteNew, StoreMessage,
         Bump, Notice, SendNotice, Record, Release, Fail, Crash, stores
<1>3. ASSUME Finish(w) PROVE pc'[w] \notin Early \cup {"create"}
  BY <1>1, <1>3 DEF Finish, Goto, Early
<1>4. CASE \E m \in Messages : \E k \in ConnsOf[m] : Begin(w, m, k)
  <2>1. task'[w].protocol = 0
    BY <1>1, <1>4 DEF Begin
  <2> QED BY <1>2, <2>1
<1>5. CASE Acquire(w) \/ Release(w) \/ Trouble(w)
  <2>1. CASE Finish(w)
    BY <1>2, <1>3, <2>1
  <2>2. CASE Acquire(w) /\ ~Finish(w)
    <3>1. pc[w] = "acquire" /\ task' = task
      BY <2>2 DEF Acquire
    <3> QED BY <1>1, <1>2, <3>1 DEF Early
  <2>3. CASE Fail(w)
    <3>1. pc'[w] = "release"
      BY <1>1, <2>3 DEF Fail, Goto
    <3> QED BY <1>2, <3>1 DEF Early
  <2> QED
    BY <1>5, <2>1, <2>2, <2>3 DEF Release, Trouble, AcquireError, Crash
<1>6. CASE \/ Lookup(w) \/ ResolveContact(w) \/ CreateContact(w) \/ FindOpen(w)
           \/ FindLast(w)
  <2>1. pc[w] \in Early
    BY <1>6 DEF Lookup, ResolveContact, CreateContact, FindOpen, FindLast, Early
  <2>2. task'[w].protocol = task[w].protocol
    BY <1>6, <2>1, TaskSteps DEF Step, Acquire, Release, Lookup, ResolveContact,
       CreateContact, FindOpen, FindLast
  <2> QED BY <1>1, <1>2, <2>1, <2>2
<1>7. CASE \/ Reopen(w) \/ RouteNew(w) \/ StoreMessage(w) \/ Bump(w)
           \/ Notice(w) \/ SendNotice(w) \/ Record(w)
  <2>1. pc'[w] \in {"store", "bump", "notice", "noticing", "record", "release"}
    BY <1>1, <1>7 DEF Reopen, RouteNew, StoreMessage, Bump, Notice, SendNotice,
                      Record, Succeed, Goto
  <2> QED BY <1>2, <2>1 DEF Early
<1> QED BY <1>4, <1>5, <1>6, <1>7 DEF Step

\* The steps that draw and use a number, and all others, keep numbers unique.
LEMMA NumberedWorker ==
    ASSUME TypeOK, Linked, Numbered, NEW w \in Workers,
           \/ Step(w) \/ Trouble(w)
           \/ \E m \in Messages : \E k \in ConnsOf[m] : Begin(w, m, k)
    PROVE  Numbered'
<1>1. \A v \in Workers \ {w} : pc'[v] = pc[v] /\ task'[v] = task[v]
  BY OthersStay
<1>2. /\ pc \in [Workers -> Labels] /\ seq \in Nat
      /\ thread \in [ConvIds -> Thread \cup {Absent}]
      /\ task \in [Workers -> Tasks \cup {NoTask}]
      /\ \A v \in Workers : pc[v] # "idle" => task[v] \in Tasks
      /\ \A v \in Workers : pc[v] # "idle" => task[v].protocol \in Nat
      /\ \A c \in ConvIds : thread[c] # Absent => thread[c].protocol \in Nat
  BY TaskTypes DEF TypeOK, Thread
<1>3. CASE NextProtocol(w)
  <2>1. /\ pc'[w] = "create" /\ seq' = seq + 1 /\ thread' = thread
        /\ task'[w].protocol = seq + 1
    BY <1>2, <1>3 DEF NextProtocol, Goto, Tasks
  <2>2. ASSUME NEW v \in Workers \ {w}, pc'[v] = "create" PROVE Reserved(v)'
    <3>1. Reserved(v) /\ task[v].protocol <= seq /\ task[v].protocol \in Nat
      BY <1>1, <1>2, <2>2 DEF Numbered, Reserved
    <3> QED BY <1>1, <1>2, <2>1, <2>2, <3>1 DEF Reserved
  <2>3. Reserved(w)'
    <3>1. ASSUME NEW v \in Workers \ {w}, pc'[v] = "create"
          PROVE  task'[v].protocol # seq + 1
      <4>1. task[v].protocol <= seq /\ task[v].protocol \in Nat
        BY <1>1, <1>2, <3>1 DEF Numbered, Reserved
      <4> QED BY <1>1, <1>2, <4>1
    <3>2. \A c \in ConvIds : thread[c] # Absent => thread[c].protocol # seq + 1
      BY <1>2 DEF Numbered
    <3> QED BY <1>2, <2>1, <3>1, <3>2 DEF Reserved
  <2>4. \A v \in Workers : pc'[v] \in Early => task'[v].protocol = 0
    BY <1>1, <2>1 DEF Numbered, Early
  <2>5. /\ ProtocolsUnique'
        /\ \A c \in ConvIds : thread'[c] # Absent => thread'[c].protocol <= seq'
    BY <1>2, <2>1 DEF Numbered, ProtocolsUnique
  <2> QED BY <2>2, <2>3, <2>4, <2>5 DEF Numbered
<1>4. CASE CreateConversation(w)
  <2>1. PICK c \in ConvIds :
           thread' = [thread EXCEPT ![c] =
                         [contact |-> task[w].contact, conn |-> task[w].conn,
                          protocol |-> task[w].protocol]]
    BY <1>4 DEF CreateConversation
  <2>2. pc[w] = "create" /\ pc'[w] = "route" /\ seq' = seq
    BY <1>2, <1>4 DEF CreateConversation, Goto
  <2>3. Reserved(w) /\ task[w].protocol \in Nat
    BY <1>2, <2>2 DEF Numbered
  <2>4. /\ thread'[c].protocol = task[w].protocol
        /\ \A d \in ConvIds \ {c} : thread'[d] = thread[d]
    BY <1>2, <2>1
  <2>5. ProtocolsUnique'
    <3>1. ASSUME NEW d \in ConvIds \ {c}, thread'[d] # Absent,
                 task[w].protocol # 0
          PROVE  thread'[d].protocol # task[w].protocol
      BY <2>3, <2>4, <3>1 DEF Reserved
    <3> QED BY <2>4, <3>1 DEF Numbered, ProtocolsUnique
  <2>6. \A d \in ConvIds : thread'[d] # Absent => thread'[d].protocol <= seq'
    BY <2>2, <2>3, <2>4 DEF Numbered, Reserved
  <2>7. ASSUME NEW v \in Workers, pc'[v] = "create" PROVE Reserved(v)'
    <3>1. /\ v # w /\ pc[v] = "create" /\ task'[v] = task[v] /\ Reserved(v)
      BY <1>1, <2>2, <2>7 DEF Numbered
    <3>2. task[v].protocol # 0 => task[v].protocol # task[w].protocol
      BY <2>2, <3>1 DEF Reserved
    <3>3. ASSUME NEW d \in ConvIds, thread'[d] # Absent, task[v].protocol # 0
          PROVE  thread'[d].protocol # task[v].protocol
      BY <2>4, <3>1, <3>2, <3>3 DEF Reserved
    <3> QED BY <1>1, <2>2, <3>1, <3>3 DEF Reserved
  <2>8. \A v \in Workers : pc'[v] \in Early => task'[v].protocol = 0
    BY <1>1, <2>2 DEF Numbered, Early
  <2> QED BY <2>5, <2>6, <2>7, <2>8 DEF Numbered
<1>5. CASE ~NextProtocol(w) /\ ~CreateConversation(w)
  <2>1. /\ UNCHANGED <<thread, seq>>
        /\ pc'[w] \in Early \cup {"create"} => task'[w].protocol = 0
    BY <1>5, NumberSteps
  <2>2. \A v \in Workers : pc'[v] \in Early => task'[v].protocol = 0
    BY <1>1, <2>1 DEF Numbered
  <2>3. ASSUME NEW v \in Workers, pc'[v] = "create" PROVE Reserved(v)'
    <3>1. CASE v = w
      BY <1>2, <2>1, <2>3, <3>1 DEF Reserved
    <3>2. CASE v # w
      <4>1. Reserved(v) /\ pc[v] = "create" /\ task'[v] = task[v]
        BY <1>1, <2>3, <3>2 DEF Numbered
      <4>2. ASSUME NEW u \in Workers \ {v}, pc'[u] = "create",
                   task[v].protocol # 0
            PROVE  task'[u].protocol # task[v].protocol
        BY <1>1, <2>1, <4>1, <4>2 DEF Reserved
      <4> QED BY <2>1, <4>1, <4>2 DEF Reserved
    <3> QED BY <3>1, <3>2
  <2> QED BY <2>1, <2>2, <2>3 DEF Numbered, ProtocolsUnique
<1> QED BY <1>3, <1>4, <1>5

\* No two conversations carry the same protocol number, however many requests
\* open conversations at once and wherever they fail or die.
THEOREM ProtocolNumbersAreUnique == Spec => []ProtocolsUnique
<1>1. Init => Numbered
  BY DEF Init, Numbered, ProtocolsUnique, Early
<1>2. TypeOK /\ Linked /\ Numbered /\ [Next]_vars => Numbered'
  <2> SUFFICES ASSUME TypeOK, Linked, Numbered, [Next]_vars PROVE Numbered'
    OBVIOUS
  <2>1. ASSUME NEW w \in Workers, Step(w) \/ Trouble(w) PROVE Numbered'
    BY <2>1, NumberedWorker
  <2>2. ASSUME NEW m \in Messages, Deliver(m) PROVE Numbered'
    BY <2>2, NumberedWorker DEF Deliver
  <2>3. ASSUME UNCHANGED <<thread, seq, pc, task>> PROVE Numbered'
    BY <2>3 DEF Numbered, ProtocolsUnique, Reserved
  <2>4. ASSUME NEW m \in Messages, Expire(m) PROVE Numbered'
    BY <2>3, <2>4 DEF Expire, stores
  <2>5. ASSUME NEW e \in Editors,
               EditStore(e) \/ \E c \in ConvIds : EditLoad(e, c)
        PROVE  Numbered'
    BY <2>3, <2>5 DEF EditStore, EditLoad, stores
  <2>6. CASE UNCHANGED vars
    BY <2>3, <2>6 DEF vars, stores
  <2> QED BY <2>1, <2>2, <2>4, <2>5, <2>6 DEF Next
<1>3. Numbered => ProtocolsUnique
  BY DEF Numbered
<1> QED BY <1>1, <1>2, <1>3, TypesHold, PTL DEF Spec

-----------------------------------------------------------------------------
(* The out-of-hours notice.                                                *)

\* A worker that created the conversation it is at work on and may still send
\* the notice.
Greeter(w) ==
    /\ pc[w] \in {"route", "store", "bump", "notice", "noticing"}
    /\ task[w].new

\* Where a worker may hold a conversation it created.
MaybeNew == {"route", "store", "bump", "notice", "noticing", "record",
             "release", "idle"}

\* A conversation has at most one creator at work; until it has sent the
\* notice there is none, and nobody else sends one.
Noticed ==
    /\ OneNotice
    /\ \A c \in ConvIds : conv[c] = Absent => notices[c] = 0
    /\ \A w \in Workers :
          /\ pc[w] \in {"notice", "noticing"} => task[w].new
          /\ pc[w] \notin MaybeNew => ~task[w].new
          /\ Greeter(w) =>
                /\ notices[task[w].conv] = 0
                /\ \A v \in Workers \ {w} :
                      Greeter(v) => task[v].conv # task[w].conv

\* Apart from CreateConversation no step makes a worker a creator, and apart
\* from SendNotice no step sends a notice.
LEMMA GreetSteps ==
    ASSUME TypeOK, Linked, Noticed, NEW w \in Workers,
           ~CreateConversation(w), ~SendNotice(w),
           \/ Step(w) \/ Trouble(w)
           \/ \E m \in Messages : \E k \in ConnsOf[m] : Begin(w, m, k)
    PROVE  /\ UNCHANGED <<thread, notices>>
           /\ pc'[w] \in {"notice", "noticing"} => task'[w].new
           /\ pc'[w] \notin MaybeNew => ~task'[w].new
           /\ Greeter(w)' => Greeter(w) /\ task'[w].conv = task[w].conv
<1>1. /\ pc \in [Workers -> Labels]
      /\ task \in [Workers -> Tasks \cup {NoTask}]
      /\ pc[w] \in {"notice", "noticing"} => task[w].new
      /\ pc[w] \notin MaybeNew => ~task[w].new
  BY DEF TypeOK, Noticed
<1>2. UNCHANGED <<thread, notices>>
  BY DEF Step, Trouble, Begin, Acquire, AcquireError, Lookup, ResolveContact,
         CreateContact, FindOpen, FindLast, Reopen, NextProtocol, RouteNew,
         StoreMessage, Bump, Notice, Record, Release, Fail, Crash, stores
<1>3. ASSUME pc'[w] \in {"idle", "release", "record"}
      PROVE  /\ pc'[w] \in MaybeNew /\ ~Greeter(w)'
             /\ pc'[w] \notin {"notice", "noticing"}
  BY <1>3 DEF MaybeNew, Greeter
<1>4. CASE \E m \in Messages : \E k \in ConnsOf[m] : Begin(w, m, k)
  <2>1. ~task'[w].new /\ pc'[w] = "acquire"
    BY <1>1, <1>4 DEF Begin, Goto
  <2> QED BY <1>2, <2>1 DEF Greeter
<1>5. CASE Acquire(w) \/ Release(w) \/ Trouble(w)
  <2>1. CASE Finish(w)
    BY <1>1, <1>2, <1>3, <2>1 DEF Finish, Goto
  <2>2. CASE Acquire(w) /\ ~Finish(w)
    <3>1. pc[w] = "acquire" /\ task' = task /\ pc'[w] = "lookup"
      BY <1>1, <2>2 DEF Acquire, Goto
    <3> QED BY <1>1, <1>2, <3>1 DEF Greeter, MaybeNew
  <2>3. CASE Fail(w)
    BY <1>1, <1>2, <1>3, <2>3 DEF Fail, Goto
  <2> QED
    BY <1>5, <2>1, <2>2, <2>3 DEF Release, Trouble, AcquireError, Crash
<1>6. CASE \/ Lookup(w) \/ ResolveContact(w) \/ CreateContact(w) \/ FindOpen(w)
           \/ FindLast(w) \/ Reopen(w) \/ NextProtocol(w)
  <2>1. pc[w] \notin MaybeNew
    BY <1>6 DEF Lookup, ResolveContact, CreateContact, FindOpen, FindLast,
                Reopen, NextProtocol, MaybeNew
  <2>2. task'[w].new = task[w].new
    BY <1>6, <2>1, TaskSteps DEF Step, Acquire, Release, Lookup, ResolveContact,
       CreateContact, FindOpen, FindLast, Reopen, NextProtocol
  <2>3. pc'[w] \notin {"notice", "noticing"}
    BY <1>1, <1>6 DEF Lookup, ResolveContact, CreateContact, FindOpen, FindLast,
                      Reopen, NextProtocol, Succeed, Goto
  <2> QED BY <1>1, <1>2, <2>1, <2>2, <2>3 DEF Greeter
<1>7. CASE RouteNew(w) \/ StoreMessage(w) \/ Bump(w) \/ Notice(w)
  <2>1. task' = task
    BY <1>7 DEF RouteNew, StoreMessage, Bump, Notice
  <2>2. /\ pc[w] \in {"route", "store", "bump", "notice"}
        /\ pc'[w] \in {"store", "bump", "notice", "noticing", "record"}
        /\ pc'[w] \in {"notice", "noticing"} => task[w].new
    BY <1>1, <1>7 DEF RouteNew, StoreMessage, Bump, Notice, Goto
  <2> QED BY <1>2, <2>1, <2>2 DEF Greeter, MaybeNew
<1>8. CASE Record(w)
  BY <1>1, <1>2, <1>3, <1>8 DEF Record, Succeed, Goto
<1> QED BY <1>4, <1>5, <1>6, <1>7, <1>8 DEF Step

\* Every step of a worker keeps Noticed.
LEMMA NoticedWorker ==
    ASSUME TypeOK, Linked, Linked', Noticed, NEW w \in Workers,
           \/ Step(w) \/ Trouble(w)
           \/ \E m \in Messages : \E k \in ConnsOf[m] : Begin(w, m, k)
    PROVE  Noticed'
<1>1. \A v \in Workers \ {w} : pc'[v] = pc[v] /\ task'[v] = task[v]
  BY OthersStay
<1>2. \A v \in Workers \ {w} : Greeter(v)' <=> Greeter(v)
  BY <1>1 DEF Greeter
<1>3. /\ pc \in [Workers -> Labels] /\ notices \in [ConvIds -> Nat]
      /\ conv \in [ConvIds -> Document \cup {Absent}]
      /\ task \in [Workers -> Tasks \cup {NoTask}]
      /\ \A v \in Workers : Greeter(v) => /\ task[v].conv \in ConvIds
                                          /\ conv[task[v].conv] # Absent
  BY WorkerFacts DEF TypeOK, Greeter, Holding, Half
<1>4. CASE CreateConversation(w)
  <2>1. PICK c \in ConvIds :
           /\ Fresh(c, [j \in ConvIds |-> conv[j] # Absent])
           /\ conv' = [conv EXCEPT ![c] = Opened(None, None)]
           /\ task' = [task EXCEPT ![w].conv = c, ![w].new = TRUE]
    BY <1>4 DEF CreateConversation
  <2>2. conv[c] = Absent
    BY <2>1 DEF Fresh
  <2>3. /\ pc[w] = "create" /\ pc'[w] = "route" /\ UNCHANGED notices
    BY <1>3, <1>4 DEF CreateConversation, Goto
  <2>4. task[w] \in Tasks
    BY <2>3 DEF TypeOK
  <2>5. task'[w].conv = c
    BY <1>3, <2>1, <2>4 DEF Tasks
  <2>6. \A d \in ConvIds : conv'[d] = Absent => notices'[d] = 0
    BY <1>3, <2>1, <2>2, <2>3 DEF Noticed
  <2>7. notices'[c] = 0
    BY <2>2, <2>3 DEF Noticed
  <2>8. ASSUME NEW v \in Workers \ {w}, Greeter(v)' 
        PROVE  task'[v].conv # c
    BY <1>1, <1>2, <1>3, <2>2, <2>8
  <2>9. ASSUME NEW v \in Workers
        PROVE  /\ pc'[v] \in {"notice", "noticing"} => task'[v].new
               /\ pc'[v] \notin MaybeNew => ~task'[v].new
    BY <1>1, <2>3 DEF Noticed, MaybeNew
  <2>10. ASSUME NEW v \in Workers, Greeter(v)'
         PROVE  /\ notices'[task'[v].conv] = 0
                /\ \A u \in Workers \ {v} :
                      Greeter(u)' => task'[u].conv # task'[v].conv
    <3>1. CASE v = w
      BY <2>5, <2>7, <2>8, <3>1
    <3>2. CASE v # w
      BY <1>1, <1>2, <2>3, <2>5, <2>8, <2>10, <3>2 DEF Noticed
    <3> QED BY <3>1, <3>2
  <2> QED BY <2>3, <2>6, <2>9, <2>10 DEF Noticed, OneNotice
<1>5. CASE SendNotice(w)
  <2>1. /\ pc[w] = "noticing" /\ pc'[w] = "record" /\ task' = task
        /\ thread' = thread
        /\ notices' = [notices EXCEPT ![task[w].conv] = @ + 1]
    BY <1>3, <1>5 DEF SendNotice, Goto
  <2>2. Greeter(w) /\ task[w].conv \in ConvIds /\ notices[task[w].conv] = 0
    BY <1>3, <2>1 DEF Noticed, Greeter
  <2>3. ~Greeter(w)'
    BY <2>1 DEF Greeter
  <2>4. /\ OneNotice'
        /\ \A c \in ConvIds \ {task[w].conv} : notices'[c] = notices[c]
    BY <1>3, <2>1, <2>2 DEF Noticed, OneNotice
  <2>5. \A c \in ConvIds : conv'[c] = Absent => notices'[c] = 0
    <3>1. \A c \in ConvIds : conv'[c] = Absent => conv[c] = Absent
      BY <2>1 DEF Linked
    <3> QED BY <1>3, <2>2, <2>4, <3>1 DEF Noticed
  <2>6. ASSUME NEW v \in Workers
        PROVE  /\ pc'[v] \in {"notice", "noticing"} => task'[v].new
               /\ pc'[v] \notin MaybeNew => ~task'[v].new
    BY <1>1, <2>1 DEF Noticed, MaybeNew
  <2>7. ASSUME NEW v \in Workers, Greeter(v)'
        PROVE  /\ notices'[task'[v].conv] = 0
               /\ \A u \in Workers \ {v} :
                     Greeter(u)' => task'[u].conv # task'[v].conv
    <3>1. v # w /\ Greeter(v) /\ task[v].conv \in ConvIds
      BY <1>2, <1>3, <2>3, <2>7
    <3>2. task[v].conv # task[w].conv
      BY <2>2, <3>1 DEF Noticed
    <3>3. \A u \in Workers \ {v} : Greeter(u)' => Greeter(u)
      BY <1>2, <2>2
    <3> QED BY <2>1, <2>4, <3>1, <3>2, <3>3 DEF Noticed
  <2> QED BY <2>4, <2>5, <2>6, <2>7 DEF Noticed
<1>6. CASE ~CreateConversation(w) /\ ~SendNotice(w)
  <2>1. /\ UNCHANGED <<thread, notices>>
        /\ pc'[w] \in {"notice", "noticing"} => task'[w].new
        /\ pc'[w] \notin MaybeNew => ~task'[w].new
        /\ Greeter(w)' => Greeter(w) /\ task'[w].conv = task[w].conv
    BY <1>6, GreetSteps
  <2>2. \A c \in ConvIds : conv'[c] = Absent => conv[c] = Absent
    BY <2>1 DEF Linked
  <2>3. \A v \in Workers :
           Greeter(v)' => Greeter(v) /\ task'[v].conv = task[v].conv
    BY <1>1, <1>2, <2>1
  <2>4. ASSUME NEW v \in Workers
        PROVE  /\ pc'[v] \in {"notice", "noticing"} => task'[v].new
               /\ pc'[v] \notin MaybeNew => ~task'[v].new
    BY <1>1, <2>1 DEF Noticed
  <2>5. OneNotice' /\ \A c \in ConvIds : conv'[c] = Absent => notices'[c] = 0
    BY <2>1, <2>2 DEF Noticed, OneNotice
  <2>6. ASSUME NEW v \in Workers, Greeter(v)'
        PROVE  /\ notices'[task'[v].conv] = 0
               /\ \A u \in Workers \ {v} :
                     Greeter(u)' => task'[u].conv # task'[v].conv
    BY <2>1, <2>3, <2>6 DEF Noticed
  <2> QED BY <2>4, <2>5, <2>6 DEF Noticed
<1> QED BY <1>4, <1>5, <1>6

\* The out-of-hours notice goes out at most once in a conversation, whatever is
\* retried and however long Handle runs.
THEOREM NoticesAreSentOnce == Spec => []OneNotice
<1>1. Init => Noticed
  BY DEF Init, Noticed, OneNotice, Greeter, MaybeNew
<1>2. TypeOK /\ Linked /\ Noticed /\ [Next]_vars => Noticed'
  <2> SUFFICES ASSUME TypeOK, Linked, Noticed, [Next]_vars PROVE Noticed'
    OBVIOUS
  <2>1. Linked'
    BY NextType
  <2>2. ASSUME NEW w \in Workers, Step(w) \/ Trouble(w) PROVE Noticed'
    BY <2>1, <2>2, NoticedWorker
  <2>3. ASSUME NEW m \in Messages, Deliver(m) PROVE Noticed'
    BY <2>1, <2>3, NoticedWorker DEF Deliver
  <2>4. ASSUME UNCHANGED <<thread, notices, pc, task>> PROVE Noticed'
    <3>1. \A c \in ConvIds : conv'[c] = Absent => conv[c] = Absent
      BY <2>1, <2>4 DEF Linked
    <3> QED BY <2>4, <3>1 DEF Noticed, OneNotice, Greeter
  <2>5. ASSUME NEW m \in Messages, Expire(m) PROVE Noticed'
    BY <2>4, <2>5 DEF Expire, stores
  <2>6. ASSUME NEW e \in Editors,
               EditStore(e) \/ \E c \in ConvIds : EditLoad(e, c)
        PROVE  Noticed'
    BY <2>4, <2>6 DEF EditStore, EditLoad, stores
  <2>7. CASE UNCHANGED vars
    BY <2>4, <2>7 DEF vars, stores
  <2> QED BY <2>2, <2>3, <2>5, <2>6, <2>7 DEF Next
<1>3. Noticed => OneNotice
  BY DEF Noticed
<1> QED BY <1>1, <1>2, <1>3, TypesHold, PTL DEF Spec

-----------------------------------------------------------------------------
(* Once only, when Handle ends within inboundLockTTL.                      *)

\* A worker between its Acquire and its release holds its message's lock.
Locked == \A w \in Workers, m \in Messages : InSection(w, m) => lock[m] = w

\* The lock of a message stays with the worker that took it.
LEMMA LockSteps ==
    ASSUME Outlive = FALSE, TypeOK, Linked, Locked, [Next]_vars
    PROVE  Locked'
<1> SUFFICES ASSUME NEW v \in Workers, NEW m \in Messages, InSection(v, m)'
             PROVE  lock'[m] = v
  BY DEF Locked
<1>1. /\ pc \in [Workers -> Labels]
      /\ task \in [Workers -> Tasks \cup {NoTask}]
      /\ lock \in [Messages -> Workers \cup {Free}]
      /\ Free \notin Workers
      /\ pc'[v] \notin {"idle", "acquire"} /\ task'[v].msg = m
  BY DEF TypeOK, InSection
<1>2. \A u \in Workers, k \in Messages : InSection(u, k) => lock[k] = u
  BY DEF Locked
<1>3. ASSUME NEW w \in Workers, Step(w) \/ Trouble(w) PROVE lock'[m] = v
  <2>1. \A u \in Workers \ {w} : pc'[u] = pc[u] /\ task'[u] = task[u]
    BY <1>3, OthersStay
  <2>2. v # w => InSection(v, m)
    BY <1>1, <2>1 DEF InSection
  <2>3. pc[w] # "idle" /\ task[w].msg \in Messages
    <3>1. pc[w] # "idle"
      BY <1>3 DEF Step, Trouble, Acquire, AcquireError, Lookup, ResolveContact,
         CreateContact, FindOpen, FindLast, Reopen, NextProtocol,
         CreateConversation, RouteNew, StoreMessage, Bump, Notice, SendNotice,
         Record, Release, Fail, Crash
    <3> QED BY <3>1, WorkerFacts, TaskTypes
  <2>4. ASSUME Finish(w),
               \/ lock' = lock
               \/ /\ lock[task[w].msg] \in {Free, w}
                  /\ \A k \in Messages \ {task[w].msg} : lock'[k] = lock[k]
        PROVE  lock'[m] = v
    <3>1. v # w
      BY <1>1, <2>4 DEF Finish, Goto
    <3>2. lock[m] = v
      BY <1>2, <2>2, <3>1
    <3> QED BY <1>1, <2>4, <3>1, <3>2
  <2>5. CASE Acquire(w)
    <3>1. CASE CanAcquire(lock, task[w].msg)
      <4>1. /\ lock' = [lock EXCEPT ![task[w].msg] = w] /\ task' = task
            /\ lock[task[w].msg] = Free
        BY <2>5, <3>1 DEF Acquire, Acquired, CanAcquire
      <4>2. CASE v = w
        BY <1>1, <2>3, <4>1, <4>2
      <4>3. CASE v # w
        BY <1>1, <1>2, <2>2, <4>1, <4>3
      <4> QED BY <4>2, <4>3
    <3>2. CASE ~CanAcquire(lock, task[w].msg)
      BY <2>4, <2>5, <3>2 DEF Acquire
    <3> QED BY <3>1, <3>2
  <2>6. CASE AcquireError(w)
    <3>1. /\ Finish(w)
          /\ lock[task[w].msg] = Free
          /\ lock' = lock \/ lock' = [lock EXCEPT ![task[w].msg] = w]
      BY <2>6 DEF AcquireError, CanAcquire, Acquired
    <3> QED BY <1>1, <2>4, <3>1
  <2>7. CASE Release(w)
    <3>1. Finish(w) /\ lock' \in {Released(lock, task[w].msg, w), lock}
      BY <2>7 DEF Release
    <3>2. \/ lock' = lock
          \/ /\ lock[task[w].msg] = w
             /\ lock' = [lock EXCEPT ![task[w].msg] = Free]
      BY <3>1 DEF Released
    <3> QED BY <1>1, <2>4, <3>1, <3>2
  <2>8. CASE Crash(w)
    BY <2>4, <2>8 DEF Crash
  <2>9. CASE (Step(w) /\ ~Acquire(w) /\ ~Release(w)) \/ Fail(w)
    <3>1. task'[w].msg = task[w].msg
      <4>1. Fail(w) => ~Acquire(w) /\ ~Release(w)
        BY DEF Fail, Acquire, Release
      <4> QED BY <2>9, <4>1, TaskSteps
    <3>2. lock' = lock /\ pc[w] \notin {"idle", "acquire"}
      BY <2>9 DEF Step, Lookup, ResolveContact,
         CreateContact, FindOpen, FindLast, Reopen, NextProtocol,
         CreateConversation, RouteNew, StoreMessage, Bump, Notice, SendNotice,
         Record, Fail, Idle
    <3>3. InSection(v, m)
      BY <1>1, <2>2, <3>1, <3>2 DEF InSection
    <3> QED BY <1>2, <3>2, <3>3
  <2> QED BY <1>3, <2>5, <2>6, <2>7, <2>8, <2>9 DEF Trouble
<1>4. ASSUME NEW k \in Messages, Deliver(k) PROVE lock'[m] = v
  <2>1. PICK w \in Workers, n \in ConnsOf[k] : Begin(w, k, n)
    BY <1>4 DEF Deliver
  <2>2. /\ \A u \in Workers \ {w} : pc'[u] = pc[u] /\ task'[u] = task[u]
        /\ pc'[w] = "acquire" /\ lock' = lock
    BY <1>1, <2>1 DEF Begin, Goto, Idle
  <2>3. InSection(v, m)
    BY <1>1, <2>2 DEF InSection
  <2> QED BY <1>2, <2>2, <2>3
<1>5. ASSUME NEW k \in Messages, Expire(k) PROVE lock'[m] = v
  <2>1. InSection(v, m) /\ lock[m] = v
    BY <1>1, <1>2, <1>5 DEF Expire, InSection
  <2>2. m # k
    BY <1>5, <2>1 DEF Expire
  <2> QED BY <1>1, <1>5, <2>1, <2>2 DEF Expire, Expired
<1>6. ASSUME UNCHANGED <<lock, pc, task>> PROVE lock'[m] = v
  BY <1>1, <1>2, <1>6 DEF InSection
<1>7. ASSUME NEW e \in Editors,
             EditStore(e) \/ \E c \in ConvIds : EditLoad(e, c)
      PROVE  lock'[m] = v
  BY <1>6, <1>7 DEF EditStore, EditLoad
<1>8. CASE UNCHANGED vars
  BY <1>6, <1>8 DEF vars
<1> QED BY <1>3, <1>4, <1>5, <1>7, <1>8 DEF Next

\* Provided Handle ends within the TTL, two requests are never at work on the
\* same message: each holds the message's lock until its release.
LEMMA LockHolds ==
    ASSUME Outlive = FALSE
    PROVE  Spec => []Locked
<1>1. Init => Locked
  BY DEF Init, Locked, InSection
<1>2. TypeOK /\ Linked /\ Locked /\ [Next]_vars => Locked'
  BY LockSteps
<1> QED BY <1>1, <1>2, TypesHold, PTL DEF Spec

\* Where a worker has looked its message up and has not stored it.
Missing == {"contact", "newcontact", "open", "last", "reopen", "protocol",
            "create", "route", "store"}

\* The message is in no conversation.
Nowhere(m) == \A c \in ConvIds : stored[m][c] = 0

\* The message is once in the conversation c and in no other.
OnlyIn(m, c) ==
    \A d \in ConvIds : stored[m][d] = IF d = c THEN 1 ELSE 0

\* A message is stored nowhere, or once, by the worker that has still to record
\* its id, or once, where the ledger says.
Single(m) ==
    /\ \A w \in Workers :
          /\ pc[w] \in Missing /\ task[w].msg = m => Nowhere(m)
          /\ pc[w] \in Half /\ task[w].msg = m
             => ledger[m] = 0 /\ OnlyIn(m, task[w].conv)
    /\ ledger[m] # 0 => OnlyIn(m, ledger[m])
    /\ \/ ledger[m] # 0
       \/ Nowhere(m)
       \/ \E w \in Workers : pc[w] \in Half /\ task[w].msg = m

\* Until an attempt is torn, a message is stored at most once.
Once == \A m \in Messages \ torn : Single(m)

\* A step that stores and records nothing of a message keeps Single, if its
\* worker neither enters nor leaves the half-done part with this message and
\* goes on only while the message is nowhere.
LEMMA SingleStays ==
    ASSUME NEW w \in Workers, NEW m \in Messages, Single(m),
           \A v \in Workers \ {w} : pc'[v] = pc[v] /\ task'[v] = task[v],
           stored'[m] = stored[m], ledger'[m] = ledger[m],
           pc'[w] \in Missing /\ task'[w].msg = m => Nowhere(m),
           pc'[w] \in Half /\ task'[w].msg = m => pc[w] \in Half,
           pc[w] \in Half /\ task[w].msg = m
              => /\ pc'[w] \in Half
                 /\ task'[w].msg = m
                 /\ task'[w].conv = task[w].conv,
           pc'[w] \in Half => task'[w].msg = task[w].msg
    PROVE  Single(m)'
<1>1. Nowhere(m) => Nowhere(m)'
  BY DEF Nowhere
<1>2. ASSUME NEW v \in Workers
      PROVE  /\ pc'[v] \in Missing /\ task'[v].msg = m => Nowhere(m)'
             /\ pc'[v] \in Half /\ task'[v].msg = m
                => ledger'[m] = 0 /\ OnlyIn(m, task[v].conv)'
  BY <1>1 DEF Single, Nowhere, OnlyIn
<1>3. \/ ledger'[m] # 0
      \/ Nowhere(m)'
      \/ \E v \in Workers : pc'[v] \in Half /\ task'[v].msg = m
  <2>1. CASE \E v \in Workers : pc[v] \in Half /\ task[v].msg = m
    <3>1. PICK v \in Workers : pc[v] \in Half /\ task[v].msg = m
      BY <2>1
    <3>2. pc'[v] \in Half /\ task'[v].msg = m
      BY <3>1
    <3> QED BY <3>2
  <2>2. CASE ledger[m] # 0 \/ Nowhere(m)
    BY <1>1, <2>2
  <2> QED BY <2>1, <2>2 DEF Single
<1>4. ledger'[m] # 0 => OnlyIn(m, ledger[m])'
  BY DEF Single, OnlyIn
<1> QED BY <1>2, <1>3, <1>4 DEF Single

\* Every step of a worker that holds its message's lock keeps Once.
LEMMA OnceWorker ==
    ASSUME TypeOK, Linked, Locked, Once, NEW w \in Workers,
           \/ Step(w) \/ Trouble(w)
           \/ \E m \in Messages : \E k \in ConnsOf[m] : Begin(w, m, k)
    PROVE  Once'
<1>1. \A v \in Workers \ {w} : pc'[v] = pc[v] /\ task'[v] = task[v]
  BY OthersStay
<1>2. /\ pc \in [Workers -> Labels]
      /\ task \in [Workers -> Tasks \cup {NoTask}]
      /\ stored \in [Messages -> [ConvIds -> Nat]]
      /\ ledger \in [Messages -> ConvIds \cup {0}]
      /\ pc[w] # "idle" => task[w] \in Tasks /\ task[w].msg \in Messages
      /\ pc[w] \in Holding => task[w].conv \in ConvIds
  BY WorkerFacts, TaskTypes DEF TypeOK
<1>3. torn \subseteq torn'
  BY DEF Step, Trouble, Begin, Acquire, AcquireError, Lookup, ResolveContact,
         CreateContact, FindOpen, FindLast, Reopen, NextProtocol,
         CreateConversation, RouteNew, StoreMessage, Bump, Notice, SendNotice,
         Record, Release, Fail, Crash, Idle
<1>4. SUFFICES ASSUME NEW m \in Messages, m \notin torn', Single(m)
               PROVE  Single(m)'
  BY <1>3 DEF Once
<1>5. ASSUME NEW v \in Workers \ {w}, pc[w] \notin {"idle", "acquire"},
             task[w].msg = m, pc[v] \in Missing \cup Half, task[v].msg = m
      PROVE  FALSE
  <2>1. InSection(w, m) /\ InSection(v, m)
    BY <1>5 DEF InSection, Missing, Half
  <2> QED BY <1>5, <2>1 DEF Locked
<1>6. ASSUME UNCHANGED <<stored, ledger>>, pc'[w] \notin Missing \cup Half,
             pc[w] \notin Half \/ task[w].msg # m
      PROVE  Single(m)'
  BY <1>1, <1>4, <1>6, SingleStays DEF Missing, Half
<1>7. CASE \E k \in Messages : \E n \in ConnsOf[k] : Begin(w, k, n)
  <2>1. /\ pc[w] = "idle" /\ pc'[w] = "acquire" /\ UNCHANGED <<stored, ledger>>
    BY <1>2, <1>7 DEF Begin, Goto, stores
  <2> QED BY <1>6, <2>1 DEF Missing, Half
<1>8. CASE AcquireError(w) \/ Acquire(w) \/ Release(w)
  <2>1. /\ pc'[w] \in {"idle", "lookup"} /\ UNCHANGED <<stored, ledger>>
        /\ pc[w] \in {"acquire", "release"}
    BY <1>2, <1>8 DEF AcquireError, Acquire, Release, Finish, Goto, stores
  <2> QED BY <1>6, <2>1 DEF Missing, Half
<1>9. CASE Fail(w) \/ Crash(w)
  <2>1. /\ pc'[w] \in {"idle", "release"} /\ UNCHANGED <<stored, ledger>>
        /\ torn' = IF pc[w] \in Half THEN torn \cup {task[w].msg} ELSE torn
    BY <1>2, <1>9 DEF Fail, Crash, Finish, Goto, stores
  <2> QED BY <1>4, <1>6, <2>1 DEF Missing, Half
<1>10. CASE Lookup(w)
  <2>1. UNCHANGED <<stored, ledger>> /\ pc[w] = "lookup"
    BY <1>10 DEF Lookup, stores
  <2>2. CASE ledger[task[w].msg] # 0
    BY <1>2, <1>6, <1>10, <2>1, <2>2
       DEF Lookup, Succeed, Goto, Missing, Half
  <2>3. CASE ledger[task[w].msg] = 0
    <3>1. task' = task /\ pc'[w] = "contact"
      BY <1>2, <1>10, <2>3 DEF Lookup, Goto
    <3>2. task[w].msg = m => Nowhere(m)
      <4>1. ASSUME task[w].msg = m, NEW v \in Workers, pc[v] \in Half,
                   task[v].msg = m
            PROVE  FALSE
        BY <1>5, <2>1, <4>1 DEF Half
      <4> QED BY <1>4, <2>3, <4>1 DEF Single
    <3> QED
      BY <1>1, <1>4, <2>1, <3>1, <3>2, SingleStays DEF Missing, Half
  <2> QED BY <2>2, <2>3
<1>11. CASE \/ ResolveContact(w) \/ CreateContact(w) \/ FindOpen(w)
            \/ FindLast(w) \/ Reopen(w) \/ NextProtocol(w)
            \/ CreateConversation(w) \/ RouteNew(w)
  <2>1. pc[w] \in Missing /\ UNCHANGED <<stored, ledger>>
    BY <1>11 DEF ResolveContact, CreateContact, FindOpen, FindLast, Reopen,
       NextProtocol, CreateConversation, RouteNew, Missing, stores
  <2>2. pc'[w] \in Missing \cup {"release"}
    BY <1>2, <1>11 DEF ResolveContact, CreateContact, FindOpen, FindLast,
       Reopen, NextProtocol, CreateConversation, RouteNew, Missing, Succeed,
       Goto
  <2>3. task'[w].msg = task[w].msg
    BY <1>11, TaskSteps DEF Step, Acquire, Release, ResolveContact,
       CreateContact, FindOpen, FindLast, Reopen, NextProtocol,
       CreateConversation, RouteNew
  <2>4. task[w].msg = m => Nowhere(m)
    BY <1>4, <2>1 DEF Single
  <2> QED
    BY <1>1, <1>4, <2>1, <2>2, <2>3, <2>4, SingleStays DEF Missing, Half
<1>12. CASE StoreMessage(w)
  <2>1. /\ pc[w] = "store" /\ pc'[w] = "bump" /\ UNCHANGED <<ledger, task>>
        /\ stored' = [stored EXCEPT ![task[w].msg][task[w].conv] = @ + 1]
    BY <1>2, <1>12 DEF StoreMessage, Goto
  <2>2. task[w].msg \in Messages /\ task[w].conv \in ConvIds
    BY <1>2, <2>1 DEF Holding
  <2>3. CASE task[w].msg # m
    <3>1. stored'[m] = stored[m]
      BY <1>2, <2>1, <2>2, <2>3
    <3> QED
      BY <1>1, <1>4, <2>1, <2>3, <3>1, SingleStays DEF Missing, Half
  <2>4. CASE task[w].msg = m
    <3>1. Nowhere(m)
      BY <1>4, <2>1, <2>4 DEF Single, Missing
    <3>2. OnlyIn(m, task[w].conv)'
      BY <1>2, <2>1, <2>2, <2>4, <3>1 DEF Nowhere, OnlyIn
    <3>3. ledger'[m] = 0
      <4>1. ASSUME ledger[m] # 0 PROVE FALSE
        <5>1. ledger[m] \in ConvIds /\ stored[m][ledger[m]] = 1
          BY <1>2, <1>4, <4>1 DEF Single, OnlyIn
        <5> QED BY <3>1, <5>1 DEF Nowhere
      <4> QED BY <2>1, <4>1
    <3>4. ASSUME NEW v \in Workers \ {w}, pc'[v] \in Missing \cup Half,
                 task'[v].msg = m
          PROVE  FALSE
      BY <1>1, <1>5, <2>1, <2>4, <3>4
    <3>5. pc'[w] \in Half /\ pc'[w] \notin Missing /\ task'[w].msg = m
      BY <2>1, <2>4 DEF Half, Missing
    <3> QED BY <3>2, <3>3, <3>4, <3>5 DEF Single
  <2> QED BY <2>3, <2>4
<1>13. CASE Bump(w) \/ Notice(w) \/ SendNotice(w)
  <2>1. /\ pc[w] \in Half /\ pc'[w] \in Half
        /\ UNCHANGED <<stored, ledger, task>>
    BY <1>2, <1>13 DEF Bump, Notice, SendNotice, Half, Goto, stores
  <2> QED BY <1>1, <1>4, <2>1, SingleStays DEF Missing, Half
<1>14. CASE Record(w)
  <2>1. /\ pc[w] = "record" /\ pc'[w] = "release" /\ UNCHANGED stored
        /\ ledger' = IF ledger[task[w].msg] = 0
                     THEN [ledger EXCEPT ![task[w].msg] = task[w].conv]
                     ELSE ledger
    BY <1>2, <1>14 DEF Record, Succeed, Goto
  <2>2. task[w].msg \in Messages /\ task[w].conv \in ConvIds
    BY <1>2, <2>1 DEF Holding, Half
  <2>3. CASE task[w].msg # m
    <3>1. ledger'[m] = ledger[m]
      BY <1>2, <2>1, <2>2, <2>3
    <3> QED
      BY <1>1, <1>4, <2>1, <2>3, <3>1, SingleStays DEF Missing, Half
  <2>4. CASE task[w].msg = m
    <3>1. ledger[m] = 0 /\ OnlyIn(m, task[w].conv)
      BY <1>4, <2>1, <2>4 DEF Single, Half
    <3>2. ledger'[m] = task[w].conv /\ ledger'[m] # 0
      BY <1>2, <2>1, <2>2, <2>4, <3>1 DEF ConvIds
    <3>3. OnlyIn(m, ledger[m])'
      BY <2>1, <3>1, <3>2 DEF OnlyIn
    <3>4. ASSUME NEW v \in Workers, pc'[v] \in Missing \cup Half,
                 task'[v].msg = m
          PROVE  FALSE
      BY <1>1, <1>5, <2>1, <2>4, <3>4 DEF Missing, Half
    <3> QED BY <3>2, <3>3, <3>4 DEF Single
  <2> QED BY <2>3, <2>4
<1> QED
  BY <1>7, <1>8, <1>9, <1>10, <1>11, <1>12, <1>13, <1>14 DEF Step, Trouble

\* A message is stored at most once, however often the gateway repeats it and
\* however the repetitions interleave, provided Handle ends within
\* inboundLockTTL and unless an attempt failed between storing the message and
\* recording its id.
THEOREM MessagesAreStoredOnce ==
    ASSUME Outlive = FALSE
    PROVE  Spec => []StoredOnce
<1>1. Init => Once
  BY DEF Init, Once, Single, Nowhere, Missing, Half
<1>2. TypeOK /\ Linked /\ Locked /\ Once /\ [Next]_vars => Once'
  <2> SUFFICES ASSUME TypeOK, Linked, Locked, Once, [Next]_vars PROVE Once'
    OBVIOUS
  <2>1. ASSUME NEW w \in Workers, Step(w) \/ Trouble(w) PROVE Once'
    BY <2>1, OnceWorker
  <2>2. ASSUME NEW m \in Messages, Deliver(m) PROVE Once'
    BY <2>2, OnceWorker DEF Deliver
  <2>3. ASSUME UNCHANGED <<stored, ledger, pc, task, torn>> PROVE Once'
    BY <2>3 DEF Once, Single, Nowhere, OnlyIn
  <2>4. ASSUME NEW m \in Messages, Expire(m) PROVE Once'
    BY <2>3, <2>4 DEF Expire, stores
  <2>5. ASSUME NEW e \in Editors,
               EditStore(e) \/ \E c \in ConvIds : EditLoad(e, c)
        PROVE  Once'
    BY <2>3, <2>5 DEF EditStore, EditLoad, stores
  <2>6. CASE UNCHANGED vars
    BY <2>3, <2>6 DEF vars, stores
  <2> QED BY <2>1, <2>2, <2>4, <2>5, <2>6 DEF Next
<1>3. TypeOK /\ Linked /\ Once => StoredOnce
  <2> SUFFICES ASSUME TypeOK, Linked, Once, NEW m \in Messages \ torn,
                      NEW c \in ConvIds, NEW d \in ConvIds,
                      stored[m][c] > 0, stored[m][d] > 0
               PROVE  c = d /\ stored[m][c] = 1
    BY DEF StoredOnce
  <2>1. PICK k : OnlyIn(m, k)
    <3>1. ~Nowhere(m)
      BY DEF Nowhere
    <3> QED BY <3>1 DEF Once, Single
  <2> QED BY <2>1 DEF OnlyIn
<1> QED BY <1>1, <1>2, <1>3, TypesHold, LockHolds, PTL DEF Spec
=============================================================================
