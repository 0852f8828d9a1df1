------------------------------ MODULE Sockets -------------------------------
(***************************************************************************)
(* The WebSocket endpoint of one node (presenter/websocket/handler.go) with  *)
(* the hub behind it (infra/realtime/hub.go) and the presence of the agent   *)
(* who opens the sockets (domain/presence/service, infra/presence).          *)
(*                                                                          *)
(* Every socket has two goroutines: the read pump, which ends when the peer  *)
(* is gone and then cleans up, and the write pump, which ends at the first   *)
(* write that fails.  Neither waits for the other.  The hub's operations are *)
(* atomic under its mutex; every Redis call of the presence store is a step  *)
(* of its own.  A client value is one connection: ids are never used again.  *)
(***************************************************************************)
EXTENDS Naturals, Sequences, FiniteSets

CONSTANTS Clients,      \* connections of one agent
          Events,       \* events published to rooms the agent follows
          BufferSize,   \* capacity of Send
          Workloads,    \* configurations and what a behaviour exercises: connections,
                        \* the limit per user, events, presence, changes, faults
          Api, Watcher  \* the request that sets the availability, the expiry watcher

ASSUME SocketsAssumption ==
    /\ BufferSize \in Nat \ {0}
    /\ Api \notin Clients /\ Watcher \notin Clients /\ Api # Watcher
    /\ Workloads \subseteq [clients : SUBSET Clients, max : Nat, events : SUBSET Events,
                            presence : BOOLEAN, settings : Nat, faults : Nat]

VARIABLES pc,         \* where the handler of a connection is
          pump,       \* its write pump: off, on, dead
          slots,      \* userConns of the agent
          topics,     \* rooms the hub has for a connection
          send,       \* its buffer
          resync,     \* its resync signal
          coming,     \* events of the fan-out channel this node has yet to receive
          due, known, \* what the feed owes each client (see Feed)
          conns,      \* presence:conns: the connections it lists, fresh or stale
          notices,    \* expirations of the key nobody has handled yet
          user,       \* durable availability and auto_offline of the agent
          status,     \* the cached effective status
          job,        \* recomputations under way
          load,
          crossed     \* nothing under way will put the cached status right: since
                      \* the last recomputation that nothing overtook, one was
                      \* overtaken or failed, an expiration or a timer got lost,
                      \* or a connection was listed that nobody counts as the first

hub == <<slots, topics, send, resync, coming, due, known>>
presence == <<conns, notices, user, status, job, crossed>>
vars == <<pc, pump, hub, presence, load>>

Rooms == {"tenant", "conversation"}

NoJob == [at |-> "none", user |-> [availability |-> "online", auto |-> TRUE],
          live |-> FALSE, behind |-> FALSE]
Jobs == Clients \cup {Api, Watcher}

\* ResolveEffective
Effective(u, live) ==
    IF u.availability # "online" THEN u.availability
    ELSE IF live \/ ~u.auto THEN "online" ELSE "offline"

Init ==
    /\ pc = [c \in Clients |-> "new"]
    /\ pump = [c \in Clients |-> "off"]
    /\ slots = 0
    /\ topics = [c \in Clients |-> {}]
    /\ send = [c \in Clients |-> <<>>]
    /\ resync = [c \in Clients |-> FALSE]
    /\ due = [c \in Clients |-> {}]
    /\ known = [c \in Clients |-> {}]
    /\ conns = [c \in Clients |-> "none"]
    /\ notices = 0
    /\ user = [availability |-> "online", auto |-> TRUE]
    /\ status = "offline"
    /\ job = [j \in Jobs |-> NoJob]
    /\ load \in Workloads
    /\ coming = load.events
    /\ crossed = FALSE

\* What the environment does against a behaviour is bounded.
Fault == load.faults > 0 /\ load' = [load EXCEPT !.faults = @ - 1]

At(c, step) == pc[c] = step
Closed(c) == pc[c] \in {"done", "grace"}
Go(c, step) == pc' = [pc EXCEPT ![c] = step]

-----------------------------------------------------------------------------
(* The handler, up to the pumps.                                             *)

\* A limit of 0 is none.
Register(c) ==
    /\ At(c, "new") /\ c \in load.clients
    /\ IF load.max = 0 \/ slots < load.max THEN slots' = slots + 1 /\ Go(c, "registered")
       ELSE Go(c, "done") /\ UNCHANGED slots
    /\ UNCHANGED <<pump, topics, send, resync, coming, due, known, presence, load>>

\* Mutation of UpgradeFails: the slot is not given back.
UpgradeFailsKeepsSlot(c) ==
    /\ At(c, "registered") /\ Fault
    /\ Go(c, "done")
    /\ UNCHANGED <<pump, hub, presence>>

\* A connection that closed meanwhile saw the slot taken and set no timer.
UpgradeFails(c) ==
    /\ At(c, "registered") /\ Fault
    /\ slots' = slots - 1
    /\ crossed' = (crossed \/ (load.presence /\ \E d \in Clients : At(d, "done")))
    /\ Go(c, "done")
    /\ UNCHANGED <<pump, topics, send, resync, coming, due, known,
                   conns, notices, user, status, job>>

\* The upgrade, and joinDefaultRooms.
Upgrade(c) ==
    /\ At(c, "registered")
    /\ topics' = [topics EXCEPT ![c] = {"tenant"}]
    /\ Go(c, IF load.presence THEN "count" ELSE "start")
    /\ UNCHANGED <<pump, slots, send, resync, coming, due, known, presence, load>>

StartPumps(c) ==
    /\ At(c, "start") /\ job[c].at = "none"
    /\ Go(c, "open")
    /\ pump' = [pump EXCEPT ![c] = "on"]
    /\ UNCHANGED <<hub, presence, load>>

\* Control frames of the client.
Subscribe(c) ==
    /\ At(c, "open") /\ load.events # {}
    /\ topics' = [topics EXCEPT ![c] = Rooms]
    /\ UNCHANGED <<pc, pump, slots, send, resync, coming, due, known, presence, load>>

Unsubscribe(c) ==
    /\ At(c, "open")
    /\ topics' = [topics EXCEPT ![c] = @ \ {"conversation"}]
    /\ UNCHANGED <<pc, pump, slots, send, resync, coming, due, known, presence, load>>

-----------------------------------------------------------------------------
(* The hub and the write pump.                                               *)

\* Mutation of Deliver: a full buffer drops the event and tells nobody.
DeliverDrops ==
    \E e \in coming :
        LET to == {c \in Clients : e.room \in topics[c]}
        IN  /\ coming' = coming \ {e}
            /\ send' = [c \in Clients |->
                          IF c \in to /\ Len(send[c]) < BufferSize THEN Append(send[c], e) ELSE send[c]]
            /\ due' = [c \in Clients |-> IF c \in to THEN due[c] \cup {e} ELSE due[c]]
            /\ UNCHANGED <<pc, pump, slots, topics, resync, known, presence, load>>

\* A message of the fan-out channel: a full buffer raises the resync signal,
\* which holds one.
Deliver ==
    \E e \in coming :
        LET to == {c \in Clients : e.room \in topics[c]}
            full == {c \in to : Len(send[c]) = BufferSize}
        IN  /\ coming' = coming \ {e}
            /\ send' = [c \in Clients |-> IF c \in to \ full THEN Append(send[c], e) ELSE send[c]]
            /\ resync' = [c \in Clients |-> resync[c] \/ c \in full]
            /\ due' = [c \in Clients |-> IF c \in to THEN due[c] \cup {e} ELSE due[c]]
            /\ UNCHANGED <<pc, pump, slots, topics, known, presence, load>>

\* Redis pub/sub keeps nothing for a subscriber that is away.
LoseEvent ==
    /\ Fault
    /\ \E e \in coming : coming' = coming \ {e}
    /\ UNCHANGED <<pc, pump, slots, topics, send, resync, due, known, presence>>

\* A frame of the buffer.
WriteMessage(c) ==
    /\ pump[c] = "on" /\ send[c] # <<>> /\ ~Closed(c)
    /\ send' = [send EXCEPT ![c] = Tail(@)]
    /\ known' = [known EXCEPT ![c] = @ \cup {Head(send[c])}]
    /\ UNCHANGED <<pc, pump, slots, topics, resync, coming, due, presence, load>>

\* A resync frame: the client refetches.
WriteResync(c) ==
    /\ pump[c] = "on" /\ resync[c] /\ ~Closed(c)
    /\ resync' = [resync EXCEPT ![c] = FALSE]
    /\ known' = [known EXCEPT ![c] = due[c]]
    /\ UNCHANGED <<pc, pump, slots, topics, send, coming, due, presence, load>>

\* A write that fails ends the pump: the peer does not take it in time, or the
\* socket was closed.
WriteFails(c) ==
    /\ pump[c] = "on"
    /\ IF Closed(c) THEN UNCHANGED load ELSE Fault
    /\ pump' = [pump EXCEPT ![c] = "dead"]
    /\ UNCHANGED <<pc, hub, presence>>

Fresh == {c \in Clients : conns[c] = "fresh"}
Up(c) == pc[c] \in {"start", "open"}

\* The heartbeat renews the connection in Redis before it writes to the
\* socket, of a connection that is closed already too.  It lists one again that
\* lapsed, was deleted or never was listed, and has nothing recomputed.
Heartbeat(c) ==
    /\ pump[c] = "on" /\ load.presence
    /\ conns' = [conns EXCEPT ![c] = "fresh"]
    /\ job' = [j \in Jobs |-> IF conns[c] # "fresh" /\ job[j].at = "save"
                              THEN [job[j] EXCEPT !.behind = TRUE] ELSE job[j]]
    /\ crossed' = (crossed \/ (/\ At(c, "open") /\ conns[c] # "fresh"
                               /\ \A d \in Fresh : ~Up(d)))
    /\ pump' = [pump EXCEPT ![c] = IF Closed(c) THEN "dead" ELSE "on"]
    /\ UNCHANGED <<pc, hub, notices, user, status, load>>

-----------------------------------------------------------------------------
(* The read pump ends: the peer closed or, when nothing is written to it any  *)
(* more, no pong came before the read deadline.                              *)

\* hub.Remove
Leave(c) ==
    /\ At(c, "open")
    /\ topics' = [topics EXCEPT ![c] = {}]
    /\ slots' = slots - 1
    /\ Go(c, IF load.presence THEN "zrem" ELSE "done")
    /\ UNCHANGED <<pump, send, resync, coming, due, known, presence, load>>

ReadError(c) == pump[c] = "on" /\ Leave(c)
ReadDeadline(c) == pump[c] = "dead" /\ Leave(c)

\* The node dies: its sockets, pumps, timers and recomputations with it.
Crash ==
    /\ Fault
    /\ pc' = [c \in Clients |-> IF At(c, "new") THEN "new" ELSE "done"]
    /\ pump' = [c \in Clients |-> IF At(c, "new") THEN "off" ELSE "dead"]
    /\ slots' = 0
    /\ topics' = [c \in Clients |-> {}]
    /\ job' = [j \in Jobs |-> NoJob]
    /\ crossed' = (crossed \/ (\E j \in Jobs : job[j].at # "none")
                           \/ \E c \in Clients : /\ pc[c] \notin {"new", "done"}
                                                /\ ~(At(c, "open") /\ conns[c] = "fresh"))
    /\ UNCHANGED <<send, resync, coming, due, known, conns, notices, user, status>>

-----------------------------------------------------------------------------
(* Presence: the store.                                                      *)

\* prune and ZCARD see what is fresh.
Pruned == [c \in Clients |-> IF conns[c] = "stale" THEN "none" ELSE conns[c]]

\* Recomputations that have read the live sockets, when that changes.
LiveChanges(now) ==
    job' = [j \in Jobs |-> IF job[j].at = "save" /\ job[j].live # now
                           THEN [job[j] EXCEPT !.behind = TRUE] ELSE job[j]]

\* Connect: prune and ZCARD, then ZADD with EXPIRE; the first live socket has
\* the status recomputed.  Nobody does when the others lapse in between, or when
\* they were closed before and only a last heartbeat has listed them again.
Count(c) ==
    /\ At(c, "count")
    /\ conns' = Pruned
    /\ Go(c, IF Fresh = {} THEN "add" ELSE "addQuietly")
    /\ UNCHANGED <<pump, hub, notices, user, status, job, crossed, load>>

Add(c) ==
    /\ At(c, "add") \/ At(c, "addQuietly")
    /\ conns' = [conns EXCEPT ![c] = "fresh"]
    /\ Go(c, "start")
    /\ job' = [j \in Jobs |->
                 IF j = c /\ At(c, "add") THEN [NoJob EXCEPT !.at = "user"]
                 ELSE IF job[j].at = "save" /\ ~job[j].live THEN [job[j] EXCEPT !.behind = TRUE]
                 ELSE job[j]]
    /\ crossed' = (crossed \/ (At(c, "addQuietly") /\ \A d \in Fresh : ~Up(d)))
    /\ UNCHANGED <<pump, hub, notices, user, status, load>>

\* Disconnect: ZREM; prune and ZCARD; DEL of a set found empty, which takes a
\* connection added meanwhile with it.
ZRem(c) ==
    /\ At(c, "zrem")
    /\ conns' = [conns EXCEPT ![c] = "none"]
    /\ LiveChanges(Fresh \ {c} # {})
    /\ Go(c, "card")
    /\ UNCHANGED <<pump, hub, notices, user, status, crossed, load>>

ZCard(c) ==
    /\ At(c, "card")
    /\ conns' = Pruned
    /\ Go(c, IF Fresh = {} THEN "del" ELSE "schedule")
    /\ UNCHANGED <<pump, hub, notices, user, status, job, crossed, load>>

Del(c) ==
    /\ At(c, "del")
    /\ conns' = [d \in Clients |-> "none"]
    /\ LiveChanges(FALSE)
    /\ Go(c, "schedule")
    /\ UNCHANGED <<pump, hub, notices, user, status, crossed, load>>

\* The handler ignores the errors of the store.  A ZCARD that fails counts nobody
\* and a prune that fails leaves the stale to be counted; a ZADD that fails lists
\* nothing, a ZREM that fails goes no further, a DEL that fails has nothing left
\* to delete.
CallFails(c) ==
    /\ Fault
    /\ \/ At(c, "count") /\ Go(c, "add")
       \/ At(c, "count") /\ (\E d \in Clients : conns[d] = "stale") /\ Go(c, "addQuietly")
       \/ (At(c, "add") \/ At(c, "addQuietly")) /\ Go(c, "start")
       \/ At(c, "zrem") /\ Go(c, "schedule")
       \/ At(c, "card") /\ Go(c, "del")
       \/ At(c, "card") /\ (\E d \in Clients : conns[d] = "stale") /\ Go(c, "schedule")
       \/ At(c, "del") /\ Go(c, "schedule")
    /\ UNCHANGED <<pump, hub, presence>>

\* Mutation of Schedule: the connection that closes still counts.
ScheduleCountsItself(c) ==
    /\ At(c, "schedule")
    /\ Go(c, IF slots + 1 > 0 THEN "done" ELSE "grace")
    /\ UNCHANGED <<pump, hub, presence, load>>

\* scheduleVanish: a timer when no local connection is left; the socket is
\* closed after it.
Schedule(c) ==
    /\ At(c, "schedule")
    /\ Go(c, IF slots > 0 THEN "done" ELSE "grace")
    /\ UNCHANGED <<pump, hub, presence, load>>

\* The grace is over: nothing if the agent is back, else Vanished.
Vanish(c) ==
    /\ At(c, "grace")
    /\ Go(c, "done")
    /\ job' = IF slots > 0 THEN job ELSE [job EXCEPT ![c] = [NoJob EXCEPT !.at = "user"]]
    /\ UNCHANGED <<pump, hub, conns, notices, user, status, crossed, load>>

\* A connection nobody renews gets older than the TTL; nor does a pump whose
\* heartbeats fail, whose errors are ignored.
Lapse(c) ==
    /\ conns[c] = "fresh"
    /\ IF pump[c] = "dead" THEN UNCHANGED load ELSE pump[c] = "on" /\ Fault
    /\ conns' = [conns EXCEPT ![c] = "stale"]
    /\ LiveChanges(Fresh \ {c} # {})
    /\ UNCHANGED <<pc, pump, hub, notices, user, status, crossed>>

\* The key itself expires, and Redis tells the watcher.
KeyExpires ==
    /\ Fresh = {} /\ \E c \in Clients : conns[c] = "stale"
    /\ conns' = [c \in Clients |-> "none"]
    /\ notices' = notices + 1
    /\ UNCHANGED <<pc, pump, hub, user, status, job, crossed, load>>

\* dispatch, one notice at a time.
Watch ==
    /\ notices > 0 /\ job[Watcher].at = "none"
    /\ notices' = notices - 1
    /\ job' = [job EXCEPT ![Watcher] = [NoJob EXCEPT !.at = "user"]]
    /\ UNCHANGED <<pc, pump, hub, conns, user, status, crossed, load>>

\* Keyspace notifications are not kept for a watcher that is away.
LoseNotice ==
    /\ notices > 0 /\ Fault
    /\ notices' = notices - 1
    /\ crossed' = TRUE
    /\ UNCHANGED <<pc, pump, hub, conns, user, status, job>>

-----------------------------------------------------------------------------
(* Presence: the service.                                                    *)

\* SetStatus and SetAutoOffline.
SetSettings ==
    /\ load.settings > 0 /\ job[Api].at = "none"
    /\ \E u \in [availability : {"online", "away"}, auto : BOOLEAN] :
          /\ u # user
          /\ user' = u
    /\ job' = [j \in Jobs |->
                 IF j = Api THEN [NoJob EXCEPT !.at = "user"]
                 ELSE IF job[j].at \in {"live", "save"} THEN [job[j] EXCEPT !.behind = TRUE]
                 ELSE job[j]]
    /\ load' = [load EXCEPT !.settings = @ - 1]
    /\ UNCHANGED <<pc, pump, hub, conns, notices, status, crossed>>

\* recomputeAndPublish: the user document, HasLiveSocket, Save.
ReadUser(j) ==
    /\ job[j].at = "user"
    /\ job' = [job EXCEPT ![j].at = "live", ![j].user = user]
    /\ UNCHANGED <<pc, pump, hub, conns, notices, user, status, crossed, load>>

HasLiveSocket(j) ==
    /\ job[j].at = "live"
    /\ job' = [job EXCEPT ![j].at = "save", ![j].live = Fresh # {}]
    /\ conns' = Pruned
    /\ UNCHANGED <<pc, pump, hub, notices, user, status, crossed, load>>

\* A prune that fails has HasLiveSocket count the stale ones too.
MiscountsLive(j) ==
    /\ job[j].at = "live" /\ Fault
    /\ \E d \in Clients : conns[d] = "stale"
    /\ job' = [job EXCEPT ![j].at = "save", ![j].live = TRUE, ![j].behind = TRUE]
    /\ UNCHANGED <<pc, pump, hub, conns, notices, user, status, crossed>>

\* One of its reads or the write fails: the status stays as it was, and every
\* caller but the API's ignores the error.
RecomputeFails(j) ==
    /\ job[j].at # "none" /\ Fault
    /\ job' = [job EXCEPT ![j] = NoJob]
    /\ crossed' = TRUE
    /\ UNCHANGED <<pc, pump, hub, conns, notices, user, status>>

Save(j) ==
    /\ job[j].at = "save"
    /\ status' = Effective(job[j].user, job[j].live)
    /\ crossed' = job[j].behind
    /\ job' = [job EXCEPT ![j] = NoJob]
    /\ UNCHANGED <<pc, pump, hub, conns, notices, user, load>>

-----------------------------------------------------------------------------
Handler(c) ==
    \/ Register(c) \/ UpgradeFails(c) \/ Upgrade(c) \/ StartPumps(c)
    \/ Subscribe(c) \/ Unsubscribe(c)
    \/ WriteMessage(c) \/ WriteResync(c) \/ WriteFails(c) \/ Heartbeat(c)
    \/ ReadError(c) \/ ReadDeadline(c)
    \/ Count(c) \/ Add(c) \/ ZRem(c) \/ ZCard(c) \/ Del(c)
    \/ CallFails(c) \/ Schedule(c) \/ Vanish(c) \/ Lapse(c)

Next ==
    \/ \E c \in Clients : Handler(c)
    \/ \E j \in Jobs : ReadUser(j) \/ HasLiveSocket(j) \/ Save(j)
                      \/ MiscountsLive(j) \/ RecomputeFails(j)
    \/ Deliver \/ LoseEvent \/ Crash \/ KeyExpires \/ Watch \/ LoseNotice \/ SetSettings

\* A pump writes what it has, a connection nothing is written to meets its read
\* deadline, and the presence calls before the pumps run under a deadline too.
Fairness ==
    \A c \in Clients :
        /\ WF_vars(WriteMessage(c)) /\ WF_vars(WriteResync(c)) /\ WF_vars(ReadDeadline(c))
        /\ WF_vars(Count(c) \/ Add(c) \/ ReadUser(c) \/ HasLiveSocket(c) \/ Save(c) \/ StartPumps(c))

Spec == Init /\ [][Next]_vars /\ Fairness

-----------------------------------------------------------------------------
Held(c) == pc[c] \notin {"new", "done", "zrem", "card", "del", "schedule", "grace"}

\* The hub's books: as many slots are taken as connections hold one, never more
\* than a user may have, and a buffer never holds more than it can.
TypeOK ==
    /\ slots = Cardinality({c \in Clients : Held(c)})
    /\ load.max # 0 => slots <= load.max
    /\ \A c \in Clients :
          /\ Len(send[c]) <= BufferSize
          /\ conns[c] \in {"none", "fresh", "stale"}
          /\ pump[c] \in {"off", "on", "dead"}
          /\ topics[c] \subseteq Rooms
          /\ topics[c] # {} => Held(c)
    /\ notices \in Nat
    /\ status \in {"online", "away", "offline"}

F == INSTANCE Feed WITH on <- [c \in Clients |-> Held(c)]

\* "Either way no missed event stays hidden": for every connection, hub and
\* pumps implement the feed, slow consumers and broken sockets included.
FeedSpec == F!Spec

\* When nothing is under way and no connection or key is about to lapse or to be
\* listed, the cached status is what the agent's settings and live sockets give,
\* after failed and ignored calls of the store as well, unless since the last
\* recomputation that nothing overtook one was overtaken or failed, an expiration
\* or the timer of a closed connection got lost, or a connection was listed
\* that nobody counted as the first (crossed).
PresenceAgrees ==
    (/\ ~crossed /\ load.presence
     /\ notices = 0
     /\ \A j \in Jobs : job[j].at = "none"
     /\ \A c \in Clients : pc[c] \in {"new", "open", "done"}
     /\ \A c \in Clients :
           IF At(c, "open") THEN conns[c] = "fresh"
           ELSE conns[c] = "none" \/ (conns[c] = "stale" /\ Fresh # {}))
    => status = Effective(user, Fresh # {})
=============================================================================
